------------------------------- MODULE EgfxFlow -------------------------------
(***************************************************************************)
(* Flow control of the graphics channel (src/src/egfx/shared.rs,           *)
(* rdpegfx.rs, factory.rs, output_queue.rs): the window of frames the      *)
(* client has not acknowledged and the slots of frames the RDP task has    *)
(* not yet written, shared as atomics by the capture thread, the callbacks *)
(* of the graphics server and the display's resize.                        *)
(*                                                                         *)
(* record_frame_queued and clear_frame_queue are split at the atomics that *)
(* another thread can come between; an acknowledgement is one step.  A     *)
(* graphics server (external, IronRDP) numbers its frames from 1; cutoff 0 *)
(* is "no cutoff".                                                         *)
(***************************************************************************)
EXTENDS Integers, Sequences, FiniteSets

CONSTANTS
  Window,       \* max_frames_in_flight
  OutputSlots,  \* MAX_QUEUED_OUTPUT_FRAMES
  Scenarios,    \* how the channel is used: [clearCodec, resizing, suspends], that
                \* is, ClearCodec frames (else AVC), DisplayControl resizes, and a
                \* client that may suspend acknowledgements; [clients, clears]
                \* bound the clients served in turn, and clears of the window
  MaxFrame      \* bound on the frames of a server

ASSUME FlowAssumption ==
  /\ Window \in Nat \ {0} /\ OutputSlots \in Nat \ {0}
  /\ MaxFrame \in Nat
  /\ Scenarios \subseteq [clearCodec : BOOLEAN, resizing : BOOLEAN, suspends : BOOLEAN,
                          clients : Nat \ {0}, clears : Nat]

Ids == 0..MaxFrame
Clearers == {"callback", "resize"}

VARIABLES
  scenario,     \* the member of Scenarios that is under way
  client,       \* the client served now; its server is EgfxShared.handle
  server,       \* [ready, next] of the graphics server of each client
  ready,        \* EgfxShared.ready
  inFlight,     \* frames_in_flight
  suspended,    \* frame_ack_suspended
  lastQueued,   \* last_queued_frame_id
  cutoff,       \* ack_cutoff_frame_id, 0 while inactive
  totalQueued, totalAcked,
  leases,       \* EgfxOutputQueue.pending
  events,       \* frames in the event channel: [client, id]
  unacked,      \* frames the client has received and not acknowledged
  capture,      \* the capture thread: [pc, client, id]
  clearing,     \* clear_frame_queue in progress, by caller: [pc, queued, ready]
  clears,       \* count of clears, bounded
  cleared,      \* history: the last frame id before the last clear
  excused       \* history: this client has suspended acknowledgements

ackVars == <<inFlight, suspended, lastQueued, cutoff, totalQueued, totalAcked>>
clearVars == <<clearing, clears, cleared>>
vars == <<scenario, client, server, ready, ackVars, leases, events, unacked, capture, clearVars, excused>>

Clients == 1..scenario.clients

Idle(c) == [pc |-> "idle", client |-> c, id |-> 0]
NoClear == [pc |-> "idle", queued |-> 0, ready |-> FALSE]

Init ==
  /\ scenario \in Scenarios
  /\ client = 1
  /\ server = [c \in Clients |-> [ready |-> FALSE, next |-> 1]]
  /\ ready = FALSE
  /\ inFlight = 0 /\ suspended = FALSE /\ lastQueued = 0 /\ cutoff = 0
  /\ totalQueued = 0 /\ totalAcked = 0
  /\ leases = 0 /\ events = <<>> /\ unacked = <<>>
  /\ capture = Idle(1)
  /\ clearing = [a \in Clearers |-> NoClear]
  /\ clears = 0 /\ cleared = 0 /\ excused = FALSE

(* send_clearcodec_damage holds the server's mutex from the readiness      *)
(* check to the accounting; callbacks of that server run under the mutex.  *)
Locked(c) == scenario.clearCodec /\ capture.pc # "idle" /\ capture.client = c
InCallback(c) == c = client /\ clearing["callback"].pc # "idle"

-----------------------------------------------------------------------------
(* The capture thread.                                                     *)

(* should_backpressure_frames *)
Backpressure == ~suspended /\ inFlight >= Window

(* frame_readiness, then try_reserve: the slot is taken before the frame   *)
(* is numbered.                                                            *)
CaptureReserve ==
  /\ capture.pc = "idle" /\ ready /\ ~Backpressure
  /\ server[capture.client].ready
  /\ leases < OutputSlots
  /\ server[capture.client].next <= MaxFrame
  /\ ~InCallback(capture.client)
  /\ leases' = leases + 1
  /\ capture' = [capture EXCEPT !.pc = "number"]
  /\ UNCHANGED <<scenario, client, server, ready, ackVars, events, unacked, clearVars, excused>>

(* queue_rdpegfx_frame: the server numbers the frame, or has gone away and *)
(* the lease is dropped.                                                   *)
CaptureNumber ==
  /\ capture.pc = "number" /\ ~InCallback(capture.client)
  /\ LET c == capture.client
     IN  IF server[c].ready
         THEN /\ capture' = [capture EXCEPT !.pc = "send", !.id = server[c].next]
              /\ server' = [server EXCEPT ![c].next = @ + 1]
              /\ UNCHANGED leases
         ELSE /\ capture' = Idle(c) /\ leases' = leases - 1
              /\ UNCHANGED server
  /\ UNCHANGED <<scenario, client, ready, ackVars, events, unacked, clearVars, excused>>

(* send_rdpegfx_dvc_messages: the lease travels with the messages.  The    *)
(* call fails once the RDP task is gone, and nothing is acknowledged any   *)
(* more; that is left out.                                                 *)
CaptureSend ==
  /\ capture.pc = "send"
  /\ events' = Append(events, [client |-> capture.client, id |-> capture.id])
  /\ capture' = [capture EXCEPT !.pc = "last"]
  /\ UNCHANGED <<scenario, client, server, ready, ackVars, leases, unacked, clearVars, excused>>

(* record_frame_queued, atomic by atomic.                                  *)
RecordLast ==
  /\ capture.pc = "last"
  /\ lastQueued' = capture.id
  /\ capture' = [capture EXCEPT !.pc = "count"]
  /\ UNCHANGED <<scenario, client, server, ready, inFlight, suspended, cutoff, totalQueued, totalAcked,
                 leases, events, unacked, clearVars, excused>>

RecordInFlight ==
  /\ capture.pc = "count"
  /\ inFlight' = inFlight + 1
  /\ capture' = [capture EXCEPT !.pc = "total"]
  /\ UNCHANGED <<scenario, client, server, ready, suspended, lastQueued, cutoff, totalQueued, totalAcked,
                 leases, events, unacked, clearVars, excused>>

RecordTotal ==
  /\ capture.pc = "total"
  /\ totalQueued' = totalQueued + 1
  /\ capture' = Idle(capture.client)
  /\ UNCHANGED <<scenario, client, server, ready, inFlight, suspended, lastQueued, cutoff, totalAcked,
                 leases, events, unacked, clearVars, excused>>

-----------------------------------------------------------------------------
(* The RDP task: writing frames, and the callbacks of the graphics server. *)

(* An event is written out, or dropped with the connection it was for;     *)
(* either way its lease ends.                                              *)
Deliver ==
  /\ events # <<>>
  /\ events' = Tail(events)
  /\ leases' = leases - 1
  /\ unacked' = IF Head(events).client = client THEN Append(unacked, Head(events).id)
                                               ELSE unacked
  /\ UNCHANGED <<scenario, client, server, ready, ackVars, capture, clearVars, excused>>

(* The decrement of record_frame_ack stops at zero.                        *)
ReleasedUnchecked == inFlight - 1
Released == IF inFlight > 0 THEN inFlight - 1 ELSE 0

(* An acknowledgement of a frame that a clear has written off.             *)
CountEveryAck(id) == FALSE
StaleAck(id) == id <= cutoff

FrameAck(suspend) ==
  /\ unacked # <<>> /\ ~Locked(client)
  /\ clearing["callback"].pc = "idle"
  /\ suspended' = suspend /\ excused' = (excused \/ suspend)
  /\ unacked' = Tail(unacked)
  /\ IF StaleAck(Head(unacked)) THEN UNCHANGED <<inFlight, totalAcked>>
     ELSE IF suspend THEN inFlight' = 0 /\ totalAcked' = totalQueued
     ELSE /\ inFlight' = Released
          /\ totalAcked' = IF inFlight > 0 THEN totalAcked + 1 ELSE totalAcked
  /\ UNCHANGED <<scenario, client, server, ready, lastQueued, cutoff, totalQueued, leases, events,
                 capture, clearVars>>

-----------------------------------------------------------------------------
(* clear_frame_queue, for on_ready and on_close (callbacks) and for        *)
(* prepare_for_resize, which has let go of the server's mutex by then.     *)

ClearBegin(a, opens) ==
  /\ clearing[a].pc = "idle" /\ clears < scenario.clears
  /\ clearing' = [clearing EXCEPT ![a] = [pc |-> "cut", queued |-> totalQueued,
                                          ready |-> opens]]
  /\ clears' = clears + 1
  /\ cleared' = server[client].next - 1

(* The client (re)negotiated capabilities; a new client's channel opens    *)
(* only after the display started its capture.                             *)
OnReady ==
  /\ ~Locked(client) /\ capture.client = client
  /\ ClearBegin("callback", TRUE)
  /\ server' = [server EXCEPT ![client].ready = TRUE]
  /\ UNCHANGED <<scenario, client, ready, ackVars, leases, events, unacked, capture, excused>>

OnClose ==
  /\ ready /\ server[client].ready /\ ~Locked(client)
  /\ ClearBegin("callback", FALSE)
  /\ ready' = FALSE
  /\ server' = [server EXCEPT ![client].ready = FALSE]
  /\ UNCHANGED <<scenario, client, ackVars, leases, events, unacked, capture, excused>>

PrepareForResize ==
  /\ scenario.resizing /\ server[client].ready /\ ~Locked(client)
  /\ ClearBegin("resize", ready)
  /\ UNCHANGED <<scenario, client, server, ready, ackVars, leases, events, unacked, capture, excused>>

(* if queued > acked: acknowledgements up to the last frame are stale.     *)
ClearCut(a) ==
  /\ clearing[a].pc = "cut"
  /\ IF clearing[a].queued > totalAcked
     THEN cutoff' = lastQueued /\ totalAcked' = clearing[a].queued
     ELSE UNCHANGED <<cutoff, totalAcked>>
  /\ clearing' = [clearing EXCEPT ![a].pc = "zero"]
  /\ UNCHANGED <<scenario, client, server, ready, inFlight, suspended, lastQueued, totalQueued, leases,
                 events, unacked, capture, clears, cleared, excused>>

ZeroKeepsWindow(a) == inFlight
ZeroedInFlight(a) == 0

ClearZero(a) ==
  /\ clearing[a].pc = "zero"
  /\ inFlight' = ZeroedInFlight(a) /\ suspended' = FALSE
  /\ ready' = IF a = "callback" THEN clearing[a].ready ELSE ready
  /\ clearing' = [clearing EXCEPT ![a] = NoClear]
  /\ UNCHANGED <<scenario, client, server, lastQueued, cutoff, totalQueued, totalAcked, leases, events,
                 unacked, capture, clears, cleared, excused>>

-----------------------------------------------------------------------------
(* The next client.                                                        *)

(* Output slots are kept "across capability and client resets".            *)
ResetFreesSlots == 0
LeasesOnReset == leases

(* build_server_with_handle: reset_for_new_client zeroes the accounting    *)
(* and keeps the output slots; the previous client's capture thread may    *)
(* still be in the middle of a frame.                                      *)
BuildServer ==
  /\ client < scenario.clients
  /\ \A a \in Clearers : clearing[a].pc = "idle"
  /\ client' = client + 1
  /\ ready' = FALSE
  /\ inFlight' = 0 /\ suspended' = FALSE /\ lastQueued' = 0 /\ cutoff' = 0
  /\ totalQueued' = 0 /\ totalAcked' = 0
  /\ leases' = LeasesOnReset
  /\ unacked' = <<>> /\ cleared' = 0 /\ excused' = FALSE
  /\ UNCHANGED <<scenario, server, events, capture, clearing, clears>>

(* start_capture_updates joins the old capture thread and starts one for   *)
(* the new client.                                                         *)
ReplaceCapture ==
  /\ capture.client # client /\ capture.pc = "idle"
  /\ capture' = Idle(client)
  /\ UNCHANGED <<scenario, client, server, ready, ackVars, leases, events, unacked, clearVars, excused>>

CaptureNext ==
  \/ CaptureReserve \/ CaptureNumber \/ CaptureSend
  \/ RecordLast \/ RecordInFlight \/ RecordTotal

SuspendChoices == IF scenario.suspends THEN BOOLEAN ELSE {FALSE}

Next ==
  \/ CaptureNext \/ Deliver
  \/ \E s \in SuspendChoices : FrameAck(s)
  \/ OnReady \/ OnClose \/ PrepareForResize
  \/ \E a \in Clearers : ClearCut(a) \/ ClearZero(a)
  \/ BuildServer \/ ReplaceCapture

Spec == Init /\ [][Next]_vars

(* The threads run, the RDP task writes what it is given, and the client   *)
(* acknowledges what it received; nothing makes a client renegotiate.      *)
FairSpec ==
  /\ Spec
  /\ WF_vars(CaptureNext) /\ WF_vars(Deliver)
  /\ SF_vars(\E s \in SuspendChoices : FrameAck(s))
  /\ \A a \in Clearers : WF_vars(ClearCut(a) \/ ClearZero(a))

-----------------------------------------------------------------------------
(* Properties.                                                             *)

(* Every variable has its type.                                            *)
TypeOK ==
  /\ scenario \in Scenarios
  /\ client \in Clients
  /\ server \in [Clients -> [ready : BOOLEAN, next : 1..(MaxFrame + 1)]]
  /\ ready \in BOOLEAN /\ suspended \in BOOLEAN
  /\ inFlight \in Nat /\ totalQueued \in Nat /\ totalAcked \in Nat /\ leases \in Nat
  /\ lastQueued \in Ids /\ cutoff \in Ids /\ cleared \in Ids
  /\ capture \in [pc : {"idle", "number", "send", "last", "count", "total"},
                  client : Clients, id : Ids]
  /\ clearing \in [Clearers -> [pc : {"idle", "cut", "zero"}, queued : Nat, ready : BOOLEAN]]
  /\ clears \in 0..scenario.clears /\ excused \in BOOLEAN
  /\ events \in Seq([client : Clients, id : Ids]) /\ unacked \in Seq(Ids)

(* Payloads waiting for the RDP task, over all clients and resets, never   *)
(* exceed the output slots: a stalled writer cannot make the unbounded     *)
(* event channel grow.                                                     *)
OutputBounded ==
  Len(events) + (IF capture.pc \in {"number", "send"} THEN 1 ELSE 0) <= OutputSlots

Quiet == capture.pc = "idle" /\ \A a \in Clearers : clearing[a].pc = "idle"

(* Frames of this client, later than the last clear, that were sent and    *)
(* not acknowledged.                                                       *)
Outstanding ==
  {i \in Ids : /\ i > cleared
               /\ \/ \E k \in DOMAIN events : events[k] = [client |-> client, id |-> i]
                  \/ \E k \in DOMAIN unacked : unacked[k] = i}

(* ClearCodec frames of one client that DisplayControl does not resize.    *)
(* The clear of a resize runs behind the mutex (rdpegfx.rs:246 to :262):   *)
(* process_clearcodec makes itself a new surface and may send and count a  *)
(* frame between the parts of the clear.  An AVC frame is counted outside  *)
(* the mutex, and a former client's capture thread may count a frame in    *)
(* the window of the next.                                                 *)
OneClient == scenario.clearCodec /\ ~scenario.resizing /\ scenario.clients = 1

(* In that case, and unless the client ever suspends acknowledgements, no  *)
(* more frames than Window are unacknowledged, however old and new         *)
(* acknowledgements mix after a renegotiation (should_backpressure_frames, *)
(* record_frame_ack, clear_frame_queue).                                   *)
WindowEnforced == OneClient /\ ~excused => Cardinality(Outstanding) <= Window

(* "an ACK callback cannot overtake the enqueue and be lost from the local *)
(* window" (rdpegfx.rs:203): a frame counts in the window only as long as  *)
(* it is not acknowledged.                                                 *)
AckReleasesSlot == Quiet => inFlight <= Cardinality(Outstanding)

(* In the same case a full window does not stay full under a client that   *)
(* acknowledges (should_backpressure_frames).                              *)
BackpressureEnds ==
  (OneClient /\ ready /\ Backpressure) ~> ~(ready /\ Backpressure)
===============================================================================
