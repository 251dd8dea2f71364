------------------------------ MODULE GraphicsProofs ------------------------------
(***************************************************************************)
(* TLAPS proofs about EgfxFlow, for any window, number of output slots,    *)
(* clients, clears and frames; and about VideoEncoder, for any interval of *)
(* IDR pictures, any number of identifiers and any width of the frame      *)
(* numbers that holds an interval.                                         *)
(***************************************************************************)
EXTENDS EgfxFlow, VideoEncoder, FiniteSetTheorems, TLAPS

-----------------------------------------------------------------------------
(* Flow control.                                                           *)

(* A slot is taken for each frame that waits for the RDP task and for the  *)
(* one that the capture thread is about to send, over all clients.         *)
Holding == IF capture.pc \in {"number", "send"} THEN 1 ELSE 0
LeasesExact == leases = Len(events) + Holding /\ leases <= OutputSlots

(* The bound on the frames was looked at before the slot was taken.        *)
NumberLeft == capture.pc = "number" => server[capture.client].next <= MaxFrame

FlowInv == TypeOK /\ LeasesExact /\ NumberLeft

CaptureRecord ==
  [pc : {"idle", "number", "send", "last", "count", "total"}, client : Clients, id : Ids]
ServerRecord == [ready : BOOLEAN, next : 1..(MaxFrame + 1)]
ClearRecord == [pc : {"idle", "cut", "zero"}, queued : Nat, ready : BOOLEAN]
EventRecord == [client : Clients, id : Ids]

LEMMA IdleTyped ==
  ASSUME FlowInv, NEW c \in Clients
  PROVE  Idle(c) \in CaptureRecord /\ Idle(c).pc = "idle"
<1>1. 0 \in Ids
  BY FlowAssumption DEF Ids
<1> QED
  BY <1>1 DEF Idle, CaptureRecord

LEMMA NoClearTyped == NoClear \in ClearRecord
<1>1. PICK no \in BOOLEAN : no = FALSE
  OBVIOUS
<1>2. NoClear = [pc |-> "idle", queued |-> 0, ready |-> no]
  BY <1>1 DEF NoClear
<1> QED
  BY <1>2 DEF ClearRecord

(* The capture thread's steps.                                             *)
LEMMA ReserveStep ==
  ASSUME FlowInv, CaptureReserve
  PROVE  FlowInv'
<1>1. /\ capture \in CaptureRecord /\ leases \in Nat /\ capture.pc = "idle" /\ leases < OutputSlots
      /\ server[capture.client].next <= MaxFrame
  BY DEF FlowInv, TypeOK, CaptureReserve, CaptureRecord
<1>2. /\ capture' = [capture EXCEPT !.pc = "number"] /\ leases' = leases + 1
      /\ UNCHANGED <<scenario, client, server, ready, ackVars, events, unacked, clearVars, excused>>
  BY DEF CaptureReserve
<1>3. capture' \in CaptureRecord /\ capture'.pc = "number" /\ capture'.client = capture.client
  BY <1>1, <1>2 DEF CaptureRecord
<1>4. leases' \in Nat
  BY <1>1, <1>2
<1>5. TypeOK'
  BY <1>2, <1>3, <1>4
  DEF FlowInv, TypeOK, CaptureRecord, Clients, Ids, Clearers, ackVars, clearVars
<1>6. LeasesExact'
  <2>1. Holding = 0 /\ Holding' = 1
    BY <1>1, <1>3 DEF Holding
  <2>2. leases = Len(events) + 0 /\ Len(events) \in Nat /\ OutputSlots \in Nat
    BY <2>1, FlowAssumption DEF FlowInv, LeasesExact, TypeOK
  <2> QED
    BY <1>1, <1>2, <2>1, <2>2 DEF LeasesExact
<1>7. NumberLeft'
  BY <1>1, <1>2, <1>3 DEF NumberLeft
<1> QED
  BY <1>5, <1>6, <1>7 DEF FlowInv

LEMMA NumberStep ==
  ASSUME FlowInv, CaptureNumber
  PROVE  FlowInv'
<1> DEFINE c == capture.client
<1>1. /\ capture \in CaptureRecord /\ leases \in Nat /\ capture.pc = "number"
      /\ server \in [Clients -> ServerRecord] /\ events \in Seq(EventRecord)
      /\ server[c].next <= MaxFrame
  BY DEF FlowInv, TypeOK, CaptureNumber, CaptureRecord, ServerRecord, EventRecord, NumberLeft
<1>2. c \in Clients /\ server[c] \in ServerRecord /\ server[c].next \in 1..MaxFrame
  <2>1. c \in Clients
    BY <1>1 DEF CaptureRecord
  <2>2. server[c] \in ServerRecord
    BY <1>1, <2>1
  <2>3. server[c].next \in 1..(MaxFrame + 1) /\ MaxFrame \in Nat
    BY <2>2, FlowAssumption DEF ServerRecord
  <2> QED
    BY <1>1, <2>1, <2>2, <2>3
<1>3. UNCHANGED <<scenario, client, ready, ackVars, events, unacked, clearVars, excused>>
  BY DEF CaptureNumber
<1>4. leases = Len(events) + 1 /\ Len(events) \in Nat /\ leases <= OutputSlots /\ OutputSlots \in Nat
  BY <1>1, FlowAssumption DEF FlowInv, LeasesExact, Holding
<1>5. CASE server[c].ready
  <2>1. PICK n \in Ids : n = server[c].next
    BY <1>2 DEF Ids
  <2>2. /\ capture' = [capture EXCEPT !.pc = "send", !.id = n] /\ leases' = leases
        /\ server' = [server EXCEPT ![c].next = n + 1]
    BY <1>5, <2>1 DEF CaptureNumber
  <2>3. capture' \in CaptureRecord /\ capture'.pc = "send"
    BY <1>1, <2>2 DEF CaptureRecord
  <2>4. server' \in [Clients -> ServerRecord]
    <3>1. n + 1 \in 1..(MaxFrame + 1)
      BY <1>2, <2>1, FlowAssumption
    <3>2. PICK r \in ServerRecord : r = [server[c] EXCEPT !.next = n + 1]
      BY <1>2, <3>1 DEF ServerRecord
    <3>3. server' = [server EXCEPT ![c] = r]
      BY <2>2, <3>2
    <3> QED
      BY <1>1, <3>3
  <2>5. TypeOK'
    BY <1>3, <2>2, <2>3, <2>4
    DEF FlowInv, TypeOK, CaptureRecord, ServerRecord, Clients, Ids, Clearers, ackVars, clearVars
  <2>6. LeasesExact'
    BY <1>3, <1>4, <2>2, <2>3 DEF LeasesExact, Holding
  <2>7. NumberLeft'
    BY <2>3 DEF NumberLeft
  <2> QED
    BY <2>5, <2>6, <2>7 DEF FlowInv
<1>6. CASE ~server[c].ready
  <2>1. capture' = Idle(c) /\ leases' = leases - 1 /\ server' = server
    BY <1>6 DEF CaptureNumber
  <2>2. capture' \in CaptureRecord /\ capture'.pc = "idle"
    BY <1>2, <2>1, IdleTyped
  <2>3. leases' \in Nat
    BY <1>1, <1>4, <2>1
  <2>4. TypeOK'
    BY <1>3, <2>1, <2>2, <2>3
    DEF FlowInv, TypeOK, CaptureRecord, Clients, Ids, Clearers, ackVars, clearVars
  <2>5. LeasesExact'
    BY <1>3, <1>4, <2>1, <2>2 DEF LeasesExact, Holding
  <2>6. NumberLeft'
    BY <2>2 DEF NumberLeft
  <2> QED
    BY <2>4, <2>5, <2>6 DEF FlowInv
<1> QED
  BY <1>5, <1>6

LEMMA SendStep ==
  ASSUME FlowInv, CaptureSend
  PROVE  FlowInv'
<1>1. /\ capture \in CaptureRecord /\ leases \in Nat /\ capture.pc = "send"
      /\ events \in Seq(EventRecord)
  BY DEF FlowInv, TypeOK, CaptureSend, CaptureRecord, EventRecord
<1>2. PICK r \in EventRecord : r = [client |-> capture.client, id |-> capture.id]
  BY <1>1 DEF CaptureRecord, EventRecord
<1>3. /\ events' = Append(events, r) /\ capture' = [capture EXCEPT !.pc = "last"]
      /\ UNCHANGED <<scenario, client, server, ready, ackVars, leases, unacked, clearVars, excused>>
  BY <1>2 DEF CaptureSend
<1>4. capture' \in CaptureRecord /\ capture'.pc = "last"
  BY <1>1, <1>3 DEF CaptureRecord
<1>5. events' \in Seq(EventRecord) /\ Len(events') = Len(events) + 1 /\ Len(events) \in Nat
  BY <1>1, <1>3
<1>6. TypeOK'
  BY <1>3, <1>4, <1>5
  DEF FlowInv, TypeOK, CaptureRecord, EventRecord, Clients, Ids, Clearers, ackVars, clearVars
<1>7. LeasesExact'
  <2>1. Holding = 1 /\ Holding' = 0
    BY <1>1, <1>4 DEF Holding
  <2> QED
    BY <1>3, <1>5, <2>1 DEF FlowInv, LeasesExact
<1>8. NumberLeft'
  BY <1>4 DEF NumberLeft
<1> QED
  BY <1>6, <1>7, <1>8 DEF FlowInv

(* record_frame_queued.                                                    *)
LEMMA RecordStep ==
  ASSUME FlowInv, RecordLast \/ RecordInFlight \/ RecordTotal
  PROVE  FlowInv'
<1>1. /\ capture \in CaptureRecord /\ inFlight \in Nat /\ totalQueued \in Nat
      /\ capture.pc \in {"last", "count", "total"}
  BY DEF FlowInv, TypeOK, CaptureRecord, RecordLast, RecordInFlight, RecordTotal
<1>2. capture.id \in Ids /\ capture.client \in Clients
  BY <1>1 DEF CaptureRecord
<1>3. UNCHANGED <<scenario, client, server, ready, suspended, cutoff, totalAcked, leases, events,
                  unacked, clearVars, excused>>
  BY DEF RecordLast, RecordInFlight, RecordTotal
<1>4. /\ lastQueued' \in {lastQueued, capture.id} /\ inFlight' \in {inFlight, inFlight + 1}
      /\ totalQueued' \in {totalQueued, totalQueued + 1}
  BY DEF RecordLast, RecordInFlight, RecordTotal
<1>5. capture' \in CaptureRecord /\ capture'.pc \in {"count", "total", "idle"}
  <2>1. CASE RecordLast
    <3>1. capture' = [capture EXCEPT !.pc = "count"]
      BY <2>1 DEF RecordLast
    <3> QED
      BY <1>1, <3>1 DEF CaptureRecord
  <2>2. CASE RecordInFlight
    <3>1. capture' = [capture EXCEPT !.pc = "total"]
      BY <2>2 DEF RecordInFlight
    <3> QED
      BY <1>1, <3>1 DEF CaptureRecord
  <2>3. CASE RecordTotal
    BY <1>2, <2>3, IdleTyped DEF RecordTotal
  <2> QED
    BY <2>1, <2>2, <2>3
<1>6. inFlight' \in Nat /\ totalQueued' \in Nat
  BY <1>1, <1>4
<1>7. lastQueued' \in Ids
  BY <1>2, <1>4 DEF FlowInv, TypeOK
<1>8. TypeOK'
  BY <1>3, <1>5, <1>6, <1>7 DEF FlowInv, TypeOK, CaptureRecord, Clients, Ids, Clearers, clearVars
<1>9. LeasesExact'
  BY <1>1, <1>3, <1>5 DEF FlowInv, LeasesExact, Holding
<1>10. NumberLeft'
  BY <1>5 DEF NumberLeft
<1> QED
  BY <1>8, <1>9, <1>10 DEF FlowInv

LEMMA DeliverStep ==
  ASSUME FlowInv, Deliver
  PROVE  FlowInv'
<1>1. /\ events \in Seq(EventRecord) /\ events # <<>> /\ unacked \in Seq(Ids) /\ leases \in Nat
      /\ leases = Len(events) + Holding /\ leases <= OutputSlots /\ OutputSlots \in Nat
  BY FlowAssumption DEF FlowInv, TypeOK, LeasesExact, Deliver, EventRecord
<1>2. /\ events' = Tail(events) /\ leases' = leases - 1
      /\ unacked' \in {unacked, Append(unacked, Head(events).id)}
      /\ UNCHANGED <<scenario, client, server, ready, ackVars, capture, clearVars, excused>>
  BY DEF Deliver
<1>3. Head(events) \in EventRecord /\ events' \in Seq(EventRecord) /\ Len(events') = Len(events) - 1
  BY <1>1, <1>2
<1>4. Head(events).id \in Ids
  BY <1>3 DEF EventRecord
<1>5. unacked' \in Seq(Ids)
  <2>1. PICK id \in Ids : id = Head(events).id
    BY <1>4
  <2>2. unacked' = unacked \/ unacked' = Append(unacked, id)
    BY <1>2, <2>1
  <2>3. unacked \in Seq(Ids)
    BY <1>1
  <2>4. Append(unacked, id) \in Seq(Ids)
    BY ONLY <2>3, id \in Ids
  <2> QED
    BY <2>2, <2>3, <2>4, Zenon
<1>6. Holding' = Holding /\ Holding \in Nat
  BY <1>2 DEF Holding
<1>7. Len(events) \in Nat \ {0}
  BY <1>1
<1>8. leases' \in Nat /\ LeasesExact'
  BY <1>1, <1>2, <1>3, <1>6, <1>7 DEF LeasesExact
<1>9. TypeOK'
  BY <1>2, <1>3, <1>5, <1>8
  DEF FlowInv, TypeOK, EventRecord, Clients, Ids, Clearers, ackVars, clearVars
<1>10. NumberLeft'
  BY <1>2 DEF FlowInv, NumberLeft
<1> QED
  BY <1>8, <1>9, <1>10 DEF FlowInv

LEMMA AckStep ==
  ASSUME FlowInv, NEW s \in SuspendChoices, FrameAck(s)
  PROVE  FlowInv'
<1>1. /\ unacked \in Seq(Ids) /\ unacked # <<>> /\ inFlight \in Nat /\ totalAcked \in Nat
      /\ totalQueued \in Nat /\ excused \in BOOLEAN
  BY DEF FlowInv, TypeOK, FrameAck
<1>2. s \in BOOLEAN
  BY DEF SuspendChoices
<1>3. /\ unacked' = Tail(unacked) /\ suspended' = s /\ excused' = (excused \/ s)
      /\ UNCHANGED <<scenario, client, server, ready, lastQueued, cutoff, totalQueued, leases, events,
                     capture, clearVars>>
  BY DEF FrameAck
<1>4. /\ inFlight' \in {inFlight, 0, Released}
      /\ totalAcked' \in {totalAcked, totalQueued, totalAcked + 1}
  BY DEF FrameAck
<1>5. inFlight' \in Nat /\ totalAcked' \in Nat
  BY <1>1, <1>4 DEF Released
<1>6. unacked' \in Seq(Ids)
  BY <1>1, <1>3
<1>7. excused' \in BOOLEAN /\ suspended' \in BOOLEAN
  BY <1>1, <1>2, <1>3, Zenon
<1>8. TypeOK'
  BY <1>3, <1>5, <1>6, <1>7 DEF FlowInv, TypeOK, Clients, Ids, Clearers, clearVars
<1>9. LeasesExact' /\ NumberLeft'
  BY <1>3 DEF FlowInv, LeasesExact, NumberLeft, Holding
<1> QED
  BY <1>8, <1>9 DEF FlowInv

(* on_ready, on_close and prepare_for_resize begin a clear.                *)
LEMMA BeginTyped ==
  ASSUME FlowInv, NEW a \in Clearers, NEW opens \in BOOLEAN, ClearBegin(a, opens)
  PROVE  /\ clearing' \in [Clearers -> ClearRecord] /\ clears' \in 0..scenario.clears
         /\ cleared' \in Ids
<1>1. /\ clearing \in [Clearers -> ClearRecord] /\ totalQueued \in Nat /\ clears \in 0..scenario.clears
      /\ server \in [Clients -> ServerRecord] /\ client \in Clients /\ scenario \in Scenarios
  BY DEF FlowInv, TypeOK, ClearRecord, ServerRecord
<1>2. PICK r \in ClearRecord : r = [pc |-> "cut", queued |-> totalQueued, ready |-> opens]
  BY <1>1 DEF ClearRecord
<1>3. clearing' = [clearing EXCEPT ![a] = r]
  BY <1>2 DEF ClearBegin
<1>4. clearing' \in [Clearers -> ClearRecord]
  BY <1>1, <1>3
<1>5. scenario.clears \in Nat
  BY <1>1, FlowAssumption
<1>6. clears' \in 0..scenario.clears
  BY <1>1, <1>5 DEF ClearBegin
<1>7. server[client].next \in 1..(MaxFrame + 1)
  <2>1. server[client] \in ServerRecord
    BY <1>1
  <2> QED
    BY <2>1 DEF ServerRecord
<1>8. cleared' \in Ids
  BY <1>7, FlowAssumption DEF ClearBegin, Ids
<1> QED
  BY <1>4, <1>6, <1>8

LEMMA BeginStep ==
  ASSUME FlowInv, OnReady \/ OnClose \/ PrepareForResize
  PROVE  FlowInv'
<1>1. /\ server \in [Clients -> ServerRecord] /\ client \in Clients /\ ready \in BOOLEAN
      /\ capture \in CaptureRecord
  BY DEF FlowInv, TypeOK, ServerRecord, CaptureRecord
<1>2. PICK yes \in BOOLEAN, no \in BOOLEAN : yes = TRUE /\ no = FALSE
  OBVIOUS
<1>3. \E a \in Clearers, opens \in BOOLEAN : ClearBegin(a, opens)
  <2>1. CASE OnReady
    BY <2>1, Zenon DEF OnReady, Clearers
  <2>2. CASE OnClose
    BY <2>2, Zenon DEF OnClose, Clearers
  <2>3. CASE PrepareForResize
    BY <1>1, <2>3, Zenon DEF PrepareForResize, Clearers
  <2> QED
    BY <2>1, <2>2, <2>3
<1>4. /\ clearing' \in [Clearers -> ClearRecord] /\ clears' \in 0..scenario.clears
      /\ cleared' \in Ids
  BY <1>3, BeginTyped
<1>5. UNCHANGED <<scenario, client, ackVars, leases, events, unacked, capture, excused>>
  BY DEF OnReady, OnClose, PrepareForResize
<1>6. ready' \in BOOLEAN
  <2>1. ready' = ready \/ ready' = no
    BY <1>2, Zenon DEF OnReady, OnClose, PrepareForResize
  <2> QED
    BY <1>1, <1>2, <2>1, Zenon
<1>7. \/ server' = server
      \/ \E b \in BOOLEAN : server' = [server EXCEPT ![client].ready = b]
  BY <1>2, Zenon DEF OnReady, OnClose, PrepareForResize
<1>8. /\ server' \in [Clients -> ServerRecord]
      /\ \A c \in Clients : server'[c].next = server[c].next
  <2>1. CASE server' = server
    BY <1>1, <2>1
  <2>2. ASSUME NEW b \in BOOLEAN, server' = [server EXCEPT ![client].ready = b]
        PROVE  /\ server' \in [Clients -> ServerRecord]
               /\ \A c \in Clients : server'[c].next = server[c].next
    <3>1. server[client] \in ServerRecord
      BY <1>1
    <3>2. PICK r : r = [server[client] EXCEPT !.ready = b]
      OBVIOUS
    <3>3. r \in ServerRecord /\ r.next = server[client].next
      BY <3>1, <3>2 DEF ServerRecord
    <3>4. server' = [server EXCEPT ![client] = r]
      BY <2>2, <3>2
    <3> QED
      BY <1>1, <3>3, <3>4
  <2> QED
    BY <1>7, <2>1, <2>2
<1>9. TypeOK'
  BY <1>4, <1>5, <1>6, <1>8
  DEF FlowInv, TypeOK, ServerRecord, ClearRecord, Clients, Ids, Clearers, ackVars
<1>10. LeasesExact'
  BY <1>5 DEF FlowInv, LeasesExact, Holding
<1>11. NumberLeft'
  <2>1. capture.client \in Clients
    BY <1>1 DEF CaptureRecord
  <2> QED
    BY <1>5, <1>8, <2>1 DEF FlowInv, NumberLeft
<1> QED
  BY <1>9, <1>10, <1>11 DEF FlowInv

LEMMA ClearStep ==
  ASSUME FlowInv, NEW a \in Clearers, ClearCut(a) \/ ClearZero(a)
  PROVE  FlowInv'
<1>1. /\ clearing \in [Clearers -> ClearRecord] /\ clearing[a] \in ClearRecord /\ ready \in BOOLEAN
      /\ inFlight \in Nat /\ totalAcked \in Nat /\ cutoff \in Ids /\ lastQueued \in Ids
      /\ suspended \in BOOLEAN
  BY DEF FlowInv, TypeOK, ClearRecord
<1>2. clearing[a].queued \in Nat /\ clearing[a].ready \in BOOLEAN
  BY <1>1 DEF ClearRecord
<1>3. UNCHANGED <<scenario, client, server, lastQueued, totalQueued, leases, events, unacked, capture,
                  clears, cleared, excused>>
  BY DEF ClearCut, ClearZero
<1>4. clearing' \in [Clearers -> ClearRecord]
  <2>1. PICK r \in ClearRecord : r = [clearing[a] EXCEPT !.pc = "zero"]
    BY <1>1 DEF ClearRecord
  <2>2. clearing' = [clearing EXCEPT ![a] = r] \/ clearing' = [clearing EXCEPT ![a] = NoClear]
    BY <2>1 DEF ClearCut, ClearZero
  <2> QED
    BY <1>1, <2>2, NoClearTyped
<1>5. /\ cutoff' \in {cutoff, lastQueued} /\ totalAcked' \in {totalAcked, clearing[a].queued}
      /\ inFlight' \in {inFlight, 0}
  BY DEF ClearCut, ClearZero, ZeroedInFlight
<1>6. cutoff' \in Ids /\ totalAcked' \in Nat /\ inFlight' \in Nat
  BY <1>1, <1>2, <1>5
<1>7. ready' \in BOOLEAN /\ suspended' \in BOOLEAN
  <2>1. CASE ClearCut(a)
    BY <1>1, <2>1, Zenon DEF ClearCut
  <2>2. CASE ClearZero(a)
    BY <1>1, <1>2, <2>2, Zenon DEF ClearZero
  <2> QED
    BY <2>1, <2>2
<1>8. TypeOK'
  BY <1>3, <1>4, <1>6, <1>7 DEF FlowInv, TypeOK, ClearRecord, Clients, Ids, Clearers
<1>9. LeasesExact' /\ NumberLeft'
  BY <1>3 DEF FlowInv, LeasesExact, NumberLeft, Holding
<1> QED
  BY <1>8, <1>9 DEF FlowInv

(* A new client's server keeps the slots (reset_for_new_client).           *)
LEMMA BuildStep ==
  ASSUME FlowInv, BuildServer
  PROVE  FlowInv'
<1>1. scenario \in Scenarios /\ client \in 1..scenario.clients
  BY DEF FlowInv, TypeOK, Clients
<1>2. scenario.clients \in Nat
  BY <1>1, FlowAssumption
<1>3. client' \in Clients
  BY <1>1, <1>2 DEF BuildServer, Clients
<1>4. UNCHANGED <<scenario, server, events, capture, clearing, clears>> /\ leases' = leases
  BY DEF BuildServer, LeasesOnReset
<1>5. PICK no \in BOOLEAN : no = FALSE
  OBVIOUS
<1>6. ready' = no /\ suspended' = no /\ excused' = no
  BY <1>5 DEF BuildServer
<1>7. 0 \in Ids
  BY FlowAssumption DEF Ids
<1>8. /\ inFlight' = 0 /\ lastQueued' = 0 /\ cutoff' = 0 /\ totalQueued' = 0 /\ totalAcked' = 0
      /\ unacked' = <<>> /\ cleared' = 0
  BY DEF BuildServer
<1>9. unacked' \in Seq(Ids)
  BY <1>8
<1>10. TypeOK'
  BY <1>3, <1>4, <1>6, <1>7, <1>8, <1>9 DEF FlowInv, TypeOK, Clients, Ids, Clearers
<1>11. LeasesExact' /\ NumberLeft'
  BY <1>4 DEF FlowInv, LeasesExact, NumberLeft, Holding
<1> QED
  BY <1>10, <1>11 DEF FlowInv

LEMMA ReplaceStep ==
  ASSUME FlowInv, ReplaceCapture
  PROVE  FlowInv'
<1>1. /\ client \in Clients /\ capture.pc = "idle" /\ capture' = Idle(client)
      /\ UNCHANGED <<scenario, client, server, ready, ackVars, leases, events, unacked, clearVars, excused>>
  BY DEF FlowInv, TypeOK, ReplaceCapture
<1>2. capture' \in CaptureRecord /\ capture'.pc = "idle"
  BY <1>1, IdleTyped
<1>3. TypeOK'
  BY <1>1, <1>2 DEF FlowInv, TypeOK, CaptureRecord, Clients, Ids, Clearers, ackVars, clearVars
<1>4. LeasesExact' /\ NumberLeft'
  BY <1>1, <1>2 DEF FlowInv, LeasesExact, NumberLeft, Holding
<1> QED
  BY <1>3, <1>4 DEF FlowInv

LEMMA FlowStart ==
  ASSUME Init
  PROVE  FlowInv
<1>1. scenario \in Scenarios
  BY DEF Init
<1>2. scenario.clients \in Nat \ {0} /\ scenario.clears \in Nat
  BY <1>1, FlowAssumption
<1>3. 1 \in Clients /\ 0 \in Ids /\ clears \in 0..scenario.clears
  BY <1>2, FlowAssumption DEF Clients, Ids, Init
<1>4. capture \in CaptureRecord /\ capture.pc = "idle"
  BY <1>3 DEF Init, Idle, CaptureRecord
<1>5. PICK no \in BOOLEAN : no = FALSE
  OBVIOUS
<1>6. server \in [Clients -> ServerRecord]
  <2>1. PICK r : r = [ready |-> no, next |-> 1]
    OBVIOUS
  <2>2. 1 \in 1..(MaxFrame + 1)
    BY FlowAssumption
  <2>3. r \in ServerRecord
    BY <2>1, <2>2 DEF ServerRecord
  <2>4. server = [c \in Clients |-> r]
    BY <1>5, <2>1 DEF Init
  <2> QED
    BY <2>3, <2>4
<1>7. clearing \in [Clearers -> ClearRecord]
  BY NoClearTyped DEF Init
<1>8. ready = no /\ suspended = no /\ excused = no
  BY <1>5 DEF Init
<1>9. /\ client = 1 /\ inFlight = 0 /\ lastQueued = 0 /\ cutoff = 0 /\ totalQueued = 0 /\ totalAcked = 0
      /\ leases = 0 /\ events = <<>> /\ unacked = <<>> /\ cleared = 0
  BY DEF Init
<1>10. events \in Seq(EventRecord) /\ unacked \in Seq(Ids)
  BY <1>9
<1>11. TypeOK
  BY <1>1, <1>3, <1>4, <1>6, <1>7, <1>8, <1>9, <1>10
  DEF TypeOK, CaptureRecord, ServerRecord, ClearRecord, EventRecord
<1>12. LeasesExact
  BY <1>4, <1>9, FlowAssumption DEF LeasesExact, Holding
<1>13. NumberLeft
  BY <1>4 DEF NumberLeft
<1> QED
  BY <1>11, <1>12, <1>13 DEF FlowInv

LEMMA FlowStep ==
  ASSUME FlowInv, [Next]_vars
  PROVE  FlowInv'
<1>1. CASE CaptureReserve
  BY <1>1, ReserveStep
<1>2. CASE CaptureNumber
  BY <1>2, NumberStep
<1>3. CASE CaptureSend
  BY <1>3, SendStep
<1>4. CASE RecordLast \/ RecordInFlight \/ RecordTotal
  BY <1>4, RecordStep
<1>5. CASE Deliver
  BY <1>5, DeliverStep
<1>6. ASSUME NEW s \in SuspendChoices, FrameAck(s)
      PROVE  FlowInv'
  BY <1>6, AckStep
<1>7. CASE OnReady \/ OnClose \/ PrepareForResize
  BY <1>7, BeginStep
<1>8. ASSUME NEW a \in Clearers, ClearCut(a) \/ ClearZero(a)
      PROVE  FlowInv'
  BY <1>8, ClearStep
<1>9. CASE BuildServer
  BY <1>9, BuildStep
<1>10. CASE ReplaceCapture
  BY <1>10, ReplaceStep
<1>11. CASE UNCHANGED vars
  BY <1>11 DEF vars, ackVars, clearVars, FlowInv, TypeOK, LeasesExact, NumberLeft, Holding, Clients, Ids,
               Clearers
<1> QED
  BY <1>1, <1>2, <1>3, <1>4, <1>5, <1>6, <1>7, <1>8, <1>9, <1>10, <1>11, Zenon DEF Next, CaptureNext

(* The state of the graphics channel keeps its types and every output slot *)
(* is held by exactly one frame: none leaks when the server goes away      *)
(* between try_reserve and queue_rdpegfx_frame, or a client is replaced.   *)
THEOREM FlowInvariant == Spec => []FlowInv
<1>1. Init => FlowInv
  BY FlowStart
<1>2. FlowInv /\ [Next]_vars => FlowInv'
  BY FlowStep
<1> QED
  BY <1>1, <1>2, PTL DEF Spec

(* Payloads waiting for the RDP task never exceed the output slots         *)
(* (output_queue.rs), over all clients, renegotiations and resizes: a      *)
(* stalled writer cannot make the unbounded event channel grow.            *)
THEOREM PayloadsBounded == Spec => []OutputBounded
<1>1. Spec => []FlowInv
  BY FlowInvariant
<1>2. FlowInv => OutputBounded
  BY DEF FlowInv, LeasesExact, Holding, OutputBounded
<1> QED
  BY <1>1, <1>2, PTL

-----------------------------------------------------------------------------
(* The window, in the case of OneClient.                                   *)

(* Where the capture thread is: with a frame that was numbered and not     *)
(* sent, sent and not counted in the window, let into the window and not   *)
(* counted, and counted in the window only.                                *)
Callback == clearing["callback"]
Clearing == Callback.pc # "idle"
Sending == IF capture.pc = "send" THEN 1 ELSE 0
Uncounted == IF capture.pc \in {"last", "count"} THEN 1 ELSE 0
Coming == IF capture.pc \in {"number", "send", "last", "count"} THEN 1 ELSE 0
Unrecorded == IF capture.pc = "total" THEN 1 ELSE 0

(* The last frame sent and the last one acknowledged; what lies between,   *)
(* later than the last clear.                                              *)
LastSent == server[1].next - 1 - Sending
LastAcked == LastSent - Len(events) - Len(unacked)
FramesOut == LastSent - (IF LastAcked > cleared THEN LastAcked ELSE cleared)

(* Frames are on their way in the order of their numbers, without a gap.   *)
InLine ==
  /\ client = 1 /\ capture.client = 1 /\ clearing["resize"].pc = "idle" /\ LastAcked >= 0
  /\ \A k \in 1..Len(unacked) : unacked[k] = LastAcked + k
  /\ \A k \in 1..Len(events) : events[k] = [client |-> 1, id |-> LastAcked + Len(unacked) + k]

(* No cutoff reaches beyond its clear, and during a clear no frame is made.*)
CutoffKnown ==
  /\ IF capture.pc \in {"send", "last"} THEN capture.id = server[1].next - 1
     ELSE lastQueued = server[1].next - 1
  /\ cutoff <= cleared /\ cleared <= LastSent
  /\ Clearing => capture.pc = "idle" /\ cleared = LastSent

(* What is counted in the window is on its way.                            *)
SlotsReleased == ~Clearing => inFlight + Uncounted <= FramesOut

(* Acknowledgements of frames from before the clear are known as stale, or *)
(* have all come.                                                          *)
StaleKnown == LastAcked >= cleared \/ cutoff = cleared

(* As long as no acknowledgement suspended the window: what is on its way  *)
(* is counted, and the totals differ by the window, at each stage of a     *)
(* clear as far as it has come.                                            *)
AllCounted ==
  ~excused =>
    /\ ~suspended /\ inFlight + Coming <= Window
    /\ Callback.pc = "idle" =>
         /\ totalQueued + Unrecorded = totalAcked + inFlight
         /\ FramesOut <= inFlight + Uncounted /\ StaleKnown
    /\ Callback.pc = "cut" =>
         /\ Callback.queued = totalQueued /\ totalQueued = totalAcked + inFlight
         /\ inFlight = 0 => StaleKnown
    /\ Callback.pc = "zero" => totalQueued = totalAcked /\ StaleKnown

WindowInv == InLine /\ CutoffKnown /\ SlotsReleased /\ AllCounted

LEMMA WindowTyped ==
  ASSUME FlowInv, InLine
  PROVE  /\ 1 \in Clients /\ server[1].next \in Nat /\ Len(events) \in Nat /\ Len(unacked) \in Nat
         /\ cleared \in Nat /\ cutoff \in Nat /\ lastQueued \in Nat /\ inFlight \in Nat
         /\ totalQueued \in Nat /\ totalAcked \in Nat /\ Window \in Nat
         /\ Sending \in Nat /\ Uncounted \in Nat /\ Coming \in Nat /\ Unrecorded \in Nat
         /\ LastSent \in Int /\ LastAcked \in Int /\ FramesOut \in Int
         /\ capture \in CaptureRecord /\ capture.client = 1 /\ client = 1
<1>1. /\ client = 1 /\ client \in Clients /\ server \in [Clients -> ServerRecord]
      /\ events \in Seq(EventRecord) /\ unacked \in Seq(Ids) /\ capture \in CaptureRecord
  BY DEF FlowInv, TypeOK, InLine, ServerRecord, EventRecord, CaptureRecord
<1>2. server[1] \in ServerRecord
  BY <1>1
<1>3. server[1].next \in Nat
  BY <1>2, FlowAssumption DEF ServerRecord
<1>4. Sending \in Nat /\ Uncounted \in Nat /\ Coming \in Nat /\ Unrecorded \in Nat
  BY DEF Sending, Uncounted, Coming, Unrecorded
<1>5. Len(events) \in Nat /\ Len(unacked) \in Nat
  BY <1>1
<1>6. cleared \in Nat /\ cutoff \in Nat /\ lastQueued \in Nat
  BY FlowAssumption DEF FlowInv, TypeOK, Ids
<1>7. LastSent \in Int
  BY <1>3, <1>4 DEF LastSent
<1>8. LastAcked \in Int
  BY <1>5, <1>7 DEF LastAcked
<1>9. FramesOut \in Int
  BY <1>6, <1>7, <1>8 DEF FramesOut
<1> QED
  BY <1>1, <1>3, <1>4, <1>5, <1>6, <1>7, <1>8, <1>9, FlowAssumption DEF FlowInv, TypeOK, InLine

(* The frames of the window are an interval of numbers.                    *)
LEMMA OutstandingCounted ==
  ASSUME FlowInv, InLine, CutoffKnown
  PROVE  Cardinality(Outstanding) = FramesOut
<1>1. /\ server[1].next \in Nat /\ Len(events) \in Nat /\ Len(unacked) \in Nat /\ cleared \in Nat
      /\ LastSent \in Int /\ LastAcked \in Int /\ Sending \in Nat
  BY WindowTyped
<1>2. server[1].next <= MaxFrame + 1 /\ MaxFrame \in Nat
  <2>1. server \in [Clients -> ServerRecord] /\ 1 \in Clients
    BY WindowTyped DEF FlowInv, TypeOK, ServerRecord
  <2>2. server[1] \in ServerRecord
    BY <2>1
  <2> QED
    BY <2>2, FlowAssumption DEF ServerRecord
<1>3. PICK from \in Nat : from = IF LastAcked > cleared THEN LastAcked ELSE cleared
  BY <1>1
<1>4. LastSent = LastAcked + Len(unacked) + Len(events) /\ LastSent <= MaxFrame /\ from <= LastSent
  <2>1. LastSent <= MaxFrame
    BY <1>1, <1>2 DEF LastSent
  <2>2. LastSent = LastAcked + Len(unacked) + Len(events)
    BY <1>1 DEF LastAcked
  <2>3. cleared <= LastSent
    BY DEF CutoffKnown
  <2> QED
    BY <1>1, <1>3, <2>1, <2>2, <2>3
<1>5. ASSUME NEW i \in Outstanding
      PROVE  i \in (from + 1)..LastSent
  <2>1. i \in Nat /\ i > cleared
    BY <1>2 DEF Outstanding, Ids
  <2>2. CASE \E k \in DOMAIN events : events[k] = [client |-> client, id |-> i]
    <3>1. PICK k \in DOMAIN events : events[k] = [client |-> client, id |-> i]
      BY <2>2
    <3>2. k \in 1..Len(events)
      BY <3>1 DEF FlowInv, TypeOK
    <3>3. events[k] = [client |-> 1, id |-> LastAcked + Len(unacked) + k]
      BY <3>2 DEF InLine
    <3>4. i = LastAcked + Len(unacked) + k
      BY <3>1, <3>3
    <3> QED
      BY <1>1, <1>3, <1>4, <2>1, <3>2, <3>4
  <2>3. CASE \E k \in DOMAIN unacked : unacked[k] = i
    <3>1. PICK k \in DOMAIN unacked : unacked[k] = i
      BY <2>3
    <3>2. k \in 1..Len(unacked)
      BY <3>1 DEF FlowInv, TypeOK
    <3>3. i = LastAcked + k
      BY <3>1, <3>2 DEF InLine
    <3> QED
      BY <1>1, <1>3, <1>4, <2>1, <3>2, <3>3
  <2> QED
    BY <2>2, <2>3 DEF Outstanding
<1>6. ASSUME NEW i \in (from + 1)..LastSent
      PROVE  i \in Outstanding
  <2>1. i \in Ids /\ i > cleared
    BY <1>1, <1>2, <1>3, <1>4 DEF Ids
  <2>2. CASE i <= LastAcked + Len(unacked)
    <3>1. PICK k \in 1..Len(unacked) : i = LastAcked + k
      <4>1. i - LastAcked \in 1..Len(unacked) /\ i = LastAcked + (i - LastAcked)
        BY <1>1, <1>3, <1>4, <2>2
      <4> QED
        BY <4>1
    <3>2. unacked[k] = i /\ k \in DOMAIN unacked
      BY <3>1 DEF InLine, FlowInv, TypeOK
    <3> QED
      BY <2>1, <3>2 DEF Outstanding
  <2>3. CASE i > LastAcked + Len(unacked)
    <3>1. PICK k \in 1..Len(events) : i = LastAcked + Len(unacked) + k
      <4>1. /\ i - LastAcked - Len(unacked) \in 1..Len(events)
            /\ i = LastAcked + Len(unacked) + (i - LastAcked - Len(unacked))
        BY <1>1, <1>3, <1>4, <2>3
      <4> QED
        BY <4>1
    <3>2. events[k] = [client |-> client, id |-> i] /\ k \in DOMAIN events
      BY <3>1 DEF InLine, FlowInv, TypeOK
    <3> QED
      BY <2>1, <3>2 DEF Outstanding
  <2> QED
    BY <1>1, <2>2, <2>3
<1>7. Outstanding = (from + 1)..LastSent
  BY <1>5, <1>6
<1>8. Cardinality((from + 1)..LastSent) =
        IF from + 1 > LastSent THEN 0 ELSE LastSent - (from + 1) + 1
  <2>1. from + 1 \in Int
    BY <1>3
  <2> QED
    BY <1>1, <2>1, FS_Interval
<1> QED
  BY <1>1, <1>3, <1>4, <1>7, <1>8 DEF FramesOut

(* What the property says follows.                                         *)
LEMMA WindowFollows ==
  ASSUME FlowInv, OneClient, WindowInv
  PROVE  WindowEnforced /\ AckReleasesSlot
<1>1. Cardinality(Outstanding) = FramesOut
  BY OutstandingCounted DEF WindowInv
<1>2. /\ inFlight \in Nat /\ Uncounted \in Nat /\ Coming \in Nat /\ Window \in Nat
      /\ FramesOut \in Int /\ LastSent \in Int /\ LastAcked \in Int /\ cleared \in Nat
      /\ Len(events) \in Nat /\ Len(unacked) \in Nat
  BY WindowTyped DEF WindowInv
<1>3. Uncounted <= Coming
  BY DEF Uncounted, Coming
<1>4. WindowEnforced
  <2>1. SUFFICES ASSUME ~excused
                 PROVE  FramesOut <= Window
    BY <1>1, <1>2 DEF WindowEnforced
  <2>2. CASE Clearing
    <3>1. cleared = LastSent
      BY <2>2 DEF WindowInv, CutoffKnown
    <3>2. FramesOut = 0
      BY <1>2, <3>1 DEF FramesOut, LastAcked
    <3> QED
      BY <1>2, <3>2
  <2>3. CASE ~Clearing
    <3>1. FramesOut <= inFlight + Uncounted /\ inFlight + Coming <= Window
      BY <2>1, <2>3 DEF WindowInv, AllCounted, Clearing
    <3> QED
      BY <1>2, <1>3, <3>1
  <2> QED
    BY <2>2, <2>3
<1>5. AckReleasesSlot
  <2>1. SUFFICES ASSUME Quiet
                 PROVE  inFlight <= FramesOut
    BY <1>1 DEF AckReleasesSlot
  <2>2. ~Clearing
    BY <2>1 DEF Quiet, Clearing, Callback, Clearers
  <2>3. inFlight + Uncounted <= FramesOut
    BY <2>2 DEF WindowInv, SlotsReleased
  <2> QED
    BY <1>2, <2>3
<1> QED
  BY <1>4, <1>5

(* The capture thread's steps.                                             *)
LEMMA WindowReserve ==
  ASSUME FlowInv, FlowInv', OneClient, WindowInv, CaptureReserve
  PROVE  WindowInv'
<1>1. /\ capture.pc = "idle" /\ capture' = [capture EXCEPT !.pc = "number"] /\ ~Backpressure
      /\ ~InCallback(capture.client)
      /\ UNCHANGED <<scenario, client, server, ready, ackVars, events, unacked, clearVars, excused>>
  BY DEF CaptureReserve
<1>2. /\ capture \in CaptureRecord /\ capture.client = 1 /\ client = 1 /\ inFlight \in Nat
      /\ Window \in Nat
  BY WindowTyped DEF WindowInv
<1>3. capture'.pc = "number" /\ capture'.client = 1
  BY <1>1, <1>2 DEF CaptureRecord
<1>4. ~Clearing
  BY <1>1, <1>2 DEF InCallback, Clearing, Callback
<1>5. UNCHANGED <<LastSent, LastAcked, FramesOut, Sending, Uncounted, Unrecorded, Callback>>
  BY <1>1, <1>3 DEF LastSent, LastAcked, FramesOut, Sending, Uncounted, Unrecorded, Callback, clearVars
<1>6. Coming = 0 /\ Coming' = 1
  BY <1>1, <1>3 DEF Coming
<1>7. InLine'
  BY <1>1, <1>3, <1>5 DEF WindowInv, InLine, clearVars
<1>8. CutoffKnown'
  BY <1>1, <1>3, <1>4, <1>5 DEF WindowInv, CutoffKnown, Clearing, ackVars, clearVars
<1>9. SlotsReleased'
  BY <1>1, <1>5 DEF WindowInv, SlotsReleased, Clearing, ackVars
<1>10. AllCounted'
  <2>1. ~excused => inFlight + 1 <= Window
    BY <1>1, <1>2 DEF Backpressure, WindowInv, AllCounted
  <2> QED
    BY <1>1, <1>4, <1>5, <1>6, <2>1 DEF WindowInv, AllCounted, StaleKnown, Clearing, ackVars, clearVars
<1> QED
  BY <1>7, <1>8, <1>9, <1>10 DEF WindowInv

LEMMA WindowNumber ==
  ASSUME FlowInv, FlowInv', OneClient, WindowInv, CaptureNumber
  PROVE  WindowInv'
<1>1. /\ capture.pc = "number"
      /\ UNCHANGED <<scenario, client, ready, ackVars, events, unacked, clearVars, excused>>
  BY DEF CaptureNumber
<1>2. /\ capture \in CaptureRecord /\ capture.client = 1 /\ client = 1 /\ inFlight \in Nat
      /\ Window \in Nat /\ 1 \in Clients /\ server[1].next \in Nat
  BY WindowTyped DEF WindowInv
<1>3. ~Clearing
  BY <1>1 DEF WindowInv, CutoffKnown
<1>4. /\ capture'.client = 1 /\ capture'.pc \in {"send", "idle"}
      /\ capture'.pc = "send" => capture'.id = server[1].next /\ server'[1].next = server[1].next + 1
      /\ capture'.pc = "idle" => server' = server
  <2>1. CASE server[1].ready
    <3>1. /\ capture' = [capture EXCEPT !.pc = "send", !.id = server[1].next]
          /\ server' = [server EXCEPT ![1].next = @ + 1]
      BY <1>2, <2>1 DEF CaptureNumber
    <3>2. capture'.pc = "send" /\ capture'.client = 1 /\ capture'.id = server[1].next
      BY <1>2, <3>1 DEF CaptureRecord
    <3>3. server \in [Clients -> ServerRecord]
      BY DEF FlowInv, TypeOK, ServerRecord
    <3>4. server[1] \in ServerRecord
      BY <1>2, <3>3
    <3>5. server'[1] = [server[1] EXCEPT !.next = server[1].next + 1]
      BY <1>2, <3>1, <3>3
    <3>6. server'[1].next = server[1].next + 1
      BY <3>4, <3>5 DEF ServerRecord
    <3> QED
      BY <3>2, <3>6
  <2>2. CASE ~server[1].ready
    <3>1. capture' = Idle(1) /\ server' = server
      BY <1>2, <2>2 DEF CaptureNumber
    <3> QED
      BY <3>1 DEF Idle
  <2> QED
    BY <2>1, <2>2
<1>5. LastSent' = LastSent
  BY <1>1, <1>2, <1>4 DEF LastSent, Sending
<1>6. UNCHANGED <<LastAcked, FramesOut, Callback>>
  BY <1>1, <1>5 DEF LastAcked, FramesOut, Callback, clearVars
<1>7. UNCHANGED <<Uncounted, Unrecorded>> /\ Coming = 1 /\ Coming' \in {0, 1}
  BY <1>1, <1>4 DEF Uncounted, Unrecorded, Coming
<1>8. InLine'
  BY <1>1, <1>4, <1>6 DEF WindowInv, InLine, clearVars
<1>9. CutoffKnown'
  <2>1. lastQueued = server[1].next - 1 /\ lastQueued' = lastQueued
    BY <1>1 DEF WindowInv, CutoffKnown, ackVars
  <2>2. IF capture'.pc \in {"send", "last"} THEN capture'.id = server'[1].next - 1
        ELSE lastQueued' = server'[1].next - 1
    BY <1>2, <1>4, <2>1
  <2>3. cutoff' <= cleared' /\ cleared' <= LastSent'
    BY <1>1, <1>5 DEF WindowInv, CutoffKnown, ackVars, clearVars
  <2> QED
    BY <1>3, <1>6, <2>2, <2>3 DEF CutoffKnown, Clearing
<1>10. SlotsReleased'
  BY <1>1, <1>6, <1>7 DEF WindowInv, SlotsReleased, Clearing, ackVars
<1>11. AllCounted'
  <2>1. ~excused => inFlight + Coming' <= Window
    BY <1>2, <1>7 DEF WindowInv, AllCounted
  <2> QED
    BY <1>1, <1>3, <1>6, <1>7, <2>1 DEF WindowInv, AllCounted, StaleKnown, Clearing, ackVars, clearVars
<1> QED
  BY <1>8, <1>9, <1>10, <1>11 DEF WindowInv

LEMMA WindowSend ==
  ASSUME FlowInv, FlowInv', OneClient, WindowInv, CaptureSend
  PROVE  WindowInv'
<1>1. /\ capture.pc = "send" /\ capture' = [capture EXCEPT !.pc = "last"]
      /\ events' = Append(events, [client |-> capture.client, id |-> capture.id])
      /\ UNCHANGED <<scenario, client, server, ready, ackVars, leases, unacked, clearVars, excused>>
  BY DEF CaptureSend
<1>2. /\ capture \in CaptureRecord /\ capture.client = 1 /\ client = 1 /\ inFlight \in Nat
      /\ server[1].next \in Nat /\ Len(events) \in Nat /\ Len(unacked) \in Nat /\ cleared \in Nat
      /\ LastSent \in Int /\ LastAcked \in Int
  BY WindowTyped DEF WindowInv
<1>3. /\ capture'.pc = "last" /\ capture'.client = 1 /\ capture'.id = capture.id
      /\ capture.id = server[1].next - 1
  BY <1>1, <1>2 DEF CaptureRecord, WindowInv, CutoffKnown
<1>4. ~Clearing
  BY <1>1 DEF WindowInv, CutoffKnown
<1>5. events \in Seq(EventRecord)
  BY DEF FlowInv, TypeOK, EventRecord
<1>6. Len(events') = Len(events) + 1
  BY <1>1, <1>5
<1>7. LastSent' = LastSent + 1 /\ LastSent = server[1].next - 2
  <2>1. Sending = 1 /\ Sending' = 0
    BY <1>1, <1>3 DEF Sending
  <2>2. LastSent = server[1].next - 1 - 1 /\ LastSent' = server[1].next - 1 - 0
    BY <1>1, <2>1 DEF LastSent
  <2> QED
    BY <1>2, <2>2
<1>8. LastAcked' = LastAcked
  <2>1. LastAcked = LastSent - Len(events) - Len(unacked)
    BY DEF LastAcked
  <2>2. LastAcked' = LastSent' - Len(events') - Len(unacked)
    BY <1>1 DEF LastAcked
  <2> QED
    BY <1>2, <1>6, <1>7, <2>1, <2>2
<1>9. FramesOut' = FramesOut + 1
  BY <1>1, <1>2, <1>7, <1>8 DEF FramesOut, clearVars
<1>10. UNCHANGED <<Coming, Unrecorded, Callback>> /\ Uncounted = 0 /\ Uncounted' = 1
  BY <1>1, <1>3 DEF Coming, Unrecorded, Callback, Uncounted, clearVars
<1>11. InLine'
  <2>1. LastAcked + Len(unacked) + (Len(events) + 1) = capture.id
    <3>1. LastAcked = LastSent - Len(events) - Len(unacked)
      BY DEF LastAcked
    <3>2. LastAcked + Len(unacked) + (Len(events) + 1) = LastSent + 1
      BY <1>2, <3>1
    <3>3. LastSent + 1 = server[1].next - 1
      BY <1>2, <1>7
    <3> QED
      BY <1>3, <3>2, <3>3
  <2>2. ASSUME NEW k \in 1..Len(events')
        PROVE  events'[k] = [client |-> 1, id |-> LastAcked + Len(unacked) + k]
    <3>1. CASE k = Len(events) + 1
      BY <1>1, <1>2, <1>5, <2>1, <3>1
    <3>2. CASE k # Len(events) + 1
      <4>1. k \in 1..Len(events)
        BY <1>2, <1>6, <2>2, <3>2
      <4>2. events'[k] = events[k]
        BY <1>1, <1>5, <4>1
      <4> QED
        BY <4>1, <4>2 DEF WindowInv, InLine
    <3> QED
      BY <3>1, <3>2
  <2> QED
    BY <1>1, <1>3, <1>8, <2>2 DEF WindowInv, InLine, clearVars
<1>12. CutoffKnown'
  <2>1. cutoff' <= cleared' /\ cleared' <= LastSent'
    BY <1>1, <1>2, <1>7 DEF WindowInv, CutoffKnown, ackVars, clearVars
  <2> QED
    BY <1>1, <1>3, <1>4, <1>10, <2>1 DEF CutoffKnown, Clearing
<1>13. /\ SlotsReleased'
       /\ ~excused => FramesOut' <= inFlight' + Uncounted'
  <2>1. FramesOut \in Int
    BY WindowTyped DEF WindowInv
  <2>2. inFlight + 0 <= FramesOut /\ inFlight' = inFlight
    BY <1>1, <1>4, <1>10 DEF WindowInv, SlotsReleased, ackVars
  <2>3. ~excused => FramesOut <= inFlight + 0
    BY <1>4, <1>10 DEF WindowInv, AllCounted, Clearing
  <2> QED
    BY <1>2, <1>9, <1>10, <2>1, <2>2, <2>3 DEF SlotsReleased
<1>14. AllCounted'
  BY <1>1, <1>4, <1>8, <1>10, <1>13
  DEF WindowInv, AllCounted, StaleKnown, Clearing, ackVars, clearVars
<1> QED
  BY <1>11, <1>12, <1>13, <1>14 DEF WindowInv

(* record_frame_queued, under the mutex.                                   *)
LEMMA WindowRecord ==
  ASSUME FlowInv, FlowInv', OneClient, WindowInv, RecordLast \/ RecordInFlight \/ RecordTotal
  PROVE  WindowInv'
<1>1. UNCHANGED <<scenario, client, server, ready, suspended, cutoff, totalAcked, leases, events,
                  unacked, clearVars, excused>>
  BY DEF RecordLast, RecordInFlight, RecordTotal
<1>2. /\ capture \in CaptureRecord /\ capture.client = 1 /\ inFlight \in Nat /\ Window \in Nat
      /\ totalQueued \in Nat /\ totalAcked \in Nat /\ server[1].next \in Nat /\ FramesOut \in Int
  BY WindowTyped DEF WindowInv
<1>3. /\ capture'.client = 1
      /\ \/ /\ capture.pc = "last" /\ capture'.pc = "count" /\ lastQueued' = capture.id
            /\ UNCHANGED <<inFlight, totalQueued>>
         \/ /\ capture.pc = "count" /\ capture'.pc = "total" /\ inFlight' = inFlight + 1
            /\ UNCHANGED <<lastQueued, totalQueued>>
         \/ /\ capture.pc = "total" /\ capture'.pc = "idle" /\ totalQueued' = totalQueued + 1
            /\ UNCHANGED <<lastQueued, inFlight>>
  <2>1. CASE RecordLast
    <3>1. capture' = [capture EXCEPT !.pc = "count"]
      BY <2>1 DEF RecordLast
    <3>2. capture'.pc = "count" /\ capture'.client = 1
      BY <1>2, <3>1 DEF CaptureRecord
    <3> QED
      BY <2>1, <3>2 DEF RecordLast
  <2>2. CASE RecordInFlight
    <3>1. capture' = [capture EXCEPT !.pc = "total"]
      BY <2>2 DEF RecordInFlight
    <3>2. capture'.pc = "total" /\ capture'.client = 1
      BY <1>2, <3>1 DEF CaptureRecord
    <3> QED
      BY <2>2, <3>2 DEF RecordInFlight
  <2>3. CASE RecordTotal
    <3>1. capture'.pc = "idle" /\ capture'.client = 1
      BY <1>2, <2>3 DEF RecordTotal, Idle
    <3> QED
      BY <2>3, <3>1 DEF RecordTotal
  <2> QED
    BY <2>1, <2>2, <2>3
<1>4. Sending = 0 /\ Sending' = 0
  BY <1>3 DEF Sending
<1>5. UNCHANGED <<LastSent, LastAcked, FramesOut, Callback>>
  BY <1>1, <1>4 DEF LastSent, LastAcked, FramesOut, Callback, clearVars
<1>6. ~Clearing
  BY <1>3 DEF WindowInv, CutoffKnown
<1>7. /\ inFlight' + Uncounted' = inFlight + Uncounted /\ inFlight' + Coming' = inFlight + Coming
      /\ totalQueued' + Unrecorded' + inFlight = totalQueued + Unrecorded + inFlight'
      /\ inFlight' \in Nat /\ totalQueued' + Unrecorded' \in Nat
  BY <1>2, <1>3 DEF Uncounted, Coming, Unrecorded
<1>8. InLine'
  BY <1>1, <1>3, <1>5 DEF WindowInv, InLine, clearVars
<1>9. CutoffKnown'
  <2>1. lastQueued' = server[1].next - 1
    BY <1>3 DEF WindowInv, CutoffKnown
  <2>2. capture'.pc \notin {"send", "last"}
    BY <1>3
  <2>3. cutoff' <= cleared' /\ cleared' <= LastSent'
    BY <1>1, <1>5 DEF WindowInv, CutoffKnown, clearVars
  <2> QED
    BY <1>1, <1>5, <1>6, <2>1, <2>2, <2>3 DEF CutoffKnown, Clearing
<1>10. SlotsReleased'
  BY <1>5, <1>6, <1>7 DEF WindowInv, SlotsReleased, Clearing
<1>11. AllCounted'
  <2>1. ASSUME ~excused
        PROVE  /\ ~suspended /\ inFlight' + Coming' <= Window
               /\ totalQueued' + Unrecorded' = totalAcked + inFlight'
               /\ FramesOut <= inFlight' + Uncounted' /\ StaleKnown
    <3>1. /\ ~suspended /\ inFlight + Coming <= Window
          /\ totalQueued + Unrecorded = totalAcked + inFlight
          /\ FramesOut <= inFlight + Uncounted /\ StaleKnown
      BY <1>6, <2>1 DEF WindowInv, AllCounted, Clearing
    <3>2. inFlight' + Coming' <= Window /\ FramesOut <= inFlight' + Uncounted'
      BY <1>7, <3>1
    <3>3. totalQueued' + Unrecorded' + inFlight = totalAcked + inFlight + inFlight'
      BY <1>7, <3>1
    <3>4. totalQueued' + Unrecorded' = totalAcked + inFlight'
      BY <1>2, <1>7, <3>3
    <3> QED
      BY <3>1, <3>2, <3>4
  <2> QED
    BY <1>1, <1>5, <1>6, <2>1 DEF AllCounted, StaleKnown, Clearing, clearVars
<1> QED
  BY <1>8, <1>9, <1>10, <1>11 DEF WindowInv

LEMMA WindowDeliver ==
  ASSUME FlowInv, FlowInv', OneClient, WindowInv, Deliver
  PROVE  WindowInv'
<1>1. /\ events # <<>> /\ events' = Tail(events)
      /\ unacked' = IF Head(events).client = client THEN Append(unacked, Head(events).id) ELSE unacked
      /\ UNCHANGED <<scenario, client, server, ready, ackVars, capture, clearVars, excused>>
  BY DEF Deliver
<1>2. /\ client = 1 /\ Len(events) \in Nat /\ Len(unacked) \in Nat /\ LastSent \in Int
      /\ LastAcked \in Int
  BY WindowTyped DEF WindowInv
<1>3. events \in Seq(EventRecord) /\ unacked \in Seq(Ids)
  BY DEF FlowInv, TypeOK, EventRecord
<1>4. /\ Len(events) > 0 /\ Len(events') = Len(events) - 1
      /\ \A k \in 1..Len(events') : events'[k] = events[k + 1]
  BY <1>1, <1>3
<1>5. events[1] = [client |-> 1, id |-> LastAcked + Len(unacked) + 1]
  <2>1. 1 \in 1..Len(events)
    BY <1>2, <1>4
  <2> QED
    BY <2>1 DEF WindowInv, InLine
<1>6. Head(events).client = 1 /\ Head(events).id = LastAcked + Len(unacked) + 1
  <2>1. Head(events) = events[1]
    BY <1>1, <1>3
  <2> QED
    BY <1>5, <2>1
<1>7. unacked' = Append(unacked, LastAcked + Len(unacked) + 1)
  BY <1>1, <1>2, <1>6
<1>8. /\ Len(unacked') = Len(unacked) + 1 /\ unacked'[Len(unacked) + 1] = LastAcked + Len(unacked) + 1
      /\ \A k \in 1..Len(unacked) : unacked'[k] = unacked[k]
  BY <1>3, <1>7
<1>9. UNCHANGED <<Sending, Uncounted, Coming, Unrecorded, Callback>>
  BY <1>1 DEF Sending, Uncounted, Coming, Unrecorded, Callback, clearVars
<1>10. LastSent' = LastSent
  BY <1>1, <1>9 DEF LastSent
<1>11. LastAcked' = LastAcked
  <2>1. LastAcked = LastSent - Len(events) - Len(unacked)
    BY DEF LastAcked
  <2>2. LastAcked' = LastSent - Len(events') - Len(unacked')
    BY <1>10 DEF LastAcked
  <2> QED
    BY <1>2, <1>4, <1>8, <2>1, <2>2
<1>12. FramesOut' = FramesOut
  BY <1>1, <1>10, <1>11 DEF FramesOut, clearVars
<1>13. InLine'
  <2>1. ASSUME NEW k \in 1..Len(unacked')
        PROVE  unacked'[k] = LastAcked + k
    <3>1. CASE k \in 1..Len(unacked)
      BY <1>8, <3>1 DEF WindowInv, InLine
    <3>2. CASE k = Len(unacked) + 1
      BY <1>2, <1>8, <3>2
    <3> QED
      BY <1>2, <1>8, <2>1, <3>1, <3>2
  <2>2. ASSUME NEW k \in 1..Len(events')
        PROVE  events'[k] = [client |-> 1, id |-> LastAcked + Len(unacked') + k]
    <3>1. k + 1 \in 1..Len(events) /\ events'[k] = events[k + 1]
      BY <1>2, <1>4
    <3>2. events[k + 1] = [client |-> 1, id |-> LastAcked + Len(unacked) + (k + 1)]
      BY <3>1 DEF WindowInv, InLine
    <3>3. LastAcked + Len(unacked) + (k + 1) = LastAcked + Len(unacked') + k
      BY <1>2, <1>8
    <3> QED
      BY <3>1, <3>2, <3>3
  <2> QED
    BY <1>1, <1>11, <2>1, <2>2 DEF WindowInv, InLine, clearVars
<1>14. CutoffKnown'
  BY <1>1, <1>9, <1>10 DEF WindowInv, CutoffKnown, Clearing, ackVars, clearVars
<1>15. SlotsReleased'
  BY <1>1, <1>9, <1>12 DEF WindowInv, SlotsReleased, Clearing, ackVars
<1>16. AllCounted'
  BY <1>1, <1>9, <1>11, <1>12 DEF WindowInv, AllCounted, StaleKnown, ackVars, clearVars
<1> QED
  BY <1>13, <1>14, <1>15, <1>16 DEF WindowInv

(* An acknowledgement is of the oldest frame: a stale one leaves the       *)
(* frames of the window alone, another one takes its own slot.             *)
LEMMA WindowAck ==
  ASSUME FlowInv, FlowInv', OneClient, WindowInv, NEW s \in SuspendChoices, FrameAck(s)
  PROVE  WindowInv'
<1>1. /\ unacked # <<>> /\ unacked' = Tail(unacked) /\ ~Locked(client) /\ Callback.pc = "idle"
      /\ suspended' = s /\ excused' = (excused \/ s)
      /\ UNCHANGED <<scenario, client, server, ready, lastQueued, cutoff, totalQueued, leases, events,
                     capture, clearVars>>
  BY DEF FrameAck, Callback
<1>2. /\ client = 1 /\ capture.client = 1 /\ Len(events) \in Nat /\ Len(unacked) \in Nat
      /\ LastSent \in Int /\ LastAcked \in Int /\ cleared \in Nat /\ cutoff \in Nat /\ inFlight \in Nat
      /\ totalQueued \in Nat /\ totalAcked \in Nat /\ FramesOut \in Int /\ Window \in Nat
  BY WindowTyped DEF WindowInv
<1>3. capture.pc = "idle"
  BY <1>1, <1>2 DEF Locked, OneClient
<1>4. /\ Sending = 0 /\ Uncounted = 0 /\ Coming = 0 /\ Unrecorded = 0
      /\ UNCHANGED <<Sending, Uncounted, Coming, Unrecorded, Callback>>
  BY <1>1, <1>3 DEF Sending, Uncounted, Coming, Unrecorded, Callback, clearVars
<1>5. unacked \in Seq(Ids)
  BY DEF FlowInv, TypeOK
<1>6. /\ Len(unacked) > 0 /\ Len(unacked') = Len(unacked) - 1 /\ Head(unacked) = unacked[1]
      /\ \A k \in 1..Len(unacked') : unacked'[k] = unacked[k + 1]
  BY <1>1, <1>5
<1>7. Head(unacked) = LastAcked + 1
  <2>1. 1 \in 1..Len(unacked)
    BY <1>2, <1>6
  <2> QED
    BY <1>6, <2>1 DEF WindowInv, InLine
<1>8. LastSent' = LastSent
  BY <1>1, <1>4 DEF LastSent
<1>9. LastAcked' = LastAcked + 1 /\ LastAcked + 1 <= LastSent
  <2>1. LastAcked = LastSent - Len(events) - Len(unacked)
    BY DEF LastAcked
  <2>2. LastAcked' = LastSent - Len(events) - Len(unacked')
    BY <1>1, <1>8 DEF LastAcked
  <2> QED
    BY <1>2, <1>6, <2>1, <2>2
<1>10. cleared <= LastSent /\ cutoff <= cleared /\ cleared' = cleared /\ cutoff' = cutoff
  BY <1>1 DEF WindowInv, CutoffKnown, clearVars
<1>11. /\ FramesOut = LastSent - (IF LastAcked > cleared THEN LastAcked ELSE cleared)
       /\ FramesOut' = LastSent - (IF LastAcked + 1 > cleared THEN LastAcked + 1 ELSE cleared)
  BY <1>8, <1>9, <1>10 DEF FramesOut
<1>12. /\ FramesOut' \in Nat /\ FramesOut' >= FramesOut - 1
       /\ LastAcked + 1 <= cleared => FramesOut' = FramesOut
       /\ LastAcked + 1 > cleared => FramesOut' = FramesOut - 1
  BY <1>2, <1>9, <1>10, <1>11
<1>13. inFlight <= FramesOut
  BY <1>1, <1>2, <1>4 DEF WindowInv, SlotsReleased, Clearing
<1>14. /\ LastAcked + 1 <= cutoff => UNCHANGED <<inFlight, totalAcked>>
       /\ ~(LastAcked + 1 <= cutoff) /\ s => inFlight' = 0
       /\ ~(LastAcked + 1 <= cutoff) /\ ~s =>
            /\ inFlight' = Released
            /\ totalAcked' = IF inFlight > 0 THEN totalAcked + 1 ELSE totalAcked
  BY <1>7 DEF FrameAck, StaleAck
<1>15. inFlight' \in Nat /\ inFlight' <= FramesOut'
  <2>1. CASE LastAcked + 1 <= cutoff
    BY <1>2, <1>10, <1>12, <1>13, <1>14, <2>1
  <2>2. CASE ~(LastAcked + 1 <= cutoff)
    <3>1. CASE s
      BY <1>12, <1>14, <2>2, <3>1
    <3>2. CASE ~s
      <4>1. inFlight' = IF inFlight > 0 THEN inFlight - 1 ELSE 0
        BY <1>14, <2>2, <3>2 DEF Released
      <4> QED
        BY <1>2, <1>12, <1>13, <4>1
    <3> QED
      BY <3>1, <3>2
  <2> QED
    BY <2>1, <2>2
<1>16. InLine'
  <2>1. ASSUME NEW k \in 1..Len(unacked')
        PROVE  unacked'[k] = LastAcked' + k
    <3>1. k + 1 \in 1..Len(unacked) /\ unacked'[k] = unacked[k + 1]
      BY <1>2, <1>6
    <3>2. unacked[k + 1] = LastAcked + (k + 1)
      BY <3>1 DEF WindowInv, InLine
    <3> QED
      BY <1>2, <1>9, <3>1, <3>2
  <2>2. ASSUME NEW k \in 1..Len(events)
        PROVE  events[k] = [client |-> 1, id |-> LastAcked' + Len(unacked') + k]
    <3>1. LastAcked' + Len(unacked') + k = LastAcked + Len(unacked) + k
      BY <1>2, <1>6, <1>9
    <3> QED
      BY <3>1 DEF WindowInv, InLine
  <2>3. LastAcked' >= 0
    BY <1>2, <1>9 DEF WindowInv, InLine
  <2> QED
    BY <1>1, <2>1, <2>2, <2>3 DEF WindowInv, InLine, clearVars
<1>17. CutoffKnown'
  BY <1>1, <1>4, <1>8 DEF WindowInv, CutoffKnown, Clearing, clearVars
<1>18. SlotsReleased'
  BY <1>4, <1>15 DEF SlotsReleased
<1>19. AllCounted'
  <2>1. ASSUME ~excused, ~s
        PROVE  /\ inFlight' <= Window /\ totalQueued = totalAcked' + inFlight'
               /\ FramesOut' <= inFlight' /\ (LastAcked + 1 >= cleared \/ cutoff = cleared)
    <3>1. /\ inFlight <= Window /\ totalQueued = totalAcked + inFlight /\ FramesOut <= inFlight
          /\ StaleKnown
      BY <1>1, <1>2, <1>4, <2>1 DEF WindowInv, AllCounted
    <3>2. LastAcked + 1 >= cleared \/ cutoff = cleared
      BY <1>2, <3>1 DEF StaleKnown
    <3>3. CASE LastAcked + 1 <= cutoff
      BY <1>2, <1>10, <1>12, <1>14, <3>1, <3>2, <3>3
    <3>4. CASE ~(LastAcked + 1 <= cutoff)
      <4>1. LastAcked + 1 > cleared
        BY <1>2, <1>10, <3>1, <3>4 DEF StaleKnown
      <4>2. FramesOut' = FramesOut - 1 /\ inFlight > 0
        BY <1>2, <1>12, <1>13, <3>1, <4>1
      <4>3. inFlight' = inFlight - 1 /\ totalAcked' = totalAcked + 1
        BY <1>14, <2>1, <3>4, <4>2 DEF Released
      <4> QED
        BY <1>2, <3>1, <3>2, <4>2, <4>3
    <3> QED
      BY <3>3, <3>4
  <2>2. SUFFICES ASSUME ~excused'
                 PROVE  /\ ~suspended' /\ inFlight' + 0 <= Window
                        /\ totalQueued' + 0 = totalAcked' + inFlight'
                        /\ FramesOut' <= inFlight' + 0 /\ StaleKnown'
    BY <1>1, <1>4 DEF AllCounted
  <2>3. ~excused /\ ~s /\ ~suspended'
    BY <1>1, <2>2
  <2>4. StaleKnown'
    BY <1>9, <1>10, <2>1, <2>3 DEF StaleKnown
  <2>5. totalQueued' + 0 = totalAcked' + inFlight'
    BY <1>1, <1>2, <2>1, <2>3
  <2>6. inFlight' + 0 <= Window /\ FramesOut' <= inFlight' + 0
    BY <1>15, <2>1, <2>3
  <2> QED
    BY <2>3, <2>4, <2>5, <2>6
<1> QED
  BY <1>16, <1>17, <1>18, <1>19 DEF WindowInv

(* The clear of on_ready and on_close, in its three parts.                 *)
LEMMA WindowBegin ==
  ASSUME FlowInv, FlowInv', OneClient, WindowInv, OnReady \/ OnClose \/ PrepareForResize
  PROVE  WindowInv'
<1>1. /\ OnReady \/ OnClose
      /\ UNCHANGED <<scenario, client, ackVars, leases, events, unacked, capture, excused>>
  BY DEF OnReady, OnClose, PrepareForResize, OneClient
<1>2. \E opens \in BOOLEAN : ClearBegin("callback", opens)
  <2>1. CASE OnReady
    BY <2>1, Zenon DEF OnReady
  <2>2. CASE OnClose
    BY <2>2, Zenon DEF OnClose
  <2> QED
    BY <1>1, <2>1, <2>2
<1>3. PICK opens \in BOOLEAN : ClearBegin("callback", opens)
  BY <1>2
<1>4. /\ client = 1 /\ capture.client = 1 /\ 1 \in Clients /\ server[1].next \in Nat /\ cleared \in Nat
      /\ cutoff \in Nat /\ LastSent \in Int /\ LastAcked \in Int /\ inFlight \in Nat
      /\ totalQueued \in Nat /\ totalAcked \in Nat /\ Len(events) \in Nat /\ Len(unacked) \in Nat
  BY WindowTyped DEF WindowInv
<1>5. ~Locked(client)
  BY <1>1 DEF OnReady, OnClose
<1>6. capture.pc = "idle"
  BY <1>4, <1>5 DEF Locked, OneClient
<1>7. /\ Sending = 0 /\ Uncounted = 0 /\ Coming = 0 /\ Unrecorded = 0
      /\ UNCHANGED <<Sending, Uncounted, Coming, Unrecorded>>
  BY <1>1, <1>6 DEF Sending, Uncounted, Coming, Unrecorded
<1>8. /\ Callback.pc = "idle" /\ cleared' = server[1].next - 1
      /\ clearing' = [clearing EXCEPT !["callback"] = [pc |-> "cut", queued |-> totalQueued,
                                                       ready |-> opens]]
  BY <1>3, <1>4 DEF ClearBegin, Callback
<1>9. clearing \in [Clearers -> ClearRecord] /\ server \in [Clients -> ServerRecord]
  BY DEF FlowInv, TypeOK, ClearRecord, ServerRecord
<1>10. /\ Callback'.pc = "cut" /\ Callback'.queued = totalQueued
       /\ clearing'["resize"] = clearing["resize"]
  BY <1>8, <1>9 DEF Callback, Clearers
<1>11. server'[1].next = server[1].next
  <2>1. CASE OnReady
    BY <1>4, <1>9, <2>1 DEF OnReady, ServerRecord
  <2>2. CASE OnClose
    BY <1>4, <1>9, <2>2 DEF OnClose, ServerRecord
  <2> QED
    BY <1>1, <2>1, <2>2
<1>12. LastSent' = LastSent /\ LastSent = server[1].next - 1
  BY <1>4, <1>7, <1>11 DEF LastSent
<1>13. LastAcked' = LastAcked
  BY <1>1, <1>12 DEF LastAcked
<1>14. InLine'
  BY <1>1, <1>10, <1>13 DEF WindowInv, InLine
<1>15. cutoff <= cleared /\ cleared <= LastSent /\ lastQueued = server[1].next - 1
  BY <1>6 DEF WindowInv, CutoffKnown
<1>16. CutoffKnown'
  <2>1. cutoff' <= cleared' /\ cleared' = LastSent'
    BY <1>1, <1>4, <1>8, <1>12, <1>15 DEF ackVars
  <2>2. lastQueued' = server'[1].next - 1 /\ capture'.pc = "idle"
    BY <1>1, <1>6, <1>11, <1>15 DEF ackVars
  <2>3. cleared' <= LastSent'
    BY <1>4, <1>12, <2>1
  <2> QED
    BY <2>1, <2>2, <2>3 DEF CutoffKnown
<1>17. SlotsReleased'
  BY <1>10 DEF SlotsReleased, Clearing
<1>18. AllCounted'
  <2>1. ASSUME ~excused
        PROVE  /\ ~suspended /\ inFlight + Coming <= Window /\ totalQueued = totalAcked + inFlight
               /\ inFlight = 0 => LastAcked >= cleared' \/ cutoff = cleared'
    <3>1. /\ ~suspended /\ inFlight + Coming <= Window /\ totalQueued + 0 = totalAcked + inFlight
          /\ FramesOut <= inFlight + 0 /\ StaleKnown
      BY <1>7, <1>8, <2>1 DEF WindowInv, AllCounted
    <3>2. FramesOut = LastSent - (IF LastAcked > cleared THEN LastAcked ELSE cleared)
      BY DEF FramesOut
    <3>3. cleared' = LastSent
      BY <1>8, <1>12
    <3>4. inFlight = 0 => LastAcked >= LastSent \/ cleared = LastSent
      BY <1>4, <1>15, <3>1, <3>2
    <3>5. inFlight = 0 => LastAcked >= cleared' \/ cutoff = cleared'
      BY <1>4, <3>1, <3>3, <3>4 DEF StaleKnown
    <3>6. totalQueued = totalAcked + inFlight
      BY <1>4, <3>1
    <3> QED
      BY <3>1, <3>5, <3>6
  <2> QED
    BY <1>1, <1>7, <1>10, <1>13, <2>1 DEF AllCounted, StaleKnown, ackVars
<1> QED
  BY <1>14, <1>16, <1>17, <1>18 DEF WindowInv

LEMMA WindowCut ==
  ASSUME FlowInv, FlowInv', OneClient, WindowInv, NEW a \in Clearers, ClearCut(a)
  PROVE  WindowInv'
<1>1. a = "callback" /\ Callback.pc = "cut"
  BY DEF ClearCut, Clearers, WindowInv, InLine, Callback
<1>2. /\ clearing' = [clearing EXCEPT !["callback"].pc = "zero"]
      /\ UNCHANGED <<scenario, client, server, ready, inFlight, suspended, lastQueued, totalQueued, leases,
                     events, unacked, capture, clears, cleared, excused>>
      /\ IF Callback.queued > totalAcked THEN cutoff' = lastQueued /\ totalAcked' = Callback.queued
         ELSE UNCHANGED <<cutoff, totalAcked>>
  BY <1>1 DEF ClearCut, Callback
<1>3. clearing \in [Clearers -> ClearRecord]
  BY DEF FlowInv, TypeOK, ClearRecord
<1>4. Callback'.pc = "zero" /\ clearing'["resize"] = clearing["resize"]
  BY <1>2, <1>3 DEF Callback, Clearers, ClearRecord
<1>5. UNCHANGED <<Sending, Uncounted, Coming, Unrecorded, LastSent, LastAcked, FramesOut>>
  BY <1>2 DEF Sending, Uncounted, Coming, Unrecorded, LastSent, LastAcked, FramesOut
<1>6. /\ capture.pc = "idle" /\ cleared = LastSent /\ lastQueued = server[1].next - 1 /\ cutoff <= cleared
      /\ cleared <= LastSent
  BY <1>1 DEF WindowInv, CutoffKnown, Clearing
<1>7. lastQueued = cleared
  BY <1>6, WindowTyped DEF WindowInv, LastSent, Sending
<1>8. /\ cleared \in Nat /\ inFlight \in Nat /\ totalAcked \in Nat
  BY WindowTyped DEF WindowInv
<1>9. InLine'
  BY <1>2, <1>4, <1>5 DEF WindowInv, InLine
<1>10. CutoffKnown'
  <2>1. cutoff' <= cleared
    BY <1>2, <1>6, <1>7, <1>8
  <2> QED
    BY <1>2, <1>5, <1>6, <2>1 DEF CutoffKnown
<1>11. SlotsReleased'
  BY <1>4 DEF SlotsReleased, Clearing
<1>12. AllCounted'
  <2>1. ASSUME ~excused
        PROVE  /\ ~suspended /\ inFlight + Coming <= Window /\ totalQueued = totalAcked'
               /\ LastAcked >= cleared \/ cutoff' = cleared
    <3>1. /\ ~suspended /\ inFlight + Coming <= Window
          /\ Callback.queued = totalQueued /\ totalQueued = totalAcked + inFlight
          /\ inFlight = 0 => StaleKnown
      BY <1>1, <2>1 DEF WindowInv, AllCounted
    <3>2. CASE Callback.queued > totalAcked
      BY <1>2, <1>7, <3>1, <3>2
    <3>3. CASE ~(Callback.queued > totalAcked)
      <4>1. inFlight = 0 /\ totalQueued = totalAcked
        BY <1>8, <3>1, <3>3
      <4> QED
        BY <1>2, <3>1, <3>3, <4>1 DEF StaleKnown
    <3> QED
      BY <3>2, <3>3
  <2> QED
    BY <1>2, <1>4, <1>5, <2>1 DEF AllCounted, StaleKnown
<1> QED
  BY <1>9, <1>10, <1>11, <1>12 DEF WindowInv

LEMMA WindowZero ==
  ASSUME FlowInv, FlowInv', OneClient, WindowInv, NEW a \in Clearers, ClearZero(a)
  PROVE  WindowInv'
<1>1. a = "callback" /\ Callback.pc = "zero"
  BY DEF ClearZero, Clearers, WindowInv, InLine, Callback
<1>2. /\ clearing' = [clearing EXCEPT !["callback"] = NoClear] /\ inFlight' = 0 /\ suspended' = FALSE
      /\ UNCHANGED <<scenario, client, server, lastQueued, cutoff, totalQueued, totalAcked, leases, events,
                     unacked, capture, clears, cleared, excused>>
  BY <1>1 DEF ClearZero, ZeroedInFlight
<1>3. clearing \in [Clearers -> ClearRecord]
  BY DEF FlowInv, TypeOK, ClearRecord
<1>4. Callback'.pc = "idle" /\ clearing'["resize"] = clearing["resize"]
  BY <1>2, <1>3 DEF Callback, Clearers, NoClear
<1>5. UNCHANGED <<Sending, Uncounted, Coming, Unrecorded, LastSent, LastAcked, FramesOut>>
  BY <1>2 DEF Sending, Uncounted, Coming, Unrecorded, LastSent, LastAcked, FramesOut
<1>6. /\ capture.pc = "idle" /\ cleared = LastSent
  BY <1>1 DEF WindowInv, CutoffKnown, Clearing
<1>7. Sending = 0 /\ Uncounted = 0 /\ Coming = 0 /\ Unrecorded = 0
  BY <1>6 DEF Sending, Uncounted, Coming, Unrecorded
<1>8. /\ cleared \in Nat /\ LastSent \in Int /\ LastAcked \in Int /\ totalQueued \in Nat
      /\ totalAcked \in Nat /\ Len(events) \in Nat /\ Len(unacked) \in Nat /\ Window \in Nat
  BY WindowTyped DEF WindowInv
<1>9. FramesOut = 0
  <2>1. LastAcked <= LastSent
    BY <1>8 DEF LastAcked
  <2>2. FramesOut = LastSent - (IF LastAcked > cleared THEN LastAcked ELSE cleared)
    BY DEF FramesOut
  <2> QED
    BY <1>6, <1>8, <2>1, <2>2
<1>10. InLine'
  BY <1>2, <1>4, <1>5 DEF WindowInv, InLine
<1>11. CutoffKnown'
  BY <1>2, <1>4, <1>5 DEF WindowInv, CutoffKnown, Clearing
<1>12. SlotsReleased'
  BY <1>2, <1>5, <1>7, <1>9 DEF SlotsReleased
<1>13. AllCounted'
  <2>1. ~excused => totalQueued = totalAcked /\ StaleKnown
    BY <1>1 DEF WindowInv, AllCounted
  <2>2. totalQueued + 0 = totalQueued /\ totalAcked + 0 = totalAcked /\ 0 + 0 <= Window /\ 0 <= 0 + 0
    BY <1>8
  <2>3. StaleKnown' = StaleKnown
    BY <1>2, <1>5 DEF StaleKnown
  <2> QED
    BY <1>2, <1>4, <1>5, <1>7, <1>9, <2>1, <2>2, <2>3 DEF AllCounted
<1> QED
  BY <1>10, <1>11, <1>12, <1>13 DEF WindowInv

LEMMA WindowStart ==
  ASSUME Init, OneClient
  PROVE  WindowInv
<1>1. /\ client = 1 /\ capture = Idle(1) /\ clearing = [a \in Clearers |-> NoClear] /\ 1 \in Clients
      /\ server = [c \in Clients |-> [ready |-> FALSE, next |-> 1]]
      /\ inFlight = 0 /\ lastQueued = 0 /\ cutoff = 0 /\ totalQueued = 0 /\ totalAcked = 0
      /\ events = <<>> /\ unacked = <<>> /\ cleared = 0 /\ ~suspended
  BY DEF Init, OneClient, Clients
<1>2. /\ capture.pc = "idle" /\ capture.client = 1 /\ Callback.pc = "idle"
      /\ clearing["resize"].pc = "idle" /\ server[1].next = 1
  BY <1>1 DEF Idle, Callback, NoClear, Clearers
<1>3. Sending = 0 /\ Uncounted = 0 /\ Coming = 0 /\ Unrecorded = 0
  BY <1>2 DEF Sending, Uncounted, Coming, Unrecorded
<1>4. Len(events) = 0 /\ Len(unacked) = 0
  BY <1>1
<1>5. LastSent = 0
  BY <1>2, <1>3 DEF LastSent
<1>6. LastAcked = 0
  BY <1>4, <1>5 DEF LastAcked
<1>7. FramesOut = 0
  BY <1>1, <1>5, <1>6 DEF FramesOut
<1>8. InLine
  BY <1>1, <1>2, <1>4, <1>6 DEF InLine
<1>9. CutoffKnown
  BY <1>1, <1>2, <1>5 DEF CutoffKnown, Clearing
<1>10. SlotsReleased
  BY <1>1, <1>3, <1>7 DEF SlotsReleased
<1>11. AllCounted
  BY <1>1, <1>2, <1>3, <1>6, <1>7, FlowAssumption DEF AllCounted, StaleKnown
<1> QED
  BY <1>8, <1>9, <1>10, <1>11 DEF WindowInv

LEMMA WindowStep ==
  ASSUME FlowInv, OneClient => WindowInv, [Next]_vars
  PROVE  OneClient' => WindowInv'
<1>1. FlowInv'
  BY FlowStep
<1>2. scenario' = scenario
  BY DEF Next, CaptureNext, CaptureReserve, CaptureNumber, CaptureSend, RecordLast, RecordInFlight,
         RecordTotal, Deliver, FrameAck, OnReady, OnClose, PrepareForResize, ClearCut, ClearZero,
         BuildServer, ReplaceCapture, vars
<1>3. SUFFICES ASSUME OneClient
               PROVE  WindowInv'
  BY <1>2 DEF OneClient
<1>4. WindowInv
  BY <1>3
<1>5. CASE CaptureReserve
  BY <1>1, <1>3, <1>4, <1>5, WindowReserve
<1>6. CASE CaptureNumber
  BY <1>1, <1>3, <1>4, <1>6, WindowNumber
<1>7. CASE CaptureSend
  BY <1>1, <1>3, <1>4, <1>7, WindowSend
<1>8. CASE RecordLast \/ RecordInFlight \/ RecordTotal
  BY <1>1, <1>3, <1>4, <1>8, WindowRecord
<1>9. CASE Deliver
  BY <1>1, <1>3, <1>4, <1>9, WindowDeliver
<1>10. ASSUME NEW s \in SuspendChoices, FrameAck(s)
       PROVE  WindowInv'
  BY <1>1, <1>3, <1>4, <1>10, WindowAck
<1>11. CASE OnReady \/ OnClose \/ PrepareForResize
  BY <1>1, <1>3, <1>4, <1>11, WindowBegin
<1>12. ASSUME NEW a \in Clearers, ClearCut(a) \/ ClearZero(a)
       PROVE  WindowInv'
  BY <1>1, <1>3, <1>4, <1>12, WindowCut, WindowZero
<1>13. CASE BuildServer
  BY <1>3, <1>4, <1>13 DEF BuildServer, WindowInv, InLine, OneClient
<1>14. CASE ReplaceCapture
  BY <1>4, <1>14 DEF ReplaceCapture, WindowInv, InLine
<1>15. CASE UNCHANGED vars
  BY <1>4, <1>15 DEF vars, ackVars, clearVars, WindowInv, InLine, CutoffKnown, SlotsReleased, AllCounted,
                     StaleKnown, FramesOut, LastAcked, LastSent, Unrecorded, Coming, Uncounted, Sending,
                     Clearing, Callback
<1> QED
  BY <1>5, <1>6, <1>7, <1>8, <1>9, <1>10, <1>11, <1>12, <1>13, <1>14, <1>15, Zenon DEF Next, CaptureNext

(* The window of frames_in_flight is real: of the ClearCodec frames of a   *)
(* client no more than max_frames_in_flight are unacknowledged, unless it  *)
(* suspended acknowledgements, and a frame counts only as long as it is    *)
(* not acknowledged, however acknowledgements from before and after a      *)
(* renegotiation (on_ready, on_close, clear_frame_queue) mix: for any      *)
(* window, slots, clears and frames of a client that DisplayControl does   *)
(* not resize.                                                             *)
THEOREM WindowIsReal == Spec => [](OneClient => WindowEnforced /\ AckReleasesSlot)
<1>1. Spec => []FlowInv
  BY FlowInvariant
<1>2. Init => (OneClient => WindowInv)
  BY WindowStart
<1>3. FlowInv /\ (OneClient => WindowInv) /\ [Next]_vars => (OneClient => WindowInv)'
  BY WindowStep
<1>4. FlowInv /\ (OneClient => WindowInv) => (OneClient => WindowEnforced /\ AckReleasesSlot)
  BY WindowFollows
<1> QED
  BY <1>1, <1>2, <1>3, <1>4, PTL DEF Spec

-----------------------------------------------------------------------------
(* Remainders.                                                             *)

LEMMA SmallMod ==
  ASSUME NEW n \in Nat \ {0}, NEW a \in 0..(n - 1)
  PROVE  a % n = a
  OBVIOUS

LEMMA Division ==
  ASSUME NEW n \in Nat \ {0}, NEW a \in Nat
  PROVE  a \div n \in Nat /\ a % n \in 0..(n - 1) /\ a = n * (a \div n) + (a % n)
<1>1. a % n \in 0..(n - 1)
  OBVIOUS
<1>2. a = n * (a \div n) + (a % n)
  OBVIOUS
<1>3. a \div n \in Nat
  OBVIOUS
<1> QED
  BY <1>1, <1>2, <1>3

(* Multiples of n are n apart.                                             *)
LEMMA MultiplesApart ==
  ASSUME NEW n \in Nat \ {0}, NEW p \in Nat, NEW q \in Nat, p < q
  PROVE  n * p + n <= n * q
  OBVIOUS

LEMMA MultipleIsZero ==
  ASSUME NEW n \in Nat \ {0}, NEW q \in Nat, NEW a \in Nat, a = n * q
  PROVE  a % n = 0
<1>1. PICK p \in Nat, r \in 0..(n - 1) : p = a \div n /\ r = a % n /\ a = n * p + r
  BY Division
<1>2. n * p \in Nat /\ n * q \in Nat
  OBVIOUS
<1>3. ~(p < q)
  BY <1>1, <1>2, MultiplesApart
<1>4. ~(q < p)
  BY <1>1, <1>2, MultiplesApart
<1>5. p = q
  BY <1>3, <1>4
<1> QED
  BY <1>1, <1>2, <1>5

(* Numbers less than n apart differ modulo n.                              *)
LEMMA ModDiffers ==
  ASSUME NEW n \in Nat \ {0}, NEW a \in Nat, NEW d \in 1..(n - 1)
  PROVE  (a + d) % n # a % n
<1>1. SUFFICES ASSUME (a + d) % n = a % n
               PROVE  FALSE
  OBVIOUS
<1>2. PICK p \in Nat, q \in Nat, r \in 0..(n - 1) : a = n * p + r /\ a + d = n * q + r
  <2>1. a = n * (a \div n) + (a % n) /\ a \div n \in Nat /\ a % n \in 0..(n - 1)
    BY Division
  <2>2. a + d \in Nat
    OBVIOUS
  <2>3. a + d = n * ((a + d) \div n) + ((a + d) % n) /\ (a + d) \div n \in Nat
    BY <2>2, Division
  <2> QED
    BY <1>1, <2>1, <2>3
<1>3. n * p \in Nat /\ n * q \in Nat /\ n * q = n * p + d
  BY <1>2
<1>4. ~(p < q)
  BY <1>3, MultiplesApart
<1>5. ~(q < p)
  BY <1>3, MultiplesApart
<1> QED
  BY <1>3, <1>4, <1>5

-----------------------------------------------------------------------------
(* The AVC420 encoders.                                                    *)

Entry == [surface : 0..2, num : Nat, poc : Nat]
EncoderRecord ==
  [force : BOOLEAN, count : Nat, base : Nat, idrs : Nat, recon : Surfaces, coded : CodedBuffers,
   last : Entry, cached : Nat, packed : BOOLEAN]
FrameRecord ==
  [idr : BOOLEAN, num : Nat, poc : Nat, id : Nat, picture : Nat, reference : Int, sets : Nat]

(* Types of the encoder and of what the client was sent.                   *)
EncoderTyped ==
  /\ backend \in {"vaapi", "software"} /\ venc \in EncoderRecord
  /\ content \in [Surfaces -> Int] /\ pictures \in Nat
  /\ sentFrame \in FrameRecord /\ idrSets \in Nat /\ lostIdrs \in Nat

(* Unless the next picture is forced to be an IDR picture, the parameter   *)
(* sets in the cache are the ones the client has.                          *)
SetsInStep == ~venc.force => venc.cached = idrSets /\ idrSets # NoSets

(* ... and the reference is the picture the client received last: in the   *)
(* surface that is not the next one, or with OpenH264.                     *)
ReferenceInStep ==
  ~venc.force =>
    IF backend = "software" THEN content[1] = sentFrame.picture
    ELSE /\ venc.last.surface \in Surfaces \ {venc.recon}
         /\ content[venc.last.surface] = sentFrame.picture

(* ... and the numbers go on from the last one, which lies in the same     *)
(* interval between two periodic IDR pictures as the number's base.        *)
InInterval(e) ==
  \E q \in Nat : IdrInterval * q <= e.base /\ e.count <= IdrInterval * q + IdrInterval
NumbersInStep ==
  ~venc.force /\ backend = "vaapi" =>
    /\ venc.base < venc.count /\ InInterval(venc)
    /\ sentFrame.num = venc.count - 1 - venc.base
    /\ sentFrame.poc = 2 * (venc.count - 1 - venc.base)

(* The identifier the client has seen is as old as there were lost ones.   *)
IdsInStep ==
  sentFrame.idr /\ backend = "vaapi" =>
    venc.idrs > lostIdrs /\ sentFrame.id = (venc.idrs - 1 - lostIdrs) % IdrPicIds

EncoderInv == EncoderTyped /\ SetsInStep /\ ReferenceInStep /\ NumbersInStep /\ IdsInStep

LEMMA AfterTyped ==
  ASSUME NEW s \in Surfaces
  PROVE  After(s, Surfaces) \in Surfaces \ {s}
  BY DEF After, Surfaces

LEMMA AfterCoded ==
  ASSUME NEW s \in CodedBuffers
  PROVE  After(s, CodedBuffers) \in CodedBuffers
  BY DEF After, CodedBuffers

(* What EncodeVaapi makes of the encoder.                                  *)
LEMMA EncodedFields ==
  ASSUME EncoderTyped, NEW sent \in BOOLEAN, EncodeVaapi(sent)
  PROVE  /\ venc' \in EncoderRecord
         /\ venc'.force = ~sent /\ venc'.count = venc.count + 1
         /\ venc'.base = IF IsIdrFrame THEN venc.count ELSE venc.base
         /\ venc'.idrs = IF IsIdrFrame THEN venc.idrs + 1 ELSE venc.idrs
         /\ venc'.last.surface = venc.recon /\ venc'.recon \in Surfaces \ {venc.recon}
         /\ venc'.cached = IF IsIdrFrame THEN pictures + 1 ELSE venc.cached
<1> DEFINE idr == IsIdrFrame
           advanced == Advanced(venc)
           started == Started(advanced, idr)
           numbering == Numbering(started)
           cached == IF idr THEN pictures + 1 ELSE venc.cached
           entry == [surface |-> venc.recon, num |-> numbering[1], poc |-> numbering[2]]
           e == [started EXCEPT !.idrs = IF idr THEN @ + 1 ELSE @, !.last = entry,
                                !.cached = cached, !.force = FALSE, !.count = @ + 1]
<1>1. venc \in EncoderRecord /\ pictures \in Nat
  BY DEF EncoderTyped
<1>2. /\ advanced \in EncoderRecord /\ advanced.recon \in Surfaces \ {venc.recon}
      /\ advanced.count = venc.count /\ advanced.base = venc.base /\ advanced.idrs = venc.idrs
      /\ advanced.cached = venc.cached /\ advanced.last = venc.last
  BY <1>1, AfterTyped, AfterCoded DEF Advanced, EncoderRecord
<1> HIDE DEF advanced
<1>3. NoEntry \in Entry
  BY DEF NoEntry, Entry
<1>4. /\ started \in EncoderRecord /\ started.recon = advanced.recon
      /\ started.count = venc.count /\ started.base = IF idr THEN venc.count ELSE venc.base
      /\ started.idrs = venc.idrs
  BY <1>2, <1>3 DEF Started, EncoderRecord
<1> HIDE DEF started
<1>5. numbering[1] \in Nat /\ numbering[2] \in Nat
  BY <1>4, EncoderAssumption DEF Numbering, EncoderRecord
<1> HIDE DEF numbering
<1>6. entry \in Entry /\ entry.surface = venc.recon
  BY <1>1, <1>5 DEF Entry, EncoderRecord, Surfaces
<1> HIDE DEF entry
<1>7. cached \in Nat
  BY <1>1 DEF EncoderRecord
<1> HIDE DEF cached
<1>8. PICK no \in BOOLEAN : no = FALSE
  OBVIOUS
<1>9. PICK idrs \in Nat : idrs = IF idr THEN started.idrs + 1 ELSE started.idrs
  BY <1>4 DEF EncoderRecord
<1>10. e = [started EXCEPT !.idrs = idrs, !.last = entry, !.cached = cached, !.force = no,
                           !.count = started.count + 1]
  BY <1>8, <1>9
<1>11. venc' = IF sent THEN e ELSE ForceIdr(e)
  BY DEF EncodeVaapi, advanced, started, numbering, entry, cached
<1> HIDE DEF e
<1>12. /\ e \in EncoderRecord /\ e.idrs = idrs /\ e.last = entry /\ e.cached = cached
       /\ e.force = no /\ e.count = started.count + 1 /\ e.base = started.base
       /\ e.recon = started.recon
  <2>1. started.count + 1 \in Nat
    BY <1>4 DEF EncoderRecord
  <2>2. e \in EncoderRecord
    BY <1>4, <1>6, <1>7, <1>10, <2>1 DEF EncoderRecord
  <2>3. /\ e.idrs = idrs /\ e.last = entry /\ e.cached = cached
        /\ e.force = no /\ e.count = started.count + 1 /\ e.base = started.base
        /\ e.recon = started.recon
    BY <1>4, <1>10 DEF EncoderRecord
  <2> QED
    BY <2>2, <2>3
<1>13. CASE sent
  BY <1>2, <1>4, <1>6, <1>8, <1>9, <1>11, <1>12, <1>13 DEF cached
<1>14. CASE ~sent
  <2>1. PICK yes \in BOOLEAN : yes = TRUE
    OBVIOUS
  <2>2. venc' = [e EXCEPT !.force = yes]
    BY <1>11, <1>14, <2>1 DEF ForceIdr
  <2>3. /\ venc' \in EncoderRecord /\ venc'.idrs = idrs /\ venc'.last = entry /\ venc'.cached = cached
        /\ venc'.force = yes /\ venc'.count = started.count + 1 /\ venc'.base = started.base
        /\ venc'.recon = started.recon
    BY <1>12, <2>2 DEF EncoderRecord
  <2> QED
    BY <1>2, <1>4, <1>6, <1>9, <1>14, <2>1, <2>3 DEF cached
<1> QED
  BY <1>13, <1>14

(* What a failure makes of it: the next picture is forced.                 *)
LEMMA FailedFields ==
  ASSUME EncoderTyped, NEW at \in {"import", "image", "buffer", "render", "output"}, FailVaapi(at)
  PROVE  /\ venc' \in EncoderRecord /\ venc'.force = TRUE
         /\ venc'.idrs = IF IsIdrFrame /\ at \notin {"import", "image"} THEN venc.idrs + 1 ELSE venc.idrs
<1> DEFINE idr == IsIdrFrame
           advanced == IF at = "import" THEN venc ELSE Advanced(venc)
           begun == Started(advanced, idr)
           cached == IF idr /\ venc.packed /\ at # "buffer" THEN pictures + 1 ELSE begun.cached
           idrs == IF idr THEN begun.idrs + 1 ELSE begun.idrs
           started == IF at \in {"import", "image"} THEN advanced
                      ELSE [begun EXCEPT !.idrs = idrs, !.cached = cached]
           numbering == Numbering(started)
           entry == [surface |-> venc.recon, num |-> numbering[1], poc |-> numbering[2]]
           recorded == IF at # "output" THEN started ELSE [started EXCEPT !.last = entry]
<1>1. venc \in EncoderRecord /\ pictures \in Nat
  BY DEF EncoderTyped
<1>2. venc' = ForceIdr(recorded)
  BY DEF FailVaapi
<1>3. advanced \in EncoderRecord /\ advanced.idrs = venc.idrs
  BY <1>1, AfterTyped, AfterCoded DEF Advanced, EncoderRecord
<1> HIDE DEF advanced
<1>4. NoEntry \in Entry
  BY DEF NoEntry, Entry
<1>5. begun \in EncoderRecord /\ begun.idrs = venc.idrs
  BY <1>3, <1>4 DEF Started, EncoderRecord
<1> HIDE DEF begun
<1>6. cached \in Nat /\ idrs \in Nat
  BY <1>1, <1>5 DEF EncoderRecord
<1> HIDE DEF cached
<1>7. started \in EncoderRecord /\ started.idrs = IF at \in {"import", "image"} THEN venc.idrs ELSE idrs
  <2> HIDE DEF idrs
  <2> QED
    BY <1>3, <1>5, <1>6 DEF EncoderRecord
<1> HIDE DEF started
<1>8. numbering[1] \in Nat /\ numbering[2] \in Nat
  BY <1>7, EncoderAssumption DEF Numbering, EncoderRecord
<1> HIDE DEF numbering
<1>9. entry \in Entry
  BY <1>1, <1>8 DEF Entry, EncoderRecord, Surfaces
<1> HIDE DEF entry
<1>10. recorded \in EncoderRecord /\ recorded.idrs = started.idrs
  BY <1>7, <1>9 DEF EncoderRecord
<1> HIDE DEF recorded
<1>11. PICK yes \in BOOLEAN : yes = TRUE
  OBVIOUS
<1>12. venc' = [recorded EXCEPT !.force = yes]
  BY <1>2, <1>11 DEF ForceIdr
<1>13. venc' \in EncoderRecord /\ venc'.force = yes /\ venc'.idrs = recorded.idrs
  BY <1>10, <1>12 DEF EncoderRecord
<1> QED
  BY <1>5, <1>7, <1>10, <1>11, <1>13

(* What the software encoder makes of it.                                  *)
LEMMA SoftwareFields ==
  ASSUME EncoderTyped, NEW kind \in {"idr", "delta", "skip"}, NEW sent \in BOOLEAN,
         EncodeSoftware(kind, sent)
  PROVE  /\ venc' \in EncoderRecord
         /\ venc'.force = IF kind = "skip" THEN venc.force ELSE ~sent
         /\ venc'.cached = IF kind = "idr" THEN pictures + 1 ELSE venc.cached
<1> DEFINE force == IF kind = "skip" THEN venc.force ELSE FALSE
           cached == IF kind = "idr" THEN pictures + 1 ELSE venc.cached
           e == [venc EXCEPT !.force = force, !.cached = cached]
<1>1. venc \in EncoderRecord /\ pictures \in Nat
  BY DEF EncoderTyped
<1>2. venc' = IF sent \/ kind = "skip" THEN e ELSE ForceIdr(e)
  BY DEF EncodeSoftware
<1>3. force \in BOOLEAN /\ cached \in Nat
  <2>1. venc.force \in BOOLEAN /\ venc.cached \in Nat
    BY <1>1 DEF EncoderRecord
  <2>2. force \in BOOLEAN
    BY <2>1, Zenon
  <2>3. pictures + 1 \in Nat
    BY <1>1
  <2>4. cached \in Nat
    BY <2>1, <2>3, Zenon
  <2> QED
    BY <2>2, <2>4, Zenon
<1>4. force = IF kind = "skip" THEN venc.force ELSE FALSE
  OBVIOUS
<1>5. cached = IF kind = "idr" THEN pictures + 1 ELSE venc.cached
  OBVIOUS
<1> HIDE DEF force, cached
<1>6. e \in EncoderRecord /\ e.force = force /\ e.cached = cached
  BY <1>1, <1>3 DEF EncoderRecord
<1> HIDE DEF e
<1>7. CASE sent \/ kind = "skip"
  BY <1>2, <1>4, <1>5, <1>6, <1>7 DEF EncodeSoftware
<1>8. CASE ~(sent \/ kind = "skip")
  <2>1. PICK yes \in BOOLEAN : yes = TRUE
    OBVIOUS
  <2>2. venc' = [e EXCEPT !.force = yes]
    BY <1>2, <1>8, <2>1 DEF ForceIdr
  <2>3. venc' \in EncoderRecord /\ venc'.force = yes /\ venc'.cached = cached
    BY <1>6, <2>2 DEF EncoderRecord
  <2> QED
    BY <1>5, <1>8, <2>1, <2>3
<1> QED
  BY <1>7, <1>8

(* The numbers stay in the interval between two periodic IDR pictures, so  *)
(* neither of them wraps.                                                  *)
LEMMA IntervalKept ==
  ASSUME EncoderInv, backend = "vaapi",
         NEW base, base = IF IsIdrFrame THEN venc.count ELSE venc.base
  PROVE  /\ base \in Nat /\ base <= venc.count
         /\ \E q \in Nat : IdrInterval * q <= base /\ venc.count + 1 <= IdrInterval * q + IdrInterval
         /\ venc.count - base \in 0..(IdrInterval - 1)
<1> USE EncoderAssumption
<1>1. venc.count \in Nat /\ venc.base \in Nat
  BY DEF EncoderInv, EncoderTyped, EncoderRecord
<1>2. PICK p \in Nat, r \in 0..(IdrInterval - 1) :
        r = venc.count % IdrInterval /\ venc.count = IdrInterval * p + r
  BY <1>1, Division
<1>3. IdrInterval * p \in Nat
  OBVIOUS
<1>4. CASE IsIdrFrame
  <2>1. base = venc.count
    BY <1>4
  <2>2. IdrInterval * p <= base /\ venc.count + 1 <= IdrInterval * p + IdrInterval
    BY <1>1, <1>2, <1>3, <2>1
  <2> QED
    BY <1>1, <2>1, <2>2
<1>5. CASE ~IsIdrFrame
  <2>1. base = venc.base /\ ~venc.force /\ r # 0
    BY <1>2, <1>5 DEF IsIdrFrame
  <2>2. venc.base < venc.count /\ InInterval(venc)
    BY <2>1 DEF EncoderInv, NumbersInStep
  <2>3. PICK q \in Nat : IdrInterval * q <= venc.base /\ venc.count <= IdrInterval * q + IdrInterval
    BY <2>2 DEF InInterval
  <2>4. IdrInterval * q \in Nat
    OBVIOUS
  <2>5. venc.count # IdrInterval * q + IdrInterval
    <3>1. IdrInterval * (q + 1) = IdrInterval * q + IdrInterval
      OBVIOUS
    <3>2. venc.count = IdrInterval * (q + 1) => venc.count % IdrInterval = 0
      BY <1>1, MultipleIsZero
    <3> QED
      BY <1>2, <2>1, <3>1, <3>2
  <2>6. IdrInterval * q <= base /\ venc.count + 1 <= IdrInterval * q + IdrInterval
    BY <1>1, <2>1, <2>3, <2>4, <2>5
  <2>7. base \in Nat /\ base <= venc.count
    BY <1>1, <2>1, <2>2
  <2>8. venc.count - base \in 0..(IdrInterval - 1)
    <3>1. PICK m \in Nat : m = IdrInterval * q
      BY <2>4
    <3>2. m <= base /\ venc.count + 1 <= m + IdrInterval
      BY <2>6, <3>1
    <3> QED
      BY <1>1, <2>7, <3>2
  <2> QED
    BY <2>6, <2>7, <2>8
<1> QED
  BY <1>4, <1>5

(* The frame that EncodeVaapi makes: for a decoder that has got the last.  *)
LEMMA VaapiFrame ==
  ASSUME EncoderInv, NEW sent \in BOOLEAN, EncodeVaapi(sent)
  PROVE  \E frame \in FrameRecord :
           /\ Transmitted(frame, sent)
           /\ frame.idr = IsIdrFrame /\ frame.picture = pictures + 1 /\ frame.sets = venc'.cached
           /\ frame.num = venc.count - venc'.base /\ frame.poc = 2 * (venc.count - venc'.base)
           /\ frame.id = venc.idrs % IdrPicIds
           /\ ~IsIdrFrame => frame.reference = sentFrame.picture
<1> USE EncoderAssumption
<1> DEFINE idr == IsIdrFrame
           started == Started(Advanced(venc), idr)
           numbering == Numbering(started)
           cached == IF idr THEN pictures + 1 ELSE venc.cached
           reference == IF started.last = NoEntry THEN NoPicture ELSE content'[started.last.surface]
           frame == [idr |-> idr, num |-> numbering[1], poc |-> numbering[2], id |-> IdrPicId(started),
                     picture |-> pictures + 1, sets |-> cached, reference |-> reference]
<1>1. /\ Transmitted(frame, sent) /\ backend = "vaapi"
      /\ content' = [content EXCEPT ![venc.recon] = pictures + 1]
  BY DEF EncodeVaapi
<1>2. EncoderTyped /\ venc \in EncoderRecord /\ pictures \in Nat
  BY DEF EncoderInv, EncoderTyped
<1>3. venc'.cached = cached /\ venc'.base = (IF IsIdrFrame THEN venc.count ELSE venc.base)
  BY <1>2, EncodedFields
<1>4. /\ started.count = venc.count /\ started.base = venc'.base /\ started.idrs = venc.idrs
      /\ started.last = IF idr THEN NoEntry ELSE venc.last
  BY <1>2, <1>3 DEF Started, Advanced, EncoderRecord
<1> HIDE DEF started
<1>5. venc.count - venc'.base \in 0..(IdrInterval - 1)
  BY <1>1, <1>3, IntervalKept
<1>6. numbering[1] = venc.count - venc'.base /\ numbering[2] = 2 * (venc.count - venc'.base)
  <2>1. PICK n \in 0..(IdrInterval - 1) : n = started.count - started.base
    BY <1>4, <1>5
  <2>2. n \in 0..(MaxFrameNum - 1) /\ n * 2 \in 0..(MaxFrameNum - 1) /\ MaxFrameNum \in Nat \ {0}
    BY <2>1
  <2>3. n % MaxFrameNum = n /\ (n * 2) % MaxFrameNum = n * 2
    BY <2>2, SmallMod
  <2> QED
    BY <1>4, <2>1, <2>3 DEF Numbering
<1> HIDE DEF numbering
<1>7. IdrPicId(started) = venc.idrs % IdrPicIds /\ IdrPicId(started) \in Nat
  BY <1>2, <1>4 DEF IdrPicId, EncoderRecord
<1>8. reference \in Int /\ (~IsIdrFrame => reference = sentFrame.picture)
  <2>1. CASE IsIdrFrame
    BY <1>4, <2>1 DEF NoPicture
  <2>2. CASE ~IsIdrFrame
    <3>1. /\ venc.last.surface \in Surfaces \ {venc.recon} /\ content[venc.last.surface] = sentFrame.picture
          /\ content \in [Surfaces -> Int]
      BY <1>1, <2>2 DEF IsIdrFrame, EncoderInv, ReferenceInStep, EncoderTyped
    <3>2. venc.last # NoEntry
      BY <3>1 DEF NoEntry, Surfaces
    <3>3. content'[venc.last.surface] = sentFrame.picture /\ sentFrame.picture \in Int
      BY <1>1, <3>1
    <3> QED
      BY <1>4, <2>2, <3>2, <3>3
  <2> QED
    BY <2>1, <2>2
<1> HIDE DEF reference
<1>9. IsIdrFrame \in BOOLEAN
  BY <1>2 DEF IsIdrFrame, EncoderRecord
<1>10. cached \in Nat
  BY <1>2 DEF EncoderRecord
<1> HIDE DEF cached
<1>11. PICK i \in BOOLEAN : i = IsIdrFrame
  BY <1>9
<1>12. frame = [idr |-> i, num |-> numbering[1], poc |-> numbering[2], id |-> IdrPicId(started),
                picture |-> pictures + 1, sets |-> cached, reference |-> reference]
  BY <1>11, Zenon
<1> HIDE DEF frame
<1>13. numbering[1] \in Nat /\ numbering[2] \in Nat
  BY <1>5, <1>6
<1>14. frame \in FrameRecord
  BY <1>2, <1>7, <1>8, <1>10, <1>12, <1>13 DEF FrameRecord
<1>15. /\ frame.idr = i /\ frame.picture = pictures + 1 /\ frame.sets = cached
       /\ frame.num = numbering[1] /\ frame.poc = numbering[2] /\ frame.id = IdrPicId(started)
       /\ frame.reference = reference
  BY <1>12
<1> QED
  BY <1>1, <1>3, <1>6, <1>7, <1>8, <1>11, <1>14, <1>15

-----------------------------------------------------------------------------
(* The steps.                                                              *)

LEMMA EncodeVaapiStep ==
  ASSUME EncoderInv, NEW sent \in BOOLEAN, EncodeVaapi(sent)
  PROVE  EncoderInv' /\ (sentFrame' # sentFrame => DecoderFollows /\ IdrIdsDiffer)
<1> USE EncoderAssumption
<1>1. PICK frame \in FrameRecord :
        /\ Transmitted(frame, sent)
        /\ frame.idr = IsIdrFrame /\ frame.picture = pictures + 1 /\ frame.sets = venc'.cached
        /\ frame.num = venc.count - venc'.base /\ frame.poc = 2 * (venc.count - venc'.base)
        /\ frame.id = venc.idrs % IdrPicIds
        /\ ~IsIdrFrame => frame.reference = sentFrame.picture
  BY VaapiFrame
<1>2. /\ backend = "vaapi" /\ backend' = backend /\ pictures' = pictures + 1
      /\ content' = [content EXCEPT ![venc.recon] = pictures + 1]
  BY DEF EncodeVaapi
<1>3. /\ EncoderTyped /\ venc \in EncoderRecord /\ pictures \in Nat
      /\ content \in [Surfaces -> Int] /\ sentFrame \in FrameRecord /\ idrSets \in Nat /\ lostIdrs \in Nat
  BY DEF EncoderInv, EncoderTyped
<1>4. /\ venc' \in EncoderRecord
      /\ venc'.force = ~sent /\ venc'.count = venc.count + 1
      /\ venc'.base = IF IsIdrFrame THEN venc.count ELSE venc.base
      /\ venc'.idrs = IF IsIdrFrame THEN venc.idrs + 1 ELSE venc.idrs
      /\ venc'.last.surface = venc.recon /\ venc'.recon \in Surfaces \ {venc.recon}
      /\ venc'.cached = IF IsIdrFrame THEN pictures + 1 ELSE venc.cached
  BY <1>3, EncodedFields
<1>5. /\ venc'.base \in Nat /\ venc'.base <= venc.count
      /\ \E q \in Nat :
           IdrInterval * q <= venc'.base /\ venc.count + 1 <= IdrInterval * q + IdrInterval
  BY <1>2, <1>4, IntervalKept
<1>6. /\ sent => sentFrame' = frame
      /\ sent => lostIdrs' = IF IsIdrFrame THEN 0 ELSE lostIdrs
      /\ sent => idrSets' = IF IsIdrFrame THEN frame.sets ELSE idrSets
      /\ ~sent => sentFrame' = sentFrame /\ idrSets' = idrSets
      /\ ~sent => lostIdrs' = IF IsIdrFrame THEN lostIdrs + 1 ELSE lostIdrs
  BY <1>1 DEF Transmitted
<1>7. venc.count \in Nat /\ venc.idrs \in Nat /\ venc.recon \in Surfaces
  BY <1>3 DEF EncoderRecord
<1>8. ~IsIdrFrame => ~venc.force
  BY DEF IsIdrFrame
<1>9. EncoderTyped'
  <2>1. content' \in [Surfaces -> Int]
    <3>1. PICK picture \in Int : picture = pictures + 1
      BY <1>3
    <3>2. content' = [content EXCEPT ![venc.recon] = picture]
      BY <1>2, <3>1
    <3> QED
      BY <1>3, <3>2
  <2>2. sentFrame' \in FrameRecord
    BY <1>3, <1>6
  <2>3. frame.sets \in Nat
    BY DEF FrameRecord
  <2>4. idrSets' \in Nat
    BY <1>3, <1>6, <2>3
  <2>5. lostIdrs' \in Nat
    BY <1>3, <1>6
  <2>6. pictures' \in Nat
    BY <1>2, <1>3
  <2> QED
    BY <1>2, <1>4, <2>1, <2>2, <2>4, <2>5, <2>6 DEF EncoderTyped
<1>10. sent => venc'.cached = idrSets' /\ idrSets' # NoSets /\ frame.sets = idrSets'
  <2>1. CASE IsIdrFrame
    BY <1>1, <1>3, <1>4, <1>6, <2>1 DEF NoSets
  <2>2. CASE ~IsIdrFrame
    BY <1>1, <1>4, <1>6, <1>8, <2>2 DEF EncoderInv, SetsInStep
  <2> QED
    BY <2>1, <2>2
<1>11. SetsInStep'
  BY <1>4, <1>10 DEF SetsInStep
<1>12. ReferenceInStep'
  <2>1. SUFFICES ASSUME sent
                 PROVE  /\ venc'.last.surface \in Surfaces \ {venc'.recon}
                        /\ content'[venc'.last.surface] = sentFrame'.picture
    BY <1>2, <1>4 DEF ReferenceInStep
  <2>2. content'[venc.recon] = pictures + 1
    BY <1>2, <1>3, <1>7
  <2> QED
    BY <1>1, <1>4, <1>6, <1>7, <2>1, <2>2
<1>13. NumbersInStep'
  <2>1. SUFFICES ASSUME sent
                 PROVE  /\ venc'.base < venc'.count /\ InInterval(venc')
                        /\ sentFrame'.num = venc'.count - 1 - venc'.base
                        /\ sentFrame'.poc = 2 * (venc'.count - 1 - venc'.base)
    BY <1>4 DEF NumbersInStep
  <2>2. InInterval(venc')
    BY <1>4, <1>5 DEF InInterval
  <2>3. venc'.count - 1 - venc'.base = venc.count - venc'.base /\ venc'.base < venc'.count
    BY <1>4, <1>5, <1>7
  <2> QED
    BY <1>1, <1>6, <2>1, <2>2, <2>3
<1>14. IdsInStep'
  <2>1. SUFFICES ASSUME sentFrame'.idr
                 PROVE  /\ venc'.idrs > lostIdrs'
                        /\ sentFrame'.id = (venc'.idrs - 1 - lostIdrs') % IdrPicIds
    BY DEF IdsInStep
  <2>2. CASE sent
    <3>1. IsIdrFrame
      BY <1>1, <1>6, <2>1, <2>2
    <3>2. venc'.idrs = venc.idrs + 1 /\ lostIdrs' = 0
      BY <1>4, <1>6, <2>2, <3>1
    <3>3. venc'.idrs - 1 - lostIdrs' = venc.idrs /\ venc'.idrs > lostIdrs'
      BY <1>7, <3>2
    <3> QED
      BY <1>1, <1>6, <2>2, <3>3
  <2>3. CASE ~sent
    <3>1. venc.idrs > lostIdrs /\ sentFrame.id = (venc.idrs - 1 - lostIdrs) % IdrPicIds
      BY <1>2, <1>6, <2>1, <2>3 DEF EncoderInv, IdsInStep
    <3>2. venc'.idrs - 1 - lostIdrs' = venc.idrs - 1 - lostIdrs /\ venc'.idrs > lostIdrs'
      BY <1>3, <1>4, <1>6, <1>7, <2>3, <3>1
    <3> QED
      BY <1>6, <2>3, <3>1, <3>2
  <2> QED
    BY <2>2, <2>3
<1>15. sentFrame' # sentFrame => DecoderFollows
  <2>1. SUFFICES ASSUME sent
                 PROVE  DecoderFollows
    BY <1>6
  <2>2. sentFrame' = frame /\ frame.sets = idrSets' /\ idrSets' # NoSets
    BY <1>6, <1>10, <2>1
  <2>3. IsIdrFrame => frame.num = 0
    BY <1>1, <1>4, <1>7
  <2>4. ASSUME ~IsIdrFrame
        PROVE  frame.num = sentFrame.num + 1 /\ frame.poc > sentFrame.poc
    <3>1. /\ sentFrame.num = venc.count - 1 - venc.base
          /\ sentFrame.poc = 2 * (venc.count - 1 - venc.base)
      BY <1>2, <1>8, <2>4 DEF EncoderInv, NumbersInStep
    <3>2. venc'.base = venc.base
      BY <1>4, <2>4
    <3> QED
      BY <1>1, <1>5, <1>7, <3>1, <3>2
  <2> QED
    BY <1>1, <2>2, <2>3, <2>4 DEF DecoderFollows
<1>16. sentFrame' # sentFrame => IdrIdsDiffer
  <2>1. SUFFICES ASSUME sent, sentFrame.idr, IsIdrFrame, lostIdrs < IdrPicIds - 1
                 PROVE  frame.id # sentFrame.id
    BY <1>1, <1>6 DEF IdrIdsDiffer
  <2>2. venc.idrs > lostIdrs /\ sentFrame.id = (venc.idrs - 1 - lostIdrs) % IdrPicIds
    BY <1>2, <2>1 DEF EncoderInv, IdsInStep
  <2>3. PICK a \in Nat, d \in 1..(IdrPicIds - 1) :
          a = venc.idrs - 1 - lostIdrs /\ d = lostIdrs + 1 /\ a + d = venc.idrs
    BY <1>3, <1>7, <2>1, <2>2
  <2>4. IdrPicIds \in Nat \ {0}
    OBVIOUS
  <2>5. (a + d) % IdrPicIds # a % IdrPicIds
    BY <2>4, ModDiffers
  <2> QED
    BY <1>1, <2>2, <2>3, <2>5
<1> QED
  BY <1>9, <1>11, <1>12, <1>13, <1>14, <1>15, <1>16 DEF EncoderInv

LEMMA FailVaapiStep ==
  ASSUME EncoderInv, NEW at \in {"import", "image", "buffer", "render", "output"}, FailVaapi(at)
  PROVE  EncoderInv' /\ sentFrame' = sentFrame
<1>1. /\ EncoderTyped /\ venc \in EncoderRecord /\ pictures \in Nat
      /\ content \in [Surfaces -> Int] /\ lostIdrs \in Nat
  BY DEF EncoderInv, EncoderTyped
<1>2. /\ backend' = backend /\ sentFrame' = sentFrame /\ idrSets' = idrSets /\ pictures' = pictures + 1
      /\ lostIdrs' = IF IsIdrFrame /\ at \notin {"import", "image"} THEN lostIdrs + 1 ELSE lostIdrs
  BY DEF FailVaapi
<1>3. content' \in [Surfaces -> Int]
  <2>1. content' = IF at \in {"import", "image", "buffer"} THEN content
                   ELSE [content EXCEPT ![venc.recon] = IF at = "output" THEN pictures + 1 ELSE Garbage]
    BY DEF FailVaapi
  <2>2. PICK picture \in Int : picture = IF at = "output" THEN pictures + 1 ELSE Garbage
    BY <1>1 DEF Garbage
  <2>3. content' = content \/ content' = [content EXCEPT ![venc.recon] = picture]
    BY <2>1, <2>2
  <2> QED
    BY <1>1, <2>3
<1>4. /\ venc' \in EncoderRecord /\ venc'.force = TRUE
      /\ venc'.idrs = IF IsIdrFrame /\ at \notin {"import", "image"} THEN venc.idrs + 1 ELSE venc.idrs
  BY <1>1, FailedFields
<1>5. EncoderTyped'
  BY <1>1, <1>2, <1>3, <1>4 DEF EncoderTyped
<1>6. SetsInStep' /\ ReferenceInStep' /\ NumbersInStep'
  BY <1>4 DEF SetsInStep, ReferenceInStep, NumbersInStep
<1>7. IdsInStep'
  <2>1. SUFFICES ASSUME sentFrame.idr, backend = "vaapi"
                 PROVE  /\ venc'.idrs > lostIdrs'
                        /\ sentFrame.id = (venc'.idrs - 1 - lostIdrs') % IdrPicIds
    BY <1>2 DEF IdsInStep
  <2>2. venc.idrs > lostIdrs /\ sentFrame.id = (venc.idrs - 1 - lostIdrs) % IdrPicIds
    BY <2>1 DEF EncoderInv, IdsInStep
  <2>3. venc.idrs \in Nat
    BY <1>1 DEF EncoderRecord
  <2>4. venc'.idrs - 1 - lostIdrs' = venc.idrs - 1 - lostIdrs /\ venc'.idrs > lostIdrs'
    BY <1>1, <1>2, <1>4, <2>2, <2>3
  <2> QED
    BY <2>2, <2>4
<1> QED
  BY <1>2, <1>5, <1>6, <1>7 DEF EncoderInv

LEMMA EncodeSoftwareStep ==
  ASSUME EncoderInv, NEW kind \in {"idr", "delta", "skip"}, NEW sent \in BOOLEAN,
         EncodeSoftware(kind, sent)
  PROVE  EncoderInv' /\ (sentFrame' # sentFrame => DecoderFollows /\ IdrIdsDiffer)
<1>1. /\ EncoderTyped /\ venc \in EncoderRecord /\ pictures \in Nat /\ content \in [Surfaces -> Int]
      /\ sentFrame \in FrameRecord /\ idrSets \in Nat /\ lostIdrs \in Nat
  BY DEF EncoderInv, EncoderTyped
<1>2. /\ backend = "software" /\ backend' = backend /\ pictures' = pictures + 1
      /\ venc.force => kind # "delta"
      /\ kind = "skip" => ~sent
      /\ content' = IF kind = "skip" THEN content ELSE [content EXCEPT ![1] = pictures + 1]
  BY DEF EncodeSoftware
<1>3. /\ venc' \in EncoderRecord
      /\ venc'.force = IF kind = "skip" THEN venc.force ELSE ~sent
      /\ venc'.cached = IF kind = "idr" THEN pictures + 1 ELSE venc.cached
  BY <1>1, SoftwareFields
<1>4. 1 \in Surfaces /\ content[1] \in Int
  BY <1>1 DEF Surfaces
<1>5. content' \in [Surfaces -> Int] /\ (kind # "skip" => content'[1] = pictures + 1)
  BY <1>1, <1>2, <1>4
<1>6. NumbersInStep' /\ IdsInStep'
  BY <1>2 DEF NumbersInStep, IdsInStep
<1>7. CASE kind = "skip"
  <2>1. UNCHANGED <<sentFrame, idrSets, lostIdrs>>
    BY <1>7 DEF EncodeSoftware
  <2>2. EncoderTyped'
    BY <1>1, <1>2, <1>3, <1>5, <2>1 DEF EncoderTyped
  <2>3. venc'.force = venc.force /\ venc'.cached = venc.cached /\ content' = content
    BY <1>2, <1>3, <1>7
  <2>4. SetsInStep' /\ ReferenceInStep'
    BY <1>2, <2>1, <2>3 DEF EncoderInv, SetsInStep, ReferenceInStep
  <2> QED
    BY <1>6, <2>1, <2>2, <2>4 DEF EncoderInv
<1>8. CASE kind # "skip"
  <2>1. PICK idr \in BOOLEAN : idr = (kind = "idr")
    OBVIOUS
  <2>2. PICK reference \in Int : reference = IF kind = "idr" THEN NoPicture ELSE content[1]
    BY <1>4 DEF NoPicture
  <2>3. PICK sets \in Nat : sets = (IF kind = "idr" THEN pictures + 1 ELSE venc.cached) /\ sets = venc'.cached
    BY <1>3 DEF EncoderRecord
  <2>4. PICK frame : frame = [idr |-> idr, num |-> 0, poc |-> 0, id |-> 0, picture |-> pictures + 1,
                              reference |-> reference, sets |-> sets]
    OBVIOUS
  <2>5. Transmitted(frame, sent)
    BY <1>8, <2>1, <2>2, <2>3, <2>4, Zenon DEF EncodeSoftware
  <2>6. frame \in FrameRecord
    BY <1>1, <2>4 DEF FrameRecord
  <2>7. /\ frame.idr = idr /\ frame.num = 0 /\ frame.picture = pictures + 1
        /\ frame.reference = reference /\ frame.sets = sets
    BY <2>4
  <2>8. /\ sent => sentFrame' = frame
        /\ sent => idrSets' = IF kind = "idr" THEN sets ELSE idrSets
        /\ ~sent => sentFrame' = sentFrame /\ idrSets' = idrSets
        /\ lostIdrs' \in {0, lostIdrs, lostIdrs + 1}
    BY <2>1, <2>5, <2>7 DEF Transmitted
  <2>9. EncoderTyped'
    <3>1. sentFrame' \in FrameRecord /\ idrSets' \in Nat
      BY <1>1, <2>6, <2>8
    <3>2. lostIdrs' \in Nat /\ pictures' \in Nat
      BY <1>1, <1>2, <2>8
    <3> QED
      BY <1>2, <1>3, <1>5, <3>1, <3>2 DEF EncoderTyped
  <2>10. kind # "idr" => ~venc.force
    BY <1>2, <1>8
  <2>11. sent => sets = idrSets' /\ idrSets' # NoSets
    <3>1. CASE kind = "idr"
      BY <1>1, <2>3, <2>8, <3>1 DEF NoSets
    <3>2. CASE kind # "idr"
      BY <2>3, <2>8, <2>10, <3>2 DEF EncoderInv, SetsInStep
    <3> QED
      BY <3>1, <3>2
  <2>12. SetsInStep'
    BY <1>3, <1>8, <2>3, <2>11 DEF SetsInStep
  <2>13. ReferenceInStep'
    BY <1>2, <1>3, <1>5, <1>8, <2>7, <2>8 DEF ReferenceInStep
  <2>14. sentFrame' # sentFrame => DecoderFollows
    <3>1. SUFFICES ASSUME sent
                   PROVE  DecoderFollows
      BY <2>8
    <3>2. kind # "idr" => frame.reference = sentFrame.picture
      BY <1>2, <2>2, <2>7, <2>10 DEF EncoderInv, ReferenceInStep
    <3> QED
      BY <1>2, <2>1, <2>7, <2>8, <2>11, <3>1, <3>2 DEF DecoderFollows
  <2>15. IdrIdsDiffer
    BY <1>2 DEF IdrIdsDiffer
  <2> QED
    BY <1>6, <2>9, <2>12, <2>13, <2>14, <2>15 DEF EncoderInv
<1> QED
  BY <1>7, <1>8

LEMMA FailSoftwareStep ==
  ASSUME EncoderInv, FailSoftware
  PROVE  EncoderInv' /\ sentFrame' = sentFrame
<1>1. venc \in EncoderRecord /\ pictures \in Nat
  BY DEF EncoderInv, EncoderTyped
<1>2. /\ backend = "software" /\ pictures' = pictures + 1 /\ venc' = ForceIdr(venc)
      /\ UNCHANGED <<backend, content, sentFrame, idrSets, lostIdrs>>
  BY DEF FailSoftware
<1>3. PICK yes \in BOOLEAN : yes = TRUE
  OBVIOUS
<1>4. venc' = [venc EXCEPT !.force = yes]
  BY <1>2, <1>3 DEF ForceIdr
<1>5. venc' \in EncoderRecord /\ venc'.force = yes
  BY <1>1, <1>4 DEF EncoderRecord
<1>6. EncoderTyped'
  BY <1>1, <1>2, <1>5 DEF EncoderInv, EncoderTyped
<1>7. SetsInStep' /\ ReferenceInStep' /\ NumbersInStep' /\ IdsInStep'
  BY <1>2, <1>3, <1>5 DEF SetsInStep, ReferenceInStep, NumbersInStep, IdsInStep
<1> QED
  BY <1>2, <1>6, <1>7 DEF EncoderInv

LEMMA EncoderStart ==
  ASSUME EncoderInit
  PROVE  EncoderInv
<1>1. PICK packed \in BOOLEAN :
        venc = [force |-> TRUE, count |-> 0, base |-> 0, idrs |-> 0, recon |-> 1, coded |-> 1,
                last |-> NoEntry, cached |-> NoSets, packed |-> packed]
  BY DEF EncoderInit
<1>2. PICK yes \in BOOLEAN, no \in BOOLEAN : yes = TRUE /\ no = FALSE
  OBVIOUS
<1>3. NoEntry \in Entry
  BY DEF NoEntry, Entry
<1>4. venc = [force |-> yes, count |-> 0, base |-> 0, idrs |-> 0, recon |-> 1, coded |-> 1,
              last |-> NoEntry, cached |-> 0, packed |-> packed]
  BY <1>1, <1>2 DEF NoSets
<1>5. venc \in EncoderRecord /\ venc.force = yes
  BY <1>3, <1>4 DEF EncoderRecord, Surfaces, CodedBuffers
<1>6. sentFrame = [idr |-> no, num |-> 0, poc |-> 0, id |-> 0, picture |-> 0, reference |-> 0, sets |-> 0]
  BY <1>2 DEF EncoderInit, NothingSent, NoPicture, NoSets
<1>7. sentFrame \in FrameRecord /\ sentFrame.idr = no
  BY <1>6 DEF FrameRecord
<1>8. EncoderTyped
  BY <1>5, <1>7 DEF EncoderInit, EncoderTyped, NoPicture, NoSets
<1>9. SetsInStep /\ ReferenceInStep /\ NumbersInStep /\ IdsInStep
  BY <1>2, <1>5, <1>7 DEF SetsInStep, ReferenceInStep, NumbersInStep, IdsInStep
<1> QED
  BY <1>8, <1>9 DEF EncoderInv

LEMMA EncoderStep ==
  ASSUME EncoderInv, [EncoderNext]_encoderVars
  PROVE  EncoderInv' /\ (sentFrame' # sentFrame => DecoderFollows /\ IdrIdsDiffer)
<1>1. ASSUME NEW sent \in BOOLEAN, EncodeVaapi(sent)
      PROVE  EncoderInv' /\ (sentFrame' # sentFrame => DecoderFollows /\ IdrIdsDiffer)
  BY <1>1, EncodeVaapiStep
<1>2. ASSUME NEW at \in {"import", "image", "buffer", "render", "output"}, FailVaapi(at)
      PROVE  EncoderInv' /\ sentFrame' = sentFrame
  BY <1>2, FailVaapiStep
<1>3. ASSUME NEW kind \in {"idr", "delta", "skip"}, NEW sent \in BOOLEAN, EncodeSoftware(kind, sent)
      PROVE  EncoderInv' /\ (sentFrame' # sentFrame => DecoderFollows /\ IdrIdsDiffer)
  BY <1>3, EncodeSoftwareStep
<1>4. CASE FailSoftware
  BY <1>4, FailSoftwareStep
<1>5. CASE UNCHANGED encoderVars
  <2>1. sentFrame' = sentFrame
    BY <1>5 DEF encoderVars
  <2>2. EncoderInv'
    BY <1>5 DEF encoderVars, EncoderInv, EncoderTyped, SetsInStep, ReferenceInStep, NumbersInStep,
                InInterval, IdsInStep
  <2> QED
    BY <2>1, <2>2
<1> QED
  BY <1>1, <1>2, <1>3, <1>4, <1>5, Zenon DEF EncoderNext

(* The encoder stays in step with the client: until a picture is lost or   *)
(* its encoding fails, and force_idr has made the next one an IDR picture, *)
(* the cached parameter sets, the reference surface and the frame numbers  *)
(* are those of the frame the client received last (vaapi.rs and h264.rs). *)
THEOREM EncoderInvariant == EncoderSpec => []EncoderInv
<1>1. EncoderInit => EncoderInv
  BY EncoderStart
<1>2. EncoderInv /\ [EncoderNext]_encoderVars => EncoderInv'
  BY EncoderStep
<1> QED
  BY <1>1, <1>2, PTL DEF EncoderSpec

(* Every AVC420 frame that the client is sent can be decoded from those it *)
(* was sent before, after any pattern of failures, skipped and lost        *)
(* frames: slice_numbering never wraps inside an interval of IDR pictures, *)
(* a delta frame predicts from the picture received last, with its         *)
(* sequence's parameter sets, and h264_idr_pic_id differs between          *)
(* consecutive IDR pictures.                                               *)
THEOREM FramesDecodable == EncoderSpec => StreamDecodable
<1>1. EncoderSpec => []EncoderInv
  BY EncoderInvariant
<1>2. EncoderInv /\ [EncoderNext]_encoderVars
        => [sentFrame' # sentFrame => DecoderFollows /\ IdrIdsDiffer]_encoderVars
  BY EncoderStep
<1> QED
  BY <1>1, <1>2, PTL DEF EncoderSpec, StreamDecodable
====
