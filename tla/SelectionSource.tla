---------------------------- MODULE SelectionSource ----------------------------
(***************************************************************************)
(* The desktop's side of a client's selection (clipboard/wayland.rs): the  *)
(* data source the watcher makes for each pending write, the events the    *)
(* compositor sends for it, and the pipes through which content passes.    *)
(*                                                                         *)
(* The watcher is one thread.  Its requests and the compositor's events    *)
(* are two FIFO streams; the compositor, the programs that paste and what  *)
(* libwayland drops are external.  A source is numbered like the write it  *)
(* was made for.                                                           *)
(***************************************************************************)
EXTENDS Naturals, Sequences

CONSTANTS
  MaxWrites,     \* bound on the client's selections
  MaxPastes,     \* bound on the pastes on the desktop
  Stall, Total,  \* PIPE_STALL_TIMEOUT and PIPE_TOTAL_TIMEOUT, in polls of 100 ms
  MaxSize        \* MAX_CLIPBOARD_SIZE, in chunks

ASSUME SelectionSourceAssumption ==
  /\ MaxWrites \in Nat /\ MaxPastes \in Nat /\ MaxSize \in Nat
  /\ Stall \in Nat \ {0} /\ Total \in Nat \ {0}

VARIABLES
  pendingWrite,  \* pending_write: 0, or the number of the write
  writes,        \* writes so far
  active,        \* active_source and active_selection: [source, content]
  destroyed,     \* sources the watcher has destroyed
  requests,      \* to the compositor: "set" and "destroy" of a source
  events,        \* from the compositor: "send" and "cancelled" of a source
  owner,         \* the compositor's selection: a source, or 0
  pastes,        \* pastes so far
  pipe,          \* the transfer the watcher is in: [mode, source, size, want, idle, elapsed]
  outcome        \* history: how the last transfer ended: [mode, result, source, content, size, want]

sourceVars == <<pendingWrite, writes, active, destroyed, requests, events, owner, pastes, pipe, outcome>>

NoSource == [source |-> 0, content |-> 0]
NoPipe == [mode |-> "none", source |-> 0, size |-> 0, want |-> 0, idle |-> 0, elapsed |-> 0]
NoOutcome == [mode |-> "none", result |-> "none", source |-> 0, content |-> 0, size |-> 0, want |-> 0]

SourceInit ==
  /\ pendingWrite = 0 /\ writes = 0 /\ active = NoSource /\ destroyed = {}
  /\ requests = <<>> /\ events = <<>> /\ owner = 0 /\ pastes = 0
  /\ pipe = NoPipe /\ outcome = NoOutcome

Idle == pipe.mode = "none"

-----------------------------------------------------------------------------
(* The RDP task leaves a write; a newer one replaces it.                   *)
PostWrite ==
  /\ writes < MaxWrites /\ writes' = writes + 1 /\ pendingWrite' = writes + 1
  /\ UNCHANGED <<active, destroyed, requests, events, owner, pastes, pipe, outcome>>

Destroy(source) == [type |-> "destroy", source |-> source]
SetSelection(source) == [type |-> "set", source |-> source]

(* Mutant: the previous source is left to the compositor.                  *)
KeepOld == <<destroyed, requests>>
(* "Destroy previous source to prevent protocol object leak"               *)
DestroyOld ==
  IF active.source = 0 THEN <<destroyed, requests>>
  ELSE <<destroyed \cup {active.source}, Append(requests, Destroy(active.source))>>

(* The watcher takes the write and makes the selection of it.              *)
WriteSelection ==
  /\ Idle /\ pendingWrite # 0 /\ pendingWrite' = 0
  /\ destroyed' = DestroyOld[1]
  /\ requests' = Append(DestroyOld[2], SetSelection(pendingWrite))
  /\ active' = [source |-> pendingWrite, content |-> pendingWrite]
  /\ UNCHANGED <<writes, events, owner, pastes, pipe, outcome>>

(* Events of a destroyed source are dropped before they are dispatched.    *)
DropEvent ==
  /\ Idle /\ events # <<>> /\ Head(events).source \in destroyed
  /\ events' = Tail(events)
  /\ UNCHANGED <<pendingWrite, writes, active, destroyed, requests, owner, pastes, pipe, outcome>>

Dispatched(type) ==
  /\ Idle /\ events # <<>> /\ Head(events).type = type /\ Head(events).source \notin destroyed
  /\ events' = Tail(events)

(* Send: the active selection is written to the pipe, whichever source     *)
(* the event is of.                                                        *)
OnSend ==
  /\ Dispatched("send")
  /\ \E want \in 1..2 :
       pipe' = IF active.content = 0 THEN pipe
               ELSE [NoPipe EXCEPT !.mode = "write", !.source = Head(events).source, !.want = want]
  /\ UNCHANGED <<pendingWrite, writes, active, destroyed, requests, owner, pastes, outcome>>

(* Mutant: the source is destroyed, its selection kept.                    *)
ForgetNone(source) == active
(* Cancelled: the source is destroyed, and forgotten if it is the active   *)
(* one.                                                                    *)
Forget(source) == IF source = active.source THEN NoSource ELSE active

OnCancelled ==
  /\ Dispatched("cancelled")
  /\ destroyed' = destroyed \cup {Head(events).source}
  /\ requests' = Append(requests, Destroy(Head(events).source))
  /\ active' = Forget(Head(events).source)
  /\ UNCHANGED <<pendingWrite, writes, owner, pastes, pipe, outcome>>

-----------------------------------------------------------------------------
(* read_pipe_bounded and write_pipe_bounded: a turn of the loop ends the   *)
(* transfer at a deadline, waits in vain, or moves a chunk.                *)

(* A desktop offer is read (read_offer_data).                              *)
ReadOffer ==
  /\ Idle /\ pastes < MaxPastes /\ pastes' = pastes + 1
  /\ \E want \in 1..(MaxSize + 1) : pipe' = [NoPipe EXCEPT !.mode = "read", !.want = want]
  /\ UNCHANGED <<pendingWrite, writes, active, destroyed, requests, events, owner, outcome>>

End(result) ==
  /\ pipe' = NoPipe
  /\ outcome' = [mode |-> pipe.mode, result |-> result, source |-> pipe.source,
                 content |-> active.content, size |-> pipe.size, want |-> pipe.want]

(* Mutant: only the whole transfer has a deadline.                         *)
OnlyTotal == pipe.elapsed >= Total
(* transfer_timed_out *)
TimedOut == pipe.elapsed >= Total \/ pipe.idle >= Stall

PipeDeadline ==
  /\ ~Idle /\ TimedOut /\ End("timedOut")
  /\ UNCHANGED <<pendingWrite, writes, active, destroyed, requests, events, owner, pastes>>

PipeWaits ==
  /\ ~Idle /\ ~TimedOut
  /\ pipe' = [pipe EXCEPT !.idle = @ + 1, !.elapsed = @ + 1]
  /\ UNCHANGED <<pendingWrite, writes, active, destroyed, requests, events, owner, pastes, outcome>>

(* A chunk, the end of the file or an error; a read beyond the limit is    *)
(* given up.                                                               *)
PipeMoves ==
  /\ ~Idle /\ ~TimedOut
  /\ \/ pipe.size < pipe.want /\ ~(pipe.mode = "read" /\ pipe.size + 1 > MaxSize)
        /\ pipe' = [pipe EXCEPT !.size = @ + 1, !.idle = 0] /\ UNCHANGED outcome
     \/ pipe.size < pipe.want /\ pipe.mode = "read" /\ pipe.size + 1 > MaxSize /\ End("tooLarge")
     \/ pipe.size = pipe.want /\ End("done")
     \/ End("error")
  /\ UNCHANGED <<pendingWrite, writes, active, destroyed, requests, events, owner, pastes>>

-----------------------------------------------------------------------------
(* The compositor.  A selection that is replaced is cancelled, unless its  *)
(* source is gone.                                                         *)
Cancelled(source) ==
  IF source = 0 THEN events ELSE Append(events, [type |-> "cancelled", source |-> source])

CompositorTakes ==
  /\ requests # <<>> /\ requests' = Tail(requests)
  /\ LET r == Head(requests) IN
     \/ r.type = "set" /\ owner' = r.source /\ events' = Cancelled(owner)
     \/ /\ r.type = "destroy" /\ owner' = IF owner = r.source THEN 0 ELSE owner
        /\ UNCHANGED events
  /\ UNCHANGED <<pendingWrite, writes, active, destroyed, pastes, pipe, outcome>>

DesktopPastes ==
  /\ owner # 0 /\ pastes < MaxPastes /\ pastes' = pastes + 1
  /\ events' = Append(events, [type |-> "send", source |-> owner])
  /\ UNCHANGED <<pendingWrite, writes, active, destroyed, requests, owner, pipe, outcome>>

DesktopTakesOver ==
  /\ owner # 0 /\ owner' = 0 /\ events' = Cancelled(owner)
  /\ UNCHANGED <<pendingWrite, writes, active, destroyed, requests, pastes, pipe, outcome>>

-----------------------------------------------------------------------------
SourceNext ==
  \/ PostWrite \/ WriteSelection \/ DropEvent \/ OnSend \/ OnCancelled \/ ReadOffer
  \/ PipeDeadline \/ PipeWaits \/ PipeMoves
  \/ CompositorTakes \/ DesktopPastes \/ DesktopTakesOver

SourceSpec == SourceInit /\ [][SourceNext]_sourceVars

-----------------------------------------------------------------------------
(* A program is sent the content of the selection it pasted, although the  *)
(* handler looks at the active one and a newer write may have replaced it  *)
(* while the event was on the way.                                         *)
PasteServesOwn == outcome.mode = "write" => outcome.content = outcome.source

(* Once both streams are drained the watcher serves exactly the selection  *)
(* that is the compositor's: no paste is ignored, no replaced selection is *)
(* kept.                                                                   *)
OwnedIsServed == requests = <<>> /\ events = <<>> => active.source = owner

(* "Read up to max_size bytes from a pipe without unbounded blocking"      *)
(* (wayland.rs:577): a peer that stalls or trickles holds the watcher no   *)
(* longer than the deadlines, and what is returned is all there was.       *)
TransferBounded ==
  /\ pipe.elapsed <= Total /\ pipe.idle <= Stall
  /\ outcome.result = "done" => outcome.size = outcome.want
  /\ outcome.mode = "read" => outcome.size <= MaxSize

(* Every paste gets the content of the selection it was made on, and no    *)
(* program can hold the watcher.                                           *)
SelectionServed ==
  /\ PasteServesOwn
  /\ OwnedIsServed
  /\ TransferBounded
===============================================================================
