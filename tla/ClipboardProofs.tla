--------------------------- MODULE ClipboardProofs ---------------------------
(***************************************************************************)
(* Proofs about Clipboard for every number of copies, readers and requests *)
(* and every limit: outstanding reads belong to selections that serve, and *)
(* the unpublished write to the live selection.                            *)
(***************************************************************************)
EXTENDS Clipboard, TLAPS

(* The records that steps update have the fields of the code's structs;    *)
(* retired generations are older than the current one.                     *)
Shape ==
  /\ DOMAIN transfer = {"gen", "closed", "stream", "locking", "current", "retiring"}
  /\ transfer.gen \in Nat
  /\ DOMAIN transfer.retiring \subseteq 0..(transfer.gen - 1)

Fields ==
  /\ DOMAIN service = {"dirty", "closed", "job"} /\ DOMAIN mount = {"pc", "job"}
  /\ DOMAIN rdp = {"pc", "content", "gen"} /\ DOMAIN watcher = {"pc", "content"}

(* Locks cover contents of the client, which are never 0.                  *)
LocksCover == 0 \notin locks /\ (rdp.pc = "release" => rdp.content # 0)

(* A request, a job, a mount and a write refer to generations there were.  *)
Bounded ==
  /\ request.gen \in 0..transfer.gen /\ request.nextGen \in 0..transfer.gen
  /\ rdp.gen \in 0..transfer.gen
  /\ service.job \in 0..transfer.gen /\ mount.job \in 0..transfer.gen
  /\ write.gen \in 0..transfer.gen

(* The generation a request was sent for has no files yet.                 *)
Fresh(g) == g # 0 /\ g = transfer.gen => transfer.current = Empty
RequestsFresh ==
  /\ Fresh(request.gen) /\ Fresh(request.nextGen)
  /\ rdp.pc \in {"copyDrop", "copyDecide"} => Fresh(rdp.gen)

(* What is mounted or written has files.                                   *)
PublishedFiles ==
  /\ mount.pc = "create" /\ mount.job = transfer.gen => transfer.current.roots
  /\ write.kind = "files" /\ write.gen = transfer.gen => transfer.current.roots

(* A release of locks knows the generation it may end.                     *)
ReleaseKnows ==
  rdp.pc = "release" /\ Live(transfer, transfer.gen)
    => rdp.gen = transfer.gen \/ transfer.current = Empty

ClipboardInv ==
  /\ Shape /\ Fields /\ LocksCover /\ Bounded /\ RequestsFresh /\ PublishedFiles /\ ReleaseKnows
  /\ UnpublishedLive /\ PendingServable

-----------------------------------------------------------------------------
(* The operations on the transfer state.                                   *)

(* retire_current starts a new generation and fails the reads of every     *)
(* selection that it ends or evicts, and of no other.                      *)
LEMMA RetireStep ==
  ASSUME Shape, PendingServable, NEW STATE accepted, RetireCurrent(accepted)
  PROVE  /\ Shape' /\ PendingServable'
         /\ transfer'.gen = transfer.gen + 1 /\ transfer'.current = accepted
         /\ transfer'.closed = transfer.closed /\ transfer'.stream = transfer.stream
<1> DEFINE R == Retired(transfer)
<1>1. /\ transfer'.gen = transfer.gen + 1 /\ transfer'.current = accepted
      /\ transfer'.closed = transfer.closed /\ transfer'.stream = transfer.stream
      /\ transfer'.retiring = R.retiring /\ DOMAIN transfer' = DOMAIN transfer
  BY DEF RetireCurrent, Shape
<1>2. DOMAIN R.retiring \subseteq DOMAIN transfer.retiring \cup {transfer.gen}
  BY DEF Retired, Without
<1>3. Shape'
  <2> HIDE DEF R
  <2> QED BY <1>1, <1>2 DEF Shape
<1>4. ASSUME NEW g, g \notin R.released, g = transfer.gen \/ g \in DOMAIN transfer.retiring
      PROVE  g \in DOMAIN R.retiring
  BY <1>4 DEF Retired, Without
<1>5. PendingServable'
  <2> SUFFICES ASSUME NEW id \in DOMAIN pending' PROVE Servable(transfer, pending[id].gen)'
    BY DEF PendingServable
  <2>1. id \in DOMAIN pending /\ pending'[id] = pending[id] /\ pending[id].gen \notin R.released
    BY DEF RetireCurrent, FailPending
  <2>2. Servable(transfer, pending[id].gen)
    BY <2>1 DEF PendingServable
  <2>3. pending[id].gen \in DOMAIN R.retiring
    BY <1>4, <2>1, <2>2 DEF Servable
  <2> QED
    BY <1>1, <2>1, <2>2, <2>3 DEF Servable
<1> QED
  BY <1>1, <1>3, <1>5

(* release_locks ends exactly the selections its lock covers.              *)
LEMMA ReleaseStep ==
  ASSUME Shape, PendingServable, ReleaseLocks
  PROVE  /\ Shape' /\ PendingServable'
         /\ transfer'.closed = transfer.closed /\ transfer'.stream = transfer.stream
         /\ IF transfer.gen \in Covered(rdp.content)
            THEN transfer'.gen = transfer.gen + 1 /\ transfer'.current = Empty
            ELSE transfer'.gen = transfer.gen /\ transfer'.current = transfer.current
<1> DEFINE gens == Covered(rdp.content)
           base == IF transfer.gen \in gens
                   THEN [transfer EXCEPT !.gen = @ + 1, !.current = Empty] ELSE transfer
<1>1. /\ transfer' = [base EXCEPT !.retiring = Without(@, gens)]
      /\ pending' = FailPending(pending, gens)
  BY DEF ReleaseLocks
<1>2. /\ transfer'.closed = transfer.closed /\ transfer'.stream = transfer.stream
      /\ IF transfer.gen \in gens
         THEN transfer'.gen = transfer.gen + 1 /\ transfer'.current = Empty
         ELSE transfer'.gen = transfer.gen /\ transfer'.current = transfer.current
      /\ transfer'.retiring = Without(transfer.retiring, gens) /\ DOMAIN transfer' = DOMAIN transfer
  <2> HIDE DEF gens
  <2> QED BY <1>1 DEF Shape
<1>3. Shape'
  <2> HIDE DEF gens
  <2> QED BY <1>2 DEF Shape, Without
<1>4. PendingServable'
  <2> SUFFICES ASSUME NEW id \in DOMAIN pending' PROVE Servable(transfer, pending[id].gen)'
    BY DEF PendingServable
  <2> HIDE DEF gens
  <2>1. id \in DOMAIN pending /\ pending'[id] = pending[id] /\ pending[id].gen \notin gens
    BY <1>1 DEF FailPending
  <2>2. Servable(transfer, pending[id].gen)
    BY <2>1 DEF PendingServable
  <2> QED
    BY <1>2, <2>1, <2>2 DEF Servable, Without
<1> QED
  BY <1>2, <1>4, <1>3

(* Steps that touch nothing the invariant speaks of.                       *)
LEMMA FrameStep ==
  ASSUME ClipboardInv,
         UNCHANGED <<transfer, pending, write, request, rdp, service, mount, locks, watcher>>
  PROVE  ClipboardInv'
BY DEF ClipboardInv, Shape, Fields, LocksCover, Bounded, RequestsFresh, Fresh, PublishedFiles,
       ReleaseKnows,
       UnpublishedLive, RetireUnderway, PendingServable, Live, Servable

-----------------------------------------------------------------------------

(* The parts of the invariant that speak of the generations, at a step     *)
(* that starts a new one: nothing refers to it yet.                        *)
LEMMA NewGeneration ==
  ASSUME ClipboardInv, Shape', transfer'.gen = transfer.gen + 1,
         UNCHANGED <<write, request, service, mount>>,
         rdp'.gen \in 0..transfer'.gen,
         rdp'.pc \in {"copyDrop", "copyDecide"} /\ rdp'.gen = transfer'.gen
           => transfer'.current = Empty
  PROVE  Bounded' /\ RequestsFresh' /\ PublishedFiles'
BY DEF ClipboardInv, Shape, Bounded, RequestsFresh, Fresh, PublishedFiles

(* The invariant holds initially.                                          *)
LEMMA InitInv == Init => ClipboardInv
<1> SUFFICES ASSUME Init PROVE ClipboardInv
  OBVIOUS
<1>1. Shape /\ Fields /\ LocksCover /\ Bounded
  BY DEF Init, Shape, Fields, NoEntries, LocksCover, Bounded, IdleRdp, NoRequest, NoWrite
<1>2. RequestsFresh /\ PublishedFiles /\ ReleaseKnows /\ UnpublishedLive
  BY DEF Init, RequestsFresh, Fresh, PublishedFiles, ReleaseKnows, UnpublishedLive, IdleRdp,
         NoRequest, NoWrite
<1>3. PendingServable
  BY DEF Init, PendingServable, NoEntries
<1> QED
  BY <1>1, <1>2, <1>3 DEF ClipboardInv

(* Every step of the client and of IronRDP keeps the invariant.            *)
LEMMA ClientStep ==
  ASSUME ClipboardInv, ClientCopy \/ ClientReceive \/ ClientAnswer
  PROVE  ClipboardInv'
<1>1. CASE ClientCopy
  BY <1>1, FrameStep DEF ClientCopy, readVars, requestVars, mountVars
<1>2. CASE ClientAnswer
  BY <1>2, FrameStep DEF ClientAnswer, readVars, requestVars, mountVars
<1>3. CASE ClientReceive
  <2>1. /\ UNCHANGED <<transfer, pending, write, request, rdp, service, mount, watcher>>
        /\ locks' = locks \/ (clip \in Remote /\ locks' = locks \cup {clip})
    BY <1>3 DEF ClientReceive, readVars, requestVars, mountVars
  <2>2. LocksCover'
    BY <2>1, ClipboardAssumption DEF ClipboardInv, LocksCover, Remote
  <2> QED
    BY <2>1, <2>2 DEF ClipboardInv, Shape, Fields, Bounded, RequestsFresh, Fresh, PublishedFiles, ReleaseKnows,
       UnpublishedLive, RetireUnderway, PendingServable, Live, Servable
<1> QED
  BY <1>1, <1>2, <1>3

(* Negotiation and the end of a connection: no selection is left.          *)
LEMMA EndsStep ==
  ASSUME ClipboardInv, Negotiate \/ Close \/ CloseService \/ JoinWatcher
  PROVE  ClipboardInv'
<1> USE DEF ClipboardInv
<1>1. CASE Negotiate
  <2>1. Shape' /\ (transfer' = transfer \/ (transfer'.gen = transfer.gen + 1 /\ transfer'.current = Empty))
    <3>1. PICK stream, locking \in BOOLEAN :
            \/ transfer' = [Shutdown(transfer) EXCEPT !.stream = stream, !.locking = locking]
            \/ transfer' = transfer
      BY <1>1 DEF Negotiate
    <3>2. CASE transfer' = [Shutdown(transfer) EXCEPT !.stream = stream, !.locking = locking]
      <4>1. /\ DOMAIN Shutdown(transfer) = DOMAIN transfer
            /\ Shutdown(transfer).gen = transfer.gen + 1 /\ Shutdown(transfer).current = Empty
            /\ Shutdown(transfer).retiring = NoEntries
        BY DEF Shutdown, Shape
      <4> QED BY <3>2, <4>1 DEF Shape, NoEntries
    <3> QED BY <3>1, <3>2 DEF Shape
  <2>2. PendingServable'
    BY <1>1 DEF Negotiate, PendingServable, NoEntries
  <2>3. Fields' /\ LocksCover' /\ UNCHANGED <<request, mount>> /\ service'.job = service.job
    BY <1>1 DEF Negotiate, Fields, LocksCover, IdleRdp, Notify, requestVars, mountVars
  <2>4. /\ write' = NoWrite \/ write' = write
        /\ write'.kind # "files" /\ rdp' = IdleRdp
    BY <1>1 DEF Negotiate, DropUnpublished, NoWrite
  <2> QED
    BY <2>1, <2>2, <2>3, <2>4
    DEF Shape, Bounded, RequestsFresh, Fresh, PublishedFiles, ReleaseKnows, UnpublishedLive, NoWrite,
        IdleRdp, Empty
<1>2. CASE Close
  <2>1. /\ Shape' /\ transfer'.gen = transfer.gen + 1 /\ transfer'.closed
    <3>1. /\ DOMAIN Shutdown(transfer) = DOMAIN transfer
          /\ Shutdown(transfer).gen = transfer.gen + 1 /\ Shutdown(transfer).retiring = NoEntries
      BY DEF Shutdown, Shape
    <3> QED BY <1>2, <3>1 DEF Close, Shape, NoEntries
  <2>2. PendingServable'
    BY <1>2 DEF Close, PendingServable, NoEntries
  <2>3. /\ Fields' /\ LocksCover' /\ UNCHANGED <<mount, service, write>>
        /\ request' = NoRequest /\ rdp'.pc = "closing" /\ rdp'.gen = 0
    BY <1>2 DEF Close, Fields, LocksCover, IdleRdp, mountVars
  <2> QED
    BY <2>1, <2>2, <2>3
    DEF Shape, Bounded, RequestsFresh, Fresh, PublishedFiles, ReleaseKnows, UnpublishedLive,
        RetireUnderway, NoRequest
<1>3. CASE CloseService
  <2>1. /\ Fields' /\ LocksCover' /\ UNCHANGED <<mount, request, transfer, pending>>
        /\ service'.job = service.job /\ rdp'.pc = "joining" /\ rdp'.gen = 0
    BY <1>3 DEF CloseService, Fields, LocksCover, IdleRdp, mountVars, requestVars, readVars
  <2>2. /\ write' = NoWrite \/ write' = write
        /\ write'.kind # "files"
    BY <1>3 DEF CloseService, DropUnpublished, NoWrite
  <2> QED
    BY <2>1, <2>2
    DEF Shape, Bounded, RequestsFresh, Fresh, PublishedFiles, ReleaseKnows, UnpublishedLive, NoWrite,
        PendingServable, Servable
<1>4. CASE JoinWatcher
  <2>1. /\ Fields' /\ LocksCover' /\ UNCHANGED <<mount, request, service, transfer, pending, write>>
        /\ rdp'.pc = "closed" /\ rdp'.gen = 0 /\ rdp.pc = "joining" /\ watcher.pc = "idle"
    BY <1>4 DEF JoinWatcher, Fields, LocksCover, IdleRdp, mountVars, requestVars, readVars
  <2> QED
    BY <2>1
    DEF Shape, Bounded, RequestsFresh, Fresh, PublishedFiles, ReleaseKnows, UnpublishedLive, NoWrite,
        PendingServable, Servable, RetireUnderway, Live
<1> QED
  BY <1>1, <1>2, <1>3, <1>4

(* A new request is for the generation it was asked for.                   *)
LEMMA RequestGen ==
  ASSUME NEW STATE format, NEW STATE gen, RequestSelection(format, gen)
  PROVE  request'.gen = gen /\ request'.nextGen = 0
<1>1. request' = [NoRequest EXCEPT !.state = "waiting", !.gen = gen]
  BY DEF RequestSelection
<1> QED BY <1>1 DEF NoRequest

(* Format lists and answers.                                               *)
LEMMA RequestStep ==
  ASSUME ClipboardInv,
         OnRemoteCopy \/ RemoteCopyDrop \/ RemoteCopyDecide \/ OnFormatData \/ OnFileList \/ PostJob
  PROVE  ClipboardInv'
<1> USE DEF ClipboardInv
<1>1. CASE OnRemoteCopy
  <2>1. RetireCurrent(Empty)
    BY <1>1 DEF OnRemoteCopy
  <2>2. /\ Shape' /\ PendingServable' /\ transfer'.gen = transfer.gen + 1
        /\ transfer'.current = Empty
    BY <2>1, RetireStep
  <2>3. /\ Fields' /\ LocksCover' /\ UNCHANGED <<mount, request, service, write>>
        /\ rdp'.pc = "copyDrop" /\ rdp'.gen \in {0, transfer'.gen}
    BY <1>1 DEF OnRemoteCopy, Fields, LocksCover, mountVars, requestVars
  <2>4. Bounded' /\ RequestsFresh' /\ PublishedFiles'
    BY <2>2, <2>3, NewGeneration DEF Shape
  <2> QED
    BY <2>2, <2>3, <2>4 DEF ReleaseKnows, UnpublishedLive, RetireUnderway
<1>2. CASE RemoteCopyDrop
  <2>1. /\ Fields' /\ LocksCover' /\ UNCHANGED <<mount, request, transfer, pending>>
        /\ service'.job = service.job /\ rdp'.pc = "copyDecide" /\ rdp'.gen = rdp.gen
        /\ rdp.pc = "copyDrop"
    BY <1>2 DEF RemoteCopyDrop, Notify, Fields, LocksCover, mountVars, requestVars, readVars
  <2>2. /\ write' = NoWrite \/ write' = write
        /\ write'.kind # "files"
    BY <1>2 DEF RemoteCopyDrop, DropUnpublished, NoWrite
  <2> QED
    BY <2>1, <2>2
    DEF Shape, Bounded, RequestsFresh, Fresh, PublishedFiles, ReleaseKnows, UnpublishedLive, NoWrite,
        PendingServable, Servable
<1>3. CASE RemoteCopyDecide
  <2>1. /\ Fields' /\ LocksCover' /\ UNCHANGED <<mount, service, transfer, pending, write, watcher>>
        /\ rdp'.pc = "idle" /\ rdp'.gen = 0 /\ rdp.pc = "copyDecide"
    BY <1>3 DEF RemoteCopyDecide, Fields, LocksCover, mountVars, readVars, IdleRdp
  <2>2. request'.gen \in {0, request.gen, rdp.gen} /\ request'.nextGen \in {0, request.nextGen, rdp.gen}
    <3> DEFINE files == KindOf(rdp.content) = "files"
               format == IF ~files THEN "text"
                         ELSE IF transfer.stream /\ ~transfer.closed THEN "files" ELSE "none"
               gen == IF format = "files" THEN rdp.gen ELSE 0
    <3>1. RequestOrDrain(format, gen)
      BY <1>3 DEF RemoteCopyDecide
    <3>2. gen \in {0, rdp.gen}
      OBVIOUS
    <3> HIDE DEF format, gen
    <3>3. \/ request' = [state |-> "draining", gen |-> 0, next |-> format, nextGen |-> gen]
          \/ request' = request \/ RequestSelection(format, gen)
      BY <3>1 DEF RequestOrDrain
    <3> QED BY <3>2, <3>3, RequestGen
  <2> QED
    BY <2>1, <2>2
    DEF Shape, Bounded, RequestsFresh, Fresh, PublishedFiles, ReleaseKnows, UnpublishedLive,
        RetireUnderway, Live, PendingServable, Servable
<1>4. ASSUME FinishRequest
      PROVE  request'.gen \in {0, request.nextGen} /\ request'.nextGen = 0
  <2>1. RequestSelection(request.next, request.nextGen) \/ request' = NoRequest
    BY <1>4 DEF FinishRequest
  <2> QED BY <2>1, RequestGen DEF NoRequest
<1>5. CASE OnFormatData
  <2>1. /\ UNCHANGED <<mount, service, transfer, pending, rdp, locks, watcher>>
        /\ write' = write \/ (write'.kind = "text" /\ write'.gen = 0)
    BY <1>5 DEF OnFormatData, mountVars, readVars
  <2>2. request'.gen \in {0, request.nextGen} /\ request'.nextGen = 0
    BY <1>4, <1>5 DEF OnFormatData, NoRequest
  <2> QED
    BY <2>1, <2>2
    DEF Shape, Fields, LocksCover, Bounded, RequestsFresh, Fresh, PublishedFiles, ReleaseKnows,
        UnpublishedLive, RetireUnderway, Live, PendingServable, Servable
<1>6. CASE OnFileList
  <2>1. UNCHANGED <<mount, service, locks, watcher, write>> /\ rdp.pc = "idle"
    BY <1>6 DEF OnFileList, Arrived, mountVars
  <2>2. request'.gen \in {0, request.gen, request.nextGen} /\ request'.nextGen \in {0, request.nextGen}
    BY <1>4, <1>6 DEF OnFileList, NoRequest, requestVars
  <2>3. CASE UNCHANGED <<transfer, pending, rdp>>
    BY <2>1, <2>2, <2>3
    DEF Shape, Fields, LocksCover, Bounded, RequestsFresh, Fresh, PublishedFiles, ReleaseKnows,
        UnpublishedLive, RetireUnderway, Live, PendingServable, Servable
  <2>4. CASE ~UNCHANGED <<transfer, pending, rdp>>
    <3>1. /\ Live(transfer, request.gen) /\ request.gen # 0
          /\ request' = NoRequest
          /\ \E roots \in BOOLEAN :
               RetireCurrent([content |-> Head(toServer).content, roots |-> roots,
                              lock |-> IF transfer.locking THEN Head(toServer).content ELSE 0])
          /\ rdp' = [IdleRdp EXCEPT !.pc = "job", !.gen = transfer'.gen]
      BY <1>6, <2>4 DEF OnFileList
    <3>2. Shape' /\ PendingServable' /\ transfer'.gen = transfer.gen + 1
      BY <3>1, RetireStep
    <3>3. transfer.current = Empty
      BY <3>1 DEF Live, RequestsFresh, Fresh
    <3>4. ~RetireUnderway' => write'.kind # "files"
      BY <2>1, <3>3 DEF UnpublishedLive, RetireUnderway, PublishedFiles, Live, Empty
    <3>5. Fields' /\ LocksCover' /\ rdp'.pc = "job" /\ rdp'.gen = transfer'.gen
      BY <2>1, <3>1 DEF Fields, LocksCover, IdleRdp
    <3>6. Bounded' /\ RequestsFresh' /\ PublishedFiles'
      BY <2>1, <3>1, <3>2, <3>5 DEF Shape, Bounded, RequestsFresh, Fresh, PublishedFiles, NoRequest
    <3> QED
      BY <3>2, <3>4, <3>5, <3>6 DEF ReleaseKnows, UnpublishedLive
  <2> QED
    BY <2>3, <2>4
<1>7. CASE PostJob
  <2>1. /\ Fields' /\ LocksCover' /\ UNCHANGED <<mount, request, transfer, pending, write, watcher>>
        /\ service'.job = rdp.gen /\ rdp'.pc = "idle" /\ rdp'.gen = 0 /\ rdp.pc = "job"
    BY <1>7 DEF PostJob, Fields, LocksCover, mountVars, requestVars, readVars, IdleRdp
  <2> QED
    BY <2>1
    DEF Shape, Bounded, RequestsFresh, Fresh, PublishedFiles, ReleaseKnows, UnpublishedLive,
        RetireUnderway, Live, PendingServable, Servable
<1> QED
  BY <1>1, <1>2, <1>3, <1>5, <1>6, <1>7

(* The release of locks.                                                   *)
LEMMA LocksStep ==
  ASSUME ClipboardInv, (\E c \in Contents : LocksCleared(c)) \/ ReleaseLocks \/ ReleaseNotify
  PROVE  ClipboardInv'
<1> USE DEF ClipboardInv
<1>1. ASSUME NEW c \in Contents, LocksCleared(c) PROVE ClipboardInv'
  <2>1. /\ Fields' /\ LocksCover' /\ UNCHANGED <<mount, request, service, transfer, pending, write, watcher>>
        /\ rdp'.pc = "release" /\ rdp.pc = "idle"
        /\ rdp'.gen = IF Live(transfer, transfer.gen) THEN transfer.gen ELSE 0
    BY <1>1 DEF LocksCleared, Fields, LocksCover, mountVars, requestVars, readVars
  <2> QED
    BY <2>1
    DEF Shape, Bounded, RequestsFresh, Fresh, PublishedFiles, ReleaseKnows, UnpublishedLive,
        RetireUnderway, Live, PendingServable, Servable
<1>2. CASE ReleaseLocks
  <2> DEFINE gens == Covered(rdp.content)
  <2>1. /\ UNCHANGED <<mount, request, service, write, watcher, locks>> /\ rdp.pc = "release"
        /\ rdp' = IF gens = {} THEN IdleRdp
                  ELSE [rdp EXCEPT !.pc = IF rdp.gen \in gens THEN "releaseDrop" ELSE "releaseNotify"]
    BY <1>2 DEF ReleaseLocks, mountVars, requestVars
  <2>2. /\ Shape' /\ PendingServable'
        /\ transfer'.closed = transfer.closed /\ transfer'.stream = transfer.stream
        /\ IF transfer.gen \in gens
           THEN transfer'.gen = transfer.gen + 1 /\ transfer'.current = Empty
           ELSE transfer'.gen = transfer.gen /\ transfer'.current = transfer.current
    BY <1>2, ReleaseStep
  <2>3. ASSUME transfer.gen \in gens, Live(transfer, transfer.gen)
        PROVE  rdp'.pc = "releaseDrop"
    <3>1. transfer.current.lock = rdp.content /\ rdp.content # 0
      BY <2>1, <2>3 DEF Covered, Shape, LocksCover
    <3>2. rdp.gen = transfer.gen
      BY <2>1, <2>3, <3>1 DEF ReleaseKnows, Empty
    <3> HIDE DEF gens
    <3> QED BY <2>1, <2>3, <3>2 DEF Fields
  <2> HIDE DEF gens
  <2>4. /\ Fields' /\ LocksCover' /\ rdp'.gen \in {0, rdp.gen}
        /\ rdp'.pc \in {"idle", "releaseDrop", "releaseNotify"}
    BY <2>1 DEF Fields, LocksCover, IdleRdp
  <2>5. Bounded' /\ RequestsFresh' /\ PublishedFiles'
    BY <2>1, <2>2, <2>4 DEF Shape, Bounded, RequestsFresh, Fresh, PublishedFiles
  <2>6. UnpublishedLive'
    BY <2>1, <2>2, <2>3, <2>4 DEF UnpublishedLive, RetireUnderway, Live
  <2> QED
    BY <2>2, <2>4, <2>5, <2>6 DEF ReleaseKnows
<1>3. CASE ReleaseNotify
  <2>1. /\ Fields' /\ LocksCover' /\ UNCHANGED <<mount, request, transfer, pending, watcher>>
        /\ service'.job = service.job /\ rdp'.pc = "idle" /\ rdp'.gen = 0
        /\ rdp.pc \in {"releaseDrop", "releaseNotify"}
    BY <1>3 DEF ReleaseNotify, Notify, Fields, LocksCover, mountVars, requestVars, readVars, IdleRdp
  <2>2. /\ write' = NoWrite \/ write' = write
        /\ rdp.pc = "releaseDrop" => write'.kind # "files"
    BY <1>3 DEF ReleaseNotify, DropUnpublished, NoWrite
  <2> QED
    BY <2>1, <2>2
    DEF Shape, Bounded, RequestsFresh, Fresh, PublishedFiles, ReleaseKnows, UnpublishedLive, NoWrite,
        RetireUnderway, Live, PendingServable, Servable
<1> QED
  BY <1>1, <1>2, <1>3

(* The desktop and its watcher.                                            *)
LEMMA WatcherStep ==
  ASSUME ClipboardInv, DesktopCopy \/ SuppressionEnds \/ Watcher
  PROVE  ClipboardInv'
<1> USE DEF readVars, requestVars, mountVars, desktopVars
<1>1. CASE DesktopCopy
  BY <1>1, FrameStep DEF DesktopCopy
<1>2. CASE SuppressionEnds
  BY <1>2, FrameStep DEF SuppressionEnds
<1>3. CASE WatchWrite
  <2>1. /\ UNCHANGED <<mount, request, service, transfer, pending, watcher, rdp, locks>>
        /\ write'.kind = "none" /\ write'.gen = 0
    BY <1>3 DEF WatchWrite, NoWrite
  <2> QED
    BY <2>1
    DEF ClipboardInv, Shape, Fields, LocksCover, Bounded, RequestsFresh, Fresh, PublishedFiles,
        ReleaseKnows, UnpublishedLive, Live, PendingServable, Servable
<1>4. CASE WatchSelection
  <2>1. UNCHANGED <<mount, request, service, write, rdp, locks>>
    BY <1>4 DEF WatchSelection
  <2>2. CASE suppress
    BY <1>4, <2>1, <2>2, FrameStep DEF WatchSelection
  <2>3. CASE ~suppress
    <3>1. RetireCurrent(Empty) /\ watcher'.pc = "drop" /\ DOMAIN watcher' = {"pc", "content"}
      BY <1>4, <2>3 DEF WatchSelection
    <3>2. Shape' /\ PendingServable' /\ transfer'.gen = transfer.gen + 1 /\ transfer'.current = Empty
      BY <3>1, RetireStep DEF ClipboardInv
    <3>3. Bounded' /\ RequestsFresh' /\ PublishedFiles'
      BY <2>1, <3>2, NewGeneration DEF ClipboardInv, Bounded, Shape
    <3> QED
      BY <2>1, <3>1, <3>2, <3>3
      DEF ClipboardInv, Fields, LocksCover, ReleaseKnows, UnpublishedLive, RetireUnderway
  <2> QED
    BY <2>2, <2>3
<1>5. CASE WatchDrop
  <2>1. /\ Fields' /\ LocksCover' /\ UNCHANGED <<mount, request, transfer, pending, rdp>>
        /\ service'.job = service.job
    BY <1>5 DEF WatchDrop, Notify, ClipboardInv, Fields, LocksCover
  <2>2. /\ write' = NoWrite \/ write' = write
        /\ write'.kind # "files"
    BY <1>5 DEF WatchDrop, DropUnpublished, NoWrite
  <2> QED
    BY <2>1, <2>2
    DEF ClipboardInv, Shape, Bounded, RequestsFresh, Fresh, PublishedFiles, ReleaseKnows,
        UnpublishedLive, NoWrite, Live, PendingServable, Servable
<1>6. CASE WatchRead \/ WatchSend
  <2>1. /\ Fields' /\ UNCHANGED <<mount, request, service, transfer, pending, write, rdp, locks>>
        /\ watcher.pc # "drop"
    BY <1>6 DEF WatchRead, WatchSend, ClipboardInv, Fields
  <2> QED
    BY <2>1
    DEF ClipboardInv, Shape, LocksCover, Bounded, RequestsFresh, Fresh, PublishedFiles, ReleaseKnows,
        UnpublishedLive, RetireUnderway, Live, PendingServable, Servable
<1> QED
  BY <1>1, <1>2, <1>3, <1>4, <1>5, <1>6 DEF Watcher

(* The mount service publishes only the live selection.                    *)
LEMMA MountStep ==
  ASSUME ClipboardInv, MountService
  PROVE  ClipboardInv'
<1> USE DEF ClipboardInv
<1>1. UNCHANGED <<request, transfer, pending, rdp, watcher, locks>>
  BY DEF MountService, MountTake, MountReconcile, MountPublish, readVars, requestVars
<1>2. Fields' /\ mount'.job \in {0, mount.job, service.job} /\ service'.job \in {0, service.job}
  <2>1. CASE MountTake
    <3>1. CASE service.closed
      <4>1. mount' = [mount EXCEPT !.pc = "ended"] /\ service' = service
        BY <2>1, <3>1 DEF MountTake
      <4> QED BY <4>1, <1>1 DEF Fields
    <3>2. CASE ~service.closed
      <4>1. /\ mount' = [pc |-> "reconcile", job |-> service.job]
            /\ service' = [service EXCEPT !.dirty = FALSE, !.job = 0]
        BY <2>1, <3>2 DEF MountTake
      <4> QED BY <4>1, <1>1 DEF Fields
    <3> QED BY <3>1, <3>2
  <2>2. CASE MountReconcile
    BY <2>2, <1>1 DEF MountReconcile, Fields
  <2>3. CASE MountPublish
    BY <2>3, <1>1 DEF MountPublish, Fields
  <2> QED
    BY <2>1, <2>2, <2>3 DEF MountService
<1>3. mount'.pc = "create" => mount'.job = mount.job /\ Live(transfer, mount.job) /\ transfer.current.roots
  BY DEF MountService, MountTake, MountReconcile, MountPublish, Fields
<1>4. \/ write' = write
      \/ /\ write'.kind = "files" /\ write'.gen = mount.job /\ Live(transfer, mount.job)
         /\ mount.pc = "create"
  BY DEF MountService, MountTake, MountReconcile, MountPublish, Publishable
<1> QED
  BY <1>1, <1>2, <1>3, <1>4
  DEF Shape, LocksCover, Bounded, RequestsFresh, Fresh, PublishedFiles, ReleaseKnows,
      UnpublishedLive, RetireUnderway, Live, PendingServable, Servable

(* Reads, their answers and their timeouts.                                *)
LEMMA ReadStep ==
  ASSUME ClipboardInv,
         \/ OnFileContents
         \/ \E r \in Readers : ReaderStep(r)
         \/ \E id \in Ids : ReadTimeout(id)
  PROVE  ClipboardInv'
<1> USE DEF requestVars, mountVars
<1>1. UNCHANGED <<request, transfer, rdp, watcher, locks, service, mount, write>>
  BY DEF OnFileContents, ReaderStep, ReadBegin, ReadSubmit, ReadEnd, ReadTimeout
<1>2. PendingServable'
  <2> SUFFICES ASSUME NEW id \in DOMAIN pending' PROVE Servable(transfer, pending'[id].gen)
    BY <1>1 DEF PendingServable, Servable
  <2>1. ASSUME NEW r \in Readers, ReadSubmit(r), pending' # pending
        PROVE  \/ id \in DOMAIN pending /\ pending'[id] = pending[id]
               \/ pending'[id].gen = reader[r].gen /\ Servable(transfer, reader[r].gen)
    BY <2>1 DEF ReadSubmit, Submit
  <2>2. ASSUME OnFileContents \/ (\E i \in Ids : ReadTimeout(i))
        PROVE  id \in DOMAIN pending /\ pending'[id] = pending[id]
    BY <2>2 DEF OnFileContents, ReadTimeout, Without
  <2>3. ASSUME NEW r \in Readers, ReadBegin(r) \/ ReadEnd(r) PROVE pending' = pending
    BY <2>3 DEF ReadBegin, ReadEnd
  <2> QED
    BY <2>1, <2>2, <2>3 DEF ReaderStep, ClipboardInv, PendingServable
<1> QED
  BY <1>1, <1>2
  DEF ClipboardInv, Shape, Fields, LocksCover, Bounded, RequestsFresh, Fresh, PublishedFiles,
      ReleaseKnows, UnpublishedLive, RetireUnderway, Live

(* The invariant is inductive.                                             *)
THEOREM ClipboardInvariant == Spec => []ClipboardInv
<1>1. ClipboardInv /\ [Next]_vars => ClipboardInv'
  <2> SUFFICES ASSUME ClipboardInv, [Next]_vars PROVE ClipboardInv'
    OBVIOUS
  <2>1. CASE UNCHANGED vars
    BY <2>1, FrameStep DEF vars, readVars, requestVars, mountVars
  <2>2. CASE Next
    BY <2>2, ClientStep, EndsStep, RequestStep, LocksStep, WatcherStep, MountStep, ReadStep
    DEF Next, RdpTask
  <2> QED
    BY <2>1, <2>2
<1> QED
  BY InitInv, <1>1, PTL DEF Spec

(* Every outstanding read belongs to a selection that still serves         *)
(* (transfer.rs fail_pending), whatever is retired, evicted at the limit   *)
(* of retired selections, released, renegotiated or closed.                *)
THEOREM ReadsServable == Spec => []PendingServable
BY ClipboardInvariant, PTL DEF ClipboardInv

(* The watcher never finds files of a superseded selection to publish      *)
(* (inbound/mod.rs serve and retire_selection), outside the two locks of a *)
(* retirement.                                                             *)
THEOREM OnlyLivePublished == Spec => []UnpublishedLive
BY ClipboardInvariant, PTL DEF ClipboardInv
=============================================================================
