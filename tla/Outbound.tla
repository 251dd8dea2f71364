------------------------------- MODULE Outbound -------------------------------
(***************************************************************************)
(* What the desktop offers the client: the watcher's handling of a         *)
(* selection (clipboard/wayland.rs), the cached text and image, the frozen *)
(* files with their worker (clipboard/files.rs), and the callbacks that    *)
(* serve them (clipboard/backend.rs).                                      *)
(*                                                                         *)
(* Threads: the watcher, the file worker and the RDP task.  They share the *)
(* frozen selection, the two caches, the slot of the selection to freeze   *)
(* and the bounded queue of the worker, each behind a lock of its own: one *)
(* step holds one lock.  The client and its channel, a FIFO in each        *)
(* direction, and the filesystem are external.  A selection is numbered;   *)
(* a file table is named by the selection it was made of.                  *)
(***************************************************************************)
EXTENDS Naturals, Sequences, FiniteSets

CONSTANTS
  OfferScenarios, \* [copies, stream, locking, remote, requests, stops]: the kinds
                  \* of the desktop's copies in their order, what was negotiated,
                  \* whether the client copies too or asks for the list, and
                  \* whether the session ends
  MaxReads,       \* bound on the client's reads
  LockIds,        \* ids the client locks with
  QueueDepth,     \* READ_QUEUE_DEPTH
  MaxLocked       \* MAX_LOCKED_SELECTIONS

ASSUME OutboundAssumption ==
  /\ MaxReads \in Nat /\ QueueDepth \in Nat \ {0} /\ MaxLocked \in Nat
  /\ IsFiniteSet(LockIds)

VARIABLES
  offers,      \* the scenario
  copied,      \* desktop copies so far
  frozen,      \* FrozenSelection
  cache,       \* clipboard_data and clipboard_image
  slot,        \* the PendingSelection: [table, gen]
  commands,    \* the queue of the worker: wakes and reads
  worker,      \* the file worker: [pc, table, gen, read]
  desk,        \* the watcher: [pc, sel, gen, formats]
  task,        \* the RDP task: "idle", "files" (half of a format list), or a
               \* stage of the drop of the worker
  stopping,    \* the stop flag of the worker
  down, up,    \* messages to the client and to the server
  peer,        \* the client: [table, locks, outstanding, reads, copies]
  handled,     \* history: the last selection the watcher handled
  wrong        \* history: an answer was not of the file that was named

workVars == <<slot, commands, worker>>
outboundVars == <<offers, copied, frozen, cache, workVars, desk, task, stopping, down, up, peer,
                  handled, wrong>>

NoSlot == [table |-> 0, gen |-> 0]
NoTables == [id \in {} |-> 0]
NoRead == [id |-> 0, lock |-> 0, table |-> 0]
IdleWorker == [pc |-> "top", table |-> 0, gen |-> 0, read |-> NoRead]
IdleDesk == [pc |-> "idle", sel |-> 0, gen |-> 0, formats |-> {}]

(* FrozenSelection::default; stream and locking are negotiated before the  *)
(* watcher starts.                                                         *)
Unfrozen == [gen |-> 0, stream |-> offers.stream, entries |-> 0, locking |-> offers.locking,
             pending |-> 0, announced |-> 0, confirmed |-> 0, locked |-> NoTables]

OutboundInit ==
  /\ offers \in OfferScenarios
  /\ copied = 0 /\ frozen = Unfrozen /\ cache = [text |-> 0, image |-> 0]
  /\ slot = NoSlot /\ commands = <<>> /\ worker = IdleWorker
  /\ desk = IdleDesk /\ task = "idle" /\ stopping = FALSE
  /\ down = <<>> /\ up = <<>>
  /\ peer = [table |-> 0, locks |-> NoTables, outstanding |-> 0, reads |-> 0, copies |-> 0]
  /\ handled = 0 /\ wrong = FALSE

KindsOf(sel) == offers.copies[sel]
Put(f, x, v) == [y \in DOMAIN f \cup {x} |-> IF y = x THEN v ELSE f[y]]
Drop(f, x) == [y \in DOMAIN f \ {x} |-> f[y]]
Pdu(type, table, id, lock) == [type |-> type, table |-> table, id |-> id, lock |-> lock]

-----------------------------------------------------------------------------
(* The frozen selection.                                                   *)

(* FrozenSelection::announce, with the message queued under the same lock. *)
KeepConfirmed(table) == [frozen EXCEPT !.pending = @ + 1, !.announced = table]
Announced(table) == [frozen EXCEPT !.pending = @ + 1, !.announced = table, !.confirmed = 0]

Announce(table) ==
  /\ frozen' = Announced(table)
  /\ down' = Append(down, Pdu("announce", table, 0, 0))

ClearSelection == frozen' = [frozen EXCEPT !.gen = @ + 1, !.entries = 0]

-----------------------------------------------------------------------------
(* The watcher.  A Selection event ends the offer of the previous one,     *)
DesktopOffers ==
  /\ copied < Len(offers.copies) /\ desk.pc = "idle" /\ task \in {"idle", "files"}
  /\ copied' = copied + 1 /\ handled' = copied + 1
  /\ ClearSelection
  /\ desk' = [IdleDesk EXCEPT !.pc = "caches", !.sel = copied + 1]
  /\ UNCHANGED <<offers, cache, workVars, task, stopping, down, up, peer, wrong>>

(* forgets what the selection does not have, the text in any case (each    *)
(* cache has a lock; whoever reads them only asks whether either is set),  *)
KeepText == [text |-> cache.text, image |-> IF "image" \in KindsOf(desk.sel) THEN cache.image ELSE 0]
ClearedCaches == [text |-> 0, image |-> IF "image" \in KindsOf(desk.sel) THEN cache.image ELSE 0]

ClearCaches ==
  /\ desk.pc = "caches"
  /\ cache' = ClearedCaches
  /\ IF KindsOf(desk.sel) = {}
     THEN desk' = IdleDesk /\ ClearSelection
     ELSE desk' = [desk EXCEPT !.pc = "text"] /\ UNCHANGED frozen
  /\ UNCHANGED <<offers, copied, workVars, task, stopping, down, up, peer, handled, wrong>>

(* reads the text and the image, either of which may fail,                 *)
ReadText ==
  /\ desk.pc = "text"
  /\ \/ /\ "text" \in KindsOf(desk.sel)
        /\ cache' = [cache EXCEPT !.text = desk.sel]
        /\ desk' = [desk EXCEPT !.pc = "image", !.formats = @ \cup {"text"}]
     \/ /\ desk' = [desk EXCEPT !.pc = "image"]
        /\ UNCHANGED cache
  /\ UNCHANGED <<offers, copied, frozen, workVars, task, stopping, down, up, peer, handled, wrong>>

ReadImage ==
  /\ desk.pc = "image"
  /\ \/ /\ "image" \in KindsOf(desk.sel)
        /\ cache' = [cache EXCEPT !.image = desk.sel]
        /\ desk' = [desk EXCEPT !.pc = "uris", !.formats = @ \cup {"image"}]
     \/ /\ desk' = [desk EXCEPT !.pc = "uris"]
        /\ UNCHANGED cache
  /\ UNCHANGED <<offers, copied, frozen, workVars, task, stopping, down, up, peer, handled, wrong>>

HasUris(sel) == KindsOf(sel) \cap {"files", "links"} # {}

(* and the list of URIs: files are frozen in a generation of their own     *)
(* (FileSelection::freeze), a list without files is text.                  *)
ReadUris ==
  /\ desk.pc = "uris"
  /\ \/ /\ "files" \in KindsOf(desk.sel) /\ frozen.stream
        /\ ClearSelection /\ desk' = [desk EXCEPT !.pc = "freeze", !.gen = frozen.gen + 1]
        /\ UNCHANGED cache
     \/ /\ HasUris(desk.sel) /\ ("files" \in KindsOf(desk.sel) => ~frozen.stream)
        /\ IF "text" \in KindsOf(desk.sel)
           THEN desk' = [desk EXCEPT !.pc = "announce"] /\ UNCHANGED cache
           ELSE /\ desk' = [desk EXCEPT !.pc = "announce", !.formats = @ \cup {"text"}]
                /\ cache' = [cache EXCEPT !.text = desk.sel]
        /\ IF "files" \in KindsOf(desk.sel) THEN ClearSelection ELSE UNCHANGED frozen
     \/ /\ desk' = [desk EXCEPT !.pc = "announce"]
        /\ UNCHANGED <<cache, frozen>>
  /\ UNCHANGED <<offers, copied, workVars, task, stopping, down, up, peer, handled, wrong>>

(* FileWorkerHandle::freeze: the newest selection takes the slot; a full   *)
(* queue needs no wake.  The worker outlives the watcher.                  *)
NoWake == commands
Woken == IF Len(commands) < QueueDepth THEN Append(commands, NoRead) ELSE commands

FreezeFiles ==
  /\ desk.pc = "freeze" /\ desk' = [desk EXCEPT !.pc = "announce"]
  /\ slot' = [table |-> desk.sel, gen |-> desk.gen]
  /\ commands' = Woken
  /\ UNCHANGED <<offers, copied, frozen, cache, worker, task, stopping, down, up, peer, handled,
                 wrong>>

(* Text and image are announced (announce_local_formats).                  *)
AnnounceLocal ==
  /\ desk.pc = "announce" /\ desk' = IdleDesk
  /\ IF desk.formats # {} THEN Announce(0) ELSE UNCHANGED <<frozen, down>>
  /\ UNCHANGED <<offers, copied, cache, workVars, task, stopping, up, peer, handled, wrong>>

-----------------------------------------------------------------------------
(* The file worker.  A selection comes before the queue.                   *)
WorkerTop ==
  /\ worker.pc = "top"
  /\ IF stopping THEN worker' = [worker EXCEPT !.pc = "ended"] /\ UNCHANGED slot
     ELSE IF slot # NoSlot
     THEN worker' = [worker EXCEPT !.pc = "walk", !.table = slot.table, !.gen = slot.gen]
          /\ slot' = NoSlot
     ELSE worker' = [worker EXCEPT !.pc = "recv"] /\ UNCHANGED slot
  /\ UNCHANGED <<offers, copied, frozen, cache, commands, desk, task, stopping, down, up, peer,
                 handled, wrong>>

(* publish_selection: the walk may have found nothing, and counts only for *)
(* the generation it was made for.                                         *)
AlwaysPublish == TRUE
MayPublish == frozen.stream /\ frozen.gen = worker.gen

Publish ==
  /\ worker.pc = "walk" /\ worker' = IdleWorker
  /\ \/ /\ MayPublish
        /\ frozen' = [Announced(worker.table) EXCEPT !.entries = worker.table]
        /\ down' = Append(down, Pdu("announce", worker.table, 0, 0))
     \/ /\ MayPublish
        /\ frozen' = [frozen EXCEPT !.entries = 0] /\ UNCHANGED down
     \/ /\ ~MayPublish
        /\ UNCHANGED <<frozen, down>>
  /\ UNCHANGED <<offers, copied, cache, slot, commands, desk, task, stopping, up, peer, handled, wrong>>

(* A wake carries nothing.                                                 *)
WorkerRecv ==
  /\ worker.pc = "recv" /\ commands # <<>> /\ commands' = Tail(commands)
  /\ worker' = IF Head(commands).id = 0 THEN IdleWorker
               ELSE [worker EXCEPT !.pc = "read", !.read = Head(commands)]
  /\ UNCHANGED <<offers, copied, frozen, cache, slot, desk, task, stopping, down, up, peer,
                 handled, wrong>>

(* read_frozen_file: 0 is an error, of a request, of the file or because   *)
(* another file has taken its place.  A worker told to stop is silent.     *)
AnswerRead ==
  /\ worker.pc = "read"
  /\ IF stopping THEN worker' = [worker EXCEPT !.pc = "ended"] /\ UNCHANGED down
     ELSE /\ worker' = IdleWorker
          /\ \E table \in {0, worker.read.table} :
               down' = Append(down, Pdu("bytes", table, worker.read.id, worker.read.lock))
  /\ UNCHANGED <<offers, copied, frozen, cache, slot, commands, desk, task, stopping, up, peer,
                 handled, wrong>>

WorkerStep == WorkerTop \/ Publish \/ WorkerRecv

-----------------------------------------------------------------------------
(* The RDP task.                                                           *)

Comes(type) == task = "idle" /\ up # <<>> /\ Head(up).type = type
Take == up' = Tail(up)

(* file_format_list_response *)
OnFormatListResponse ==
  /\ Comes("accepted") /\ Take
  /\ frozen' = IF frozen.pending = 0 THEN frozen
               ELSE [frozen EXCEPT !.pending = @ - 1,
                       !.confirmed = IF frozen.pending = 1 /\ Head(up).id = 1
                                     THEN frozen.announced ELSE @]
  /\ UNCHANGED <<offers, copied, cache, workVars, desk, task, stopping, down, peer, handled, wrong>>

(* lock_selection: only what the client is known to have can be locked.    *)
LockLatest == frozen.entries
Lockable == frozen.confirmed

OnLock ==
  /\ Comes("lock") /\ Take
  /\ frozen' = IF /\ frozen.stream /\ frozen.locking /\ Head(up).id \notin DOMAIN frozen.locked
                  /\ Cardinality(DOMAIN frozen.locked) < MaxLocked /\ Lockable # 0
               THEN [frozen EXCEPT !.locked = Put(@, Head(up).id, Lockable)] ELSE frozen
  /\ UNCHANGED <<offers, copied, cache, workVars, desk, task, stopping, down, peer, handled, wrong>>

OnUnlock ==
  /\ Comes("unlock") /\ Take
  /\ frozen' = [frozen EXCEPT !.locked = Drop(@, Head(up).id)]
  /\ UNCHANGED <<offers, copied, cache, workVars, desk, task, stopping, down, peer, handled, wrong>>

(* selected_file: resolved when the request is accepted.                   *)
SelectedTable(lock) ==
  IF lock = 0 THEN frozen.entries
  ELSE IF frozen.locking /\ lock \in DOMAIN frozen.locked THEN frozen.locked[lock] ELSE 0

(* Mutant: a read that finds the queue full is forgotten.                  *)
RefuseSilently(m) == UNCHANGED down
Refuse(m) == down' = Append(down, Pdu("bytes", 0, m.id, m.lock))

(* on_file_contents_request and FileWorkerHandle::read *)
OnFileContentsRequest ==
  /\ Comes("read") /\ Take
  /\ LET m == Head(up)
     IN  IF frozen.stream /\ Len(commands) < QueueDepth
         THEN /\ commands' = Append(commands, [id |-> m.id, lock |-> m.lock,
                                               table |-> SelectedTable(m.lock)])
              /\ UNCHANGED down
         ELSE Refuse(m) /\ UNCHANGED commands
  /\ UNCHANGED <<offers, copied, frozen, cache, slot, worker, desk, task, stopping, peer, handled,
                 wrong>>

(* on_remote_copy, as far as the desktop's files are concerned.            *)
OnClientCopy ==
  /\ Comes("copy") /\ Take
  /\ ClearSelection
  /\ UNCHANGED <<offers, copied, cache, workVars, desk, task, stopping, down, peer, handled, wrong>>

(* on_request_format_list: what is cached, then the files.                 *)
OnRequestFormatList ==
  /\ Comes("list") /\ Take /\ task' = "files"
  /\ IF cache.text # 0 \/ cache.image # 0 THEN Announce(0) ELSE UNCHANGED <<frozen, down>>
  /\ UNCHANGED <<offers, copied, cache, workVars, desk, stopping, peer, handled, wrong>>

AnnounceFiles ==
  /\ task = "files" /\ task' = "idle"
  /\ IF frozen.stream /\ frozen.entries # 0 THEN Announce(frozen.entries) ELSE UNCHANGED <<frozen, down>>
  /\ UNCHANGED <<offers, copied, cache, workVars, desk, stopping, up, peer, handled, wrong>>

(* on_format_data_request: a format with the content it is served from.    *)
OnFormatDataRequest ==
  /\ Comes("paste") /\ Take
  /\ down' = Append(down, Pdu("data", cache.text, 0, 0))
  /\ UNCHANGED <<offers, copied, frozen, cache, workVars, desk, task, stopping, peer, handled, wrong>>

(* The backend is dropped once the watcher is joined, and with it the      *)
(* worker: the flag, the selection and the locks, a wake, and a bounded    *)
(* wait that a walk or a read may outlast.                                 *)
DropWorker ==
  /\ offers.stops /\ task = "idle" /\ desk.pc = "idle"
  /\ task' = "clear" /\ stopping' = TRUE
  /\ UNCHANGED <<offers, copied, frozen, cache, workVars, desk, down, up, peer, handled, wrong>>

DropSelection ==
  /\ task = "clear" /\ task' = "wait"
  /\ frozen' = [frozen EXCEPT !.gen = @ + 1, !.entries = 0, !.locking = FALSE,
                              !.locked = NoTables, !.confirmed = 0]
  /\ commands' = Woken
  /\ UNCHANGED <<offers, copied, cache, slot, worker, desk, stopping, down, up, peer, handled, wrong>>

WorkerGone ==
  /\ task = "wait" /\ worker.pc \in {"ended", "walk", "read"}
  /\ task' = "ended"
  /\ UNCHANGED <<offers, copied, frozen, cache, workVars, desk, stopping, down, up, peer, handled, wrong>>

-----------------------------------------------------------------------------
(* The client.                                                             *)

PeerSend(m) == up' = Append(up, m)
ServerSide == <<offers, copied, frozen, cache, workVars, desk, task, stopping, handled>>

(* It takes every list it is sent, and says so; it may fail to.            *)
PeerReceives ==
  /\ down # <<>> /\ down' = Tail(down)
  /\ LET m == Head(down) IN
     \/ /\ m.type = "announce"
        /\ \E ok \in {0, 1} : PeerSend(Pdu("accepted", 0, ok, 0))
        /\ peer' = [peer EXCEPT !.table = m.table]
        /\ UNCHANGED wrong
     \/ /\ m.type = "bytes"
        /\ peer' = [peer EXCEPT !.outstanding = @ - 1]
        /\ wrong' = (wrong \/ (m.lock # 0 /\ m.table \notin {0, peer.locks[m.lock]}))
        /\ UNCHANGED up
     \/ /\ m.type = "data"
        /\ UNCHANGED <<up, peer, wrong>>
  /\ UNCHANGED ServerSide

PeerLocks(id) ==
  /\ offers.locking /\ peer.table # 0 /\ id \notin DOMAIN peer.locks
  /\ PeerSend(Pdu("lock", peer.table, id, 0))
  /\ peer' = [peer EXCEPT !.locks = Put(@, id, peer.table)]
  /\ UNCHANGED <<ServerSide, down, wrong>>

(* It unlocks once its reads are answered, and does not lock again.        *)
PeerUnlocks(id) ==
  /\ id \in DOMAIN peer.locks /\ peer.outstanding = 0 /\ peer.reads > 0
  /\ \A i \in DOMAIN up : up[i].type # "unlock"
  /\ PeerSend(Pdu("unlock", 0, id, 0))
  /\ UNCHANGED <<ServerSide, down, peer, wrong>>

PeerReads ==
  /\ peer.reads < MaxReads
  /\ \E lock \in DOMAIN peer.locks \cup (IF peer.table # 0 THEN {0} ELSE {}) :
       PeerSend(Pdu("read", 0, peer.reads + 1, lock))
  /\ peer' = [peer EXCEPT !.reads = @ + 1, !.outstanding = @ + 1]
  /\ UNCHANGED <<ServerSide, down, wrong>>

(* It copies something of its own, asks for the list, or for text.         *)
PeerActs ==
  /\ peer.copies = 0
  /\ \/ offers.remote /\ PeerSend(Pdu("copy", 0, 0, 0))
     \/ offers.requests /\ PeerSend(Pdu("list", 0, 0, 0))
     \/ offers.requests /\ PeerSend(Pdu("paste", 0, 0, 0))
  /\ peer' = [peer EXCEPT !.copies = 1, !.table = IF offers.remote THEN 0 ELSE @]
  /\ UNCHANGED <<ServerSide, down, wrong>>

-----------------------------------------------------------------------------
WatcherStep ==
  \/ ClearCaches \/ ReadText \/ ReadImage \/ ReadUris \/ FreezeFiles \/ AnnounceLocal

TaskStep ==
  \/ OnFormatListResponse \/ OnLock \/ OnUnlock \/ OnFileContentsRequest \/ OnClientCopy
  \/ OnRequestFormatList \/ AnnounceFiles \/ OnFormatDataRequest
  \/ DropSelection \/ WorkerGone

OutboundNext ==
  \/ DesktopOffers \/ WatcherStep \/ WorkerStep \/ AnswerRead \/ TaskStep \/ DropWorker
  \/ PeerReceives \/ PeerReads \/ PeerActs
  \/ \E id \in LockIds : PeerLocks(id) \/ PeerUnlocks(id)

OutboundSpec == OutboundInit /\ [][OutboundNext]_outboundVars

-----------------------------------------------------------------------------
(* Properties                                                              *)

(* "an incoming LockData can never mistake a newly queued table for the    *)
(* one already known to the peer" (files.rs:95): a lock holds the table    *)
(* the client had when it locked, whatever was announced, cleared or       *)
(* published while its Lock was on the way.                                *)
LockedIsKnown ==
  \A id \in DOMAIN frozen.locked : frozen.locked[id] = peer.locks[id]

(* "A later selection must never reinterpret it" (files.rs:382): bytes     *)
(* sent for a read under a lock are of the table that was locked.          *)
AnswersMatch == ~wrong

(* "A completed walk cannot publish after clear or a new freeze" (the test *)
(* of that name): files are served only of the selection handled last.     *)
EntriesCurrent == frozen.entries # 0 => frozen.entries = handled

(* "A failed or empty replacement must not serve the previous text"        *)
(* (wayland.rs:399): the text that is served and advertised is the latest  *)
(* selection's once its caches are cleared.                                *)
TextCurrent == cache.text # 0 /\ desk.pc # "caches" => cache.text = handled

Reads(queue) == Cardinality({i \in DOMAIN queue : queue[i].id # 0})
Bytes == Cardinality({i \in DOMAIN down : down[i].type = "bytes"})
Asked == Cardinality({i \in DOMAIN up : up[i].type = "read"})

(* Every read of the client is answered once: it waits in the channel, in  *)
(* the queue or with the worker, or its answer is on the way.  A full      *)
(* queue refuses, it does not forget.                                      *)
EveryReadAnswered ==
  ~stopping => peer.outstanding = Asked + Reads(commands) + Bytes
                                  + (IF worker.pc = "read" THEN 1 ELSE 0)

(* Once the session has let go of the worker nothing of it reaches the     *)
(* client: an abandoned walk is not published, a late read not answered.   *)
SilentAfterDrop == [][task = "ended" => Len(down') <= Len(down)]_outboundVars

(* "a lost wake delays the announcement rather than losing it"             *)
(* (files.rs:297): a selection handed to the worker is taken by it, even   *)
(* when the queue was full of reads.                                       *)
SelectionTaken == slot # NoSlot /\ ~stopping ~> slot = NoSlot \/ stopping

(* Whatever crosses on the channel, in the queue and in the worker: a      *)
(* client reads from the table it knew when it locked, or from the current *)
(* one, and every read is answered once.                                   *)
OutboundSound ==
  /\ LockedIsKnown
  /\ AnswersMatch
  /\ EntriesCurrent
  /\ TextCurrent
  /\ EveryReadAnswered

(* No selection is lost to a full queue, and nothing comes after the end   *)
(* of the session.                                                         *)
OutboundProgress ==
  /\ SelectionTaken
  /\ SilentAfterDrop
===============================================================================
