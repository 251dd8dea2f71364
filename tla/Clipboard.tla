------------------------------ MODULE Clipboard ------------------------------
(***************************************************************************)
(* The clipboard between an RDP client and the Wayland desktop: the        *)
(* backend's request for the client's selection (clipboard/backend.rs),    *)
(* the watcher thread of the desktop's selection (clipboard/wayland.rs),   *)
(* and the client's files, mounted and read on demand                      *)
(* (clipboard/inbound/mod.rs and transfer.rs).                             *)
(*                                                                         *)
(* Threads: the RDP task (protocol callbacks), the watcher, the mount      *)
(* service and filesystem readers.  They share the pending write, the echo *)
(* candidate and the transfer state, each behind a mutex of its own: one   *)
(* step holds one mutex.  The client, the two FIFO streams of its channel, *)
(* the lock lifetime (IronRDP's) and the compositor are external.  Images  *)
(* behave as text and are not told apart from it.                          *)
(***************************************************************************)
EXTENDS Integers, Sequences, FiniteSets

CONSTANTS
  MaxCopies,    \* bound on the copies made on the client
  MaxLocal,     \* bound on the copies made on the desktop
  MaxStream,    \* bound on stream ids
  Scenarios,    \* what client and users do, within those bounds: [kinds, locals,
                \* reads, echoes]: the kinds of the client's copies, how often
                \* the desktop copies and a file is read, and whether the client
                \* announces what it was sent, as if it had copied it
  Readers,      \* filesystem readers
  MaxRetiring,  \* MAX_RETIRING
  MaxPending    \* MAX_PENDING

ASSUME ClipboardAssumption ==
  /\ MaxCopies \in Nat /\ MaxLocal \in Nat /\ MaxStream \in Nat
  /\ MaxRetiring \in Nat /\ MaxPending \in Nat
  /\ \A s \in Scenarios :
       /\ Len(s.kinds) <= MaxCopies /\ \A i \in DOMAIN s.kinds : s.kinds[i] \in {"text", "files"}
       /\ s.locals \in 0..MaxLocal /\ s.reads \in 0..MaxStream /\ s.echoes \in BOOLEAN

(* Contents: 0 is none, 1..MaxCopies the client's, the rest the desktop's. *)
Remote == 1..MaxCopies
Local == (MaxCopies + 1)..(MaxCopies + MaxLocal)
Contents == 0..(MaxCopies + MaxLocal)
Ids == 1..MaxStream

VARIABLES
  scenario,
  copies,       \* client copies so far
  clip,         \* content of the client's clipboard
  held,         \* file lists the client keeps for a lock
  fetched,      \* text the client has read from its clipboard for a request
  toClient, toServer,
  request,      \* remote_request: [state, gen, next]
  lastFormat,   \* last_requested_format
  echo,         \* pending_echo_candidate
  candidate,    \* echo_candidate, shared
  write,        \* pending_write, shared: [kind, content, gen]
  transfer,     \* State: [gen, closed, stream, locking, current, retiring]
  pending,      \* State.pending: stream id -> [gen, op]
  nextStream,
  service,      \* [dirty, closed, job]
  mount,        \* the mount service: [pc, job]
  mounted,      \* its mounts, by generation
  locks,        \* locks IronRDP holds, by content
  rdp,          \* the callback the RDP task is in: [pc, content, gen]
  watcher,      \* [pc, content]
  locals,       \* desktop copies so far
  selections,   \* Selection events not yet handled: [content, own]
  suppress,     \* suppress_echo_until is armed
  reader,       \* [phase, gen, id, copy, got]
  known         \* history: content of the last format list handled

clientVars == <<scenario, copies, clip, held, fetched>>
requestVars == <<request, lastFormat, echo>>
readVars == <<pending, nextStream, reader>>
mountVars == <<mount, mounted>>
desktopVars == <<locals, selections, suppress>>
vars == <<clientVars, toClient, toServer, requestVars, candidate, write, transfer, readVars,
          service, mountVars, locks, rdp, watcher, desktopVars, known>>

Empty == [content |-> 0, lock |-> 0, roots |-> FALSE]
NoWrite == [kind |-> "none", content |-> 0, gen |-> 0]
NoRequest == [state |-> "none", gen |-> 0, next |-> "none", nextGen |-> 0]
IdleReader == [phase |-> "idle", gen |-> 0, id |-> 0, copy |-> 0, got |-> {}]
IdleRdp == [pc |-> "idle", content |-> 0, gen |-> 0]
NoEntries == [x \in {} |-> Empty]

Init ==
  /\ scenario \in Scenarios /\ copies = 0 /\ clip = 0 /\ held = {} /\ fetched = <<>>
  /\ toClient = <<>> /\ toServer = <<>>
  /\ request = NoRequest /\ lastFormat = "none" /\ echo = 0 /\ candidate = 0
  /\ write = NoWrite
  /\ transfer = [gen |-> 0, closed |-> FALSE, stream |-> FALSE, locking |-> FALSE,
                 current |-> Empty, retiring |-> NoEntries]
  /\ pending = NoEntries /\ nextStream = 1
  /\ service = [dirty |-> FALSE, closed |-> FALSE, job |-> 0]
  /\ mount = [pc |-> "wait", job |-> 0] /\ mounted = {}
  /\ locks = {} /\ rdp = [IdleRdp EXCEPT !.pc = "negotiate"]
  /\ watcher = [pc |-> "idle", content |-> 0]
  /\ locals = 0 /\ selections = <<>> /\ suppress = FALSE
  /\ reader = [r \in Readers |-> IdleReader]
  /\ known = 0

(* Where the RDP task is while the connection is up.                       *)
Connected == {"negotiate", "idle", "copyDrop", "copyDecide", "job", "release", "releaseDrop",
              "releaseNotify"}

KindOf(c) == IF c \in Remote THEN scenario.kinds[c] ELSE "text"
Message(type, content, id) == [type |-> type, content |-> content, id |-> id]
Send(m) == toClient' = Append(toClient, m)
Without(f, xs) == [x \in DOMAIN f \ xs |-> f[x]]

-----------------------------------------------------------------------------
(* The client.  It may fail any request: the answer is 0.                  *)

ClientCopy ==
  /\ copies < Len(scenario.kinds) /\ rdp.pc \in Connected
  /\ copies' = copies + 1 /\ clip' = copies + 1
  /\ toServer' = Append(toServer, Message("list", copies + 1, 0))
  /\ UNCHANGED <<scenario, held, fetched, toClient, requestVars, candidate, write, transfer, readVars,
                 service, mountVars, locks, rdp, watcher, desktopVars, known>>

(* Which file list a read is answered from: the locked one, or whatever is *)
(* on the client's clipboard.                                              *)
Served(lock) ==
  IF lock # 0 THEN IF lock \in held THEN lock ELSE 0
  ELSE IF clip \in Remote /\ KindOf(clip) = "files" THEN clip ELSE 0

(* It has text of its own, or took the desktop's for its own.              *)
HasText == (clip \in Remote \/ (clip \in Local /\ scenario.echoes)) /\ KindOf(clip) = "text"

ClientReceive ==
  /\ toClient # <<>> /\ toClient' = Tail(toClient)
  /\ LET m == Head(toClient) IN
     \/ /\ m.type = "announce"
        /\ clip' = m.content
        /\ toServer' = IF scenario.echoes THEN Append(toServer, Message("list", m.content, 0)) ELSE toServer
        /\ UNCHANGED <<held, fetched, locks>>
     \/ /\ m.type = "pasteText"
        /\ \E answer \in {0, IF HasText THEN clip ELSE 0} : fetched' = Append(fetched, answer)
        /\ UNCHANGED <<clip, held, toServer, locks>>
     \/ /\ m.type = "pasteFiles"
        /\ IF clip \in Remote /\ KindOf(clip) = "files"
           THEN /\ toServer' = Append(toServer, Message("files", clip, 0))
                /\ held' = IF transfer.locking THEN held \cup {clip} ELSE held
                /\ locks' = IF transfer.locking THEN locks \cup {clip} ELSE locks
           ELSE /\ toServer' = Append(toServer, Message("data", 0, 0))
                /\ UNCHANGED <<held, locks>>
        /\ UNCHANGED <<clip, fetched>>
     \/ /\ m.type = "read"
        /\ \E answer \in {0, Served(m.content)} :
             toServer' = Append(toServer, Message("bytes", answer, m.id))
        /\ UNCHANGED <<clip, held, fetched, locks>>
     \/ /\ m.type = "unlock"
        /\ held' = held \ {m.content}
        /\ UNCHANGED <<clip, fetched, toServer, locks>>
  /\ UNCHANGED <<scenario, copies, requestVars, candidate, write, transfer, readVars, service,
                 mountVars, rdp, watcher, desktopVars, known>>

(* Text is fetched from its owner first and sent later: a copy made in     *)
(* between is announced before the older text arrives.                     *)
ClientAnswer ==
  /\ fetched # <<>> /\ fetched' = Tail(fetched)
  /\ toServer' = Append(toServer, Message("data", Head(fetched), 0))
  /\ UNCHANGED <<scenario, copies, clip, held, toClient, requestVars, candidate, write, transfer,
                 readVars, service, mountVars, locks, rdp, watcher, desktopVars, known>>

-----------------------------------------------------------------------------
(* transfer.rs                                                             *)

Live(t, g) == ~t.closed /\ t.stream /\ t.gen = g
Servable(t, g) == ~t.closed /\ t.stream /\ (t.gen = g \/ g \in DOMAIN t.retiring)
Selection(t, g) == IF t.gen = g THEN t.current ELSE t.retiring[g]

(* Mutant: the reads of an ended selection are left waiting.               *)
KeepPending(p, gens) == p

(* fail_pending: dropping the answers wakes the readers.                   *)
FailPending(p, gens) == [id \in {i \in DOMAIN p : p[i].gen \notin gens} |-> p[id]]

(* Mutant: a mounted selection keeps serving without a lock.               *)
RetiredUnlocked(t) ==
  IF t.current.roots
  THEN [retiring |-> [g \in DOMAIN t.retiring \cup {t.gen} |->
                        IF g = t.gen THEN t.current ELSE t.retiring[g]],
        released |-> {}]
  ELSE [retiring |-> t.retiring, released |-> {t.gen}]

(* retire_current: a mounted and locked selection keeps serving, the       *)
(* oldest one makes room.                                                  *)
Retired(t) ==
  LET kept == t.current.roots /\ t.current.lock # 0
      more == [g \in DOMAIN t.retiring \cup {t.gen} |->
                 IF g = t.gen THEN t.current ELSE t.retiring[g]]
      oldest == CHOOSE g \in DOMAIN more : \A h \in DOMAIN more : g <= h
      evicted == IF Cardinality(DOMAIN more) > MaxRetiring THEN {oldest} ELSE {}
  IN IF kept THEN [retiring |-> Without(more, evicted), released |-> evicted]
             ELSE [retiring |-> t.retiring, released |-> {t.gen}]

RetireCurrent(accepted) ==
  /\ transfer' = [transfer EXCEPT !.gen = @ + 1, !.current = accepted,
                                  !.retiring = Retired(transfer).retiring]
  /\ pending' = FailPending(pending, Retired(transfer).released)

(* shutdown: every selection ends.                                         *)
Shutdown(t) == [t EXCEPT !.gen = @ + 1, !.current = Empty, !.retiring = NoEntries]

DropUnpublished == write' = IF write.kind = "files" THEN NoWrite ELSE write

(* Mutant: the service is not woken when a selection ends.                 *)
NotifyLost == UNCHANGED service

(* update_service without a job.                                           *)
Notify == service' = [service EXCEPT !.dirty = TRUE]

-----------------------------------------------------------------------------
(* The RDP task: capabilities, format lists and answers.                   *)

(* on_process_negotiated_capabilities, once, before any format list.       *)
Negotiate ==
  /\ rdp.pc = "negotiate" /\ rdp' = IdleRdp
  /\ DropUnpublished /\ Notify
  /\ \E stream, locking \in BOOLEAN :
       IF stream \/ locking
       THEN /\ transfer' = [Shutdown(transfer) EXCEPT !.stream = stream, !.locking = locking]
            /\ pending' = NoEntries
       ELSE UNCHANGED <<transfer, pending>>
  /\ UNCHANGED <<clientVars, toClient, toServer, requestVars, candidate, nextStream, reader,
                 mountVars, locks, watcher, desktopVars, known>>

Arrived(type) == rdp.pc = "idle" /\ toServer # <<>> /\ Head(toServer).type = type
Consume == toServer' = Tail(toServer)

(* on_remote_copy: retire the file selection,                              *)
OnRemoteCopy ==
  /\ Arrived("list") /\ Consume
  /\ RetireCurrent(Empty)
  /\ rdp' = [pc |-> "copyDrop", content |-> Head(toServer).content,
             gen |-> IF Live(transfer', transfer'.gen) THEN transfer'.gen ELSE 0]
  /\ known' = Head(toServer).content
  /\ UNCHANGED <<clientVars, toClient, requestVars, candidate, write, nextStream, reader, service,
                 mountVars, locks, watcher, desktopVars>>

(* drop what is not published of it,                                       *)
RemoteCopyDrop ==
  /\ rdp.pc = "copyDrop" /\ rdp' = [rdp EXCEPT !.pc = "copyDecide"]
  /\ DropUnpublished /\ Notify
  /\ UNCHANGED <<clientVars, toClient, toServer, requestVars, candidate, transfer, readVars,
                 mountVars, locks, watcher, desktopVars, known>>

RequestSelection(format, gen) ==
  /\ Send(Message(IF format = "files" THEN "pasteFiles" ELSE "pasteText", 0, 0))
  /\ lastFormat' = format
  /\ request' = [NoRequest EXCEPT !.state = "waiting", !.gen = gen]

(* Mutant: a request is sent although one is outstanding.                  *)
RequestAtOnce(format, gen) ==
  IF format = "none" THEN UNCHANGED <<toClient, requestVars>>
  ELSE RequestSelection(format, gen) /\ echo' = candidate

(* and ask for the new one, or remember it until the outstanding answer    *)
(* has been drained.                                                       *)
RequestOrDrain(format, gen) ==
  IF request.state # "none" \/ lastFormat # "none"
  THEN /\ request' = [state |-> "draining", gen |-> 0, next |-> format, nextGen |-> gen]
       /\ echo' = IF candidate # 0 THEN candidate ELSE echo
       /\ UNCHANGED <<toClient, lastFormat>>
  ELSE IF format = "none"
  THEN lastFormat' = "none" /\ echo' = 0 /\ UNCHANGED <<toClient, request>>
  ELSE RequestSelection(format, gen) /\ echo' = candidate

RemoteCopyDecide ==
  /\ rdp.pc = "copyDecide" /\ rdp' = IdleRdp
  /\ candidate' = 0
  /\ LET files == KindOf(rdp.content) = "files"
         format == IF ~files THEN "text"
                   ELSE IF transfer.stream /\ ~transfer.closed THEN "files" ELSE "none"
     IN RequestOrDrain(format, IF format = "files" THEN rdp.gen ELSE 0)
  /\ UNCHANGED <<clientVars, toServer, write, transfer, readVars, service, mountVars, locks,
                 watcher, desktopVars, known>>

(* finish_remote_request *)
FinishRequest ==
  /\ IF /\ request.state = "draining" /\ request.next # "none"
        /\ (request.nextGen # 0 => Live(transfer, request.nextGen))
     THEN RequestSelection(request.next, request.nextGen) /\ UNCHANGED echo
     ELSE request' = NoRequest /\ lastFormat' = "none" /\ echo' = 0 /\ UNCHANGED toClient

(* Mutant: the answer that was to be drained is written.                   *)
UndrainedAnswer == request.state # "none" /\ lastFormat = "text"

(* The answer belongs to the selection last asked for.                     *)
ExpectedAnswer ==
  request.state = "none" \/ (request.state = "waiting" /\ request.gen = 0)

(* handle_format_data_response: our own copy coming back is dropped.       *)
Accepted(content) == content # 0 /\ lastFormat = "text" /\ content # echo

OnFormatData ==
  /\ Arrived("data") /\ Consume
  /\ IF ExpectedAnswer
     THEN /\ request' = NoRequest /\ lastFormat' = "none" /\ echo' = 0
          /\ write' = IF Accepted(Head(toServer).content)
                      THEN [kind |-> "text", content |-> Head(toServer).content, gen |-> 0]
                      ELSE write
          /\ UNCHANGED toClient
     ELSE FinishRequest /\ UNCHANGED write
  /\ UNCHANGED <<clientVars, candidate, transfer, readVars, service, mountVars, locks, rdp,
                 watcher, desktopVars, known>>

(* on_remote_file_list: accept_for the generation that asked.              *)
OnFileList ==
  /\ Arrived("files") /\ Consume
  /\ IF request.state = "waiting" /\ request.gen # 0
     THEN /\ request' = NoRequest /\ lastFormat' = "none" /\ echo' = 0 /\ UNCHANGED toClient
          /\ IF Live(transfer, request.gen)
             THEN /\ \E roots \in BOOLEAN :
                       RetireCurrent([content |-> Head(toServer).content, roots |-> roots,
                                      lock |-> IF transfer.locking THEN Head(toServer).content
                                               ELSE 0])
                  /\ rdp' = [IdleRdp EXCEPT !.pc = "job", !.gen = transfer'.gen]
             ELSE UNCHANGED <<transfer, pending, rdp>>
     ELSE /\ IF request.state = "none" THEN UNCHANGED <<toClient, requestVars>> ELSE FinishRequest
          /\ UNCHANGED <<transfer, pending, rdp>>
  /\ UNCHANGED <<clientVars, candidate, write, nextStream, reader, service, mountVars, locks,
                 watcher, desktopVars, known>>

PostJob ==
  /\ rdp.pc = "job" /\ rdp' = IdleRdp
  /\ service' = [service EXCEPT !.dirty = TRUE, !.job = rdp.gen]
  /\ UNCHANGED <<clientVars, toClient, toServer, requestVars, candidate, write, transfer, readVars,
                 mountVars, locks, watcher, desktopVars, known>>

(* IronRDP sends an Unlock and reports it: on_outgoing_locks_cleared reads *)
(* the generation,                                                         *)
LocksCleared(c) ==
  /\ rdp.pc = "idle" /\ c \in locks
  /\ locks' = locks \ {c}
  /\ Send(Message("unlock", c, 0))
  /\ rdp' = [pc |-> "release", content |-> c,
             gen |-> IF Live(transfer, transfer.gen) THEN transfer.gen ELSE 0]
  /\ UNCHANGED <<clientVars, toServer, requestVars, candidate, write, transfer, readVars, service,
                 mountVars, watcher, desktopVars, known>>

Covered(c) ==
  {g \in DOMAIN transfer.retiring : transfer.retiring[g].lock = c}
  \cup (IF transfer.current.lock = c THEN {transfer.gen} ELSE {})

(* ends every selection the lock covered,                                  *)
ReleaseLocks ==
  /\ rdp.pc = "release"
  /\ LET gens == Covered(rdp.content)
         superseded == [transfer EXCEPT !.gen = @ + 1, !.current = Empty]
         base == IF transfer.gen \in gens THEN superseded ELSE transfer
     IN /\ transfer' = [base EXCEPT !.retiring = Without(@, gens)]
        /\ pending' = FailPending(pending, gens)
        /\ rdp' = IF gens = {} THEN IdleRdp
                  ELSE [rdp EXCEPT !.pc = IF rdp.gen \in gens THEN "releaseDrop" ELSE "releaseNotify"]
  /\ UNCHANGED <<clientVars, toClient, toServer, requestVars, candidate, write, nextStream, reader,
                 service, mountVars, locks, watcher, desktopVars, known>>

(* and notifies the mount service.                                         *)
ReleaseNotify ==
  /\ rdp.pc \in {"releaseDrop", "releaseNotify"} /\ rdp' = IdleRdp
  /\ IF rdp.pc = "releaseDrop" THEN DropUnpublished ELSE UNCHANGED write
  /\ Notify
  /\ UNCHANGED <<clientVars, toClient, toServer, requestVars, candidate, transfer, readVars,
                 mountVars, locks, watcher, desktopVars, known>>

(* The backend is dropped with its connection, the channel and IronRDP's   *)
(* locks: close,                                                           *)
Close ==
  /\ rdp.pc = "idle"
  /\ rdp' = [IdleRdp EXCEPT !.pc = "closing"]
  /\ transfer' = [Shutdown(transfer) EXCEPT !.closed = TRUE]
  /\ pending' = NoEntries
  /\ toClient' = <<>> /\ toServer' = <<>> /\ locks' = {} /\ held' = {} /\ clip' = 0
  /\ fetched' = <<>> /\ known' = 0
  /\ request' = NoRequest /\ lastFormat' = "none" /\ echo' = 0
  /\ UNCHANGED <<scenario, copies, candidate, write, nextStream, reader, service, mountVars, watcher,
                 desktopVars>>

(* drop what is not published and end the service,                         *)
CloseService ==
  /\ rdp.pc = "closing" /\ rdp' = [IdleRdp EXCEPT !.pc = "joining"]
  /\ DropUnpublished
  /\ service' = [service EXCEPT !.dirty = TRUE, !.closed = TRUE]
  /\ UNCHANGED <<clientVars, toClient, toServer, requestVars, candidate, transfer, readVars,
                 mountVars, locks, watcher, desktopVars, known>>

(* and join the watcher, which looks at "running" between two events.      *)
JoinWatcher ==
  /\ rdp.pc = "joining" /\ watcher.pc = "idle"
  /\ rdp' = [IdleRdp EXCEPT !.pc = "closed"]
  /\ watcher' = [watcher EXCEPT !.pc = "ended"]
  /\ UNCHANGED <<clientVars, toClient, toServer, requestVars, candidate, write, transfer, readVars,
                 service, mountVars, locks, desktopVars, known>>

-----------------------------------------------------------------------------
(* The desktop and the watcher thread.                                     *)

(* Another program takes the selection, or the owner of it goes away.      *)
DesktopCopy ==
  /\ locals < scenario.locals /\ locals' = locals + 1
  /\ \E c \in {MaxCopies + locals + 1, 0} :
       selections' = Append(selections, [content |-> c, own |-> FALSE])
  /\ UNCHANGED <<clientVars, toClient, toServer, requestVars, candidate, write, transfer, readVars,
                 service, mountVars, locks, rdp, watcher, suppress, known>>

(* take_pending_write and set_selection; the compositor reports it back.   *)
WatchWrite ==
  /\ watcher.pc = "idle" /\ write # NoWrite
  /\ write' = NoWrite /\ suppress' = TRUE
  /\ selections' = Append(selections, [content |-> write.content, own |-> TRUE])
  /\ UNCHANGED <<clientVars, toClient, toServer, requestVars, candidate, transfer, readVars, service,
                 mountVars, locks, rdp, watcher, locals, known>>

(* The deadlines assume a compositor that reports our own selection within *)
(* ECHO_SUPPRESSION_TIMEOUT.                                               *)
SuppressionEnds ==
  /\ suppress /\ \A i \in DOMAIN selections : ~selections[i].own
  /\ suppress' = FALSE
  /\ UNCHANGED <<clientVars, toClient, toServer, requestVars, candidate, write, transfer, readVars,
                 service, mountVars, locks, rdp, watcher, locals, selections, known>>

(* A Selection event: suppressed, or the client's files are retired,       *)
WatchSelection ==
  /\ watcher.pc = "idle" /\ selections # <<>> /\ selections' = Tail(selections)
  /\ IF suppress THEN UNCHANGED <<transfer, pending, watcher>>
     ELSE /\ RetireCurrent(Empty)
          /\ watcher' = [pc |-> "drop", content |-> Head(selections).content]
  /\ UNCHANGED <<clientVars, toClient, toServer, requestVars, candidate, write, nextStream, reader,
                 service, mountVars, locks, rdp, locals, suppress, known>>

(* what is not published of them is dropped and the candidate of the       *)
(* previous announcement forgotten,                                        *)
WatchDrop ==
  /\ watcher.pc = "drop"
  /\ watcher' = [watcher EXCEPT !.pc = IF watcher.content = 0 THEN "idle" ELSE "read"]
  /\ DropUnpublished /\ Notify /\ candidate' = 0
  /\ UNCHANGED <<clientVars, toClient, toServer, requestVars, transfer, readVars,
                 mountVars, locks, rdp, desktopVars, known>>

(* the offer is read, which may fail, and becomes the candidate,           *)
WatchRead ==
  /\ watcher.pc = "read"
  /\ \/ candidate' = watcher.content /\ watcher' = [watcher EXCEPT !.pc = "send"]
     \/ watcher' = [watcher EXCEPT !.pc = "idle"] /\ UNCHANGED candidate
  /\ UNCHANGED <<clientVars, toClient, toServer, requestVars, write, transfer, readVars, service,
                 mountVars, locks, rdp, desktopVars, known>>

(* and is announced, unless the connection is gone.                        *)
WatchSend ==
  /\ watcher.pc = "send" /\ watcher' = [watcher EXCEPT !.pc = "idle"]
  /\ IF rdp.pc \in Connected
     THEN Send(Message("announce", watcher.content, 0)) /\ UNCHANGED candidate
     ELSE candidate' \in {candidate, 0} /\ UNCHANGED toClient
  /\ UNCHANGED <<clientVars, toServer, requestVars, write, transfer, readVars, service, mountVars,
                 locks, rdp, desktopVars, known>>

-----------------------------------------------------------------------------
(* The mount service (serve).                                              *)

MountTake ==
  /\ mount.pc = "wait" /\ (service.dirty \/ service.closed)
  /\ IF service.closed
     THEN mount' = [mount EXCEPT !.pc = "ended"] /\ mounted' = {} /\ UNCHANGED service
     ELSE /\ mount' = [pc |-> "reconcile", job |-> service.job]
          /\ service' = [service EXCEPT !.dirty = FALSE, !.job = 0]
          /\ UNCHANGED mounted
  /\ UNCHANGED <<clientVars, toClient, toServer, requestVars, candidate, write, transfer, readVars,
                 locks, rdp, watcher, desktopVars, known>>

MountReconcile ==
  /\ mount.pc = "reconcile"
  /\ mounted' = {g \in mounted : Servable(transfer, g)}
  /\ mount' = IF mount.job # 0 /\ Live(transfer, mount.job) /\ transfer.current.roots
              THEN [mount EXCEPT !.pc = "create"] ELSE [pc |-> "wait", job |-> 0]
  /\ UNCHANGED <<clientVars, toClient, toServer, requestVars, candidate, write, transfer, readVars,
                 service, locks, rdp, watcher, desktopVars, known>>

(* Mutant: a selection that still serves is published, live or not.        *)
PublishServable(g) == Servable(transfer, g)

Publishable(g) == Live(transfer, g)

(* The mount is made, or not; it is published only while it is live.       *)
MountPublish ==
  /\ mount.pc = "create" /\ mount' = [pc |-> "wait", job |-> 0]
  /\ \/ /\ Publishable(mount.job)
        /\ write' = [kind |-> "files", gen |-> mount.job,
                     content |-> Selection(transfer, mount.job).content]
        /\ mounted' = mounted \cup {mount.job}
     \/ UNCHANGED <<write, mounted>>
  /\ UNCHANGED <<clientVars, toClient, toServer, requestVars, candidate, transfer, readVars, service,
                 locks, rdp, watcher, desktopVars, known>>

-----------------------------------------------------------------------------
(* Reads of mounted files.                                                 *)

(* Mutant: the stream id is not advanced.                                  *)
SubmitSameId(r, op) ==
  /\ pending' = [id \in DOMAIN pending \cup {nextStream} |->
                   [gen |-> reader[r].gen, op |-> op, reader |-> r]]
  /\ Send(Message("read", Selection(transfer, reader[r].gen).lock, nextStream))
  /\ reader' = [reader EXCEPT ![r].phase = op, ![r].id = nextStream]
  /\ UNCHANGED nextStream

(* allocate and submit, or an error at the limit.                          *)
Submit(r, op) ==
  IF Cardinality(DOMAIN pending) < MaxPending /\ nextStream <= scenario.reads
  THEN /\ pending' = [id \in DOMAIN pending \cup {nextStream} |->
                        IF id = nextStream THEN [gen |-> reader[r].gen, op |-> op, reader |-> r]
                        ELSE pending[id]]
       /\ nextStream' = nextStream + 1
       /\ Send(Message("read", Selection(transfer, reader[r].gen).lock, nextStream))
       /\ reader' = [reader EXCEPT ![r].phase = op, ![r].id = nextStream]
  ELSE reader' = [reader EXCEPT ![r] = IdleReader] /\ UNCHANGED <<pending, nextStream, toClient>>

(* The kernel asks for bytes of a mounted selection.                       *)
ReadBegin(r) ==
  /\ reader[r].phase = "idle"
  /\ \E g \in mounted :
       /\ Servable(transfer, g)
       /\ \E first \in {"begin", "sized"} :
            reader' = [reader EXCEPT ![r] = [IdleReader EXCEPT !.phase = first, !.gen = g,
                                             !.copy = Selection(transfer, g).content]]
  /\ UNCHANGED <<clientVars, toClient, toServer, requestVars, candidate, write, transfer, pending,
                 nextStream, service, mountVars, locks, rdp, watcher, desktopVars, known>>

(* size(), if the size is not known, then the range; both look the         *)
(* selection up again.                                                     *)
ReadSubmit(r) ==
  /\ reader[r].phase \in {"begin", "sized"}
  /\ IF Servable(transfer, reader[r].gen)
     THEN Submit(r, IF reader[r].phase = "begin" THEN "size" ELSE "range")
     ELSE reader' = [reader EXCEPT ![r] = IdleReader] /\ UNCHANGED <<pending, nextStream, toClient>>
  /\ UNCHANGED <<clientVars, toServer, requestVars, candidate, write, transfer, service, mountVars,
                 locks, rdp, watcher, desktopVars, known>>

(* on_response, by stream id: a size, the last chunk or one of several.    *)
OnFileContents ==
  /\ Arrived("bytes") /\ Consume
  /\ LET id == Head(toServer).id
         content == Head(toServer).content
         r == pending[id].reader
         got == reader[r].got \cup {content}
     IN \/ /\ id \notin DOMAIN pending
           /\ UNCHANGED <<toClient, pending, reader>>
        \/ /\ id \in DOMAIN pending /\ content = 0
           /\ pending' = Without(pending, {id})
           /\ reader' = [reader EXCEPT ![r] = IdleReader]
           /\ UNCHANGED toClient
        \/ /\ id \in DOMAIN pending /\ content # 0
           /\ pending' = Without(pending, {id})
           /\ reader' = [reader EXCEPT ![r].got = got,
                           ![r].phase = IF pending[id].op = "size" THEN "sized" ELSE "done"]
           /\ UNCHANGED toClient
        \/ /\ id \in DOMAIN pending /\ content # 0 /\ pending[id].op = "range"
           /\ content \notin reader[r].got
           /\ reader' = [reader EXCEPT ![r].got = got]
           /\ Send(Message("read", Selection(transfer, pending[id].gen).lock, id))
           /\ UNCHANGED pending
  /\ UNCHANGED <<clientVars, requestVars, candidate, write, transfer, nextStream, service, mountVars,
                 locks, rdp, watcher, desktopVars, known>>

(* Mutant: a timed out request keeps its entry.                            *)
TimeoutKept(id) == id \in DOMAIN pending /\ UNCHANGED vars

(* READ_TIMEOUT passed without an answer.                                  *)
ReadTimeout(id) ==
  /\ id \in DOMAIN pending
  /\ pending' = Without(pending, {id})
  /\ UNCHANGED <<clientVars, toClient, toServer, requestVars, candidate, write, transfer, nextStream,
                 reader, service, mountVars, locks, rdp, watcher, desktopVars, known>>

(* The answer arrived, or its sender was dropped.                          *)
ReadEnd(r) ==
  /\ \/ reader[r].phase = "done"
     \/ reader[r].phase \in {"size", "range"} /\ reader[r].id \notin DOMAIN pending
  /\ reader' = [reader EXCEPT ![r] = IdleReader]
  /\ UNCHANGED <<clientVars, toClient, toServer, requestVars, candidate, write, transfer, pending,
                 nextStream, service, mountVars, locks, rdp, watcher, desktopVars, known>>

-----------------------------------------------------------------------------

RdpTask ==
  \/ OnRemoteCopy \/ RemoteCopyDrop \/ RemoteCopyDecide
  \/ OnFormatData \/ OnFileList \/ PostJob \/ OnFileContents
  \/ ReleaseLocks \/ ReleaseNotify \/ CloseService \/ JoinWatcher

Watcher == WatchWrite \/ WatchSelection \/ WatchDrop \/ WatchRead \/ WatchSend

MountService == MountTake \/ MountReconcile \/ MountPublish

ReaderStep(r) == ReadBegin(r) \/ ReadSubmit(r) \/ ReadEnd(r)

Next ==
  \/ ClientCopy \/ ClientReceive \/ ClientAnswer \/ Negotiate \/ RdpTask \/ Close
  \/ \E c \in Contents : LocksCleared(c)
  \/ DesktopCopy \/ SuppressionEnds \/ Watcher \/ MountService
  \/ \E r \in Readers : ReaderStep(r)
  \/ \E id \in Ids : ReadTimeout(id)

Spec == Init /\ [][Next]_vars

(* The threads of hypr-rdp run and requests time out; a client, a user and *)
(* IronRDP's lock clock need not do anything.                              *)
Fairness ==
  /\ WF_vars(RdpTask) /\ WF_vars(Watcher) /\ WF_vars(MountService)
  /\ \A r \in Readers : WF_vars(ReadSubmit(r)) /\ WF_vars(ReadEnd(r))
  /\ \A id \in Ids : WF_vars(ReadTimeout(id))

FairSpec == Spec /\ Fairness

-----------------------------------------------------------------------------
(* Properties                                                              *)

SelectionRecord == [content : Contents, lock : Contents, roots : BOOLEAN]

(* Types of the state.                                                     *)
TypeOK ==
  /\ clip \in Contents /\ held \subseteq Contents /\ locks \subseteq Contents
  /\ request.state \in {"none", "waiting", "draining"} /\ request.gen \in Nat
  /\ lastFormat \in {"none", "text", "files"} /\ echo \in Contents /\ candidate \in Contents
  /\ write \in [kind : {"none", "text", "files"}, content : Contents, gen : Nat]
  /\ transfer.gen \in Nat /\ transfer.current \in SelectionRecord
  /\ transfer.closed \in BOOLEAN /\ transfer.stream \in BOOLEAN /\ transfer.locking \in BOOLEAN
  /\ DOMAIN transfer.retiring \subseteq 0..(transfer.gen - 1)
  /\ Cardinality(DOMAIN transfer.retiring) <= MaxRetiring
  /\ DOMAIN pending \subseteq 1..(nextStream - 1) /\ Cardinality(DOMAIN pending) <= MaxPending
  /\ mounted \subseteq 0..transfer.gen

Outstanding ==
  Cardinality({i \in DOMAIN toClient : toClient[i].type \in {"pasteText", "pasteFiles"}})
  + Cardinality({i \in DOMAIN toServer : toServer[i].type \in {"data", "files"}}) + Len(fetched)

(* "Keep one application selection context for untagged format-data        *)
(* responses" (backend.rs:163): an answer is always matched with the       *)
(* request it answers, because never more than one is outstanding.         *)
OneRequest == Outstanding = IF request.state = "none" THEN 0 ELSE 1

(* A read returns bytes of the selection it was opened on, with and        *)
(* without locks, however the client's copies, the retirements and the     *)
(* answers interleave.                                                     *)
BytesMatch == \A r \in Readers : reader[r].got \subseteq {reader[r].copy}

(* Every outstanding read belongs to a selection that still serves: those  *)
(* of the others have failed at once and hold no budget.                   *)
PendingServable == \A id \in DOMAIN pending : Servable(transfer, pending[id].gen)

(* Between the two locks of a retirement.                                  *)
RetireUnderway ==
  rdp.pc \in {"copyDrop", "releaseDrop", "closing"} \/ watcher.pc = "drop"

(* "Only the still-live generation can publish" (inbound/mod.rs:255), and  *)
(* a retirement takes back what waits: the watcher finds no files of a     *)
(* superseded selection to publish, except between the two locks of a      *)
(* retirement, that of the generations and that of the files that wait     *)
(* (inbound/mod.rs:37, :38).  There WatchWrite may still take and publish  *)
(* them.                                                                   *)
UnpublishedLive ==
  write.kind = "files" /\ ~RetireUnderway => Live(transfer, write.gen)

(* The mounts of selections that no longer serve come down, whoever        *)
(* retired them and whatever the mount service was doing.                  *)
MountsComeDown ==
  (\E g \in mounted : ~Servable(transfer, g)) ~> (\A g \in mounted : Servable(transfer, g))

(* Every read ends: it is answered, fails with its selection or times out. *)
ReadsEnd == \A r \in Readers : reader[r].phase # "idle" ~> reader[r].phase = "idle"

(* Copies are not mixed up, although answers carry no request id and       *)
(* unlocked reads name no copy: answers are counted, the text that reaches *)
(* the desktop is of the copy announced last, and bytes are of the copy    *)
(* that was opened.                                                        *)
CopiesNotMixed ==
  [][/\ OneRequest' /\ BytesMatch'
     /\ write' # write /\ write'.kind = "text" => write'.content = known]_vars

(* Whatever the client, the mount service and the locks do, nothing of a   *)
(* selection that has ended stays: its mounts come down and its reads end. *)
TransfersEnd ==
  /\ MountsComeDown
  /\ ReadsEnd
=============================================================================
