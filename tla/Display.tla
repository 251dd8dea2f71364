------------------------------- MODULE Display -------------------------------
(***************************************************************************)
(* The display half of hypr-rdp (src/src/capture/mod.rs): one captured     *)
(* Hyprland output, resized by a client's initial size, by DisplayControl  *)
(* layouts and by the restore that follows a session, captured by a        *)
(* background thread that each activation replaces, and removed at         *)
(* shutdown.  Every resize waits on one resize gate; the state it commits  *)
(* is behind one async mutex.                                              *)
(*                                                                         *)
(* Actors: the connection future of the RDP server (which may be dropped   *)
(* at any await), the blocking worker of an initial resize (which outlives *)
(* the future that awaits it), blocking DisplayControl jobs, one restore   *)
(* task per ended session, capture threads, and the shutdown path.         *)
(***************************************************************************)
EXTENDS Integers, FiniteSets

CONSTANTS
  Sizes,            \* presentation sizes
  Requests,         \* desktop sizes a client may ask for
  LayoutRequests,   \* DisplayControl layouts: [size, simple]
  IdleSize,         \* the startup presentation
  NoSize,           \* no size: None, or a size with a zero dimension
  Clamp(_),         \* clamp_to_h264_software_limits
  Fit(_, _),        \* normalize_presentation_size(request, source)
  PhysicalOutput,   \* capturing a named output instead of a managed one
  ResolutionFixed,  \* the operator pinned the resolution
  DropPhases,       \* awaits at which the connection future may be dropped:
                    \* all of them under the Preempt policy, none under Queue
  CaptureRestarts,  \* capture parameters may change under a running capture
  IpcFaults,        \* calls to the compositor may fail
  NoLayout,         \* no DisplayControl layout
  MaxEpoch,         \* bound on the number of sessions
  CaptureIds,       \* bound on capture threads alive or referenced at once
  NoCapture

ASSUME SizeAssumption ==
  /\ IdleSize \in Sizes /\ NoSize \notin Sizes
  /\ \A r \in Requests : Clamp(r) \in Sizes \cup {NoSize}
  /\ \A l \in LayoutRequests : Clamp(l.size) \in Sizes \cup {NoSize}
  /\ \A s \in Sizes :
       /\ \A r \in Sizes : Fit(r, s) \in Sizes \cup {NoSize}
       /\ \A l \in LayoutRequests : Fit(l.size, s) \in Sizes \cup {NoSize}

ASSUME FlagAssumption ==
  /\ PhysicalOutput \in BOOLEAN /\ ResolutionFixed \in BOOLEAN
  /\ CaptureRestarts \in BOOLEAN /\ IpcFaults \in BOOLEAN

ASSUME BoundAssumption == MaxEpoch \in Nat /\ NoCapture \notin CaptureIds

VARIABLES
  resolution,   \* inner.resolution, width, height
  unconfirmed,  \* inner.output_size_unconfirmed
  closed,       \* inner.closed
  pending,      \* inner.pending_initial_resize
  handle,       \* inner.capture_handle
  stopRef,      \* the thread that inner.stop_flag belongs to
  guard,        \* inner.headless_guard: the managed output exists
  output,       \* the size the compositor gives the output
  layout,       \* SharedOutputLayout: source and presentation of input mapping
  surface,      \* EgfxShared: the size graphics surfaces are created with
  gate,         \* who holds inner.resize_gate
  epoch,        \* session_epoch
  active,       \* HyprDisplaySessionSink.active
  conn,         \* the connection future
  worker,       \* the blocking job of request_initial_size
  layoutQueue,  \* DisplayControl jobs that wait for the display
  layoutJob,    \* the DisplayControl job that runs
  restores,     \* restore tasks, by the epoch they restore for
  captures,     \* capture threads
  shut,         \* progress of HyprDisplayHandle::shutdown
  sized         \* history: the current session has been through the gate

sizeVars    == <<resolution, unconfirmed, layout, surface>>
captureVars == <<handle, stopRef, captures>>
sessionVars == <<epoch, active, sized>>
jobVars     == <<layoutQueue, layoutJob>>
vars == <<resolution, unconfirmed, closed, pending, handle, stopRef, guard, output,
          layout, surface, gate, epoch, active, conn, worker, layoutQueue, layoutJob,
          restores, captures, shut, sized>>

Managed == ~PhysicalOutput

GateOwners == {"free", "init", "worker", "layout", "updates", "restore", "shutdown"}

InitPhases == {"initWait", "initDecide", "initAwait"}
UpdPhases  == {"updWait", "updJoin", "updStart"}
ConnPhases == {"idle", "up", "broken", "down"} \cup InitPhases \cup UpdPhases

WorkerPhases  == {"idle", "check", "resize", "prepare", "done", "failed"}
LayoutPhases  == {"idle", "gate", "resize", "refresh"}
RestorePhases == {"none", "waiting", "resize", "refresh"}
CapturePhases == {"free", "starting", "refreshing", "running"}
ShutPhases    == {"serving", "signalled", "gate", "join", "done"}

FreeCapture == [phase |-> "free", stop |-> FALSE, live |-> FALSE,
                reported |-> FALSE, dead |-> FALSE, presentation |-> NoSize]

IdleWorker == [phase |-> "idle", target |-> NoSize, source |-> NoSize]
IdleLayout == [phase |-> "idle", request |-> NoLayout, target |-> NoSize]
Conn(phase) == [phase |-> phase, request |-> NoSize, thread |-> NoCapture]

(* The receiver of every update stream is gone; an exited thread that      *)
(* nobody listens to leaves no trace.                                      *)
Unread == [c \in CaptureIds |-> IF captures[c].phase = "free" THEN FreeCapture
                               ELSE [captures[c] EXCEPT !.live = FALSE]]

(* stop_flag.store(true) on the flag inner refers to.                      *)
Stopped == IF stopRef = NoCapture \/ captures[stopRef].phase = "free" THEN captures
           ELSE [captures EXCEPT ![stopRef].stop = TRUE]

(* Thread c returned; its unread notification and report stay with the     *)
(* stream.                                                                 *)
ExitedSilently(c, dead) ==
  [captures EXCEPT ![c] = [FreeCapture EXCEPT !.live = captures[c].live,
                             !.reported = captures[c].live /\ captures[c].reported]]

Exited(c, dead) ==
  [captures EXCEPT ![c] = [FreeCapture EXCEPT !.live = captures[c].live,
                             !.reported = captures[c].live /\ captures[c].reported,
                             !.dead = dead]]

(* Steps that keep inner locked while they block: the other users of inner *)
(* wait.  Each of them also holds the gate.                                *)
InnerLocked == \/ layoutJob.phase \in {"resize", "refresh"}
               \/ \E e \in 1..MaxEpoch : restores[e] \in {"resize", "refresh"}
               \/ conn.phase = "updStart"
               \/ shut = "join"

(* RdpServerDisplay methods take &mut self: one at a time.                 *)
ConnInMethod == conn.phase \in InitPhases \cup UpdPhases
LayoutInMethod == layoutJob.phase # "idle"

Init ==
  /\ resolution = IdleSize /\ surface = IdleSize
  /\ output \in (IF PhysicalOutput THEN Sizes ELSE {IdleSize})
  /\ layout = [source |-> output, presentation |-> IdleSize]
  /\ unconfirmed = FALSE /\ closed = FALSE /\ guard = Managed
  /\ pending = NoSize /\ handle = NoCapture /\ stopRef = NoCapture
  /\ gate = "free"
  /\ epoch = 0 /\ active = FALSE /\ sized = FALSE
  /\ conn = Conn("idle")
  /\ worker = IdleWorker
  /\ layoutQueue = {} /\ layoutJob = IdleLayout
  /\ restores = [e \in 1..MaxEpoch |-> "none"]
  /\ captures = [c \in CaptureIds |-> FreeCapture]
  /\ shut = "serving"

-----------------------------------------------------------------------------
(* The results an IPC call may have.                                        *)
IpcResults == IF IpcFaults THEN BOOLEAN ELSE {TRUE}

(* Resize decisions.  NoSize is "no resize".                               *)

Unless(size, current) == IF size = current THEN NoSize ELSE size

(* initial_size_resize_decision, of the request clamped to encoder limits *)
InitialDecision(request) ==
  IF ResolutionFixed \/ Clamp(request) = NoSize THEN NoSize
  ELSE Unless(IF PhysicalOutput THEN Fit(Clamp(request), layout.source)
                                ELSE Clamp(request),
              resolution)

(* display_control_resize_decision: a physical output follows only a       *)
(* single, primary, unrotated monitor at the origin.                       *)
LayoutDecision(request) ==
  IF ResolutionFixed \/ (PhysicalOutput /\ ~request.simple) THEN NoSize
  ELSE Unless(IF PhysicalOutput THEN Fit(request.size, layout.source)
                                ELSE Clamp(request.size),
              resolution)

(* reconcile_resize_decision: repair an output of unknown size *)
Reconcile(decision) ==
  IF decision = NoSize /\ Managed /\ unconfirmed THEN resolution ELSE decision

(* Nothing to do: the display closed, or the policy keeps the size.        *)
RefusedStale(decision) == decision = NoSize
Refused(decision) == closed \/ decision = NoSize

(* output_size_unconfirmed goes up before the compositor is asked.         *)
ForgetToMark == unconfirmed
MarkUnconfirmed == unconfirmed \/ Managed

(* apply_presentation_state_with, its layout refresh done by the caller *)
CommitWithoutLayout(size, source) ==
  /\ layout' = [layout EXCEPT !.source = source]
  /\ unconfirmed' = FALSE
  /\ resolution' = size
  /\ surface' = size

CommitPresentation(size, source) ==
  /\ layout' = [source |-> source, presentation |-> size]
  /\ unconfirmed' = FALSE
  /\ resolution' = size
  /\ surface' = size

(* resize_headless_output: ok means that the compositor reported the size; *)
(* after a failure it has either size.                                     *)
CompositorResize(size, ok) ==
  output' \in (IF ok THEN {size} ELSE {output, size})

-----------------------------------------------------------------------------
(* The connection future and the session sink.                             *)

(* on_connection_info *)
SessionStarted ==
  /\ conn.phase = "idle" /\ shut = "serving" /\ epoch < MaxEpoch
  /\ epoch' = epoch + 1 /\ active' = TRUE /\ sized' = FALSE
  /\ conn' = Conn("up")
  /\ UNCHANGED <<sizeVars, closed, pending, captureVars, guard, output, gate, worker,
                 jobVars, restores, shut>>

(* The future is gone: its permit and inner guard are released, its update *)
(* receiver closes, a blocking job it awaited runs on with its result lost.*)
DropWithPermit ==
  /\ gate' = IF conn.phase \in {"initDecide", "initAwait", "updJoin", "updStart"}
             THEN "free" ELSE gate
  /\ worker' = IF worker.phase \in {"done", "failed"} THEN IdleWorker ELSE worker
  /\ captures' = Unread

DropConnection ==
  /\ gate' = IF \/ conn.phase \in {"initDecide", "updJoin", "updStart"}
                \/ conn.phase = "initAwait" /\ worker.phase = "done"
             THEN "free" ELSE gate
  /\ worker' = IF worker.phase \in {"done", "failed"} THEN IdleWorker ELSE worker
  /\ captures' = Unread

(* The connection ends, or is preempted at an await; on_disconnected then  *)
(* schedules the restore.                                                  *)
Disconnect ==
  /\ conn.phase \notin {"idle", "down"}
  /\ ConnInMethod => conn.phase \in DropPhases
  /\ DropConnection
  /\ conn' = Conn("idle")
  /\ active' = FALSE
  /\ restores' = IF active THEN [restores EXCEPT ![epoch] = "waiting"] ELSE restores
  /\ UNCHANGED <<sizeVars, closed, pending, handle, stopRef, guard, output, epoch, sized,
                 jobVars, shut>>

(* A (re)activation drops the previous update stream first.                *)
DropUpdates == captures' = Unread

InitRequest(request) ==
  /\ conn.phase = "up" /\ ~LayoutInMethod
  /\ conn' = [Conn("initWait") EXCEPT !.request = request]
  /\ DropUpdates
  /\ UNCHANGED <<sizeVars, closed, pending, handle, stopRef, guard, output, gate,
                 sessionVars, worker, jobVars, restores, shut>>

InitAcquire ==
  /\ conn.phase = "initWait" /\ gate = "free"
  /\ gate' = "init"
  /\ conn' = [conn EXCEPT !.phase = "initDecide"]
  /\ sized' = TRUE
  /\ UNCHANGED <<sizeVars, closed, pending, captureVars, guard, output, epoch, active,
                 worker, jobVars, restores, shut>>

(* Decide under the gate; hand the permit to a blocking worker.            *)
InitDecide ==
  /\ conn.phase = "initDecide" /\ ~InnerLocked
  /\ LET decision == Reconcile(InitialDecision(conn.request))
     IN  IF Refused(decision)
         THEN /\ gate' = "free" /\ conn' = Conn("up")
              /\ UNCHANGED <<unconfirmed, worker>>
         ELSE /\ gate' = "worker"
              /\ conn' = [conn EXCEPT !.phase = "initAwait"]
              /\ unconfirmed' = MarkUnconfirmed
              /\ worker' = [IdleWorker EXCEPT !.phase = "check", !.target = decision]
  /\ UNCHANGED <<resolution, layout, surface, closed, pending, captureVars, guard, output,
                 sessionVars, jobVars, restores, shut>>

-----------------------------------------------------------------------------
(* The blocking worker of request_initial_size.                            *)

(* A job that returns without a result gives its permit up at once.        *)
WorkerLeaks ==
  /\ worker' = IF conn.phase = "initAwait" THEN [worker EXCEPT !.phase = "failed"]
                                           ELSE IdleWorker
  /\ gate' = gate

WorkerFails ==
  /\ worker' = IF conn.phase = "initAwait" THEN [worker EXCEPT !.phase = "failed"]
                                           ELSE IdleWorker
  /\ gate' = "free"

WorkerCheck ==
  /\ worker.phase = "check" /\ ~InnerLocked
  /\ IF closed THEN WorkerFails
     ELSE /\ worker' = [worker EXCEPT !.phase = IF Managed THEN "resize" ELSE "prepare"]
          /\ UNCHANGED gate
  /\ UNCHANGED <<sizeVars, closed, pending, captureVars, guard, output, sessionVars, conn,
                 jobVars, restores, shut>>

WorkerResize(ok) ==
  /\ worker.phase = "resize"
  /\ CompositorResize(worker.target, ok)
  /\ IF ok THEN worker' = [worker EXCEPT !.phase = "prepare"] /\ UNCHANGED gate
           ELSE WorkerFails
  /\ UNCHANGED <<sizeVars, closed, pending, captureVars, guard, sessionVars, conn, jobVars,
                 restores, shut>>

(* prepare_from_output_with_presentation queries the layout; the result    *)
(* carries the permit back to the awaiting future, if there still is one.  *)
WorkerPrepare(ok) ==
  /\ worker.phase = "prepare"
  /\ IF ~ok THEN WorkerFails
     ELSE IF conn.phase = "initAwait"
          THEN worker' = [worker EXCEPT !.phase = "done", !.source = output] /\ UNCHANGED gate
          ELSE worker' = IdleWorker /\ gate' = "free"
  /\ UNCHANGED <<sizeVars, closed, pending, captureVars, guard, output, sessionVars, conn,
                 jobVars, restores, shut>>

(* The future resumes: commit a prepared resize of an open display.        *)
InitCommit ==
  /\ conn.phase = "initAwait" /\ worker.phase \in {"done", "failed"} /\ ~InnerLocked
  /\ IF worker.phase = "done" /\ ~closed
     THEN /\ CommitPresentation(worker.target, worker.source)
          /\ pending' = worker.target
     ELSE UNCHANGED <<sizeVars, pending>>
  /\ gate' = IF worker.phase = "done" THEN "free" ELSE gate
  /\ worker' = IdleWorker
  /\ conn' = Conn("up")
  /\ UNCHANGED <<closed, captureVars, guard, output, sessionVars, jobVars, restores, shut>>

-----------------------------------------------------------------------------
(* DisplayControl layouts: blocking jobs the server spawns and forgets.    *)

LayoutRequested(request) ==
  /\ conn.phase = "up" /\ request \notin layoutQueue
  /\ layoutQueue' = layoutQueue \cup {request}
  /\ UNCHANGED <<sizeVars, closed, pending, captureVars, guard, output, gate, sessionVars,
                 conn, worker, layoutJob, restores, shut>>

(* The job borrows the display and waits for the gate.                     *)
LayoutBegin(request) ==
  /\ request \in layoutQueue /\ ~LayoutInMethod /\ ~ConnInMethod
  /\ layoutQueue' = layoutQueue \ {request}
  /\ layoutJob' = [phase |-> "gate", request |-> request, target |-> NoSize]
  /\ UNCHANGED <<sizeVars, closed, pending, captureVars, guard, output, gate, sessionVars,
                 conn, worker, restores, shut>>

LayoutDecide ==
  /\ layoutJob.phase = "gate" /\ gate = "free" /\ ~InnerLocked
  /\ LET decision == Reconcile(LayoutDecision(layoutJob.request))
     IN  IF Refused(decision)
         THEN /\ layoutJob' = IdleLayout
              /\ UNCHANGED <<gate, unconfirmed>>
         ELSE /\ layoutJob' = [layoutJob EXCEPT !.phase = IF Managed THEN "resize" ELSE "refresh",
                                                !.target = decision]
              /\ gate' = "layout"
              /\ unconfirmed' = MarkUnconfirmed
  /\ UNCHANGED <<resolution, layout, surface, closed, pending, captureVars, guard, output,
                 sessionVars, conn, worker, layoutQueue, restores, shut>>

LayoutResize(ok) ==
  /\ layoutJob.phase = "resize"
  /\ CompositorResize(layoutJob.target, ok)
  /\ layoutJob' = IF ok THEN [layoutJob EXCEPT !.phase = "refresh"] ELSE IdleLayout
  /\ gate' = IF ok THEN gate ELSE "free"
  /\ UNCHANGED <<sizeVars, closed, pending, captureVars, guard, sessionVars, conn, worker,
                 layoutQueue, restores, shut>>

LayoutRefresh(ok) ==
  /\ layoutJob.phase = "refresh"
  /\ IF ok THEN CommitPresentation(layoutJob.target, output) ELSE UNCHANGED sizeVars
  /\ layoutJob' = IdleLayout
  /\ gate' = "free"
  /\ UNCHANGED <<closed, pending, captureVars, guard, output, sessionVars, conn, worker,
                 layoutQueue, restores, shut>>

-----------------------------------------------------------------------------
(* restore_after_session: the task of the session that ended with epoch e. *)

(* The early returns, in the code's order; a physical output has no        *)
(* idle_resolution.                                                        *)
RestoreIgnoresEpoch(e) ==
  closed \/ PhysicalOutput \/ (resolution = IdleSize /\ ~unconfirmed)
RestoreTrustsState(e) ==
  closed \/ epoch # e \/ PhysicalOutput \/ resolution = IdleSize
RestoreAnyOutput(e) ==
  closed \/ epoch # e \/ (resolution = IdleSize /\ ~unconfirmed)
RestoreUnneeded(e) ==
  \/ closed \/ epoch # e
  \/ PhysicalOutput
  \/ resolution = IdleSize /\ ~unconfirmed

RestoreCheck(e) ==
  /\ restores[e] = "waiting" /\ gate = "free" /\ ~InnerLocked
  /\ IF RestoreUnneeded(e)
     THEN /\ restores' = [restores EXCEPT ![e] = "none"]
          /\ UNCHANGED <<gate, unconfirmed>>
     ELSE /\ restores' = [restores EXCEPT ![e] = "resize"]
          /\ gate' = "restore"
          /\ unconfirmed' = TRUE
  /\ UNCHANGED <<resolution, layout, surface, closed, pending, captureVars, guard, output,
                 sessionVars, conn, worker, jobVars, shut>>

RestoreResize(e, ok) ==
  /\ restores[e] = "resize"
  /\ CompositorResize(IdleSize, ok)
  /\ restores' = [restores EXCEPT ![e] = IF ok THEN "refresh" ELSE "none"]
  /\ gate' = IF ok THEN gate ELSE "free"
  /\ UNCHANGED <<sizeVars, closed, pending, captureVars, guard, sessionVars, conn, worker,
                 jobVars, shut>>

RestoreRefresh(e, ok) ==
  /\ restores[e] = "refresh"
  /\ IF ok THEN CommitPresentation(IdleSize, output) /\ pending' = NoSize
           ELSE UNCHANGED <<sizeVars, pending>>
  /\ restores' = [restores EXCEPT ![e] = "none"]
  /\ gate' = "free"
  /\ UNCHANGED <<closed, captureVars, guard, output, sessionVars, conn, worker, jobVars, shut>>

-----------------------------------------------------------------------------
(* start_capture_updates: replace the capture thread for an activation.    *)

UpdatesRequest ==
  /\ conn.phase = "up" /\ ~LayoutInMethod
  /\ conn' = Conn("updWait")
  /\ DropUpdates
  /\ UNCHANGED <<sizeVars, closed, pending, handle, stopRef, guard, output, gate,
                 sessionVars, worker, jobVars, restores, shut>>

(* Raise the stop flag of the current capture and take its handle to join. *)
UpdatesAcquire ==
  /\ conn.phase = "updWait" /\ gate = "free" /\ ~InnerLocked
  /\ sized' = TRUE
  /\ IF closed
     THEN /\ conn' = Conn("broken")
          /\ UNCHANGED <<gate, handle, captures>>
     ELSE /\ gate' = "updates"
          /\ conn' = [Conn("updJoin") EXCEPT !.thread = handle]
          /\ handle' = NoCapture
          /\ captures' = Stopped
  /\ UNCHANGED <<sizeVars, closed, pending, stopRef, guard, output, epoch, active, worker,
                 jobVars, restores, shut>>

(* join_previous_capture returns when the taken thread has exited.         *)
JoinSkipped(c) == TRUE
Joined(c) == c # NoCapture => captures[c].phase = "free"

(* The old thread is joined; a fresh one starts while inner stays locked.  *)
UpdatesStart(c) ==
  /\ conn.phase = "updJoin" /\ ~InnerLocked
  /\ Joined(conn.thread)
  /\ IF closed
     THEN /\ conn' = Conn("broken") /\ gate' = "free"
          /\ UNCHANGED <<captures, stopRef, pending>>
     ELSE /\ captures[c].phase = "free" /\ c # handle
          /\ captures' = [captures EXCEPT ![c] = [FreeCapture EXCEPT !.phase = "starting",
                                                                     !.live = TRUE]]
          /\ stopRef' = c
          /\ pending' = NoSize
          /\ conn' = [Conn("updStart") EXCEPT !.thread = c]
          /\ UNCHANGED gate
  /\ UNCHANGED <<sizeVars, closed, handle, guard, output, sessionVars, worker, jobVars,
                 restores, shut>>

(* The size start_capture_updates adopts from the layout.                  *)
AdoptedFromThread == captures[conn.thread].presentation
AdoptedSize == layout.presentation

(* The thread reported its output, or died before it could.                *)
UpdatesStarted ==
  /\ conn.phase = "updStart"
  /\ LET c == conn.thread
     IN  IF captures[c].reported
         THEN /\ handle' = c
              /\ resolution' = AdoptedSize
              /\ conn' = Conn("up")
         ELSE /\ captures[c].phase = "free"
              /\ conn' = Conn("broken")
              /\ UNCHANGED <<handle, resolution>>
  /\ gate' = "free"
  /\ UNCHANGED <<unconfirmed, layout, surface, closed, pending, stopRef, captures, guard,
                 output, sessionVars, worker, jobVars, restores, shut>>

-----------------------------------------------------------------------------
(* Capture threads (src/src/capture/wayland/mod.rs).                       *)

(* refresh_output_layout_for_capture reads the presentation ...            *)
CaptureReadLayout(c) ==
  /\ captures[c].phase = "starting"
  /\ captures' = [captures EXCEPT ![c].phase = "refreshing",
                                  ![c].presentation = layout.presentation]
  /\ UNCHANGED <<sizeVars, closed, pending, handle, stopRef, guard, output, gate,
                 sessionVars, conn, worker, jobVars, restores, shut>>

(* ... queries the compositor, and publishes the pair.                     *)
CaptureRefresh(c) ==
  /\ captures[c].phase = "refreshing"
  /\ layout' = [source |-> output, presentation |-> captures[c].presentation]
  /\ captures' = [captures EXCEPT ![c].phase = "running", ![c].reported = TRUE,
                                  ![c].presentation = NoSize]
  /\ UNCHANGED <<resolution, unconfirmed, surface, closed, pending, handle, stopRef, guard,
                 output, gate, sessionVars, conn, worker, jobVars, restores, shut>>

(* Restart: the buffer parameters changed under a running capture.         *)
CaptureRestart(c) ==
  /\ CaptureRestarts
  /\ captures[c].phase = "running" /\ ~captures[c].stop
  /\ captures' = [captures EXCEPT ![c].phase = "starting"]
  /\ UNCHANGED <<sizeVars, closed, pending, handle, stopRef, guard, output, gate,
                 sessionVars, conn, worker, jobVars, restores, shut>>

(* The loop notices its stop flag or its closed receiver.                  *)
CaptureStops(c) ==
  /\ captures[c].phase = "running" /\ (captures[c].stop \/ ~captures[c].live)
  /\ captures' = Exited(c, FALSE)
  /\ UNCHANGED <<sizeVars, closed, pending, handle, stopRef, guard, output, gate,
                 sessionVars, conn, worker, jobVars, restores, shut>>

(* An error ends the thread; unless it was told to stop or nobody reads    *)
(* its updates any more, it notifies capture_dead.                         *)
CaptureDies(c) ==
  /\ captures[c].phase # "free"
  /\ captures' = Exited(c, captures[c].live /\ ~captures[c].stop)
  /\ UNCHANGED <<sizeVars, closed, pending, handle, stopRef, guard, output, gate,
                 sessionVars, conn, worker, jobVars, restores, shut>>

(* HyprDisplayUpdates::next_update returns None: the session is over.      *)
UpdatesEnd(c) ==
  /\ conn.phase = "up" /\ captures[c].live /\ captures[c].dead
  /\ conn' = Conn("broken")
  /\ UNCHANGED <<sizeVars, closed, pending, captureVars, guard, output, gate, sessionVars,
                 worker, jobVars, restores, shut>>

-----------------------------------------------------------------------------
(* main(): a signal drops the serve future, then HyprDisplayHandle::shutdown *)

Signal ==
  /\ shut = "serving"
  /\ DropConnection
  /\ conn' = Conn("down")
  /\ shut' = "signalled"
  /\ UNCHANGED <<sizeVars, closed, pending, handle, stopRef, guard, output, sessionVars,
                 jobVars, restores>>

ShutdownClose ==
  /\ shut = "signalled" /\ ~InnerLocked
  /\ closed' = TRUE
  /\ captures' = Stopped
  /\ shut' = "gate"
  /\ UNCHANGED <<sizeVars, pending, handle, stopRef, guard, output, gate, sessionVars, conn,
                 worker, jobVars, restores>>

ShutdownAcquire ==
  /\ shut = "gate" /\ gate = "free" /\ ~InnerLocked
  /\ gate' = "shutdown"
  /\ captures' = Stopped
  /\ shut' = "join"
  /\ UNCHANGED <<sizeVars, closed, pending, handle, stopRef, guard, output, sessionVars,
                 conn, worker, jobVars, restores>>

(* Join the thread inner still has a handle to, then remove the output.    *)
ShutdownJoined ==
  /\ shut = "join"
  /\ Joined(handle)
  /\ handle' = NoCapture
  /\ guard' = FALSE
  /\ gate' = "free"
  /\ shut' = "done"
  /\ UNCHANGED <<sizeVars, closed, pending, stopRef, captures, output, sessionVars, conn,
                 worker, jobVars, restores>>

(* Nothing is left to run: the process may exit.                           *)
Terminated ==
  /\ shut = "done" /\ layoutQueue = {} /\ layoutJob = IdleLayout /\ worker = IdleWorker
  /\ \A e \in 1..MaxEpoch : restores[e] = "none"
  /\ \A c \in CaptureIds : captures[c].phase = "free"
  /\ UNCHANGED vars

-----------------------------------------------------------------------------
ConnNext ==
  \/ SessionStarted \/ Disconnect
  \/ \E r \in Requests : InitRequest(r)
  \/ InitAcquire \/ InitDecide \/ InitCommit
  \/ UpdatesRequest \/ UpdatesAcquire \/ UpdatesStarted
  \/ \E c \in CaptureIds : UpdatesStart(c) \/ UpdatesEnd(c)

WorkerNext == WorkerCheck \/ \E ok \in IpcResults : WorkerResize(ok) \/ WorkerPrepare(ok)

LayoutNext ==
  \/ \E r \in LayoutRequests : LayoutRequested(r) \/ LayoutBegin(r)
  \/ LayoutDecide
  \/ \E ok \in IpcResults : LayoutResize(ok) \/ LayoutRefresh(ok)

RestoreNext(e) ==
  RestoreCheck(e) \/ \E ok \in IpcResults : RestoreResize(e, ok) \/ RestoreRefresh(e, ok)

CaptureNext(c) ==
  \/ CaptureReadLayout(c) \/ CaptureRefresh(c) \/ CaptureRestart(c)
  \/ CaptureStops(c) \/ CaptureDies(c)

ShutdownNext == Signal \/ ShutdownClose \/ ShutdownAcquire \/ ShutdownJoined

Next ==
  \/ ConnNext \/ WorkerNext \/ LayoutNext
  \/ \E e \in 1..MaxEpoch : RestoreNext(e)
  \/ \E c \in CaptureIds : CaptureNext(c)
  \/ ShutdownNext
  \/ Terminated

Spec == Init /\ [][Next]_vars

(* Fairness.  Every thread and future that can take a step eventually      *)
(* does; IPC calls end (they carry a timeout); tokio mutexes are FIFO, so  *)
(* a waiter for the gate or for inner is not overtaken for ever.  Clients, *)
(* signals and capture errors are free not to happen.                      *)
Fairness ==
  /\ WF_vars(conn.phase = "broken" /\ Disconnect)
  /\ SF_vars(InitAcquire) /\ WF_vars(InitDecide) /\ WF_vars(InitCommit)
  /\ SF_vars(UpdatesAcquire) /\ WF_vars(UpdatesStarted)
  /\ WF_vars(\E c \in CaptureIds : UpdatesStart(c))
  /\ WF_vars(\E c \in CaptureIds : UpdatesEnd(c))
  /\ WF_vars(WorkerNext)
  /\ SF_vars(LayoutDecide)
  /\ WF_vars(\E ok \in IpcResults : LayoutResize(ok) \/ LayoutRefresh(ok))
  /\ \A e \in 1..MaxEpoch : SF_vars(RestoreNext(e))
  /\ \A c \in CaptureIds : /\ WF_vars(CaptureReadLayout(c) \/ CaptureRefresh(c))
                             /\ SF_vars(CaptureStops(c))
  /\ SF_vars(ShutdownClose) /\ SF_vars(ShutdownAcquire) /\ WF_vars(ShutdownJoined)

FairSpec == Spec /\ Fairness

-----------------------------------------------------------------------------
(* Properties.                                                             *)

SizeOrNone == Sizes \cup {NoSize}

CaptureRecord == [phase : CapturePhases, stop : BOOLEAN, live : BOOLEAN,
                  reported : BOOLEAN, dead : BOOLEAN, presentation : SizeOrNone]

SizesTyped ==
  /\ resolution \in Sizes /\ surface \in Sizes /\ output \in Sizes
  /\ layout \in [source : Sizes, presentation : Sizes]
  /\ pending \in SizeOrNone

FlagsTyped ==
  /\ unconfirmed \in BOOLEAN /\ closed \in BOOLEAN /\ guard \in BOOLEAN
  /\ active \in BOOLEAN /\ sized \in BOOLEAN
  /\ epoch \in 0..MaxEpoch
  /\ gate \in GateOwners /\ shut \in ShutPhases
  /\ restores \in [1..MaxEpoch -> RestorePhases]

JobsTyped ==
  /\ conn \in [phase : ConnPhases, request : Requests \cup {NoSize},
               thread : CaptureIds \cup {NoCapture}]
  /\ worker \in [phase : WorkerPhases, target : SizeOrNone, source : SizeOrNone]
  /\ layoutQueue \subseteq LayoutRequests
  /\ layoutJob \in [phase : LayoutPhases, request : LayoutRequests \cup {NoLayout},
                    target : SizeOrNone]

CapturesTyped ==
  /\ captures \in [CaptureIds -> CaptureRecord]
  /\ handle \in CaptureIds \cup {NoCapture}
  /\ stopRef \in CaptureIds \cup {NoCapture}

(* Every variable has its type: the record of a capture, a job or the      *)
(* connection is always one the code can be in.                            *)
TypeOK == SizesTyped /\ FlagsTyped /\ JobsTyped /\ CapturesTyped

WorkerHolds  == worker.phase \in {"check", "resize", "prepare", "done"}
LayoutHolds  == layoutJob.phase \in {"resize", "refresh"}
RestoreHolds(e) == restores[e] \in {"resize", "refresh"}

(* Two compositor resizes never overlap, whoever asked for them and        *)
(* whichever future was dropped: the initial resize's permit outlives the  *)
(* request that awaited it.                                                *)
ResizeExclusive ==
  /\ WorkerHolds => ~LayoutHolds /\ \A e \in 1..MaxEpoch : ~RestoreHolds(e)
  /\ LayoutHolds => \A e \in 1..MaxEpoch : ~RestoreHolds(e)
  /\ \A e, f \in 1..MaxEpoch : RestoreHolds(e) /\ RestoreHolds(f) => e = f

(* A size hypr-rdp regards as confirmed is the size the compositor gives   *)
(* the output: the surface of the graphics channel matches what is         *)
(* captured, after any mix of failed, cancelled and completed resizes.     *)
ConfirmedOutput == Managed /\ ~unconfirmed => output = surface

(* A restore that touches the output belongs to the last session, and no   *)
(* newer session has been through the gate: a client's size is not undone  *)
(* by the restore of its predecessor.                                      *)
RestoreYields ==
  \A e \in 1..MaxEpoch : RestoreHolds(e) => (epoch > e => ~sized)

outputVars == <<output, resolution, surface, unconfirmed>>

(* From the moment shutdown owns the gate, no queued layout, waiting       *)
(* restore or detached worker touches the output that is being removed.    *)
RemovedOutputUntouched == [][(shut \in {"join", "done"}) => UNCHANGED outputVars]_vars

(* "A physical output, which hypr-rdp never resizes" (capture/mod.rs:64).  *)
PhysicalUntouched == [][PhysicalOutput => UNCHANGED output]_vars

(* While nobody resizes, the input mapping, the advertised desktop and the *)
(* graphics surface have one presentation size.                            *)
PresentationAgrees ==
  shut = "serving" /\ gate = "free" => /\ layout.presentation = resolution
                                      /\ surface = resolution

(* One capture thread at a time feeds the graphics state: an activation    *)
(* joins the previous thread before it starts the next.                    *)
CaptureExclusive ==
  \A c, d \in CaptureIds :
     captures[c].phase # "free" /\ captures[d].phase # "free" => c = d

(* With no session and nothing in progress, the managed output is back at  *)
(* its startup size ("once its session ends", capture/mod.rs:66).  It is   *)
(* not always: the runs say what may be cancelled or fail meanwhile.       *)
RestoredAtRest ==
  /\ Managed /\ conn.phase = "idle" /\ gate = "free"
  /\ layoutQueue = {} /\ ~LayoutInMethod
  /\ \A e \in 1..MaxEpoch : restores[e] = "none"
  => (output = IdleSize /\ ~unconfirmed)

(* Shutdown always gets the gate and finishes.                             *)
ShutdownCompletes == shut = "signalled" ~> shut = "done"

(* Every scheduled restore ends, so the gate it queues for is not held for *)
(* ever by a dropped client's work.                                        *)
RestoreEnds == \A e \in 1..MaxEpoch : restores[e] = "waiting" ~> restores[e] = "none"

(* A capture that dies under a session ends the session instead of         *)
(* freezing it (wayland/mod.rs:193).                                       *)
DeadCaptureEndsSession ==
  \A c \in CaptureIds :
    (conn.phase = "up" /\ captures[c].live /\ captures[c].phase = "free")
      ~> conn.phase # "up"

(* Nobody waits for ever: shutdown gets the gate although blocking jobs of *)
(* dropped connections hold it, every restore ends, and a dead capture     *)
(* ends its session.                                                       *)
DisplayProgress ==
  /\ ShutdownCompletes
  /\ RestoreEnds
  /\ DeadCaptureEndsSession
===============================================================================
