---------------------------- MODULE DisplayProofs ----------------------------
(***************************************************************************)
(* TLAPS proofs about Display, for every value of its constants: any set   *)
(* of sizes and requests, any size policy, any number of sessions and      *)
(* capture threads, drops at any await, failing IPC.                       *)
(***************************************************************************)
EXTENDS Display, TLAPS

(* The gate is held by exactly the actor that is inside a resize, a        *)
(* capture restart or the shutdown; a worker with a finished job still has *)
(* its request waiting for it, and a restore is scheduled only once the    *)
(* session it restores for has ended.                                      *)
GateInv ==
  /\ gate = "init"     <=> conn.phase = "initDecide"
  /\ gate = "worker"   <=> WorkerHolds
  /\ gate = "layout"   <=> LayoutHolds
  /\ gate = "updates"  <=> conn.phase \in {"updJoin", "updStart"}
  /\ gate = "restore"  <=> \E e \in 1..MaxEpoch : RestoreHolds(e)
  /\ gate = "shutdown" <=> shut = "join"
  /\ \A e, f \in 1..MaxEpoch : RestoreHolds(e) /\ RestoreHolds(f) => e = f
  /\ worker.phase \in {"done", "failed"} => conn.phase = "initAwait"
  /\ \A e \in 1..MaxEpoch : e > epoch \/ (active /\ e = epoch) => restores[e] = "none"

(* What a resize in progress is about: it has a target, it runs on a       *)
(* managed output only, the size counts as unconfirmed, and once the       *)
(* compositor has answered the output has the target size.                 *)
ResizeInv ==
  /\ WorkerHolds => worker.target \in Sizes /\ (Managed => unconfirmed)
  /\ worker.phase = "resize" => Managed
  /\ worker.phase \in {"prepare", "done"} /\ Managed => output = worker.target
  /\ worker.phase = "done" => worker.source \in Sizes
  /\ LayoutHolds => layoutJob.target \in Sizes /\ (Managed => unconfirmed)
  /\ layoutJob.phase = "resize" => Managed
  /\ layoutJob.phase = "refresh" /\ Managed => output = layoutJob.target
  /\ \A e \in 1..MaxEpoch :
       /\ RestoreHolds(e) => Managed /\ unconfirmed
       /\ restores[e] = "refresh" => output = IdleSize

(* A refreshing capture carries a presentation it read; a running layout   *)
(* job carries a request.                                                  *)
CarryInv ==
  /\ \A c \in CaptureIds : captures[c].phase = "refreshing" => captures[c].presentation \in Sizes
  /\ layoutJob.phase # "idle" => layoutJob.request \in LayoutRequests
  /\ conn.phase \in InitPhases => conn.request \in Requests
  /\ conn.phase = "updStart" => conn.thread \in CaptureIds

(* The serve future is dropped before shutdown begins, closed is raised    *)
(* before shutdown asks for the gate, and nobody holds it afterwards.      *)
ClosedInv ==
  /\ shut # "serving" => conn.phase = "down"
  /\ shut \in {"gate", "join", "done"} => closed
  /\ shut = "done" => ~WorkerHolds /\ ~LayoutHolds /\ \A e \in 1..MaxEpoch : ~RestoreHolds(e)

DisplayInv ==
  /\ TypeOK /\ CarryInv /\ GateInv /\ ResizeInv /\ ClosedInv
  /\ ConfirmedOutput /\ RestoreYields
-----------------------------------------------------------------------------
(* A resize decision is a size, or none.                                   *)
LEMMA DecisionTyped ==
  ASSUME TypeOK
  PROVE  /\ \A r \in Requests : Reconcile(InitialDecision(r)) \in Sizes \cup {NoSize}
         /\ \A r \in LayoutRequests : Reconcile(LayoutDecision(r)) \in Sizes \cup {NoSize}
  BY SizeAssumption DEF TypeOK, SizesTyped, Reconcile, InitialDecision, LayoutDecision, Unless

(* The operations on capture records keep their type.                      *)
LEMMA RecordsTyped ==
  ASSUME CapturesTyped
  PROVE  /\ FreeCapture \in CaptureRecord
         /\ Unread \in [CaptureIds -> CaptureRecord]
         /\ Stopped \in [CaptureIds -> CaptureRecord]
         /\ \A c \in CaptureIds, dead \in BOOLEAN : Exited(c, dead) \in [CaptureIds -> CaptureRecord]
<1> USE DEF CapturesTyped
<1>1. FreeCapture \in CaptureRecord
  BY DEF FreeCapture, CaptureRecord, CapturePhases, SizeOrNone
<1>2. Unread \in [CaptureIds -> CaptureRecord]
  <2>1. \A c \in CaptureIds : [captures[c] EXCEPT !.live = FALSE] \in CaptureRecord
    BY DEF CaptureRecord
  <2> QED BY <1>1, <2>1 DEF Unread
<1>3. Stopped \in [CaptureIds -> CaptureRecord]
  <2>1. \A c \in CaptureIds : [captures[c] EXCEPT !.stop = TRUE] \in CaptureRecord
    BY DEF CaptureRecord
  <2> QED BY <2>1 DEF Stopped
<1>4. ASSUME NEW c \in CaptureIds, NEW dead \in BOOLEAN
      PROVE  Exited(c, dead) \in [CaptureIds -> CaptureRecord]
  <2>1. [FreeCapture EXCEPT !.live = captures[c].live,
            !.reported = captures[c].live /\ captures[c].reported, !.dead = dead] \in CaptureRecord
    BY <1>1 DEF CaptureRecord, FreeCapture, CapturePhases, SizeOrNone
  <2> QED BY <2>1 DEF Exited
<1> QED BY <1>1, <1>2, <1>3, <1>4

(* Committed, adopted and queried sizes are sizes.                          *)
LEMMA SizesStep ==
  ASSUME DisplayInv, [Next]_vars PROVE (SizesTyped)'
<1> USE SizeAssumption DEF DisplayInv, TypeOK, SizesTyped, CarryInv, ResizeInv, SizeOrNone,
      vars, sizeVars, captureVars, sessionVars, jobVars
<1>1. CASE SessionStarted
  BY <1>1 DEF SessionStarted
<1>2. CASE Disconnect
  BY <1>2 DEF Disconnect
<1>3. ASSUME NEW r \in Requests, InitRequest(r) PROVE (SizesTyped)'
  BY <1>3 DEF InitRequest
<1>4. CASE InitAcquire
  BY <1>4 DEF InitAcquire
<1>5. CASE InitDecide
  BY <1>5 DEF InitDecide
<1>6. CASE WorkerCheck
  BY <1>6 DEF WorkerCheck
<1>7. ASSUME NEW ok \in IpcResults, WorkerResize(ok) PROVE (SizesTyped)'
  BY <1>7 DEF WorkerResize, CompositorResize, WorkerHolds
<1>8. ASSUME NEW ok \in IpcResults, WorkerPrepare(ok) PROVE (SizesTyped)'
  BY <1>8 DEF WorkerPrepare
<1>9. CASE InitCommit
  BY <1>9 DEF InitCommit, CommitPresentation, WorkerHolds
<1>10. ASSUME NEW r \in LayoutRequests, LayoutRequested(r) PROVE (SizesTyped)'
  BY <1>10 DEF LayoutRequested
<1>11. ASSUME NEW r \in LayoutRequests, LayoutBegin(r) PROVE (SizesTyped)'
  BY <1>11 DEF LayoutBegin
<1>12. CASE LayoutDecide
  BY <1>12 DEF LayoutDecide
<1>13. ASSUME NEW ok \in IpcResults, LayoutResize(ok) PROVE (SizesTyped)'
  BY <1>13 DEF LayoutResize, CompositorResize, LayoutHolds
<1>14. ASSUME NEW ok \in IpcResults, LayoutRefresh(ok) PROVE (SizesTyped)'
  BY <1>14 DEF LayoutRefresh, CommitPresentation, LayoutHolds
<1>15. ASSUME NEW e \in 1..MaxEpoch, RestoreCheck(e) PROVE (SizesTyped)'
  BY <1>15 DEF RestoreCheck
<1>16. ASSUME NEW e \in 1..MaxEpoch, NEW ok \in IpcResults, RestoreResize(e, ok) PROVE (SizesTyped)'
  BY <1>16 DEF RestoreResize, CompositorResize
<1>17. ASSUME NEW e \in 1..MaxEpoch, NEW ok \in IpcResults, RestoreRefresh(e, ok) PROVE (SizesTyped)'
  BY <1>17 DEF RestoreRefresh, CommitPresentation
<1>18. CASE UpdatesRequest
  BY <1>18 DEF UpdatesRequest
<1>19. CASE UpdatesAcquire
  BY <1>19 DEF UpdatesAcquire
<1>20. ASSUME NEW c \in CaptureIds, UpdatesStart(c) PROVE (SizesTyped)'
  BY <1>20 DEF UpdatesStart
<1>21. CASE UpdatesStarted
  BY <1>21 DEF UpdatesStarted, AdoptedSize
<1>22. ASSUME NEW c \in CaptureIds, UpdatesEnd(c) PROVE (SizesTyped)'
  BY <1>22 DEF UpdatesEnd
<1>23. ASSUME NEW c \in CaptureIds, CaptureReadLayout(c) PROVE (SizesTyped)'
  BY <1>23 DEF CaptureReadLayout
<1>24. ASSUME NEW c \in CaptureIds, CaptureRefresh(c) PROVE (SizesTyped)'
  BY <1>24 DEF CaptureRefresh
<1>25. ASSUME NEW c \in CaptureIds, CaptureRestart(c) PROVE (SizesTyped)'
  BY <1>25 DEF CaptureRestart
<1>26. ASSUME NEW c \in CaptureIds, CaptureStops(c) PROVE (SizesTyped)'
  BY <1>26 DEF CaptureStops
<1>27. ASSUME NEW c \in CaptureIds, CaptureDies(c) PROVE (SizesTyped)'
  BY <1>27 DEF CaptureDies
<1>28. CASE Signal
  BY <1>28 DEF Signal
<1>29. CASE ShutdownClose
  BY <1>29 DEF ShutdownClose
<1>30. CASE ShutdownAcquire
  BY <1>30 DEF ShutdownAcquire
<1>31. CASE ShutdownJoined
  BY <1>31 DEF ShutdownJoined
<1>32. CASE Terminated \/ UNCHANGED vars
  BY <1>32 DEF Terminated
<1> QED
  BY <1>1, <1>2, <1>3, <1>4, <1>5, <1>6, <1>7, <1>8, <1>9, <1>10, <1>11, <1>12, <1>13, <1>14, <1>15, <1>16, <1>17,
       <1>18, <1>19, <1>20, <1>21, <1>22, <1>23, <1>24, <1>25, <1>26, <1>27, <1>28, <1>29, <1>30, <1>31, <1>32
  DEF Next, ConnNext, WorkerNext, LayoutNext, RestoreNext, CaptureNext, ShutdownNext

(* Flags, the epoch, the gate and the restore tasks keep their types.        *)
LEMMA FlagsStep ==
  ASSUME DisplayInv, [Next]_vars PROVE (FlagsTyped)'
<1> USE FlagAssumption, BoundAssumption DEF DisplayInv, TypeOK, FlagsTyped, GateOwners, ShutPhases, RestorePhases,
      vars, sizeVars, captureVars, sessionVars, jobVars
<1>1. CASE SessionStarted
  <2>1. epoch' \in 0..MaxEpoch
    BY <1>1 DEF SessionStarted
  <2> QED BY <1>1, <2>1 DEF SessionStarted
<1>2. CASE Disconnect
  BY <1>2 DEF Disconnect, DropConnection, Unread, Conn, ConnInMethod, FreeCapture, IdleWorker
<1>3. ASSUME NEW r \in Requests, InitRequest(r) PROVE (FlagsTyped)'
  BY <1>3 DEF InitRequest, DropUpdates, Unread, Conn, FreeCapture, LayoutInMethod
<1>4. CASE InitAcquire
  BY <1>4 DEF InitAcquire, Conn
<1>5. CASE InitDecide
  BY <1>5 DEF InitDecide, Conn, Refused, MarkUnconfirmed, IdleWorker, Managed
<1>6. CASE WorkerCheck
  BY <1>6 DEF WorkerCheck, WorkerFails, IdleWorker, Managed
<1>7. ASSUME NEW ok \in IpcResults, WorkerResize(ok) PROVE (FlagsTyped)'
  BY <1>7 DEF WorkerResize, WorkerFails, IdleWorker, CompositorResize, Managed
<1>8. ASSUME NEW ok \in IpcResults, WorkerPrepare(ok) PROVE (FlagsTyped)'
  BY <1>8 DEF WorkerPrepare, WorkerFails, IdleWorker, Managed
<1>9. CASE InitCommit
  BY <1>9 DEF InitCommit, CommitPresentation, IdleWorker, Conn, Managed
<1>10. ASSUME NEW r \in LayoutRequests, LayoutRequested(r) PROVE (FlagsTyped)'
  BY <1>10 DEF LayoutRequested
<1>11. ASSUME NEW r \in LayoutRequests, LayoutBegin(r) PROVE (FlagsTyped)'
  BY <1>11 DEF LayoutBegin, LayoutInMethod, ConnInMethod
<1>12. CASE LayoutDecide
  BY <1>12 DEF LayoutDecide, Refused, MarkUnconfirmed, IdleLayout, Managed
<1>13. ASSUME NEW ok \in IpcResults, LayoutResize(ok) PROVE (FlagsTyped)'
  BY <1>13 DEF LayoutResize, CompositorResize, IdleLayout, Managed
<1>14. ASSUME NEW ok \in IpcResults, LayoutRefresh(ok) PROVE (FlagsTyped)'
  BY <1>14 DEF LayoutRefresh, CommitPresentation, IdleLayout, Managed
<1>15. ASSUME NEW e \in 1..MaxEpoch, RestoreCheck(e) PROVE (FlagsTyped)'
  BY <1>15 DEF RestoreCheck, RestoreUnneeded, Managed
<1>16. ASSUME NEW e \in 1..MaxEpoch, NEW ok \in IpcResults, RestoreResize(e, ok) PROVE (FlagsTyped)'
  BY <1>16 DEF RestoreResize, CompositorResize
<1>17. ASSUME NEW e \in 1..MaxEpoch, NEW ok \in IpcResults, RestoreRefresh(e, ok) PROVE (FlagsTyped)'
  BY <1>17 DEF RestoreRefresh, CommitPresentation
<1>18. CASE UpdatesRequest
  BY <1>18 DEF UpdatesRequest, DropUpdates, Unread, Conn, FreeCapture
<1>19. CASE UpdatesAcquire
  BY <1>19 DEF UpdatesAcquire, Conn, Stopped
<1>20. ASSUME NEW c \in CaptureIds, UpdatesStart(c) PROVE (FlagsTyped)'
  BY <1>20 DEF UpdatesStart, Conn, FreeCapture, Joined
<1>21. CASE UpdatesStarted
  BY <1>21 DEF UpdatesStarted, Conn, AdoptedSize
<1>22. ASSUME NEW c \in CaptureIds, UpdatesEnd(c) PROVE (FlagsTyped)'
  BY <1>22 DEF UpdatesEnd, Conn
<1>23. ASSUME NEW c \in CaptureIds, CaptureReadLayout(c) PROVE (FlagsTyped)'
  BY <1>23 DEF CaptureReadLayout
<1>24. ASSUME NEW c \in CaptureIds, CaptureRefresh(c) PROVE (FlagsTyped)'
  BY <1>24 DEF CaptureRefresh
<1>25. ASSUME NEW c \in CaptureIds, CaptureRestart(c) PROVE (FlagsTyped)'
  BY <1>25 DEF CaptureRestart
<1>26. ASSUME NEW c \in CaptureIds, CaptureStops(c) PROVE (FlagsTyped)'
  BY <1>26 DEF CaptureStops, Exited, FreeCapture
<1>27. ASSUME NEW c \in CaptureIds, CaptureDies(c) PROVE (FlagsTyped)'
  BY <1>27 DEF CaptureDies, Exited, FreeCapture
<1>28. CASE Signal
  BY <1>28 DEF Signal, DropConnection, Unread, Conn, FreeCapture, IdleWorker
<1>29. CASE ShutdownClose
  BY <1>29 DEF ShutdownClose, Stopped
<1>30. CASE ShutdownAcquire
  BY <1>30 DEF ShutdownAcquire, Stopped
<1>31. CASE ShutdownJoined
  BY <1>31 DEF ShutdownJoined, Joined
<1>32. CASE Terminated \/ UNCHANGED vars
  BY <1>32 DEF Terminated
<1> QED
  BY <1>1, <1>2, <1>3, <1>4, <1>5, <1>6, <1>7, <1>8, <1>9, <1>10, <1>11, <1>12, <1>13, <1>14, <1>15, <1>16, <1>17,
       <1>18, <1>19, <1>20, <1>21, <1>22, <1>23, <1>24, <1>25, <1>26, <1>27, <1>28, <1>29, <1>30, <1>31, <1>32
  DEF Next, ConnNext, WorkerNext, LayoutNext, RestoreNext, CaptureNext, ShutdownNext

(* The connection, the worker and the layout jobs keep their types.         *)
LEMMA JobsStep ==
  ASSUME DisplayInv, [Next]_vars PROVE (JobsTyped)'
<1> USE SizeAssumption DEF DisplayInv, TypeOK, JobsTyped, CarryInv, SizeOrNone,
      ConnPhases, InitPhases, UpdPhases, WorkerPhases, LayoutPhases,
      vars, sizeVars, captureVars, sessionVars, jobVars
<1>1. CASE SessionStarted
  BY <1>1 DEF SessionStarted, Conn
<1>2. CASE Disconnect
  BY <1>2 DEF Disconnect, DropConnection, Unread, Conn, ConnInMethod, FreeCapture, IdleWorker
<1>3. ASSUME NEW r \in Requests, InitRequest(r) PROVE (JobsTyped)'
  BY <1>3 DEF InitRequest, DropUpdates, Unread, Conn, FreeCapture, LayoutInMethod
<1>4. CASE InitAcquire
  BY <1>4 DEF InitAcquire, Conn
<1>5. CASE InitDecide
  <2> DEFINE decision == Reconcile(InitialDecision(conn.request))
  <2>1. decision \in Sizes \cup {NoSize}
    BY <1>5, DecisionTyped DEF InitDecide, CarryInv, InitPhases
  <2>2. CASE Refused(decision)
    BY <1>5, <2>2 DEF InitDecide, Conn, IdleWorker
  <2>3. CASE ~Refused(decision)
    BY <1>5, <2>1, <2>3, SizeAssumption DEF InitDecide, Refused, MarkUnconfirmed, Managed, Conn, IdleWorker
  <2> QED BY <2>2, <2>3
<1>6. CASE WorkerCheck
  BY <1>6 DEF WorkerCheck, WorkerFails, IdleWorker, Managed
<1>7. ASSUME NEW ok \in IpcResults, WorkerResize(ok) PROVE (JobsTyped)'
  BY <1>7 DEF WorkerResize, WorkerFails, IdleWorker, CompositorResize, Managed
<1>8. ASSUME NEW ok \in IpcResults, WorkerPrepare(ok) PROVE (JobsTyped)'
  <2>1. CASE ~ok
    BY <1>8, <2>1 DEF WorkerPrepare, WorkerFails, IdleWorker
  <2>2. CASE ok /\ conn.phase = "initAwait"
    BY <1>8, <2>2 DEF WorkerPrepare, SizesTyped
  <2>3. CASE ok /\ conn.phase # "initAwait"
    BY <1>8, <2>3 DEF WorkerPrepare, IdleWorker
  <2> QED BY <2>1, <2>2, <2>3
<1>9. CASE InitCommit
  BY <1>9 DEF InitCommit, CommitPresentation, IdleWorker, Conn, Managed
<1>10. ASSUME NEW r \in LayoutRequests, LayoutRequested(r) PROVE (JobsTyped)'
  BY <1>10 DEF LayoutRequested
<1>11. ASSUME NEW r \in LayoutRequests, LayoutBegin(r) PROVE (JobsTyped)'
  BY <1>11 DEF LayoutBegin, LayoutInMethod, ConnInMethod
<1>12. CASE LayoutDecide
  <2> DEFINE decision == Reconcile(LayoutDecision(layoutJob.request))
  <2>1. decision \in Sizes \cup {NoSize}
    BY <1>12, DecisionTyped DEF LayoutDecide, CarryInv, InitPhases
  <2>2. CASE Refused(decision)
    BY <1>12, <2>2 DEF LayoutDecide, IdleLayout
  <2>3. CASE ~Refused(decision)
    BY <1>12, <2>1, <2>3, SizeAssumption DEF LayoutDecide, Refused, MarkUnconfirmed, Managed, IdleLayout
  <2> QED BY <2>2, <2>3
<1>13. ASSUME NEW ok \in IpcResults, LayoutResize(ok) PROVE (JobsTyped)'
  BY <1>13 DEF LayoutResize, CompositorResize, IdleLayout, Managed
<1>14. ASSUME NEW ok \in IpcResults, LayoutRefresh(ok) PROVE (JobsTyped)'
  BY <1>14 DEF LayoutRefresh, CommitPresentation, IdleLayout, Managed
<1>15. ASSUME NEW e \in 1..MaxEpoch, RestoreCheck(e) PROVE (JobsTyped)'
  BY <1>15 DEF RestoreCheck, RestoreUnneeded, Managed
<1>16. ASSUME NEW e \in 1..MaxEpoch, NEW ok \in IpcResults, RestoreResize(e, ok) PROVE (JobsTyped)'
  BY <1>16 DEF RestoreResize, CompositorResize
<1>17. ASSUME NEW e \in 1..MaxEpoch, NEW ok \in IpcResults, RestoreRefresh(e, ok) PROVE (JobsTyped)'
  BY <1>17 DEF RestoreRefresh, CommitPresentation
<1>18. CASE UpdatesRequest
  BY <1>18 DEF UpdatesRequest, DropUpdates, Unread, Conn, FreeCapture
<1>19. CASE UpdatesAcquire
  BY <1>19 DEF UpdatesAcquire, Conn, CapturesTyped
<1>20. ASSUME NEW c \in CaptureIds, UpdatesStart(c) PROVE (JobsTyped)'
  BY <1>20 DEF UpdatesStart, Conn, FreeCapture, Joined
<1>21. CASE UpdatesStarted
  BY <1>21 DEF UpdatesStarted, Conn, AdoptedSize
<1>22. ASSUME NEW c \in CaptureIds, UpdatesEnd(c) PROVE (JobsTyped)'
  BY <1>22 DEF UpdatesEnd, Conn
<1>23. ASSUME NEW c \in CaptureIds, CaptureReadLayout(c) PROVE (JobsTyped)'
  BY <1>23 DEF CaptureReadLayout
<1>24. ASSUME NEW c \in CaptureIds, CaptureRefresh(c) PROVE (JobsTyped)'
  BY <1>24 DEF CaptureRefresh
<1>25. ASSUME NEW c \in CaptureIds, CaptureRestart(c) PROVE (JobsTyped)'
  BY <1>25 DEF CaptureRestart
<1>26. ASSUME NEW c \in CaptureIds, CaptureStops(c) PROVE (JobsTyped)'
  BY <1>26 DEF CaptureStops, Exited, FreeCapture
<1>27. ASSUME NEW c \in CaptureIds, CaptureDies(c) PROVE (JobsTyped)'
  BY <1>27 DEF CaptureDies, Exited, FreeCapture
<1>28. CASE Signal
  BY <1>28 DEF Signal, DropConnection, Unread, Conn, FreeCapture, IdleWorker
<1>29. CASE ShutdownClose
  BY <1>29 DEF ShutdownClose, Stopped
<1>30. CASE ShutdownAcquire
  BY <1>30 DEF ShutdownAcquire, Stopped
<1>31. CASE ShutdownJoined
  BY <1>31 DEF ShutdownJoined, Joined
<1>32. CASE Terminated \/ UNCHANGED vars
  BY <1>32 DEF Terminated
<1> QED
  BY <1>1, <1>2, <1>3, <1>4, <1>5, <1>6, <1>7, <1>8, <1>9, <1>10, <1>11, <1>12, <1>13, <1>14, <1>15, <1>16, <1>17,
       <1>18, <1>19, <1>20, <1>21, <1>22, <1>23, <1>24, <1>25, <1>26, <1>27, <1>28, <1>29, <1>30, <1>31, <1>32
  DEF Next, ConnNext, WorkerNext, LayoutNext, RestoreNext, CaptureNext, ShutdownNext

(* The capture threads keep their types.                                    *)
LEMMA CapturesStep ==
  ASSUME DisplayInv, [Next]_vars PROVE (CapturesTyped)'
<1> USE DEF DisplayInv, TypeOK, CapturesTyped,
      vars, sizeVars, captureVars, sessionVars, jobVars
<1>1. CASE SessionStarted
  BY <1>1 DEF SessionStarted, Conn
<1>2. CASE Disconnect
  BY <1>2, RecordsTyped DEF Disconnect, DropConnection
<1>3. ASSUME NEW r \in Requests, InitRequest(r) PROVE (CapturesTyped)'
  BY <1>3, RecordsTyped DEF InitRequest, DropUpdates
<1>4. CASE InitAcquire
  BY <1>4 DEF InitAcquire, Conn
<1>5. CASE InitDecide
  BY <1>5 DEF InitDecide, Conn, Refused, MarkUnconfirmed, IdleWorker, Managed
<1>6. CASE WorkerCheck
  BY <1>6 DEF WorkerCheck, WorkerFails, IdleWorker, Managed
<1>7. ASSUME NEW ok \in IpcResults, WorkerResize(ok) PROVE (CapturesTyped)'
  BY <1>7 DEF WorkerResize, WorkerFails, IdleWorker, CompositorResize, Managed
<1>8. ASSUME NEW ok \in IpcResults, WorkerPrepare(ok) PROVE (CapturesTyped)'
  BY <1>8 DEF WorkerPrepare, WorkerFails, IdleWorker, Managed
<1>9. CASE InitCommit
  BY <1>9 DEF InitCommit, CommitPresentation, IdleWorker, Conn, Managed
<1>10. ASSUME NEW r \in LayoutRequests, LayoutRequested(r) PROVE (CapturesTyped)'
  BY <1>10 DEF LayoutRequested
<1>11. ASSUME NEW r \in LayoutRequests, LayoutBegin(r) PROVE (CapturesTyped)'
  BY <1>11 DEF LayoutBegin, LayoutInMethod, ConnInMethod
<1>12. CASE LayoutDecide
  BY <1>12 DEF LayoutDecide, Refused, MarkUnconfirmed, IdleLayout, Managed
<1>13. ASSUME NEW ok \in IpcResults, LayoutResize(ok) PROVE (CapturesTyped)'
  BY <1>13 DEF LayoutResize, CompositorResize, IdleLayout, Managed
<1>14. ASSUME NEW ok \in IpcResults, LayoutRefresh(ok) PROVE (CapturesTyped)'
  BY <1>14 DEF LayoutRefresh, CommitPresentation, IdleLayout, Managed
<1>15. ASSUME NEW e \in 1..MaxEpoch, RestoreCheck(e) PROVE (CapturesTyped)'
  BY <1>15 DEF RestoreCheck, RestoreUnneeded, Managed
<1>16. ASSUME NEW e \in 1..MaxEpoch, NEW ok \in IpcResults, RestoreResize(e, ok) PROVE (CapturesTyped)'
  BY <1>16 DEF RestoreResize, CompositorResize
<1>17. ASSUME NEW e \in 1..MaxEpoch, NEW ok \in IpcResults, RestoreRefresh(e, ok) PROVE (CapturesTyped)'
  BY <1>17 DEF RestoreRefresh, CommitPresentation
<1>18. CASE UpdatesRequest
  BY <1>18, RecordsTyped DEF UpdatesRequest, DropUpdates
<1>19. CASE UpdatesAcquire
  BY <1>19, RecordsTyped DEF UpdatesAcquire
<1>20. ASSUME NEW c \in CaptureIds, UpdatesStart(c) PROVE (CapturesTyped)'
  <2>1. [FreeCapture EXCEPT !.phase = "starting", !.live = TRUE] \in CaptureRecord
    BY DEF FreeCapture, CaptureRecord, CapturePhases, SizeOrNone
  <2> QED BY <1>20, <2>1 DEF UpdatesStart
<1>21. CASE UpdatesStarted
  BY <1>21 DEF UpdatesStarted, CarryInv
<1>22. ASSUME NEW c \in CaptureIds, UpdatesEnd(c) PROVE (CapturesTyped)'
  BY <1>22 DEF UpdatesEnd, Conn
<1>23. ASSUME NEW c \in CaptureIds, CaptureReadLayout(c) PROVE (CapturesTyped)'
  <2>1. [captures[c] EXCEPT !.phase = "refreshing", !.presentation = layout.presentation]
          \in CaptureRecord
    BY DEF CaptureRecord, CapturePhases, SizeOrNone, SizesTyped
  <2> QED BY <1>23, <2>1 DEF CaptureReadLayout
<1>24. ASSUME NEW c \in CaptureIds, CaptureRefresh(c) PROVE (CapturesTyped)'
  <2>1. [captures[c] EXCEPT !.phase = "running", !.reported = TRUE, !.presentation = NoSize]
          \in CaptureRecord
    BY DEF CaptureRecord, CapturePhases, SizeOrNone
  <2> QED BY <1>24, <2>1 DEF CaptureRefresh
<1>25. ASSUME NEW c \in CaptureIds, CaptureRestart(c) PROVE (CapturesTyped)'
  <2>1. [captures[c] EXCEPT !.phase = "starting"] \in CaptureRecord
    BY DEF CaptureRecord, CapturePhases
  <2> QED BY <1>25, <2>1 DEF CaptureRestart
<1>26. ASSUME NEW c \in CaptureIds, CaptureStops(c) PROVE (CapturesTyped)'
  BY <1>26, RecordsTyped DEF CaptureStops
<1>27. ASSUME NEW c \in CaptureIds, CaptureDies(c) PROVE (CapturesTyped)'
  <2>1. (captures[c].live /\ ~captures[c].stop) \in BOOLEAN
    OBVIOUS
  <2> QED BY <1>27, <2>1, RecordsTyped DEF CaptureDies
<1>28. CASE Signal
  BY <1>28, RecordsTyped DEF Signal, DropConnection
<1>29. CASE ShutdownClose
  BY <1>29, RecordsTyped DEF ShutdownClose
<1>30. CASE ShutdownAcquire
  BY <1>30, RecordsTyped DEF ShutdownAcquire
<1>31. CASE ShutdownJoined
  BY <1>31 DEF ShutdownJoined, Joined
<1>32. CASE Terminated \/ UNCHANGED vars
  BY <1>32 DEF Terminated
<1> QED
  BY <1>1, <1>2, <1>3, <1>4, <1>5, <1>6, <1>7, <1>8, <1>9, <1>10, <1>11, <1>12, <1>13, <1>14, <1>15, <1>16, <1>17,
       <1>18, <1>19, <1>20, <1>21, <1>22, <1>23, <1>24, <1>25, <1>26, <1>27, <1>28, <1>29, <1>30, <1>31, <1>32
  DEF Next, ConnNext, WorkerNext, LayoutNext, RestoreNext, CaptureNext, ShutdownNext

(* What a job or thread carries to its next step stays meaningful.          *)
LEMMA CarryStep ==
  ASSUME DisplayInv, [Next]_vars PROVE (CarryInv)'
<1> USE DEF DisplayInv, TypeOK, CapturesTyped, CaptureRecord, JobsTyped, SizesTyped, CarryInv,
      InitPhases, UpdPhases,
      vars, sizeVars, captureVars, sessionVars, jobVars
<1>1. CASE SessionStarted
  BY <1>1 DEF SessionStarted, Conn
<1>2. CASE Disconnect
  BY <1>2 DEF Disconnect, DropConnection, Unread, Conn, ConnInMethod, FreeCapture, IdleWorker
<1>3. ASSUME NEW r \in Requests, InitRequest(r) PROVE (CarryInv)'
  BY <1>3 DEF InitRequest, DropUpdates, Unread, Conn, FreeCapture, LayoutInMethod
<1>4. CASE InitAcquire
  BY <1>4 DEF InitAcquire, Conn
<1>5. CASE InitDecide
  <2> DEFINE decision == Reconcile(InitialDecision(conn.request))
  <2>1. decision \in Sizes \cup {NoSize}
    BY <1>5, DecisionTyped DEF InitDecide, CarryInv, InitPhases
  <2>2. CASE Refused(decision)
    BY <1>5, <2>2 DEF InitDecide, Conn, IdleWorker
  <2>3. CASE ~Refused(decision)
    BY <1>5, <2>1, <2>3, SizeAssumption DEF InitDecide, Refused, MarkUnconfirmed, Managed, Conn, IdleWorker
  <2> QED BY <2>2, <2>3
<1>6. CASE WorkerCheck
  BY <1>6 DEF WorkerCheck, WorkerFails, IdleWorker, Managed
<1>7. ASSUME NEW ok \in IpcResults, WorkerResize(ok) PROVE (CarryInv)'
  BY <1>7 DEF WorkerResize, WorkerFails, IdleWorker, CompositorResize, Managed
<1>8. ASSUME NEW ok \in IpcResults, WorkerPrepare(ok) PROVE (CarryInv)'
  BY <1>8 DEF WorkerPrepare, WorkerFails, IdleWorker, Managed
<1>9. CASE InitCommit
  BY <1>9 DEF InitCommit, CommitPresentation, IdleWorker, Conn, Managed
<1>10. ASSUME NEW r \in LayoutRequests, LayoutRequested(r) PROVE (CarryInv)'
  BY <1>10 DEF LayoutRequested
<1>11. ASSUME NEW r \in LayoutRequests, LayoutBegin(r) PROVE (CarryInv)'
  BY <1>11 DEF LayoutBegin, LayoutInMethod, ConnInMethod
<1>12. CASE LayoutDecide
  <2> DEFINE decision == Reconcile(LayoutDecision(layoutJob.request))
  <2>1. decision \in Sizes \cup {NoSize}
    BY <1>12, DecisionTyped DEF LayoutDecide, CarryInv, InitPhases
  <2>2. CASE Refused(decision)
    BY <1>12, <2>2 DEF LayoutDecide, IdleLayout
  <2>3. CASE ~Refused(decision)
    BY <1>12, <2>1, <2>3, SizeAssumption DEF LayoutDecide, Refused, MarkUnconfirmed, Managed, IdleLayout
  <2> QED BY <2>2, <2>3
<1>13. ASSUME NEW ok \in IpcResults, LayoutResize(ok) PROVE (CarryInv)'
  BY <1>13 DEF LayoutResize, CompositorResize, IdleLayout, Managed
<1>14. ASSUME NEW ok \in IpcResults, LayoutRefresh(ok) PROVE (CarryInv)'
  BY <1>14 DEF LayoutRefresh, CommitPresentation, IdleLayout, Managed
<1>15. ASSUME NEW e \in 1..MaxEpoch, RestoreCheck(e) PROVE (CarryInv)'
  BY <1>15 DEF RestoreCheck, RestoreUnneeded, Managed
<1>16. ASSUME NEW e \in 1..MaxEpoch, NEW ok \in IpcResults, RestoreResize(e, ok) PROVE (CarryInv)'
  BY <1>16 DEF RestoreResize, CompositorResize
<1>17. ASSUME NEW e \in 1..MaxEpoch, NEW ok \in IpcResults, RestoreRefresh(e, ok) PROVE (CarryInv)'
  BY <1>17 DEF RestoreRefresh, CommitPresentation
<1>18. CASE UpdatesRequest
  BY <1>18 DEF UpdatesRequest, DropUpdates, Unread, Conn, FreeCapture
<1>19. CASE UpdatesAcquire
  BY <1>19 DEF UpdatesAcquire, Conn, Stopped
<1>20. ASSUME NEW c \in CaptureIds, UpdatesStart(c) PROVE (CarryInv)'
  <2>1. CASE closed
    BY <1>20, <2>1 DEF UpdatesStart, Conn
  <2>2. CASE ~closed
    <3>1. captures' = [captures EXCEPT ![c] = [FreeCapture EXCEPT !.phase = "starting",
                                                                  !.live = TRUE]]
      BY <1>20, <2>2 DEF UpdatesStart
    <3>2. [FreeCapture EXCEPT !.phase = "starting", !.live = TRUE].phase = "starting"
      BY DEF FreeCapture
    <3>3. \A d \in CaptureIds : captures'[d].phase = "refreshing" => captures'[d] = captures[d]
      BY <3>1, <3>2
    <3> QED BY <1>20, <2>2, <3>3 DEF UpdatesStart, Conn
  <2> QED BY <2>1, <2>2
<1>21. CASE UpdatesStarted
  BY <1>21 DEF UpdatesStarted, Conn, AdoptedSize
<1>22. ASSUME NEW c \in CaptureIds, UpdatesEnd(c) PROVE (CarryInv)'
  BY <1>22 DEF UpdatesEnd, Conn
<1>23. ASSUME NEW c \in CaptureIds, CaptureReadLayout(c) PROVE (CarryInv)'
  BY <1>23 DEF CaptureReadLayout
<1>24. ASSUME NEW c \in CaptureIds, CaptureRefresh(c) PROVE (CarryInv)'
  BY <1>24 DEF CaptureRefresh
<1>25. ASSUME NEW c \in CaptureIds, CaptureRestart(c) PROVE (CarryInv)'
  BY <1>25 DEF CaptureRestart
<1>26. ASSUME NEW c \in CaptureIds, CaptureStops(c) PROVE (CarryInv)'
  BY <1>26 DEF CaptureStops, Exited, FreeCapture
<1>27. ASSUME NEW c \in CaptureIds, CaptureDies(c) PROVE (CarryInv)'
  BY <1>27 DEF CaptureDies, Exited, FreeCapture
<1>28. CASE Signal
  BY <1>28 DEF Signal, DropConnection, Unread, Conn, FreeCapture, IdleWorker
<1>29. CASE ShutdownClose
  BY <1>29 DEF ShutdownClose, Stopped
<1>30. CASE ShutdownAcquire
  BY <1>30 DEF ShutdownAcquire, Stopped
<1>31. CASE ShutdownJoined
  BY <1>31 DEF ShutdownJoined, Joined
<1>32. CASE Terminated \/ UNCHANGED vars
  BY <1>32 DEF Terminated
<1> QED
  BY <1>1, <1>2, <1>3, <1>4, <1>5, <1>6, <1>7, <1>8, <1>9, <1>10, <1>11, <1>12, <1>13, <1>14, <1>15, <1>16, <1>17,
       <1>18, <1>19, <1>20, <1>21, <1>22, <1>23, <1>24, <1>25, <1>26, <1>27, <1>28, <1>29, <1>30, <1>31, <1>32
  DEF Next, ConnNext, WorkerNext, LayoutNext, RestoreNext, CaptureNext, ShutdownNext

(* Every step hands the gate over correctly, dropped futures included.     *)
LEMMA GateStep ==
  ASSUME DisplayInv, [Next]_vars PROVE (GateInv)'
<1> USE BoundAssumption DEF DisplayInv, TypeOK, FlagsTyped, JobsTyped, GateInv, WorkerHolds, LayoutHolds, RestoreHolds,
      vars, sizeVars, captureVars, sessionVars, jobVars
<1>1. CASE SessionStarted
  BY <1>1 DEF SessionStarted, Conn
<1>2. CASE Disconnect
  <2>1. \A e \in 1..MaxEpoch : /\ RestoreHolds(e)' <=> RestoreHolds(e)
                              /\ e > epoch => restores'[e] = "none"
    BY <1>2 DEF Disconnect
  <2>2. CASE conn.phase = "initAwait"
    BY <1>2, <2>1, <2>2 DEF Disconnect, DropConnection, Conn, IdleWorker
  <2>3. CASE conn.phase # "initAwait"
    BY <1>2, <2>1, <2>3 DEF Disconnect, DropConnection, Conn, IdleWorker
  <2> QED BY <2>2, <2>3
<1>3. ASSUME NEW r \in Requests, InitRequest(r) PROVE (GateInv)'
  BY <1>3 DEF InitRequest, DropUpdates, Unread, Conn, FreeCapture, LayoutInMethod
<1>4. CASE InitAcquire
  BY <1>4 DEF InitAcquire, Conn
<1>5. CASE InitDecide
  <2> DEFINE decision == Reconcile(InitialDecision(conn.request))
  <2>1. decision \in Sizes \cup {NoSize}
    BY <1>5, DecisionTyped DEF InitDecide, CarryInv, InitPhases
  <2>2. CASE Refused(decision)
    BY <1>5, <2>2 DEF InitDecide, Conn, IdleWorker
  <2>3. CASE ~Refused(decision)
    BY <1>5, <2>1, <2>3, SizeAssumption DEF InitDecide, Refused, MarkUnconfirmed, Managed, Conn, IdleWorker
  <2> QED BY <2>2, <2>3
<1>6. CASE WorkerCheck
  BY <1>6 DEF WorkerCheck, WorkerFails, IdleWorker, Managed
<1>7. ASSUME NEW ok \in IpcResults, WorkerResize(ok) PROVE (GateInv)'
  BY <1>7 DEF WorkerResize, WorkerFails, IdleWorker, CompositorResize, Managed
<1>8. ASSUME NEW ok \in IpcResults, WorkerPrepare(ok) PROVE (GateInv)'
  <2>1. CASE ~ok
    BY <1>8, <2>1 DEF WorkerPrepare, WorkerFails, IdleWorker
  <2>2. CASE ok /\ conn.phase = "initAwait"
    BY <1>8, <2>2 DEF WorkerPrepare
  <2>3. CASE ok /\ conn.phase # "initAwait"
    BY <1>8, <2>3 DEF WorkerPrepare, IdleWorker
  <2> QED BY <2>1, <2>2, <2>3
<1>9. CASE InitCommit
  BY <1>9 DEF InitCommit, CommitPresentation, IdleWorker, Conn, Managed
<1>10. ASSUME NEW r \in LayoutRequests, LayoutRequested(r) PROVE (GateInv)'
  BY <1>10 DEF LayoutRequested
<1>11. ASSUME NEW r \in LayoutRequests, LayoutBegin(r) PROVE (GateInv)'
  BY <1>11 DEF LayoutBegin, LayoutInMethod, ConnInMethod
<1>12. CASE LayoutDecide
  <2> DEFINE decision == Reconcile(LayoutDecision(layoutJob.request))
  <2>1. decision \in Sizes \cup {NoSize}
    BY <1>12, DecisionTyped DEF LayoutDecide, CarryInv, InitPhases
  <2>2. CASE Refused(decision)
    BY <1>12, <2>2 DEF LayoutDecide, IdleLayout
  <2>3. CASE ~Refused(decision)
    BY <1>12, <2>1, <2>3, SizeAssumption DEF LayoutDecide, Refused, MarkUnconfirmed, Managed, IdleLayout
  <2> QED BY <2>2, <2>3
<1>13. ASSUME NEW ok \in IpcResults, LayoutResize(ok) PROVE (GateInv)'
  BY <1>13 DEF LayoutResize, CompositorResize, IdleLayout, Managed
<1>14. ASSUME NEW ok \in IpcResults, LayoutRefresh(ok) PROVE (GateInv)'
  BY <1>14 DEF LayoutRefresh, CommitPresentation, IdleLayout, Managed
<1>15. ASSUME NEW e \in 1..MaxEpoch, RestoreCheck(e) PROVE (GateInv)'
  <2>1. CASE RestoreUnneeded(e)
    BY <1>15, <2>1 DEF RestoreCheck
  <2>2. CASE ~RestoreUnneeded(e)
    BY <1>15, <2>2 DEF RestoreCheck
  <2> QED BY <2>1, <2>2
<1>16. ASSUME NEW e \in 1..MaxEpoch, NEW ok \in IpcResults, RestoreResize(e, ok) PROVE (GateInv)'
  BY <1>16 DEF RestoreResize, CompositorResize
<1>17. ASSUME NEW e \in 1..MaxEpoch, NEW ok \in IpcResults, RestoreRefresh(e, ok) PROVE (GateInv)'
  BY <1>17 DEF RestoreRefresh, CommitPresentation
<1>18. CASE UpdatesRequest
  BY <1>18 DEF UpdatesRequest, DropUpdates, Unread, Conn, FreeCapture
<1>19. CASE UpdatesAcquire
  BY <1>19 DEF UpdatesAcquire, Conn, Stopped
<1>20. ASSUME NEW c \in CaptureIds, UpdatesStart(c) PROVE (GateInv)'
  BY <1>20 DEF UpdatesStart, Conn, FreeCapture, Joined
<1>21. CASE UpdatesStarted
  BY <1>21 DEF UpdatesStarted, Conn, AdoptedSize
<1>22. ASSUME NEW c \in CaptureIds, UpdatesEnd(c) PROVE (GateInv)'
  BY <1>22 DEF UpdatesEnd, Conn
<1>23. ASSUME NEW c \in CaptureIds, CaptureReadLayout(c) PROVE (GateInv)'
  BY <1>23 DEF CaptureReadLayout
<1>24. ASSUME NEW c \in CaptureIds, CaptureRefresh(c) PROVE (GateInv)'
  BY <1>24 DEF CaptureRefresh
<1>25. ASSUME NEW c \in CaptureIds, CaptureRestart(c) PROVE (GateInv)'
  BY <1>25 DEF CaptureRestart
<1>26. ASSUME NEW c \in CaptureIds, CaptureStops(c) PROVE (GateInv)'
  BY <1>26 DEF CaptureStops, Exited, FreeCapture
<1>27. ASSUME NEW c \in CaptureIds, CaptureDies(c) PROVE (GateInv)'
  BY <1>27 DEF CaptureDies, Exited, FreeCapture
<1>28. CASE Signal
  BY <1>28 DEF Signal, DropConnection, Unread, Conn, FreeCapture, IdleWorker
<1>29. CASE ShutdownClose
  BY <1>29 DEF ShutdownClose, Stopped
<1>30. CASE ShutdownAcquire
  BY <1>30 DEF ShutdownAcquire, Stopped
<1>31. CASE ShutdownJoined
  BY <1>31 DEF ShutdownJoined, Joined
<1>32. CASE Terminated \/ UNCHANGED vars
  BY <1>32 DEF Terminated
<1> QED
  BY <1>1, <1>2, <1>3, <1>4, <1>5, <1>6, <1>7, <1>8, <1>9, <1>10, <1>11, <1>12, <1>13, <1>14, <1>15, <1>16, <1>17,
       <1>18, <1>19, <1>20, <1>21, <1>22, <1>23, <1>24, <1>25, <1>26, <1>27, <1>28, <1>29, <1>30, <1>31, <1>32
  DEF Next, ConnNext, WorkerNext, LayoutNext, RestoreNext, CaptureNext, ShutdownNext

(* Every step keeps a resize in progress accounted for.                     *)
LEMMA ResizeStep ==
  ASSUME DisplayInv, [Next]_vars PROVE (ResizeInv /\ ConfirmedOutput)'
<1> USE DEF DisplayInv, TypeOK, SizesTyped, FlagsTyped, JobsTyped, GateInv, ResizeInv, ConfirmedOutput,
      WorkerHolds, LayoutHolds, RestoreHolds, Managed,
      vars, sizeVars, captureVars, sessionVars, jobVars
<1>1. CASE SessionStarted
  BY <1>1 DEF SessionStarted, Conn
<1>2. CASE Disconnect
  BY <1>2 DEF Disconnect, DropConnection, Unread, Conn, ConnInMethod, FreeCapture, IdleWorker
<1>3. ASSUME NEW r \in Requests, InitRequest(r) PROVE (ResizeInv /\ ConfirmedOutput)'
  BY <1>3 DEF InitRequest, DropUpdates, Unread, Conn, FreeCapture, LayoutInMethod
<1>4. CASE InitAcquire
  BY <1>4 DEF InitAcquire, Conn
<1>5. CASE InitDecide
  <2> DEFINE decision == Reconcile(InitialDecision(conn.request))
  <2>1. decision \in Sizes \cup {NoSize}
    BY <1>5, DecisionTyped DEF InitDecide, CarryInv, InitPhases
  <2>2. CASE Refused(decision)
    BY <1>5, <2>2 DEF InitDecide, Conn, IdleWorker
  <2>3. CASE ~Refused(decision)
    <3>1. /\ worker' = [phase |-> "check", target |-> decision, source |-> NoSize]
          /\ decision \in Sizes
          /\ Managed => unconfirmed'
      BY <1>5, <2>1, <2>3 DEF InitDecide, Refused, MarkUnconfirmed, IdleWorker
    <3>2. ~LayoutHolds /\ \A e \in 1..MaxEpoch : ~RestoreHolds(e)
      BY <1>5 DEF InitDecide
    <3> QED BY <1>5, <2>3, <3>1, <3>2 DEF InitDecide
  <2> QED BY <2>2, <2>3
<1>6. CASE WorkerCheck
  BY <1>6 DEF WorkerCheck, WorkerFails, IdleWorker, Managed
<1>7. ASSUME NEW ok \in IpcResults, WorkerResize(ok) PROVE (ResizeInv /\ ConfirmedOutput)'
  BY <1>7 DEF WorkerResize, WorkerFails, IdleWorker, CompositorResize, Managed
<1>8. ASSUME NEW ok \in IpcResults, WorkerPrepare(ok) PROVE (ResizeInv /\ ConfirmedOutput)'
  <2>1. CASE ~ok
    BY <1>8, <2>1 DEF WorkerPrepare, WorkerFails, IdleWorker
  <2>2. CASE ok /\ conn.phase = "initAwait"
    BY <1>8, <2>2 DEF WorkerPrepare
  <2>3. CASE ok /\ conn.phase # "initAwait"
    BY <1>8, <2>3 DEF WorkerPrepare, IdleWorker
  <2> QED BY <2>1, <2>2, <2>3
<1>9. CASE InitCommit
  BY <1>9 DEF InitCommit, CommitPresentation, IdleWorker, Conn, Managed
<1>10. ASSUME NEW r \in LayoutRequests, LayoutRequested(r) PROVE (ResizeInv /\ ConfirmedOutput)'
  BY <1>10 DEF LayoutRequested
<1>11. ASSUME NEW r \in LayoutRequests, LayoutBegin(r) PROVE (ResizeInv /\ ConfirmedOutput)'
  BY <1>11 DEF LayoutBegin, LayoutInMethod, ConnInMethod
<1>12. CASE LayoutDecide
  <2> DEFINE decision == Reconcile(LayoutDecision(layoutJob.request))
  <2>1. decision \in Sizes \cup {NoSize}
    BY <1>12, DecisionTyped DEF LayoutDecide, CarryInv, InitPhases
  <2>2. CASE Refused(decision)
    BY <1>12, <2>2 DEF LayoutDecide, IdleLayout
  <2>3. CASE ~Refused(decision)
    BY <1>12, <2>1, <2>3, SizeAssumption DEF LayoutDecide, Refused, MarkUnconfirmed, Managed, IdleLayout
  <2> QED BY <2>2, <2>3
<1>13. ASSUME NEW ok \in IpcResults, LayoutResize(ok) PROVE (ResizeInv /\ ConfirmedOutput)'
  BY <1>13 DEF LayoutResize, CompositorResize, IdleLayout, Managed
<1>14. ASSUME NEW ok \in IpcResults, LayoutRefresh(ok) PROVE (ResizeInv /\ ConfirmedOutput)'
  BY <1>14 DEF LayoutRefresh, CommitPresentation, IdleLayout, Managed
<1>15. ASSUME NEW e \in 1..MaxEpoch, RestoreCheck(e) PROVE (ResizeInv /\ ConfirmedOutput)'
  <2>1. CASE RestoreUnneeded(e)
    <3>1. \A f \in 1..MaxEpoch : restores'[f] = restores[f] \/ restores'[f] = "none"
      BY <1>15, <2>1 DEF RestoreCheck
    <3> QED BY <1>15, <2>1, <3>1 DEF RestoreCheck
  <2>2. CASE ~RestoreUnneeded(e)
    <3>1. ~WorkerHolds /\ ~LayoutHolds /\ \A f \in 1..MaxEpoch : ~RestoreHolds(f)
      BY <1>15 DEF RestoreCheck
    <3>2. Managed /\ unconfirmed' /\ restores' = [restores EXCEPT ![e] = "resize"]
      BY <1>15, <2>2 DEF RestoreCheck, RestoreUnneeded
    <3> QED BY <1>15, <3>1, <3>2 DEF RestoreCheck
  <2> QED BY <2>1, <2>2
<1>16. ASSUME NEW e \in 1..MaxEpoch, NEW ok \in IpcResults, RestoreResize(e, ok) PROVE (ResizeInv /\ ConfirmedOutput)'
  BY <1>16 DEF RestoreResize, CompositorResize
<1>17. ASSUME NEW e \in 1..MaxEpoch, NEW ok \in IpcResults, RestoreRefresh(e, ok) PROVE (ResizeInv /\ ConfirmedOutput)'
  BY <1>17 DEF RestoreRefresh, CommitPresentation
<1>18. CASE UpdatesRequest
  BY <1>18 DEF UpdatesRequest, DropUpdates, Unread, Conn, FreeCapture
<1>19. CASE UpdatesAcquire
  BY <1>19 DEF UpdatesAcquire, Conn, Stopped
<1>20. ASSUME NEW c \in CaptureIds, UpdatesStart(c) PROVE (ResizeInv /\ ConfirmedOutput)'
  BY <1>20 DEF UpdatesStart, Conn, FreeCapture, Joined
<1>21. CASE UpdatesStarted
  BY <1>21 DEF UpdatesStarted, Conn, AdoptedSize
<1>22. ASSUME NEW c \in CaptureIds, UpdatesEnd(c) PROVE (ResizeInv /\ ConfirmedOutput)'
  BY <1>22 DEF UpdatesEnd, Conn
<1>23. ASSUME NEW c \in CaptureIds, CaptureReadLayout(c) PROVE (ResizeInv /\ ConfirmedOutput)'
  BY <1>23 DEF CaptureReadLayout
<1>24. ASSUME NEW c \in CaptureIds, CaptureRefresh(c) PROVE (ResizeInv /\ ConfirmedOutput)'
  BY <1>24 DEF CaptureRefresh
<1>25. ASSUME NEW c \in CaptureIds, CaptureRestart(c) PROVE (ResizeInv /\ ConfirmedOutput)'
  BY <1>25 DEF CaptureRestart
<1>26. ASSUME NEW c \in CaptureIds, CaptureStops(c) PROVE (ResizeInv /\ ConfirmedOutput)'
  BY <1>26 DEF CaptureStops, Exited, FreeCapture
<1>27. ASSUME NEW c \in CaptureIds, CaptureDies(c) PROVE (ResizeInv /\ ConfirmedOutput)'
  BY <1>27 DEF CaptureDies, Exited, FreeCapture
<1>28. CASE Signal
  BY <1>28 DEF Signal, DropConnection, Unread, Conn, FreeCapture, IdleWorker
<1>29. CASE ShutdownClose
  BY <1>29 DEF ShutdownClose, Stopped
<1>30. CASE ShutdownAcquire
  BY <1>30 DEF ShutdownAcquire, Stopped
<1>31. CASE ShutdownJoined
  BY <1>31 DEF ShutdownJoined, Joined
<1>32. CASE Terminated \/ UNCHANGED vars
  BY <1>32 DEF Terminated
<1> QED
  BY <1>1, <1>2, <1>3, <1>4, <1>5, <1>6, <1>7, <1>8, <1>9, <1>10, <1>11, <1>12, <1>13, <1>14, <1>15, <1>16, <1>17,
       <1>18, <1>19, <1>20, <1>21, <1>22, <1>23, <1>24, <1>25, <1>26, <1>27, <1>28, <1>29, <1>30, <1>31, <1>32
  DEF Next, ConnNext, WorkerNext, LayoutNext, RestoreNext, CaptureNext, ShutdownNext

(* Nothing revives a display that shuts down, and no restore overtakes a   *)
(* newer session.                                                          *)
LEMMA ClosedStep ==
  ASSUME DisplayInv, [Next]_vars PROVE (ClosedInv /\ RestoreYields)'
<1> USE BoundAssumption DEF DisplayInv, TypeOK, FlagsTyped, JobsTyped, GateInv, ClosedInv, RestoreYields,
      WorkerHolds, LayoutHolds, RestoreHolds,
      vars, sizeVars, captureVars, sessionVars, jobVars
<1>1. CASE SessionStarted
  BY <1>1 DEF SessionStarted, Conn
<1>2. CASE Disconnect
  BY <1>2 DEF Disconnect, DropConnection, Unread, Conn, ConnInMethod, FreeCapture, IdleWorker
<1>3. ASSUME NEW r \in Requests, InitRequest(r) PROVE (ClosedInv /\ RestoreYields)'
  BY <1>3 DEF InitRequest, DropUpdates, Unread, Conn, FreeCapture, LayoutInMethod
<1>4. CASE InitAcquire
  BY <1>4 DEF InitAcquire, Conn
<1>5. CASE InitDecide
  BY <1>5 DEF InitDecide, Conn, Refused, MarkUnconfirmed, IdleWorker, Managed
<1>6. CASE WorkerCheck
  BY <1>6 DEF WorkerCheck, WorkerFails, IdleWorker, Managed
<1>7. ASSUME NEW ok \in IpcResults, WorkerResize(ok) PROVE (ClosedInv /\ RestoreYields)'
  BY <1>7 DEF WorkerResize, WorkerFails, IdleWorker, CompositorResize, Managed
<1>8. ASSUME NEW ok \in IpcResults, WorkerPrepare(ok) PROVE (ClosedInv /\ RestoreYields)'
  BY <1>8 DEF WorkerPrepare, WorkerFails, IdleWorker, Managed
<1>9. CASE InitCommit
  BY <1>9 DEF InitCommit, CommitPresentation, IdleWorker, Conn, Managed
<1>10. ASSUME NEW r \in LayoutRequests, LayoutRequested(r) PROVE (ClosedInv /\ RestoreYields)'
  BY <1>10 DEF LayoutRequested
<1>11. ASSUME NEW r \in LayoutRequests, LayoutBegin(r) PROVE (ClosedInv /\ RestoreYields)'
  BY <1>11 DEF LayoutBegin, LayoutInMethod, ConnInMethod
<1>12. CASE LayoutDecide
  BY <1>12 DEF LayoutDecide, Refused, MarkUnconfirmed, IdleLayout, Managed
<1>13. ASSUME NEW ok \in IpcResults, LayoutResize(ok) PROVE (ClosedInv /\ RestoreYields)'
  BY <1>13 DEF LayoutResize, CompositorResize, IdleLayout, Managed
<1>14. ASSUME NEW ok \in IpcResults, LayoutRefresh(ok) PROVE (ClosedInv /\ RestoreYields)'
  BY <1>14 DEF LayoutRefresh, CommitPresentation, IdleLayout, Managed
<1>15. ASSUME NEW e \in 1..MaxEpoch, RestoreCheck(e) PROVE (ClosedInv /\ RestoreYields)'
  BY <1>15 DEF RestoreCheck, RestoreUnneeded, Managed
<1>16. ASSUME NEW e \in 1..MaxEpoch, NEW ok \in IpcResults, RestoreResize(e, ok) PROVE (ClosedInv /\ RestoreYields)'
  BY <1>16 DEF RestoreResize, CompositorResize
<1>17. ASSUME NEW e \in 1..MaxEpoch, NEW ok \in IpcResults, RestoreRefresh(e, ok) PROVE (ClosedInv /\ RestoreYields)'
  BY <1>17 DEF RestoreRefresh, CommitPresentation
<1>18. CASE UpdatesRequest
  BY <1>18 DEF UpdatesRequest, DropUpdates, Unread, Conn, FreeCapture
<1>19. CASE UpdatesAcquire
  BY <1>19 DEF UpdatesAcquire, Conn, Stopped
<1>20. ASSUME NEW c \in CaptureIds, UpdatesStart(c) PROVE (ClosedInv /\ RestoreYields)'
  BY <1>20 DEF UpdatesStart, Conn, FreeCapture, Joined
<1>21. CASE UpdatesStarted
  BY <1>21 DEF UpdatesStarted, Conn, AdoptedSize
<1>22. ASSUME NEW c \in CaptureIds, UpdatesEnd(c) PROVE (ClosedInv /\ RestoreYields)'
  BY <1>22 DEF UpdatesEnd, Conn
<1>23. ASSUME NEW c \in CaptureIds, CaptureReadLayout(c) PROVE (ClosedInv /\ RestoreYields)'
  BY <1>23 DEF CaptureReadLayout
<1>24. ASSUME NEW c \in CaptureIds, CaptureRefresh(c) PROVE (ClosedInv /\ RestoreYields)'
  BY <1>24 DEF CaptureRefresh
<1>25. ASSUME NEW c \in CaptureIds, CaptureRestart(c) PROVE (ClosedInv /\ RestoreYields)'
  BY <1>25 DEF CaptureRestart
<1>26. ASSUME NEW c \in CaptureIds, CaptureStops(c) PROVE (ClosedInv /\ RestoreYields)'
  BY <1>26 DEF CaptureStops, Exited, FreeCapture
<1>27. ASSUME NEW c \in CaptureIds, CaptureDies(c) PROVE (ClosedInv /\ RestoreYields)'
  BY <1>27 DEF CaptureDies, Exited, FreeCapture
<1>28. CASE Signal
  BY <1>28 DEF Signal, DropConnection, Unread, Conn, FreeCapture, IdleWorker
<1>29. CASE ShutdownClose
  BY <1>29 DEF ShutdownClose, Stopped
<1>30. CASE ShutdownAcquire
  BY <1>30 DEF ShutdownAcquire, Stopped
<1>31. CASE ShutdownJoined
  BY <1>31 DEF ShutdownJoined, Joined
<1>32. CASE Terminated \/ UNCHANGED vars
  BY <1>32 DEF Terminated
<1> QED
  BY <1>1, <1>2, <1>3, <1>4, <1>5, <1>6, <1>7, <1>8, <1>9, <1>10, <1>11, <1>12, <1>13, <1>14, <1>15, <1>16, <1>17,
       <1>18, <1>19, <1>20, <1>21, <1>22, <1>23, <1>24, <1>25, <1>26, <1>27, <1>28, <1>29, <1>30, <1>31, <1>32
  DEF Next, ConnNext, WorkerNext, LayoutNext, RestoreNext, CaptureNext, ShutdownNext

-----------------------------------------------------------------------------
(* The inductive invariant holds initially and is preserved by every step. *)
LEMMA InitInv == Init => DisplayInv
<1> SUFFICES ASSUME Init PROVE DisplayInv
  OBVIOUS
<1> USE SizeAssumption, FlagAssumption, BoundAssumption DEF Init
<1>1. TypeOK
  <2>1. SizesTyped
    BY DEF SizesTyped, SizeOrNone
  <2>2. FlagsTyped
    <3>1. guard \in BOOLEAN
      BY DEF Managed
    <3>2. restores \in [1..MaxEpoch -> RestorePhases]
      BY DEF RestorePhases
    <3>3. epoch \in 0..MaxEpoch
      OBVIOUS
    <3> QED BY <3>1, <3>2, <3>3 DEF FlagsTyped, GateOwners, ShutPhases, RestorePhases
  <2>3. JobsTyped
    BY DEF JobsTyped, Conn, ConnPhases, IdleWorker, WorkerPhases, IdleLayout, LayoutPhases,
           SizeOrNone
  <2>4. CapturesTyped
    BY DEF CapturesTyped, FreeCapture, CaptureRecord, CapturePhases, SizeOrNone
  <2> QED BY <2>1, <2>2, <2>3, <2>4 DEF TypeOK
<1>2. CarryInv /\ GateInv /\ ClosedInv
  BY DEF CarryInv, GateInv, ClosedInv, Conn, IdleWorker, IdleLayout, FreeCapture, InitPhases,
         WorkerHolds, LayoutHolds, RestoreHolds
<1>3. ResizeInv /\ ConfirmedOutput /\ RestoreYields
  BY DEF ResizeInv, ConfirmedOutput, RestoreYields, IdleWorker, IdleLayout, Managed,
         WorkerHolds, LayoutHolds, RestoreHolds
<1> QED BY <1>1, <1>2, <1>3 DEF DisplayInv

(* Every step of every actor preserves the inductive invariant.            *)
LEMMA StepInv == DisplayInv /\ [Next]_vars => DisplayInv'
  BY SizesStep, FlagsStep, JobsStep, CapturesStep, CarryStep, GateStep, ResizeStep, ClosedStep
  DEF DisplayInv, TypeOK

(* The inductive invariant of the display: who holds the gate, what each   *)
(* holder is doing, and what an unfinished resize leaves to be confirmed.  *)
THEOREM Invariance == Spec => []DisplayInv
  BY InitInv, StepInv, PTL DEF Spec

(* Every variable keeps its type, whatever is dropped, fails or races.     *)
THEOREM TypeCorrect == Spec => []TypeOK
  BY Invariance, PTL DEF DisplayInv

(* Compositor resizes never overlap: the permit of the resize gate follows *)
(* the work and not the future that asked for it.                          *)
THEOREM ResizesExclude == Spec => []ResizeExclusive
<1>1. DisplayInv => ResizeExclusive
  BY DEF DisplayInv, GateInv, ResizeExclusive
<1> QED BY <1>1, Invariance, PTL

(* A confirmed size is the compositor's size.                              *)
THEOREM OutputConfirmed == Spec => []ConfirmedOutput
  BY Invariance, PTL DEF DisplayInv

(* No restore runs against a newer session that got through the gate.      *)
THEOREM RestoresYield == Spec => []RestoreYields
  BY Invariance, PTL DEF DisplayInv

(* Once shutdown owns the gate the output is left alone for good.          *)
THEOREM RemovedOutputIsLeftAlone == Spec => RemovedOutputUntouched
<1>1. ASSUME DisplayInv, [Next]_vars
      PROVE  [(shut \in {"join", "done"}) => UNCHANGED outputVars]_vars
  <2> SUFFICES ASSUME shut \in {"join", "done"} PROVE UNCHANGED outputVars
    OBVIOUS
  <2> USE DEF outputVars, vars, sizeVars
  <2>1. /\ closed /\ conn.phase = "down"
        /\ ~WorkerHolds /\ ~LayoutHolds /\ \A e \in 1..MaxEpoch : ~RestoreHolds(e)
    BY <1>1 DEF DisplayInv, GateInv, ClosedInv
  <2>2. CASE ConnNext
    BY <2>1, <2>2 DEF ConnNext, SessionStarted, Disconnect, InitRequest, InitAcquire, InitDecide,
       InitCommit, UpdatesRequest, UpdatesAcquire, UpdatesStarted, UpdatesStart, UpdatesEnd
  <2>3. CASE WorkerNext
    BY <2>1, <2>3 DEF WorkerNext, WorkerCheck, WorkerResize, WorkerPrepare, WorkerHolds
  <2>4. CASE LayoutNext
    BY <2>1, <2>4 DEF LayoutNext, LayoutRequested, LayoutBegin, LayoutDecide, LayoutResize,
       LayoutRefresh, LayoutHolds, Refused
  <2>5. ASSUME NEW e \in 1..MaxEpoch, RestoreNext(e) PROVE UNCHANGED outputVars
    BY <2>1, <2>5 DEF RestoreNext, RestoreCheck, RestoreResize, RestoreRefresh, RestoreHolds,
       RestoreUnneeded
  <2>6. ASSUME NEW c \in CaptureIds, CaptureNext(c) PROVE UNCHANGED outputVars
    BY <2>6 DEF CaptureNext, CaptureReadLayout, CaptureRefresh, CaptureRestart, CaptureStops,
       CaptureDies
  <2>7. CASE ShutdownNext
    BY <2>7 DEF ShutdownNext, Signal, ShutdownClose, ShutdownAcquire, ShutdownJoined
  <2> QED BY <1>1, <2>2, <2>3, <2>4, <2>5, <2>6, <2>7 DEF Next, Terminated
<1> QED BY <1>1, Invariance, PTL DEF Spec, RemovedOutputUntouched

(* A physical output is never resized.                                     *)
THEOREM PhysicalNeverResized == Spec => PhysicalUntouched
<1>1. ASSUME DisplayInv, [Next]_vars PROVE [PhysicalOutput => UNCHANGED output]_vars
  <2> SUFFICES ASSUME PhysicalOutput PROVE output' = output
    OBVIOUS
  <2> USE DEF vars
  <2>1. /\ worker.phase # "resize" /\ layoutJob.phase # "resize"
        /\ \A e \in 1..MaxEpoch : ~RestoreHolds(e)
    BY <1>1 DEF DisplayInv, ResizeInv, Managed
  <2>2. CASE ConnNext
    BY <2>2 DEF ConnNext, SessionStarted, Disconnect, InitRequest, InitAcquire, InitDecide,
       InitCommit, UpdatesRequest, UpdatesAcquire, UpdatesStarted, UpdatesStart, UpdatesEnd
  <2>3. CASE WorkerNext
    BY <2>1, <2>3 DEF WorkerNext, WorkerCheck, WorkerResize, WorkerPrepare
  <2>4. CASE LayoutNext
    BY <2>1, <2>4 DEF LayoutNext, LayoutRequested, LayoutBegin, LayoutDecide, LayoutResize,
       LayoutRefresh
  <2>5. ASSUME NEW e \in 1..MaxEpoch, RestoreNext(e) PROVE output' = output
    BY <2>1, <2>5 DEF RestoreNext, RestoreCheck, RestoreResize, RestoreRefresh, RestoreHolds
  <2>6. ASSUME NEW c \in CaptureIds, CaptureNext(c) PROVE output' = output
    BY <2>6 DEF CaptureNext, CaptureReadLayout, CaptureRefresh, CaptureRestart, CaptureStops,
       CaptureDies
  <2>7. CASE ShutdownNext
    BY <2>7 DEF ShutdownNext, Signal, ShutdownClose, ShutdownAcquire, ShutdownJoined
  <2> QED BY <1>1, <2>2, <2>3, <2>4, <2>5, <2>6, <2>7 DEF Next, Terminated
<1> QED BY <1>1, Invariance, PTL DEF Spec, PhysicalUntouched
===============================================================================
