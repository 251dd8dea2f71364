-------------------------- MODULE MCDisplayPolicies --------------------------
EXTENDS MCDisplay

(* Three policies under one run.  Under "Any" (Hybrid) a connection may be *)
(* dropped at every await, captures restart and IPC calls fail, with one   *)
(* capture thread at a time.  Under "QueueNoRestarts" (TLS) a connection   *)
(* is not dropped while it is inside the display, IPC calls fail, and      *)
(* captures do not restart by themselves.  Under "PreemptOutsideStart" a   *)
(* connection may be dropped at any await but the start of a capture, IPC  *)
(* calls succeed, no layout is pending, and captures do not restart by     *)
(* themselves.  The last two have two capture threads.                     *)
CONSTANT SoleCapture
VARIABLE policy
policyVars == <<vars, policy>>

NoRestart == \A c \in CaptureIds :
  captures[c].phase = "running" => captures'[c].phase # "starting"

AnyNext ==
  /\ Next
  /\ \A c \in CaptureIds \ {SoleCapture} : captures'[c] = captures[c]

QueueNext == Next /\ NoRestart /\ ~(ConnInMethod /\ conn'.phase = "idle")

PreemptNext ==
  /\ \/ ConnNext \/ WorkerCheck \/ WorkerResize(TRUE) \/ WorkerPrepare(TRUE)
     \/ \E e \in 1..MaxEpoch :
           RestoreCheck(e) \/ RestoreResize(e, TRUE) \/ RestoreRefresh(e, TRUE)
     \/ \E c \in CaptureIds : CaptureNext(c)
     \/ ShutdownNext \/ Terminated
  /\ NoRestart
  /\ ~(conn.phase = "updStart" /\ conn'.phase = "idle")

PolicyInit == Init /\ policy \in {"Any", "QueueNoRestarts", "PreemptOutsideStart"}
PolicyNext ==
  /\ UNCHANGED policy
  /\ \/ policy = "Any" /\ AnyNext
     \/ policy = "QueueNoRestarts" /\ QueueNext
     \/ policy = "PreemptOutsideStart" /\ PreemptNext
PolicySpec == PolicyInit /\ [][PolicyNext]_policyVars

(* While nobody resizes, the input mapping, the advertised desktop and the *)
(* graphics surface have one presentation size, whatever IPC call failed   *)
(* (Inner.resolution, the layout given to the input thread and the surface *)
(* of the graphics channel), where no connection is dropped inside the     *)
(* display and no capture restarts by itself: a restart refreshes the      *)
(* mapping outside the gate (capture/wayland/mod.rs:132) and may put an    *)
(* older size back into it.                                                *)
QueuePresentationAgrees == policy = "QueueNoRestarts" => PresentationAgrees

(* One capture thread at a time feeds the graphics state: an activation    *)
(* joins the previous thread before it starts the next                     *)
(* (start_capture_updates).  A connection dropped between the two leaves a *)
(* thread that nobody joins; it is not dropped there under this policy.    *)
QueueCaptureExclusive == policy = "QueueNoRestarts" => CaptureExclusive

(* With no session and nothing in progress the managed output is back at   *)
(* its startup size, wherever the session's future was dropped except      *)
(* while it starts a capture, when IPC succeeds and DisplayControl asks    *)
(* for nothing (restore_after_session).  A start that is dropped           *)
(* (capture/mod.rs:940) leaves a capture thread without a handle: its      *)
(* refresh may publish an older size, a later start takes that for the     *)
(* resolution, and the restore then returns early although the output has  *)
(* another size.                                                           *)
PreemptRestoredAtRest == policy = "PreemptOutsideStart" => RestoredAtRest

(* What holds as long as captures do not restart by themselves: where a    *)
(* connection is never dropped inside the display, one presentation size   *)
(* in its three copies and one capture thread; and where it may be         *)
(* dropped, though not in the start of a capture, without layouts and IPC  *)
(* failures, an output that is back at its startup size once nothing is in *)
(* progress.                                                               *)
PoliciesKept ==
  /\ QueuePresentationAgrees
  /\ QueueCaptureExclusive
  /\ PreemptRestoredAtRest
===============================================================================
