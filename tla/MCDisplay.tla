------------------------------ MODULE MCDisplay ------------------------------
(* Instances of Display for TLC: the size policy of PresentationSize at    *)
(* limits small enough to enumerate, the DisplayControl layouts, and the   *)
(* properties that TLC checks.                                             *)
EXTENDS Display

Policy == INSTANCE PresentationSize WITH MaxLong <- 8, MaxShort <- 4

MCRequests == {<<8, 4>>}
MCIdle  == <<4, 4>>
MCNoSize == <<0, 0>>
NoEmpty(size) == IF Policy!IsEmpty(size) THEN MCNoSize ELSE size
MCClamp(r) == NoEmpty(Policy!ClampToLimits(r, FALSE))
MCFit(r, source) == NoEmpty(Policy!NormalizePresentationSize(r, source, FALSE))

(* Where a connection may be dropped inside the display: anywhere.         *)
MCPreempt == InitPhases \cup UpdPhases

MCNoLayouts == {}
MCLayouts == {[size |-> <<12, 4>>, simple |-> TRUE]}
MCSizes == {MCIdle} \cup {MCClamp(r) : r \in MCRequests}
                   \cup {MCClamp(l.size) : l \in MCLayouts}
-----------------------------------------------------------------------------
(* A server whose clients send no DisplayControl layouts and whose         *)
(* captures do not restart by themselves, for the properties under         *)
(* fairness: connections with their blocking jobs, restores, captures and  *)
(* shutdown compete for the gate and for inner.                            *)
LiveNext ==
  \/ ConnNext \/ WorkerNext
  \/ \E e \in 1..MaxEpoch : RestoreNext(e)
  \/ \E c \in CaptureIds : CaptureReadLayout(c) \/ CaptureRefresh(c) \/ CaptureStops(c) \/ CaptureDies(c)
  \/ ShutdownNext
  \/ Terminated
LiveSpec == Init /\ [][LiveNext]_vars /\ Fairness
===============================================================================
