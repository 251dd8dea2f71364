------------------------------- MODULE Pipeline -------------------------------
(***************************************************************************)
(* A capture thread from the compositor to the client: one of the capture  *)
(* loops (ShmCapture, DmabufCapture), the frame processor it feeds, and    *)
(* the graphics channel whose callbacks come between any two of its steps. *)
(***************************************************************************)
EXTENDS DmabufCapture

vars == <<processorVars, shmVars, dma>>

Init == ProcessorInit /\ ShmInit /\ DmabufInit

(* The thread is one of the two loops; a channel or the compositor may act *)
(* until the loop has returned.                                            *)
ThreadNext == (LoopNext /\ UNCHANGED dma) \/ DmabufNext

EnvironmentNext ==
  /\ ended = "no"
  /\ \/ GraphicsNext /\ UNCHANGED shmVars
     \/ CompositorNext
     \/ LayoutChanges \/ StopRequested \/ PacerOpens
  /\ UNCHANGED dma

Next == ThreadNext \/ EnvironmentNext

Spec == Init /\ [][Next]_vars

(* The thread runs, the compositor answers the request it holds and the    *)
(* pacing window opens with time.  Nothing makes the client acknowledge    *)
(* frames, negotiate or change its screen.                                 *)
FairSpec ==
  /\ Spec
  /\ WF_vars(ThreadNext)
  /\ WF_vars(LeaveLoop /\ UNCHANGED dma)
  /\ WF_vars(PacerOpens /\ UNCHANGED dma)
  /\ WF_vars(OfferBuffer("buffer") /\ UNCHANGED dma)
  /\ WF_vars((\E reported \in SUBSET Tiles : CopyScreen(reported)) /\ UNCHANGED dma)

(* A client that acknowledges every frame.                                 *)
AckSpec ==
  /\ FairSpec
  /\ WF_vars(FrameAck /\ UNCHANGED <<shmVars, dma>> /\ ended = "no")

-----------------------------------------------------------------------------
Ends == {"no", "ok", "restart", "error"}

(* Types of the state of the capture thread and of its environment.        *)
TypeOK ==
  /\ scenario \in Scenarios
  /\ gfx \in [ready : BOOLEAN, everReady : BOOLEAN, gen : 0..MaxGen,
              codec : Codecs \cup {"none"}, forceFull : BOOLEAN, inFlight : 0..Window]
  /\ proc \in [ready : BOOLEAN, active : BOOLEAN, gen : 0..MaxGen,
               codec : Codecs \cup {"none"}, enc : Encoders, surface : 0..MaxGen,
               sentFirst : BOOLEAN, failures : 0..MaxFailures, pending : SUBSET Tiles,
               ref : Frames \cup {NoRef}, resize : BOOLEAN]
  /\ job.pc \in {"idle", "begin", "encode", "send", "bitmap", "done",
                 "refresh", "convert", "deliver"}
  /\ client \in [shown : Frames, decoder : 0..MaxGen]
  /\ buf \in [Indices -> Frames] /\ screen \in Frames /\ unseen \subseteq Tiles
  /\ cap \in Indices /\ deferred \in Indices \cup {NoFrame} /\ request.id \in FrameIds
  /\ ended \in Ends /\ streak \in 0..MaxStreak

(* Damage is forgotten only once it was shown: between two frames, a tile  *)
(* of the last captured frame that the client shows in another version is  *)
(* pending, or the next frame is sent whole, whatever was refused, failed, *)
(* skipped or renegotiated in between.                                     *)
StaleIsPending ==
  (job.pc = "idle" /\ ended = "no" /\ ~zeroCopy) =>
    \A t \in Tiles : client.shown[t] # captured[t] =>
      \/ t \in proc.pending \cup unreported
      \/ ~proc.sentFirst \/ proc.gen # gfx.gen \/ gfx.forceFull

(* The detector compares with what the client really shows, so that a tile *)
(* it calls unchanged needs no sending.                                    *)
ReferenceIsShown ==
  (proc.ref # NoRef /\ proc.gen = gfx.gen /\ ~zeroCopy) => proc.ref = client.shown

(* No P-frame is sent whose reference the client's decoder does not have:  *)
(* after a lost frame, a failed one or a new surface an IDR comes first.   *)
ChainIntact == ~lostChain

(* The frame the pacer set aside is not overwritten by a later request     *)
(* while the loop still means to send it.                                  *)
DeferredIntact == (deferred # NoFrame /\ ended = "no") => buf[deferred] = captured

(* A forced backend is never replaced by the other one, on the first       *)
(* encoder, after failures, or across a fall back to shared memory.        *)
BackendRespected ==
  /\ scenario.policy = "vaapi" => {proc.enc.kind, dma.enc.kind} \subseteq {"none", "vaapi"}
  /\ scenario.policy = "software" => "vaapi" \notin {proc.enc.kind, dma.enc.kind}

(* A frame that the loop takes for complete is the one it asked for: the   *)
(* events of a frame it had given up complete nothing.                     *)
CompletedIsCopied == (state.done # "no" /\ ended = "no") => request.stage = "none"

(* Where nothing refuses frames, a screen that goes quiet is shown in the  *)
(* end, the frames the pacer turned away included.                         *)
Smooth == scenario.outcomes = {"frame"} /\ ~scenario.egfx /\ ~scenario.fails /\ ~scenario.stops
QuietScreenShown == Smooth => []<>(client.shown = screen)

(* The same where frames go through a graphics channel whose client        *)
(* acknowledges every one of them: the comment at the deferred frame of    *)
(* the loops says that it is kept "so its damage still reaches the client  *)
(* if the screen then goes quiet".                                         *)
Acknowledged ==
  /\ scenario.egfx /\ scenario.outcomes = {"frame"}
  /\ ~(scenario.fails \/ scenario.stops \/ scenario.closes)
SkippedFrameShown ==
  Acknowledged => \A f \in Frames :
    (deferred # NoFrame /\ captured = f) ~> (\A t \in Tiles : client.shown[t] >= f[t])

(* The stop flag ends the thread, whatever it waits for.                   *)
StopEnds == stop ~> (ended # "no")

(* The encoder never gets ahead of the client: references are what the     *)
(* client shows, a delta frame continues the chain the client has, and no  *)
(* fall back takes a forced backend's place.                               *)
EncoderFollows ==
  /\ ReferenceIsShown
  /\ ChainIntact
  /\ BackendRespected

(* Two buffers, a deferred frame and late events do not mix: what is       *)
(* processed is what was captured, and what the client shows never goes    *)
(* back to an older version, except where a negotiation or a resize        *)
(* empties its screen.                                                     *)
FramesInOrder ==
  [][/\ DeferredIntact' /\ CompletedIsCopied'
     /\ client'.shown = Blank \/ \A t \in Tiles : client'.shown[t] >= client.shown[t]]_vars

(* The loops get on without new captures: a quiet screen is shown in the   *)
(* end, and the stop flag ends the thread.                                 *)
CaptureProgress ==
  /\ QuietScreenShown
  /\ StopEnds
===============================================================================
