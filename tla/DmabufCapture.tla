----------------------------- MODULE DmabufCapture ----------------------------
(***************************************************************************)
(* The zero-copy loop of ext capture, capture_loop_ext_dmabuf              *)
(* (src/src/capture/wayland/dmabuf_capture.rs), and its ways out: to the   *)
(* shared memory loop, to a restart of the capture, or to its end.  It     *)
(* shares the compositor, the pacer and the graphics channel with          *)
(* ShmCapture but keeps an EgfxFrameSession (egfx/rdpegfx.rs) and an       *)
(* encoder of its own, and no pending damage.                              *)
(***************************************************************************)
EXTENDS ShmCapture

VARIABLE dma   \* [ready, gen, surface, enc, failures, sentFirst]

NewDma == [ready |-> FALSE, gen |-> 0, surface |-> 0, enc |-> NoEncoder, failures |-> 0,
           sentFirst |-> FALSE]

DmabufInit == dma = NewDma

Zero == Running /\ zeroCopy

(* The loop returns an error that is not about geometry: capture_loop_ext  *)
(* goes on with buffers in shared memory, within the same session.         *)
FallBackToShm ==
  /\ zeroCopy' = FALSE
  /\ proc' = NewProcessor(scenario.resize)
  /\ cap' = 0 /\ buf' = [i \in Indices |-> Blank]
  /\ request' = [id |-> NextId, stage |-> "copy"] /\ wire' = <<>> /\ state' = Waiting
  /\ deferred' = NoFrame /\ pacer' = TRUE /\ streak' = 0 /\ procLayout' = layout
  /\ captured' = Blank /\ unreported' = {}
  /\ job' = IdleJob
  /\ dma' = NewDma
  /\ UNCHANGED <<ended>>

Stays == UNCHANGED <<zeroCopy, deferred, streak, procLayout, captured, unreported, ended>>

(* dmabuf_capture_decision: the geometry is looked at in every round.      *)
GeometryChanged(decision) ==
  /\ Zero /\ layout # procLayout
  /\ \/ decision = "continue" /\ procLayout' = layout
        /\ UNCHANGED <<procVars, compositorVars, cap, state, deferred, pacer, streak, ended,
                       captured, unreported, zeroCopy, dma>>
     \/ decision = "restart" /\ ended' = "restart"
        /\ UNCHANGED <<procVars, compositorVars, cap, state, deferred, pacer, streak,
                       procLayout, captured, unreported, zeroCopy, dma>>
     \/ decision = "shm" /\ FallBackToShm
        /\ UNCHANGED <<screen, unseen, lostChain, earlyBitmap>>
  /\ UNCHANGED <<scenario, gfxVars, layout, stop>>

NextRequest ==
  /\ cap' = 1 - cap /\ NewRequest /\ state' = Waiting
  /\ UNCHANGED <<screen, unseen, buf, wire>>

(* A frame that failed, for whatever reason, is asked for again.           *)
DmabufFailed ==
  /\ Zero /\ layout = procLayout /\ state.done \in Failures
  /\ NextRequest /\ Stays
  /\ UNCHANGED <<processorVars, pacer, layout, stop, dma>>

(* The pacer turns the frame away; nothing of it is kept.                  *)
DmabufSkipped ==
  /\ Zero /\ layout = procLayout /\ state.done = "ready"
  /\ ~(~dma.sentFirst \/ (state.damage # {} /\ pacer))
  /\ NextRequest /\ Stays
  /\ UNCHANGED <<processorVars, pacer, layout, stop, dma>>

DmabufStart ==
  /\ Zero /\ layout = procLayout /\ state.done = "ready"
  /\ ~dma.sentFirst \/ (state.damage # {} /\ pacer)
  /\ NextRequest /\ Stays /\ pacer' = FALSE
  /\ job' = [IdleJob EXCEPT !.pc = "refresh", !.idx = cap]
  /\ UNCHANGED <<scenario, gfxVars, proc, lostChain, earlyBitmap, layout, stop, dma>>

(* EgfxFrameSession::refresh, and an encoder for a new generation.         *)
AvcReady == gfx.ready /\ gfx.codec # "clear"

SessionRefreshed(d, kind) ==
  LET lost == d.ready /\ ~AvcReady
      changed == gfx.gen # d.gen
      q == IF lost THEN [d EXCEPT !.surface = 0, !.enc = NoEncoder, !.failures = 0] ELSE d
      r == [q EXCEPT !.ready = AvcReady, !.gen = gfx.gen,
                     !.surface = IF changed THEN 0 ELSE @]
  IN  IF AvcReady /\ (changed \/ r.enc.kind = "none")
      THEN [r EXCEPT !.enc = NewEncoder(kind), !.failures = 0]
      ELSE r

JobStays == UNCHANGED <<compositorVars, cap, state, pacer>> /\ Stays

DmabufRefresh ==
  /\ job.pc = "refresh" /\ ended = "no"
  /\ \/ /\ scenario.resize /\ gfx.ready
        /\ ended' = "ok" /\ job' = IdleJob
        /\ UNCHANGED <<proc, compositorVars, cap, state, deferred, pacer, streak, procLayout,
                       captured, unreported, zeroCopy, dma>>
     \/ /\ ~(scenario.resize /\ gfx.ready)
        /\ \E kind \in EncodersFor("avc420") :
             LET d == SessionRefreshed(dma, kind)
             IN  \/ /\ (AvcReady /\ d.enc.kind = "none") \/ (~AvcReady /\ BitmapFallbackDue)
                    /\ FallBackToShm /\ UNCHANGED <<screen, unseen>>
                 \/ /\ ~AvcReady /\ ~BitmapFallbackDue
                    /\ dma' = d /\ job' = IdleJob
                    /\ JobStays /\ UNCHANGED proc
                 \/ /\ AvcReady /\ d.enc.kind # "none"
                    /\ dma' = d
                    /\ job' = [job EXCEPT !.pc = "convert"]
                    /\ JobStays /\ UNCHANGED proc
  /\ UNCHANGED <<scenario, gfxVars, lostChain, earlyBitmap, layout, stop>>

(* ensure_surface, frame_readiness, the conversion and encode_dmabuf; only *)
(* a VA-API encoder reads the buffer.                                      *)
DmabufEncode ==
  /\ job.pc = "convert"
  /\ LET d == [dma EXCEPT !.surface = IF @ = 0 /\ gfx.ready THEN gfx.gen ELSE @]
     IN  /\ dma' = d
         /\ \/ /\ d.surface = 0 \/ ~FrameReady
               /\ job' = IdleJob
            \/ /\ d.surface # 0 /\ FrameReady
               /\ \E out \in IF d.enc.kind = "vaapi" THEN scenario.outcomes ELSE {"error"} :
                    job' = [job EXCEPT !.pc = "deliver", !.out = out]
  /\ UNCHANGED <<scenario, gfxVars, proc, lostChain, earlyBitmap, shmVars>>

DmabufSent == job.out = "frame" /\ FrameReady /\ SurfaceLives(dma.surface)
DmabufIdr(d) == [d EXCEPT !.enc.idr = TRUE, !.enc.drift = TRUE]
DmabufUnsent(d) == DmabufIdr(d)

(* DmaBufEncodeFailureTracker: an encoder without progress is given up.    *)
DmabufSend ==
  /\ job.pc = "deliver"
  /\ \/ /\ job.out \in {"frame", "refused"}
        /\ dma' = IF DmabufSent
                  THEN [dma EXCEPT !.failures = 0, !.sentFirst = TRUE, !.enc.idr = FALSE,
                                   !.enc.drift = @ /\ ~dma.enc.idr]
                  ELSE DmabufUnsent([dma EXCEPT !.failures = 0])
        /\ job' = IdleJob
        /\ JobStays /\ UNCHANGED proc
     \/ /\ job.out \in {"skip", "invalid", "error"}
        /\ dma.failures + 1 < MaxFailures
        /\ dma' = DmabufIdr([dma EXCEPT !.failures = @ + 1])
        /\ job' = IdleJob
        /\ JobStays /\ UNCHANGED proc
     \/ /\ job.out \in {"skip", "invalid", "error"}
        /\ dma.failures + 1 >= MaxFailures
        /\ FallBackToShm /\ UNCHANGED <<screen, unseen>>
  /\ gfx' = [gfx EXCEPT !.inFlight = IF DmabufSent THEN @ + 1 ELSE @]
  /\ client' = IF DmabufSent THEN [shown |-> buf[job.idx], decoder |-> gfx.gen] ELSE client
  /\ lostChain' = (lostChain \/ (DmabufSent /\ ~dma.enc.idr
                                      /\ (dma.enc.drift \/ client.decoder # gfx.gen)))
  /\ UNCHANGED <<scenario, graceOver, earlyBitmap, layout, stop>>

DmabufNext ==
  \/ \E decision \in {"continue", "restart", "shm"} : GeometryChanged(decision)
  \/ DmabufFailed \/ DmabufSkipped \/ DmabufStart
  \/ DmabufRefresh \/ DmabufEncode \/ DmabufSend
===============================================================================
