------------------------------ MODULE ShmCapture ------------------------------
(***************************************************************************)
(* The capture loops over shared memory, capture_loop_ext and              *)
(* capture_loop_wlr (src/src/capture/wayland/ext.rs, wlr.rs), with the     *)
(* events they dispatch (state.rs) and the processor they feed.            *)
(*                                                                         *)
(* Two buffers take turns: while a completed frame is processed, the       *)
(* compositor already holds a request for the other buffer.  A frame that  *)
(* the pacer turns away is kept, as a borrow of its buffer, until the      *)
(* pacing window opens.  The compositor (external) copies the screen into  *)
(* the buffer of the request, once something changed, and reports what     *)
(* changed since its last copy.  Events carry the identity of the frame    *)
(* they are about and arrive in order.                                     *)
(***************************************************************************)
EXTENDS FrameProcessor, Sequences

CONSTANTS
  MaxStreak,   \* CAPTURE_FAILED_FRAME_LIMIT
  MaxLayouts   \* bound on the changes of the presentation geometry

ASSUME LoopAssumption == MaxStreak \in Nat \ {0} /\ MaxLayouts \in Nat

VARIABLES
  screen,      \* the content of the output
  unseen,      \* tiles the compositor has not copied since they changed
  buf,         \* the two buffers
  cap,         \* cap_idx, the buffer of the request under way
  request,     \* the frame object: [id, stage]; stages "asked" (wlr: buffer
               \* info wanted), "offered", "copy" (wanted) and "none" (served)
  wire,        \* events on their way from the compositor
  state,       \* AppState: [done, damage, info]
  deferred,    \* the index of the frame the pacer skipped, or NoFrame
  pacer,       \* the pacing window is open
  streak,      \* failed_streak
  layout,      \* geometry_generation of the output layout
  procLayout,  \* processor_generation
  stop,        \* stop_flag
  ended,       \* why the loop returned: "ok", "restart" or "error"
  zeroCopy,    \* the DMA-BUF loop runs instead (DmabufCapture)
  captured,    \* history: the last frame that completed
  unreported   \* history: changes that a completed frame did not report

NoFrame == 2
FrameIds == 0..1
Waiting == [done |-> "no", damage |-> {}, info |-> FALSE]
Failures == {"failed", "constraints", "stopped"}

compositorVars == <<screen, unseen, buf, request, wire>>
loopVars == <<cap, state, deferred, pacer, streak, procLayout, ended, captured, unreported>>
shmVars == <<compositorVars, loopVars, layout, stop, zeroCopy>>
processorVars == <<scenario, gfxVars, procVars>>

Wlr == scenario.mode = "wlr"
FirstStage == IF Wlr THEN "asked" ELSE "copy"

ShmInit ==
  /\ screen = [t \in Tiles |-> 1] /\ unseen = Tiles
  /\ buf = [i \in Indices |-> Blank] /\ cap = 0
  /\ request = [id |-> 0, stage |-> FirstStage] /\ wire = <<>>
  /\ state = Waiting
  /\ deferred = NoFrame /\ pacer = TRUE /\ streak = 0
  /\ layout = 0 /\ procLayout = 0
  /\ stop = FALSE /\ ended = "no" /\ zeroCopy = (scenario.mode = "dmabuf")
  /\ captured = Blank /\ unreported = {}

-----------------------------------------------------------------------------
(* The compositor, and the display that owns this thread.                  *)

ScreenChanges(t) ==
  /\ screen[t] < MaxVersion /\ ~scenario.repaints
  /\ screen' = [screen EXCEPT ![t] = @ + 1]
  /\ unseen' = unseen \cup {t}
  /\ UNCHANGED <<processorVars, buf, request, wire, loopVars, layout, stop, zeroCopy>>

(* The compositor draws the screen again with the same content, in a       *)
(* session whose screen is otherwise still.                                *)
Repaint ==
  /\ scenario.repaints /\ unseen = {}
  /\ unseen' = Tiles
  /\ UNCHANGED <<processorVars, screen, buf, request, wire, loopVars, layout, stop, zeroCopy>>

Event(kind, damage) == Append(wire, [id |-> request.id, kind |-> kind, damage |-> damage])

(* The answer to capture_output; "resized" asks for another buffer.        *)
OfferBuffer(kind) ==
  /\ request.stage = "asked"
  /\ kind = "resized" => scenario.fails
  /\ wire' = Event(kind, {})
  /\ request' = [request EXCEPT !.stage = "offered"]
  /\ UNCHANGED <<processorVars, screen, unseen, buf, loopVars, layout, stop, zeroCopy>>

(* wlr-screencopy may complete a frame without reporting damage.           *)
CopyScreen(reported) ==
  /\ request.stage = "copy" /\ unseen # {}
  /\ reported = unseen \/ (reported = {} /\ Wlr /\ scenario.fails)
  /\ buf' = [buf EXCEPT ![cap] = screen]
  /\ unseen' = {}
  /\ wire' = Event("ready", reported)
  /\ request' = [request EXCEPT !.stage = "none"]
  /\ unreported' = unreported \cup (unseen \ reported)
  /\ UNCHANGED <<processorVars, screen, cap, state, deferred, pacer, streak, procLayout,
                 ended, captured, layout, stop, zeroCopy>>

FailFrame(kind) ==
  /\ request.stage = "copy" /\ scenario.fails
  /\ kind = "failed" \/ ~Wlr
  /\ wire' = Event(kind, {})
  /\ request' = [request EXCEPT !.stage = "none"]
  /\ UNCHANGED <<processorVars, screen, unseen, buf, loopVars, layout, stop, zeroCopy>>

LayoutChanges ==
  /\ scenario.layouts /\ layout < MaxLayouts
  /\ layout' = layout + 1
  /\ UNCHANGED <<processorVars, compositorVars, loopVars, stop, zeroCopy>>

StopRequested ==
  /\ scenario.stops /\ ~stop
  /\ stop' = TRUE
  /\ UNCHANGED <<processorVars, compositorVars, loopVars, layout, zeroCopy>>

PacerOpens ==
  /\ ~pacer
  /\ pacer' = TRUE
  /\ UNCHANGED <<processorVars, compositorVars, cap, state, deferred, streak, procLayout,
                 ended, captured, unreported, layout, stop, zeroCopy>>

-----------------------------------------------------------------------------
(* The events of a frame.  wlr drops those of a frame it has given up.     *)

TakeAnyEvent(id) == TRUE
IsActiveFrameEvent(id) == Wlr => id = request.id

Running == ended = "no" /\ job.pc = "idle"
InLoop == Running /\ ~zeroCopy

Dispatch ==
  /\ Running /\ state.done = "no" /\ wire # <<>>
  /\ wire' = Tail(wire)
  /\ LET event == Head(wire)
     IN  IF ~IsActiveFrameEvent(event.id) THEN UNCHANGED <<state, ended>>
         ELSE CASE event.kind = "buffer" ->
                     state' = [state EXCEPT !.info = TRUE] /\ UNCHANGED ended
                [] event.kind = "resized" ->
                     ended' = "restart" /\ UNCHANGED state
                [] OTHER ->
                     /\ state' = [state EXCEPT !.done = event.kind, !.damage = event.damage]
                     /\ UNCHANGED ended
  /\ UNCHANGED <<processorVars, screen, unseen, buf, request, cap, deferred, pacer, streak,
                 procLayout, captured, unreported, layout, stop, zeroCopy>>

(* The buffer info has come: the copy is requested.                        *)
RequestCopy ==
  /\ InLoop /\ state.done = "no" /\ state.info /\ request.stage = "offered"
  /\ request' = [request EXCEPT !.stage = "copy"]
  /\ UNCHANGED <<processorVars, screen, unseen, buf, wire, loopVars, layout, stop, zeroCopy>>

(* start_wlr_frame, or create_frame and capture of ext.                    *)
NextId == 1 - request.id
NewRequest == request' = [id |-> NextId, stage |-> FirstStage]

(* wlr_frame_wait_stalled: the frame is destroyed and asked for again; the *)
(* damage of one that completed meanwhile is not reported again.           *)
Stall ==
  /\ InLoop /\ Wlr /\ state.done = "no" /\ scenario.fails
  /\ NewRequest /\ state' = Waiting
  /\ \A i \in 1..Len(wire) : wire[i].id # NextId
  /\ unreported' = unreported \cup UNION {wire[i].damage : i \in 1..Len(wire)}
  /\ UNCHANGED <<processorVars, screen, unseen, buf, wire, cap, deferred, pacer, streak,
                 procLayout, ended, captured, layout, stop, zeroCopy>>

-----------------------------------------------------------------------------
(* A frame completed.                                                      *)

(* FramePacer::should_send; a frame let through closes the window.         *)
ShouldSend(p) == ~p.sentFirst \/ (p.pending # {} /\ pacer)

(* A presentation of another geometry is a processor of its own, which     *)
(* starts with the whole frame as its damage.                              *)
Refreshed == IF layout = procLayout THEN proc ELSE NewProcessor(FALSE)

(* promote_empty_damage_to_full_scan_if_due *)
Promoted == {state.damage}
              \cup (IF Wlr /\ state.damage = {} /\ proc.sentFirst THEN {Tiles} ELSE {})

(* output_downscaling_generation_action *)
Reported == IF layout # procLayout THEN {Tiles} ELSE Promoted

StartOther(idx) == job' = [IdleJob EXCEPT !.pc = "begin", !.idx = 1 - idx]
StartJob(idx) == job' = [IdleJob EXCEPT !.pc = "begin", !.idx = idx]

CompleteReady(damage) ==
  /\ InLoop /\ state.done = "ready" /\ (stop => ~Wlr)
  /\ cap' = 1 - cap /\ NewRequest /\ state' = Waiting
  /\ streak' = 0 /\ procLayout' = layout
  /\ captured' = buf[cap]
  /\ unreported' = IF damage = Tiles THEN {} ELSE unreported
  /\ LET p == QueueDamage(Refreshed, damage)
     IN  /\ proc' = p
         /\ \/ /\ p.pending = {} /\ p.sentFirst
               /\ deferred' = NoFrame
               /\ UNCHANGED <<job, pacer>>
            \/ /\ ~(p.pending = {} /\ p.sentFirst) /\ ShouldSend(p)
               /\ deferred' = NoFrame
               /\ StartJob(cap) /\ pacer' = FALSE
            \/ /\ ~(p.pending = {} /\ p.sentFirst) /\ ~ShouldSend(p)
               /\ deferred' = cap
               /\ UNCHANGED <<job, pacer>>
  /\ UNCHANGED <<scenario, gfxVars, lostChain, earlyBitmap, screen, unseen, buf, wire, ended,
                 layout, stop, zeroCopy>>

(* discard_deferred_after_failed_capture, ext_frame_failure_action and the *)
(* streak of failures.                                                     *)
KeepDeferred == deferred
DeferredAfterFailure == NoFrame

CompleteFailed ==
  /\ InLoop /\ state.done \in Failures /\ (stop => ~Wlr)
  /\ deferred' = DeferredAfterFailure
  /\ CASE state.done = "constraints" -> ended' = "restart" /\ UNCHANGED <<cap, streak>>
       [] state.done = "stopped" -> ended' = "error" /\ UNCHANGED <<cap, streak>>
       [] OTHER -> /\ cap' = 1 - cap /\ streak' = streak + 1
                   /\ ended' = IF streak + 1 >= MaxStreak THEN "restart" ELSE "no"
  /\ NewRequest /\ state' = Waiting
  /\ UNCHANGED <<processorVars, screen, unseen, buf, wire, pacer, procLayout, captured,
                 unreported, layout, stop, zeroCopy>>

(* While the next frame is awaited, the deferred one is processed as soon  *)
(* as the pacer lets it through.                                           *)
NeverFlush == FALSE
FlushDeferred ==
  /\ InLoop /\ deferred # NoFrame /\ ShouldSend(proc)
  /\ StartJob(deferred) /\ pacer' = FALSE
  /\ UNCHANGED <<scenario, gfxVars, proc, lostChain, earlyBitmap, compositorVars, cap, state,
                 deferred, streak, procLayout, ended, captured, unreported, layout, stop, zeroCopy>>

ProcessStep ==
  /\ ended = "no"
  /\ ProcessNext(buf[job.idx])
  /\ UNCHANGED shmVars

(* process has returned: FALSE ends the loop.                              *)
ProcessDone ==
  /\ job.pc = "done" /\ ended = "no"
  /\ job' = IdleJob
  /\ ended' = IF job.continue THEN "no" ELSE "ok"
  /\ deferred' = NoFrame
  /\ UNCHANGED <<scenario, gfxVars, proc, lostChain, earlyBitmap, compositorVars, cap, state,
                 pacer, streak, procLayout, captured, unreported, layout, stop, zeroCopy>>

LeaveBetweenFrames ==
  /\ Running /\ stop /\ state.done # "no"
  /\ ended' = "ok"
  /\ UNCHANGED <<processorVars, compositorVars, cap, state, deferred, pacer, streak,
                 procLayout, captured, unreported, layout, stop, zeroCopy>>

LeaveLoop ==
  /\ Running /\ stop
  /\ ended' = "ok"
  /\ UNCHANGED <<processorVars, compositorVars, cap, state, deferred, pacer, streak,
                 procLayout, captured, unreported, layout, stop, zeroCopy>>

CompositorNext ==
  \/ Repaint
  \/ \E t \in Tiles : ScreenChanges(t)
  \/ \E kind \in {"buffer", "resized"} : OfferBuffer(kind)
  \/ \E reported \in SUBSET Tiles : CopyScreen(reported)
  \/ \E kind \in Failures : FailFrame(kind)

LoopNext ==
  \/ Dispatch \/ RequestCopy \/ Stall
  \/ \E damage \in Reported : CompleteReady(damage)
  \/ CompleteFailed \/ FlushDeferred \/ ProcessStep \/ ProcessDone \/ LeaveLoop
===============================================================================
