---------------------------- MODULE FrameProcessor ----------------------------
(***************************************************************************)
(* FrameProcessor of src/src/capture/frame.rs with the damage detector     *)
(* (damage.rs) and the choice of an encoder (egfx/backend.rs): what one    *)
(* captured frame becomes.  process_at runs on the capture thread and is   *)
(* split where it reads the shared graphics state again, so that the       *)
(* callbacks of the graphics channel come between: it observes the channel *)
(* and computes the damage ("begin"), encodes ("encode"), sends ("send")   *)
(* and last considers a bitmap ("bitmap").                                 *)
(*                                                                         *)
(* The screen is a set of tiles; a frame gives each tile the version of    *)
(* its content, 0 being "nothing".  A surface is named by the generation   *)
(* it was created in.  An encoder carries what matters of its reference    *)
(* chain: whether its next output is an IDR, and whether it has advanced   *)
(* past a frame that the client never received.                            *)
(***************************************************************************)
EXTENDS Naturals, FiniteSets

CONSTANTS
  Tiles,          \* tiles of the screen
  MaxVersion,     \* bound on the changes of the screen
  MaxGen,         \* bound on the generations of the graphics channel
  Window,         \* max_frames_in_flight
  MaxFailures,    \* MAX_ENCODE_FAILURES
  Scenarios       \* how a session is captured: a set of records, see Sessions

Policies == {"auto", "software", "vaapi"}
Codecs == {"clear", "avc420", "avc444"}
Backends == {"none", "vaapi", "software", "avc444"}
Outcomes == {"frame", "skip", "refused", "invalid", "error"}

(* A session: the protocol and the memory its frames are captured with,    *)
(* the graphics channel of its client, and what may happen in it.          *)
Sessions ==
  [mode : {"ext", "wlr", "dmabuf"}, egfx : BOOLEAN, policy : Policies, codecs : SUBSET Codecs,
   outcomes : SUBSET Outcomes, resize : BOOLEAN, closes : BOOLEAN, layouts : BOOLEAN,
   fails : BOOLEAN, stops : BOOLEAN, repaints : BOOLEAN]

ASSUME ProcessorAssumption ==
  /\ IsFiniteSet(Tiles) /\ Tiles # {}
  /\ MaxVersion \in Nat \ {0} /\ MaxGen \in Nat
  /\ Window \in Nat \ {0} /\ MaxFailures \in Nat \ {0}
  /\ Scenarios \subseteq Sessions

VARIABLES
  scenario,   \* the session, one of Sessions
  gfx,        \* EgfxShared and the graphics server of this client
  graceOver,  \* GFX_READY_GRACE has passed since the first bitmap was considered
  proc,       \* the FrameProcessor
  job,        \* the call of process under way
  client,     \* what the client shows, by tile, and the surface of its decoder
  lostChain,  \* history: a P-frame was sent whose reference the client lacks
  earlyBitmap \* history: a bitmap was sent by a call begun before negotiation

gfxVars == <<gfx, graceOver, client>>
procVars == <<proc, job, lostChain, earlyBitmap>>

Versions == 0..MaxVersion
Frames == [Tiles -> Versions]
Blank == [t \in Tiles |-> 0]
NoRef == [t \in {} |-> 0]
Indices == {0, 1}

NoEncoder == [kind |-> "none", idr |-> FALSE, drift |-> FALSE]
NewEncoder(kind) == [kind |-> kind, idr |-> kind # "none", drift |-> FALSE]
Encoders == [kind : Backends, idr : BOOLEAN, drift : BOOLEAN]

NewProcessor(resize) ==
  [ready |-> FALSE, active |-> FALSE, gen |-> 0, codec |-> "none", enc |-> NoEncoder,
   surface |-> 0, sentFirst |-> FALSE, failures |-> 0, pending |-> {}, ref |-> NoRef,
   resize |-> resize]

IdleJob == [pc |-> "idle", idx |-> 0, ready |-> FALSE, negotiated |-> FALSE, force |-> FALSE,
            damage |-> {}, out |-> "none", sent |-> FALSE, continue |-> TRUE]

ProcessorInit ==
  /\ scenario \in Scenarios
  /\ gfx = [ready |-> FALSE, everReady |-> FALSE, gen |-> 0, codec |-> "none",
            forceFull |-> FALSE, inFlight |-> 0]
  /\ graceOver = FALSE
  /\ proc = NewProcessor(scenario.resize)
  /\ job = IdleJob
  /\ client = [shown |-> Blank, decoder |-> 0]
  /\ lostChain = FALSE /\ earlyBitmap = FALSE

-----------------------------------------------------------------------------
(* The graphics channel: callbacks of the graphics server, and resizes.    *)

(* capabilities_advertise and on_ready: the client (re)negotiates, drops   *)
(* its surfaces and is owed a full frame.                                  *)
Negotiate(codec) ==
  /\ scenario.egfx /\ gfx.gen < MaxGen
  /\ gfx' = [ready |-> TRUE, everReady |-> TRUE, gen |-> gfx.gen + 1, codec |-> codec,
             forceFull |-> gfx.forceFull \/ gfx.ready, inFlight |-> 0]
  /\ client' = [shown |-> Blank, decoder |-> 0]
  /\ UNCHANGED <<scenario, graceOver, procVars>>

CloseChannel ==
  /\ gfx.ready /\ scenario.closes
  /\ gfx' = [gfx EXCEPT !.ready = FALSE, !.inFlight = 0]
  /\ client' = [client EXCEPT !.decoder = 0]
  /\ UNCHANGED <<scenario, graceOver, procVars>>

(* prepare_for_resize *)
PrepareForResize ==
  /\ gfx.ready /\ gfx.gen < MaxGen /\ scenario.closes
  /\ gfx' = [gfx EXCEPT !.gen = @ + 1, !.inFlight = 0]
  /\ client' = [shown |-> Blank, decoder |-> 0]
  /\ UNCHANGED <<scenario, graceOver, procVars>>

FrameAck ==
  /\ gfx.inFlight > 0
  /\ gfx' = [gfx EXCEPT !.inFlight = @ - 1]
  /\ UNCHANGED <<scenario, graceOver, client, procVars>>

GraceExpires ==
  /\ scenario.egfx /\ ~graceOver
  /\ graceOver' = TRUE
  /\ UNCHANGED <<scenario, gfx, client, procVars>>

GraphicsNext ==
  \/ \E codec \in scenario.codecs : Negotiate(codec)
  \/ CloseChannel
  \/ PrepareForResize
  \/ FrameAck
  \/ GraceExpires

(* bitmap_fallback_due *)
BitmapFallbackDue == gfx.everReady \/ graceOver

(* should_backpressure_frames, and the two readiness checks built on it.   *)
Unthrottled == gfx.ready
FrameReady == gfx.ready /\ gfx.inFlight < Window
RefreshReady == gfx.inFlight = 0

-----------------------------------------------------------------------------
(* The damage detector.                                                    *)

(* detect: what changed of the candidates since the frame last sent.       *)
Detect(ref, data, candidates) ==
  IF ref = NoRef THEN Tiles ELSE {t \in candidates : data[t] # ref[t]}

(* update_reference_regions *)
RefAfter(ref, data, damage) ==
  IF ref = NoRef THEN data ELSE [t \in Tiles |-> IF t \in damage THEN data[t] ELSE ref[t]]

(* queue_damage; the regions of a frame merge into the pending ones.       *)
ReplaceDamage(p, damage) == [p EXCEPT !.pending = damage]
QueueDamage(p, damage) == [p EXCEPT !.pending = @ \cup damage]

-----------------------------------------------------------------------------
(* The choice of an encoder, FrameEncoder::new_for_egfx_codec and          *)
(* new_software_only_for_egfx_codec: "none" is a failure.                  *)

AllowsVaapi == scenario.policy # "software"
AllowsSoftware == scenario.policy # "vaapi"

EncodersFor(codec) ==
  {"none"} \cup
  CASE codec = "avc420" -> (IF AllowsVaapi THEN {"vaapi"} ELSE {})
                             \cup (IF AllowsSoftware THEN {"software"} ELSE {})
    [] codec = "avc444" -> IF AllowsSoftware THEN {"avc444"} ELSE {}
    [] OTHER -> {}

SoftwareFor(codec) == {"none", IF codec = "avc444" THEN "avc444" ELSE "software"}

(* allows_runtime_software_fallback *)
FallbackAlways == TRUE
AllowsRuntimeFallback == scenario.policy = "auto"

ForceIdr(p) == [p EXCEPT !.enc.idr = @ \/ p.enc.kind # "none"]

-----------------------------------------------------------------------------
(* process_at, first part: everything before the encoder runs.  The loops  *)
(* call it only with damage or before the first frame, so that its test    *)
(* for a frame without damage never returns.                               *)

Forgotten(p) == [p EXCEPT !.surface = 0, !.enc = NoEncoder, !.codec = "none",
                          !.sentFirst = FALSE, !.ref = NoRef]

Return(p, continue) == proc' = p /\ job' = [job EXCEPT !.pc = "done", !.continue = continue]

ResizeDue == proc.resize /\ (~scenario.egfx \/ gfx.ready)
Clear == gfx.ready /\ gfx.codec = "clear"

(* The resize held back until the graphics channel is ready ends this      *)
(* capture.  (Here and for bitmaps the update channel has room, or is      *)
(* closed: blocking_send waits no longer than the receiver lives.)         *)
SendInitialResize ==
  /\ job.pc = "begin" /\ ResizeDue
  /\ Return([proc EXCEPT !.resize = FALSE], FALSE)
  /\ UNCHANGED <<scenario, gfxVars, lostChain, earlyBitmap>>

WithoutGraphics ==
  /\ job.pc = "begin" /\ ~ResizeDue /\ ~scenario.egfx
  /\ job' = [job EXCEPT !.pc = "bitmap"]
  /\ UNCHANGED <<scenario, gfxVars, proc, lostChain, earlyBitmap>>

(* process_clearcodec: encode and enqueue are one transaction under the    *)
(* lock of the server.                                                     *)
ProcessClearCodec(data) ==
  /\ job.pc = "begin" /\ ~ResizeDue /\ Clear
  /\ LET p == IF gfx.gen # proc.gen \/ proc.enc.kind # "none"
              THEN [Forgotten(proc) EXCEPT !.gen = gfx.gen, !.active = FALSE]
              ELSE proc
         ready == IF gfx.forceFull THEN RefreshReady ELSE FrameReady
         damage == IF gfx.forceFull \/ ~p.sentFirst THEN Tiles
                   ELSE Detect(p.ref, data, p.pending)
     IN  \/ /\ ~ready
            /\ Return(p, TRUE) /\ UNCHANGED <<gfx, client>>
         \/ /\ ready /\ damage = {}
            /\ Return([p EXCEPT !.pending = {}], TRUE) /\ UNCHANGED <<gfx, client>>
         \/ /\ ready /\ damage # {}
            /\ Return([p EXCEPT !.sentFirst = TRUE, !.surface = gfx.gen, !.pending = {},
                                !.ref = RefAfter(@, data, damage)], TRUE)
            /\ gfx' = [gfx EXCEPT !.forceFull = FALSE, !.inFlight = @ + 1]
            /\ client' = [client EXCEPT !.shown = RefAfter(@, data, damage)]
         \/ /\ ready /\ damage # {} /\ "refused" \in scenario.outcomes
            /\ Return(p, TRUE) /\ UNCHANGED <<gfx, client>>
         \/ /\ ready /\ damage # {} /\ "error" \in scenario.outcomes
            /\ Return(p, FALSE) /\ UNCHANGED <<gfx, client>>
  /\ UNCHANGED <<scenario, graceOver, lostChain, earlyBitmap>>

(* The processor notices that the channel closed, was renegotiated or      *)
(* changed its codec, and starts afresh with an encoder of that codec.     *)
ForgetKeepingEncoder(p, kind) == [p EXCEPT !.ready = gfx.ready, !.gen = gfx.gen]
Observed(p, kind) ==
  LET closed == p.ready /\ ~gfx.ready
      q == IF closed THEN [Forgotten(p) EXCEPT !.active = FALSE] ELSE p
      stale == gfx.gen # q.gen \/ (gfx.ready /\ gfx.codec # q.codec)
      r == IF stale THEN [Forgotten(q) EXCEPT !.gen = gfx.gen] ELSE q
  IN  [r EXCEPT !.ready = gfx.ready,
                !.enc = IF stale /\ gfx.ready THEN NewEncoder(kind) ELSE @,
                !.codec = IF stale /\ gfx.ready /\ kind # "none" THEN gfx.codec ELSE @]

ObserveChannel(data) ==
  /\ job.pc = "begin" /\ ~ResizeDue /\ scenario.egfx /\ ~Clear
  /\ \E kind \in EncodersFor(gfx.codec) :
       LET p == Observed(proc, kind)
           force == gfx.ready /\ gfx.forceFull
           damage == IF force THEN Tiles
                     ELSE Detect(p.ref, data, IF p.sentFirst THEN p.pending ELSE Tiles)
       IN  \/ /\ force /\ ~RefreshReady
              /\ Return(p, TRUE) /\ UNCHANGED gfx
           \/ /\ ~(force /\ ~RefreshReady)
              /\ p.sentFirst /\ damage = {}
              /\ Return([p EXCEPT !.pending = {}], TRUE)
              /\ gfx' = [gfx EXCEPT !.forceFull = @ /\ ~gfx.ready]
           \/ /\ ~(force /\ ~RefreshReady)
              /\ ~(p.sentFirst /\ damage = {})
              /\ proc' = p
              /\ job' = [job EXCEPT !.pc = "encode", !.ready = gfx.ready, !.force = force,
                                    !.negotiated = gfx.everReady, !.damage = damage]
              /\ gfx' = [gfx EXCEPT !.forceFull = @ /\ ~gfx.ready]
  /\ UNCHANGED <<scenario, graceOver, client, lostChain, earlyBitmap>>

-----------------------------------------------------------------------------
(* process_at, second part: the encoder and the transport.                 *)

Activated(p) == [p EXCEPT !.active = @ \/ (job.ready /\ p.enc.kind # "none")]

(* init_or_reuse_surface: the server's surface of this generation.         *)
Surfaced(p) == [p EXCEPT !.surface = IF @ = 0 /\ p.active /\ gfx.ready THEN gfx.gen ELSE @]
SurfaceLives(surface) == gfx.ready /\ surface = gfx.gen

(* The channel is not in use, or no surface could be made of it.           *)
NotEncoded ==
  /\ job.pc = "encode"
  /\ LET p == Surfaced(Activated(proc))
     IN  /\ ~(p.active /\ p.surface # 0)
         /\ proc' = p
  /\ job' = [job EXCEPT !.pc = "bitmap"]
  /\ UNCHANGED <<scenario, gfxVars, lostChain, earlyBitmap>>

(* frame_readiness fails: the frame is not encoded, its damage stays.      *)
NotReady ==
  /\ job.pc = "encode"
  /\ LET p == Surfaced(Activated(proc))
     IN  /\ p.active /\ p.surface # 0 /\ ~FrameReady
         /\ Return(p, TRUE)
  /\ UNCHANGED <<scenario, gfxVars, lostChain, earlyBitmap>>

(* encode_egfx_frame.  A "frame" and an output too short to use advance    *)
(* the encoder's reference; a skipped frame does not; an error may have.   *)
EncodeFrame ==
  /\ job.pc = "encode"
  /\ LET p == Surfaced(Activated(proc))
     IN  /\ p.active /\ p.surface # 0 /\ FrameReady
         /\ proc' = p
         /\ \E out \in IF p.enc.kind = "none" THEN {"none"} ELSE scenario.outcomes :
              job' = [job EXCEPT !.pc = "send", !.out = out]
  /\ UNCHANGED <<scenario, gfxVars, lostChain, earlyBitmap>>

(* In auto mode a VA-API encoder that failed too often is replaced; forced *)
(* VA-API is given up instead.                                             *)
AfterFailures(p, kind) ==
  IF p.failures < MaxFailures \/ p.enc.kind # "vaapi" THEN p
  ELSE IF ~AllowsRuntimeFallback \/ kind = "none"
       THEN [p EXCEPT !.enc = NoEncoder, !.active = FALSE]
       ELSE [p EXCEPT !.enc = NewEncoder(kind), !.failures = 0, !.surface = 0]

(* send_tracked_encoded_egfx_frame: the transport takes the frame, refuses *)
(* it, or has lost the surface or the channel while it was encoded.  The   *)
(* encoder is then past a frame that the client does not have.             *)
Sent == job.out = "frame" /\ FrameReady /\ SurfaceLives(proc.surface)
Drifted(p) == [p EXCEPT !.enc.drift = TRUE]
KeepChain(p) == Drifted(p)
AfterUnsent(p) == ForceIdr(Drifted(p))
AfterSent(p, data) == [p EXCEPT !.failures = 0, !.enc.idr = FALSE,
                                !.enc.drift = @ /\ ~p.enc.idr,
                                !.ref = RefAfter(@, data, job.damage),
                                !.sentFirst = TRUE, !.pending = {}]

Counted(n) == IF n < MaxFailures THEN n + 1 ELSE n

SendFrame(data) ==
  /\ job.pc = "send"
  /\ LET p == CASE Sent -> AfterSent(proc, data)
                [] ~Sent /\ job.out \in {"frame", "refused"} ->
                     AfterUnsent([proc EXCEPT !.failures = 0])
                [] job.out = "skip" -> [proc EXCEPT !.failures = 0]
                [] job.out \in {"invalid", "error"} ->
                     ForceIdr(Drifted([proc EXCEPT !.failures = Counted(@)]))
                [] OTHER -> proc
     IN  \E kind \in SoftwareFor(proc.codec) : proc' = AfterFailures(p, kind)
  /\ gfx' = [gfx EXCEPT !.inFlight = IF Sent THEN @ + 1 ELSE @,
                        !.forceFull = @ \/ (job.force /\ ~Sent)]
  /\ client' = IF Sent THEN [shown |-> RefAfter(client.shown, data, job.damage),
                             decoder |-> gfx.gen]
               ELSE client
  /\ lostChain' = (lostChain \/ (Sent /\ ~proc.enc.idr
                                      /\ (proc.enc.drift \/ client.decoder # gfx.gen)))
  /\ job' = [job EXCEPT !.pc = "bitmap", !.sent = Sent]
  /\ UNCHANGED <<scenario, graceOver, earlyBitmap>>

-----------------------------------------------------------------------------
(* process_at, last part: a bitmap of the whole frame where the graphics   *)
(* channel is missing, late or of no use.  It reads the channel again.     *)

RuntimeAvailable == proc.active /\ proc.enc.kind # "none" /\ proc.surface # 0

BitmapDue ==
  /\ ~job.sent
  /\ IF ~scenario.egfx THEN TRUE
     ELSE IF gfx.ready THEN gfx.codec = "clear" \/ ~RuntimeAvailable
     ELSE BitmapFallbackDue

(* The update channel may be closed by then, which ends the capture.       *)
BitmapStep(data) ==
  /\ job.pc = "bitmap"
  /\ \/ /\ BitmapDue
        /\ Return([proc EXCEPT !.sentFirst = TRUE, !.ref = data, !.pending = {}], TRUE)
        /\ client' = [client EXCEPT !.shown = data]
        /\ earlyBitmap' = (earlyBitmap
                           \/ (scenario.egfx /\ ~job.negotiated /\ ~graceOver))
     \/ /\ BitmapDue /\ scenario.stops
        /\ Return([proc EXCEPT !.sentFirst = TRUE], FALSE)
        /\ UNCHANGED <<client, earlyBitmap>>
     \/ /\ ~BitmapDue
        /\ Return(proc, TRUE)
        /\ UNCHANGED <<client, earlyBitmap>>
  /\ UNCHANGED <<scenario, gfx, graceOver, lostChain>>

ProcessNext(data) ==
  \/ SendInitialResize \/ WithoutGraphics
  \/ ProcessClearCodec(data) \/ ObserveChannel(data)
  \/ NotEncoded \/ NotReady \/ EncodeFrame \/ SendFrame(data)
  \/ BitmapStep(data)
===============================================================================
