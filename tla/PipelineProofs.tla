---------------------------- MODULE PipelineProofs ----------------------------
(***************************************************************************)
(* What a capture thread keeps, for every screen, window and session:      *)
(* stale tiles stay pending (StaleIsPending), the encoder never gets ahead *)
(* of the client (EncoderFollows), and frames neither mix nor go back in   *)
(* time (FramesInOrder).  None of them is inductive.  PipelineInv adds     *)
(* what the two buffers hold, how the events on the wire relate to the     *)
(* request, and what is known of a frame at each stage of process_at.      *)
(***************************************************************************)
EXTENDS Pipeline, TLAPS

Pictures == [Tiles -> Nat]
Stages == {"idle", "begin", "encode", "send", "bitmap", "done", "refresh", "convert", "deliver"}
ShmStages == {"begin", "encode", "send", "bitmap", "done"}
DmaStages == {"refresh", "convert", "deliver"}
Kinds == {"buffer", "resized", "ready", "failed", "constraints", "stopped"}
Completions == {"ready", "failed", "constraints", "stopped"}

GfxSet == [ready : BOOLEAN, everReady : BOOLEAN, gen : 0..MaxGen,
           codec : Codecs \cup {"none"}, forceFull : BOOLEAN, inFlight : 0..Window]
ProcSet == [ready : BOOLEAN, active : BOOLEAN, gen : 0..MaxGen,
            codec : Codecs \cup {"none"}, enc : Encoders, surface : 0..MaxGen,
            sentFirst : BOOLEAN, failures : 0..MaxFailures, pending : SUBSET Tiles,
            ref : Frames \cup {NoRef}, resize : BOOLEAN]
JobSet == [pc : Stages, idx : Indices, ready : BOOLEAN, negotiated : BOOLEAN, force : BOOLEAN,
           damage : SUBSET Tiles, out : Outcomes \cup {"none"}, sent : BOOLEAN,
           continue : BOOLEAN]
ClientSet == [shown : Frames, decoder : 0..MaxGen]
RequestSet == [id : FrameIds, stage : {"asked", "offered", "copy", "none"}]
EventSet == [id : FrameIds, kind : Kinds, damage : SUBSET Tiles]
StateSet == [done : Completions \cup {"no"}, damage : SUBSET Tiles, info : BOOLEAN]
DmaSet == [ready : BOOLEAN, gen : 0..MaxGen, surface : 0..MaxGen, enc : Encoders,
           failures : 0..MaxFailures, sentFirst : BOOLEAN]

ProcessorTypes ==
  /\ scenario \in Scenarios
  /\ gfx \in GfxSet /\ graceOver \in BOOLEAN
  /\ proc \in ProcSet /\ job \in JobSet /\ client \in ClientSet
  /\ lostChain \in BOOLEAN /\ earlyBitmap \in BOOLEAN
  /\ dma \in DmaSet

LoopTypes ==
  /\ screen \in Frames /\ unseen \in SUBSET Tiles
  /\ buf \in [Indices -> Frames] /\ cap \in Indices
  /\ request \in RequestSet /\ wire \in Seq(EventSet) /\ state \in StateSet
  /\ deferred \in {0, 1, 2} /\ pacer \in BOOLEAN /\ streak \in 0..MaxStreak
  /\ ended = "no" => streak < MaxStreak
  /\ layout \in Nat /\ procLayout \in Nat
  /\ stop \in BOOLEAN /\ ended \in Ends /\ zeroCopy \in BOOLEAN
  /\ captured \in Frames /\ unreported \in SUBSET Tiles

(* A completed copy of the screen, of damage d, that the loop has not      *)
(* taken yet.                                                              *)
Reports(d) ==
  \/ state.done = "ready" /\ d = state.damage
  \/ \E i \in 1..Len(wire) :
       wire[i].kind = "ready" /\ wire[i].id = request.id /\ d = wire[i].damage

(* Events and the request: the ext loops see only events of the frame they *)
(* asked for; an event that completes it is the last one, and none is left *)
(* once the loop has taken it; the damage of a frame given up is counted   *)
(* as unreported.                                                          *)
WireInOrder ==
  /\ ~Wlr => \A i \in 1..Len(wire) : wire[i].id = request.id
  /\ \A i \in 1..Len(wire) : (wire[i].id = request.id /\ wire[i].kind \in Completions) =>
       i = Len(wire) /\ request.stage = "none" /\ state.done = "no"
  /\ \A i \in 1..Len(wire) : (wire[i].id # request.id \/ wire[i].kind # "ready") =>
       wire[i].damage \subseteq unreported
  /\ state.done # "no" => wire = <<>> /\ request.stage = "none"

(* Which loop a job belongs to, and that none survives the loop.           *)
JobShape ==
  /\ ended # "no" => job.pc = "idle"
  /\ job.pc \in ShmStages => ~zeroCopy
  /\ job.pc \in DmaStages => zeroCopy
  /\ zeroCopy => deferred = NoFrame

(* The frame under way and the deferred frame are in the buffer that the   *)
(* compositor does not hold, and are the frame last captured.              *)
FrameHeld ==
  /\ job.pc # "idle" => job.idx = 1 - cap
  /\ deferred # NoFrame => deferred = 1 - cap
  /\ ((job.pc # "idle" \/ deferred # NoFrame) /\ ~zeroCopy) => buf[1 - cap] = captured

(* A copy that waits to be taken is what the screen was, and differs from  *)
(* the frame last captured only where damage says so.                      *)
CopyCovered ==
  \A d \in SUBSET Tiles : Reports(d) =>
    /\ \A t \in Tiles : buf[cap][t] >= 1
    /\ \A t \in Tiles : screen[t] # buf[cap][t] => t \in unseen
    /\ (~zeroCopy /\ captured # Blank) =>
         \A t \in Tiles : buf[cap][t] # captured[t] => t \in d \cup unreported

(* Without one, the screen differs from the frame last captured only where *)
(* the compositor will report it, or where it never will.                  *)
ScreenCovered ==
  ((\A d \in SUBSET Tiles : ~Reports(d)) /\ ~zeroCopy /\ ended = "no" /\ captured # Blank) =>
    \A t \in Tiles : screen[t] # captured[t] => t \in unseen \cup unreported

(* Before the first frame nothing is under way and nothing was sent.       *)
NothingCaptured ==
  (captured = Blank /\ ~zeroCopy) =>
    job.pc = "idle" /\ deferred = NoFrame /\ ~proc.sentFirst

(* StaleIsPending at every stage of process_at, and without the help of a  *)
(* forced refresh.                                                         *)
StaleCovered ==
  (ended = "no" /\ ~zeroCopy /\ ~(job.pc = "done" /\ ~job.continue)) =>
    \/ ~proc.sentFirst \/ proc.gen # gfx.gen
    \/ \A t \in Tiles : client.shown[t] # captured[t] => t \in proc.pending \cup unreported

(* What a frame under way leaves out needs no sending.                     *)
DamageCovered ==
  (job.pc \in {"encode", "send"} /\ proc.gen = gfx.gen) =>
    /\ proc.ref = NoRef => job.damage = Tiles
    /\ \A t \in Tiles \ job.damage : client.shown[t] # captured[t] => t \in unreported

(* An encoder that would send a P-frame is where the client's decoder is.  *)
ChainKept(enc, surface) ==
  (enc.kind # "none" /\ ~enc.idr) =>
    /\ ~enc.drift /\ surface # 0
    /\ SurfaceLives(surface) => client.decoder = gfx.gen

EncoderKept ==
  /\ gfx.ready => gfx.gen # 0
  /\ proc.gen <= gfx.gen /\ proc.surface <= gfx.gen /\ dma.surface <= gfx.gen
  /\ ChainKept(proc.enc, proc.surface) /\ ChainKept(dma.enc, dma.surface)
  /\ ~dma.ready => dma.enc.kind = "none"
  /\ (job.pc = "send" /\ job.out = "frame") => proc.enc.kind # "none"
  /\ (job.pc = "deliver" /\ job.out = "frame") => dma.enc.kind # "none"

(* Versions only grow from the client over the buffers to the screen.      *)
Older(f, g) == \A t \in Tiles : f[t] <= g[t]

VersionsGrow ==
  /\ \A t \in Tiles : screen[t] >= 1
  /\ Older(client.shown, screen)
  /\ \A i \in Indices : Older(buf[i], screen)
  /\ (job.pc # "idle" \/ deferred # NoFrame) => Older(client.shown, buf[1 - cap])
  /\ \A d \in SUBSET Tiles : Reports(d) =>
       Older(client.shown, buf[cap]) /\ Older(buf[1 - cap], buf[cap])

PipelineInv ==
  /\ ProcessorTypes /\ StaleCovered /\ DamageCovered /\ ReferenceIsShown
  /\ EncoderKept /\ ChainIntact /\ BackendRespected
  /\ JobShape /\ FrameHeld /\ NothingCaptured /\ VersionsGrow
  /\ LoopTypes /\ WireInOrder /\ CopyCovered /\ ScreenCovered

-----------------------------------------------------------------------------
(* The records of the processor and of the zero-copy session.              *)

(* The fields of a processor have their types.                             *)
LEMMA ProcFields ==
  ASSUME NEW p \in ProcSet
  PROVE  /\ p.ready \in BOOLEAN /\ p.active \in BOOLEAN /\ p.gen \in 0..MaxGen
         /\ p.codec \in Codecs \cup {"none"} /\ p.enc \in Encoders /\ p.surface \in 0..MaxGen
         /\ p.sentFirst \in BOOLEAN /\ p.failures \in 0..MaxFailures
         /\ p.pending \in SUBSET Tiles /\ p.ref \in Frames \cup {NoRef}
         /\ p.resize \in BOOLEAN
BY DEF ProcSet

(* A new encoder owes an IDR.                                              *)
LEMMA NewEncoderFields ==
  ASSUME NEW kind \in Backends
  PROVE  /\ NewEncoder(kind) \in Encoders /\ NoEncoder \in Encoders
         /\ NoEncoder.kind = "none" /\ NewEncoder(kind).kind = kind
         /\ kind # "none" => NewEncoder(kind).idr
         /\ ~NewEncoder(kind).drift
<1>1. PICK b \in BOOLEAN : b = (kind # "none")
  OBVIOUS
<1>2. PICK f \in BOOLEAN : f = FALSE
  OBVIOUS
<1>3. NewEncoder(kind) = [kind |-> kind, idr |-> b, drift |-> f]
  BY <1>1, <1>2 DEF NewEncoder
<1>4. NoEncoder = [kind |-> "none", idr |-> f, drift |-> f]
  BY <1>2 DEF NoEncoder
<1>5. NewEncoder(kind) \in Encoders /\ NoEncoder \in Encoders
  BY <1>3, <1>4 DEF Encoders, Backends
<1>6. NoEncoder.kind = "none" /\ NewEncoder(kind).kind = kind
  BY <1>3, <1>4
<1>7. NewEncoder(kind).idr = b /\ NewEncoder(kind).drift = f
  BY <1>3
<1> QED
  BY <1>1, <1>2, <1>5, <1>6, <1>7

(* Forgotten drops the surface, the encoder and the reference.             *)
LEMMA ForgottenFields ==
  ASSUME NEW p \in ProcSet
  PROVE  /\ Forgotten(p) \in ProcSet
         /\ Forgotten(p).gen = p.gen /\ Forgotten(p).pending = p.pending
         /\ Forgotten(p).surface = 0 /\ Forgotten(p).enc = NoEncoder
         /\ Forgotten(p).ref = NoRef /\ ~Forgotten(p).sentFirst
<1>1. PICK f \in BOOLEAN : f = FALSE
  OBVIOUS
<1>2. PICK e \in Encoders : e = NoEncoder
  BY NewEncoderFields DEF Backends
<1>3. PICK z \in 0..MaxGen : z = 0
  BY ProcessorAssumption
<1>4. PICK c \in Codecs \cup {"none"} : c = "none"
  OBVIOUS
<1>5. PICK r \in Frames \cup {NoRef} : r = NoRef
  OBVIOUS
<1>6. PICK q : q = [p EXCEPT !.surface = z, !.enc = e, !.codec = c, !.sentFirst = f, !.ref = r]
  OBVIOUS
<1>7. q = Forgotten(p)
  BY <1>1, <1>2, <1>3, <1>4, <1>5, <1>6 DEF Forgotten
<1>8. q \in ProcSet
  BY <1>6 DEF ProcSet
<1>9. /\ q.gen = p.gen /\ q.pending = p.pending /\ q.surface = z /\ q.enc = e /\ q.ref = r
      /\ q.sentFirst = f
  BY <1>6 DEF ProcSet
<1> QED
  BY <1>1, <1>2, <1>3, <1>5, <1>7, <1>8, <1>9

(* A forgotten processor of another generation, or of an idle channel.     *)
LEMMA RestartedFields ==
  ASSUME NEW p \in ProcSet, NEW g \in 0..MaxGen
  PROVE  LET r == [Forgotten(p) EXCEPT !.active = FALSE]
             u == [Forgotten(p) EXCEPT !.gen = g]
         IN  /\ r \in ProcSet /\ u \in ProcSet /\ r.gen = p.gen /\ u.gen = g
             /\ \A v \in {r, u} :
                  /\ v.pending = p.pending /\ v.surface = 0 /\ v.enc = NoEncoder
                  /\ v.ref = NoRef /\ ~v.sentFirst
<1>1. PICK f \in BOOLEAN : f = FALSE
  OBVIOUS
<1>2. PICK o \in ProcSet : o = Forgotten(p)
  BY ForgottenFields
<1>3. /\ o.gen = p.gen /\ o.pending = p.pending /\ o.surface = 0 /\ o.enc = NoEncoder
      /\ o.ref = NoRef /\ ~o.sentFirst
  BY <1>2, ForgottenFields
<1>4. PICK r : r = [o EXCEPT !.active = f]
  OBVIOUS
<1>5. PICK u : u = [o EXCEPT !.gen = g]
  OBVIOUS
<1>6. r \in ProcSet /\ u \in ProcSet
  BY <1>4, <1>5 DEF ProcSet
<1>7. r.gen = o.gen /\ u.gen = g
  BY <1>4, <1>5 DEF ProcSet
<1>8. \A v \in {r, u} :
        /\ v.pending = o.pending /\ v.surface = o.surface /\ v.enc = o.enc
        /\ v.ref = o.ref /\ v.sentFirst = o.sentFirst
  BY <1>4, <1>5 DEF ProcSet
<1>9. \A v \in {r, u} :
        /\ v.pending = p.pending /\ v.surface = 0 /\ v.enc = NoEncoder
        /\ v.ref = NoRef /\ ~v.sentFirst
  BY <1>3, <1>8
<1> QED
  BY <1>1, <1>2, <1>3, <1>4, <1>5, <1>6, <1>7, <1>9

Fresh(q, kind) ==
  ~q.sentFirst /\ q.ref = NoRef /\ q.surface = 0 /\ q.enc \in {NoEncoder, NewEncoder(kind)}
Kept(p, q) ==
  q.sentFirst = p.sentFirst /\ q.ref = p.ref /\ q.surface = p.surface /\ q.enc = p.enc

(* Observed leaves a processor of this generation as it is, or makes one   *)
(* that starts afresh; either keeps the pending damage.                    *)
LEMMA ObservedFields ==
  ASSUME gfx \in GfxSet, NEW p \in ProcSet, NEW kind \in Backends
  PROVE  /\ Observed(p, kind) \in ProcSet
         /\ Observed(p, kind).gen = gfx.gen /\ Observed(p, kind).pending = p.pending
         /\ \/ Fresh(Observed(p, kind), kind)
            \/ p.gen = gfx.gen /\ Kept(p, Observed(p, kind))
<1> DEFINE closed == p.ready /\ ~gfx.ready
           q == IF closed THEN [Forgotten(p) EXCEPT !.active = FALSE] ELSE p
           stale == gfx.gen # q.gen \/ (gfx.ready /\ gfx.codec # q.codec)
           r == IF stale THEN [Forgotten(q) EXCEPT !.gen = gfx.gen] ELSE q
           e == IF stale /\ gfx.ready THEN NewEncoder(kind) ELSE r.enc
           c == IF stale /\ gfx.ready /\ kind # "none" THEN gfx.codec ELSE r.codec
           o == [r EXCEPT !.ready = gfx.ready, !.enc = e, !.codec = c]
<1>1. gfx.gen \in 0..MaxGen /\ gfx.ready \in BOOLEAN /\ gfx.codec \in Codecs \cup {"none"}
  BY DEF GfxSet
<1>2. /\ q \in ProcSet /\ q.pending = p.pending
      /\ closed => q.gen = p.gen /\ Fresh(q, kind)
      /\ ~closed => q = p
  BY <1>1, RestartedFields DEF Fresh
<1>3. /\ r \in ProcSet /\ r.pending = p.pending /\ r.gen = gfx.gen
      /\ stale => Fresh(r, kind)
      /\ ~stale => r = q
  <2>1. CASE stale
    <3>1. PICK q1 \in ProcSet : q1 = q
      BY <1>2
    <3>2. r = [Forgotten(q1) EXCEPT !.gen = gfx.gen]
      BY <2>1, <3>1
    <3> HIDE DEF q, stale, r
    <3> QED
      BY <1>1, <1>2, <2>1, <3>1, <3>2, RestartedFields DEF Fresh
  <2>2. CASE ~stale
    BY <1>1, <1>2, <2>2
  <2> QED
    BY <2>1, <2>2
<1>4. PICK r1 \in ProcSet, e1 \in Encoders, c1 \in Codecs \cup {"none"} :
        r1 = r /\ e1 = e /\ c1 = c
  <2>1. e \in Encoders /\ c \in Codecs \cup {"none"}
    BY <1>1, <1>3, NewEncoderFields, ProcFields
  <2> QED
    BY <1>3, <2>1
<1>5. PICK o1 : o1 = [r1 EXCEPT !.ready = gfx.ready, !.enc = e1, !.codec = c1]
  OBVIOUS
<1>6. o1 \in ProcSet
  BY <1>1, <1>5 DEF ProcSet
<1>7. /\ o1.gen = r1.gen /\ o1.pending = r1.pending /\ o1.enc = e1 /\ o1.ref = r1.ref
      /\ o1.surface = r1.surface /\ o1.sentFirst = r1.sentFirst
  BY <1>5 DEF ProcSet
<1>8. o = o1
  BY <1>4, <1>5
<1>9. Observed(p, kind) = o
  BY DEF Observed
<1>10. Fresh(o1, kind) \/ (p.gen = gfx.gen /\ Kept(p, o1))
  <2>1. CASE stale
    BY <1>3, <1>4, <1>7, <2>1 DEF Fresh
  <2>2. CASE ~stale /\ closed
    BY <1>2, <1>3, <1>4, <1>7, <2>2 DEF Fresh
  <2>3. CASE ~stale /\ ~closed
    BY <1>2, <1>3, <1>4, <1>7, <2>3 DEF Kept
  <2> QED
    BY <2>1, <2>2, <2>3
<1> HIDE DEF closed, q, stale, r, e, c, o
<1> QED
  BY <1>3, <1>4, <1>6, <1>7, <1>8, <1>9, <1>10

(* The empty screen is a frame.                                            *)
LEMMA BlankIsFrame == Blank \in Frames
BY ProcessorAssumption DEF Blank, Frames, Versions

(* A frame is no missing reference: there are tiles.                       *)
LEMMA FrameIsNoRef ==
  ASSUME NEW f \in Frames
  PROVE  f # NoRef
<1>1. DOMAIN f = Tiles /\ DOMAIN NoRef = {}
  BY DEF Frames, NoRef
<1> QED
  BY <1>1, ProcessorAssumption

(* RefAfter takes the damaged tiles from the data.                         *)
LEMMA RefAfterFields ==
  ASSUME NEW r \in Frames \cup {NoRef}, NEW data \in Frames, NEW damage \in SUBSET Tiles
  PROVE  /\ RefAfter(r, data, damage) \in Frames
         /\ r = NoRef => RefAfter(r, data, damage) = data
         /\ r # NoRef => /\ r \in Frames
                         /\ \A t \in damage : RefAfter(r, data, damage)[t] = data[t]
                         /\ \A t \in Tiles \ damage : RefAfter(r, data, damage)[t] = r[t]
<1>1. CASE r = NoRef
  BY <1>1 DEF RefAfter
<1>2. CASE r # NoRef
  BY <1>2 DEF RefAfter, Frames
<1> QED
  BY <1>1, <1>2

(* A new processor has sent nothing.                                       *)
LEMMA NewProcessorFields ==
  ASSUME NEW resize \in BOOLEAN
  PROVE  LET q == NewProcessor(resize)
         IN  /\ q \in ProcSet /\ q.gen = 0 /\ q.pending = {} /\ q.surface = 0
             /\ q.enc = NoEncoder /\ q.ref = NoRef /\ ~q.sentFirst
<1>1. PICK f \in BOOLEAN : f = FALSE
  OBVIOUS
<1>2. PICK e \in Encoders : e = NoEncoder
  BY NewEncoderFields DEF Backends
<1>3. PICK q : q = [ready |-> f, active |-> f, gen |-> 0, codec |-> "none", enc |-> e,
                    surface |-> 0, sentFirst |-> f, failures |-> 0, pending |-> {},
                    ref |-> NoRef, resize |-> resize]
  OBVIOUS
<1>4. q = NewProcessor(resize)
  BY <1>1, <1>2, <1>3 DEF NewProcessor
<1>5. q \in ProcSet
  BY <1>3, ProcessorAssumption DEF ProcSet
<1>6. /\ q.gen = 0 /\ q.pending = {} /\ q.surface = 0 /\ q.enc = e /\ q.ref = NoRef
      /\ q.sentFirst = f
  BY <1>3
<1> QED
  BY <1>1, <1>2, <1>4, <1>5, <1>6

(* QueueDamage adds to the pending damage and changes nothing else.        *)
LEMMA QueueDamageFields ==
  ASSUME NEW p \in ProcSet, NEW damage \in SUBSET Tiles
  PROVE  LET q == QueueDamage(p, damage)
         IN  /\ q \in ProcSet /\ Kept(p, q) /\ q.gen = p.gen
             /\ q.pending = p.pending \cup damage
<1>1. PICK d \in SUBSET Tiles : d = p.pending \cup damage
  BY DEF ProcSet
<1>2. PICK q : q = [p EXCEPT !.pending = d]
  OBVIOUS
<1>3. q = QueueDamage(p, damage)
  BY <1>1, <1>2 DEF QueueDamage
<1>4. q \in ProcSet
  BY <1>2 DEF ProcSet
<1>5. /\ q.gen = p.gen /\ q.pending = d /\ q.sentFirst = p.sentFirst /\ q.ref = p.ref
      /\ q.surface = p.surface /\ q.enc = p.enc
  BY <1>2 DEF ProcSet
<1> QED
  BY <1>1, <1>3, <1>4, <1>5 DEF Kept

(* The encoder runs on the surface the processor has or, if it has none,   *)
(* on one of the generation of the channel.                                *)
LEMMA SurfacedFields ==
  ASSUME gfx \in GfxSet, job \in JobSet, NEW p \in ProcSet
  PROVE  LET q == Surfaced(Activated(p))
         IN  /\ q \in ProcSet /\ q.gen = p.gen /\ q.pending = p.pending
             /\ q.sentFirst = p.sentFirst /\ q.ref = p.ref /\ q.enc = p.enc
             /\ q.surface = p.surface
                \/ (p.surface = 0 /\ gfx.ready /\ q.surface = gfx.gen)
<1>1. PICK a \in BOOLEAN : a = (p.active \/ (job.ready /\ p.enc.kind # "none"))
  OBVIOUS
<1>2. PICK o : o = [p EXCEPT !.active = a]
  OBVIOUS
<1>3. o = Activated(p)
  BY <1>1, <1>2 DEF Activated
<1>4. o \in ProcSet
  BY <1>2 DEF ProcSet
<1>5. /\ o.gen = p.gen /\ o.pending = p.pending /\ o.sentFirst = p.sentFirst
      /\ o.ref = p.ref /\ o.enc = p.enc /\ o.surface = p.surface
  BY <1>2 DEF ProcSet
<1>6. PICK z : z = IF o.surface = 0 /\ o.active /\ gfx.ready THEN gfx.gen ELSE o.surface
  OBVIOUS
<1>7. z \in 0..MaxGen
  BY <1>4, <1>6 DEF ProcSet, GfxSet
<1>8. PICK q : q = [o EXCEPT !.surface = z]
  OBVIOUS
<1>9. q = Surfaced(Activated(p))
  BY <1>3, <1>6, <1>8 DEF Surfaced
<1>10. q \in ProcSet
  BY <1>4, <1>7, <1>8 DEF ProcSet
<1>11. /\ q.gen = o.gen /\ q.pending = o.pending /\ q.sentFirst = o.sentFirst
       /\ q.ref = o.ref /\ q.enc = o.enc /\ q.surface = z
  BY <1>4, <1>8 DEF ProcSet
<1> QED
  BY <1>5, <1>6, <1>9, <1>10, <1>11

(* What a frame leaves of a processor whether it was sent or not.          *)
SameFrames(p, q) ==
  q.gen = p.gen /\ q.pending = p.pending /\ q.ref = p.ref /\ q.sentFirst = p.sentFirst

(* An encoder after the frame it made was sent: it owes no IDR any more    *)
(* and is level with the client if it was, or if the frame was an IDR.     *)
LEMMA SentEncoder ==
  ASSUME NEW e \in Encoders
  PROVE  LET o == [e EXCEPT !.idr = FALSE, !.drift = @ /\ ~e.idr]
         IN  /\ o \in Encoders /\ o.kind = e.kind /\ ~o.idr
             /\ o.drift => e.drift /\ ~e.idr
<1>1. PICK f \in BOOLEAN : f = FALSE
  OBVIOUS
<1>2. PICK d \in BOOLEAN : d = (e.drift /\ ~e.idr)
  OBVIOUS
<1>3. PICK o : o = [e EXCEPT !.idr = f, !.drift = d]
  OBVIOUS
<1>4. o \in Encoders /\ o.kind = e.kind /\ o.idr = f /\ o.drift = d
  BY <1>3 DEF Encoders
<1>5. o = [e EXCEPT !.idr = FALSE, !.drift = @ /\ ~e.idr]
  BY <1>1, <1>2, <1>3 DEF Encoders
<1> QED
  BY <1>1, <1>2, <1>4, <1>5

(* A processor after its frame was sent.                                   *)
LEMMA SentFields ==
  ASSUME NEW p \in ProcSet, NEW r \in Frames
  PROVE  LET q == [p EXCEPT !.failures = 0, !.enc.idr = FALSE,
                            !.enc.drift = @ /\ ~p.enc.idr,
                            !.ref = r, !.sentFirst = TRUE, !.pending = {}]
         IN  /\ q \in ProcSet /\ q.gen = p.gen /\ q.surface = p.surface
             /\ q.ref = r /\ q.sentFirst /\ q.pending = {}
             /\ q.enc.kind = p.enc.kind /\ ~q.enc.idr
             /\ q.enc.drift => p.enc.drift /\ ~p.enc.idr
<1>1. PICK b \in BOOLEAN : b = TRUE
  OBVIOUS
<1>2. PICK n \in 0..MaxFailures : n = 0
  BY ProcessorAssumption
<1>3. PICK v \in Encoders : v = p.enc
  BY ProcFields
<1>4. PICK e \in Encoders : e = [v EXCEPT !.idr = FALSE, !.drift = @ /\ ~v.idr]
  BY SentEncoder
<1>5. e.kind = v.kind /\ ~e.idr /\ (e.drift => v.drift /\ ~v.idr)
  BY <1>4, SentEncoder
<1>6. PICK q : q = [p EXCEPT !.failures = n, !.enc = e, !.ref = r, !.sentFirst = b,
                             !.pending = {}]
  OBVIOUS
<1>7. q \in ProcSet
  BY <1>6 DEF ProcSet
<1>8. /\ q.gen = p.gen /\ q.surface = p.surface /\ q.ref = r /\ q.sentFirst = b
      /\ q.pending = {} /\ q.enc = e
  BY <1>6 DEF ProcSet
<1>9. q = [p EXCEPT !.failures = 0, !.enc.idr = FALSE, !.enc.drift = @ /\ ~p.enc.idr,
                    !.ref = r, !.sentFirst = TRUE, !.pending = {}]
  BY <1>1, <1>2, <1>3, <1>4, <1>6 DEF ProcSet, Encoders
<1> QED
  BY <1>1, <1>3, <1>5, <1>7, <1>8, <1>9

(* A processor whose encoder is past a frame that the client lacks owes an *)
(* IDR.                                                                    *)
LEMMA UnsentFields ==
  ASSUME NEW p \in ProcSet, NEW n \in 0..MaxFailures
  PROVE  LET q == ForceIdr(Drifted([p EXCEPT !.failures = n]))
         IN  /\ q \in ProcSet /\ SameFrames(p, q) /\ q.surface = p.surface
             /\ q.enc.kind = p.enc.kind /\ (q.enc.kind # "none" => q.enc.idr)
<1>1. PICK b \in BOOLEAN : b = TRUE
  OBVIOUS
<1>2. PICK v \in Encoders : v = p.enc
  BY ProcFields
<1>3. PICK i \in BOOLEAN : i = (v.idr \/ v.kind # "none")
  OBVIOUS
<1>4. PICK d : d = [v EXCEPT !.drift = b]
  OBVIOUS
<1>5. d \in Encoders /\ d.kind = v.kind /\ d.idr = v.idr
  BY <1>4 DEF Encoders
<1>6. PICK e : e = [d EXCEPT !.idr = i]
  OBVIOUS
<1>7. e \in Encoders /\ e.kind = v.kind /\ e.idr = i
  BY <1>5, <1>6 DEF Encoders
<1>8. PICK o : o = [p EXCEPT !.failures = n]
  OBVIOUS
<1>9. o \in ProcSet /\ o.enc = v /\ SameFrames(p, o) /\ o.surface = p.surface
  BY <1>2, <1>8 DEF ProcSet, SameFrames
<1>10. PICK u : u = [o EXCEPT !.enc = d]
  OBVIOUS
<1>11. u \in ProcSet /\ u.enc = d /\ SameFrames(o, u) /\ u.surface = o.surface
  BY <1>5, <1>9, <1>10 DEF ProcSet, SameFrames
<1>12. u = Drifted(o)
  BY <1>1, <1>4, <1>9, <1>10 DEF Drifted
<1>13. PICK q : q = [u EXCEPT !.enc = e]
  OBVIOUS
<1>14. q \in ProcSet /\ q.enc = e /\ SameFrames(u, q) /\ q.surface = u.surface
  BY <1>7, <1>11, <1>13 DEF ProcSet, SameFrames
<1>15. q = ForceIdr(u)
  BY <1>3, <1>5, <1>6, <1>11, <1>13 DEF ForceIdr
<1>16. SameFrames(p, q)
  BY <1>9, <1>11, <1>14 DEF SameFrames
<1> QED
  BY <1>2, <1>3, <1>7, <1>8, <1>9, <1>11, <1>12, <1>14, <1>15, <1>16

(* After too many failures the encoder is given up or, in auto mode only,  *)
(* replaced by one that starts with an IDR on a new surface.               *)
LEMMA AfterFailuresFields ==
  ASSUME NEW p \in ProcSet, NEW kind \in Backends
  PROVE  LET q == AfterFailures(p, kind)
         IN  /\ q \in ProcSet /\ SameFrames(p, q)
             /\ \/ q.enc = p.enc /\ q.surface = p.surface
                \/ q.enc = NoEncoder /\ q.surface = p.surface
                \/ /\ scenario.policy = "auto" /\ kind # "none"
                   /\ q.enc = NewEncoder(kind) /\ q.surface = 0
<1>1. PICK f \in BOOLEAN : f = FALSE
  OBVIOUS
<1>2. PICK n \in 0..MaxFailures : n = 0
  BY ProcessorAssumption
<1>3. PICK z \in 0..MaxGen : z = 0
  BY ProcessorAssumption
<1>4. PICK e \in Encoders, v \in Encoders : e = NoEncoder /\ v = NewEncoder(kind)
  BY NewEncoderFields
<1>5. PICK o : o = [p EXCEPT !.enc = e, !.active = f]
  OBVIOUS
<1>6. PICK u : u = [p EXCEPT !.enc = v, !.failures = n, !.surface = z]
  OBVIOUS
<1>7. o \in ProcSet /\ o.enc = e /\ SameFrames(p, o) /\ o.surface = p.surface
  BY <1>5 DEF ProcSet, SameFrames
<1>8. u \in ProcSet /\ u.enc = v /\ SameFrames(p, u) /\ u.surface = z
  BY <1>6 DEF ProcSet, SameFrames
<1>9. \/ AfterFailures(p, kind) = p
      \/ AfterFailures(p, kind) = o
      \/ AfterFailures(p, kind) = u /\ scenario.policy = "auto" /\ kind # "none"
  BY <1>1, <1>2, <1>3, <1>4, <1>5, <1>6 DEF AfterFailures, AllowsRuntimeFallback
<1>10. SameFrames(p, p)
  BY DEF SameFrames
<1> QED
  BY <1>3, <1>4, <1>7, <1>8, <1>9, <1>10

(* A zero-copy session that starts has neither surface nor encoder.        *)
LEMMA NewDmaFields ==
  /\ NewDma \in DmaSet /\ NewDma.surface = 0 /\ NewDma.enc = NoEncoder
  /\ NewDma.enc.kind = "none"
<1>1. PICK f \in BOOLEAN : f = FALSE
  OBVIOUS
<1>2. PICK e \in Encoders : e = NoEncoder /\ e.kind = "none"
  BY NewEncoderFields DEF Backends
<1>3. PICK d : d = [ready |-> f, gen |-> 0, surface |-> 0, enc |-> e, failures |-> 0,
                    sentFirst |-> f]
  OBVIOUS
<1>4. d = NewDma
  BY <1>1, <1>2, <1>3 DEF NewDma
<1>5. d \in DmaSet /\ d.surface = 0 /\ d.enc = e
  BY <1>3, ProcessorAssumption DEF DmaSet
<1> QED
  BY <1>2, <1>4, <1>5

(* A refresh keeps encoder and surface together, or changes the encoder to *)
(* none or to a new one; without a channel there is no encoder.            *)
LEMMA SessionFields ==
  ASSUME gfx \in GfxSet, NEW d \in DmaSet, NEW kind \in Backends,
         ~d.ready => d.enc.kind = "none"
  PROVE  LET q == SessionRefreshed(d, kind)
         IN  /\ q \in DmaSet /\ q.surface \in {0, d.surface}
             /\ ~q.ready => q.enc.kind = "none"
             /\ \/ q.enc = NoEncoder \/ q.enc = NewEncoder(kind)
                \/ q.enc = d.enc /\ (q.surface = d.surface \/ d.enc.kind = "none")
<1> DEFINE lost == d.ready /\ ~AvcReady
           changed == gfx.gen # d.gen
           o == IF lost THEN [d EXCEPT !.surface = 0, !.enc = NoEncoder, !.failures = 0] ELSE d
           z == IF changed THEN 0 ELSE o.surface
           r == [o EXCEPT !.ready = AvcReady, !.gen = gfx.gen, !.surface = z]
           q == IF AvcReady /\ (changed \/ r.enc.kind = "none")
                THEN [r EXCEPT !.enc = NewEncoder(kind), !.failures = 0]
                ELSE r
<1>1. gfx.gen \in 0..MaxGen
  BY DEF GfxSet
<1>2. PICK n \in 0..MaxFailures, y \in 0..MaxGen : n = 0 /\ y = 0
  BY ProcessorAssumption
<1>3. PICK e \in Encoders, v \in Encoders : e = NoEncoder /\ v = NewEncoder(kind)
  BY NewEncoderFields
<1>4. e.kind = "none"
  BY <1>3, NewEncoderFields
<1>5. PICK l : l = [d EXCEPT !.surface = y, !.enc = e, !.failures = n]
  OBVIOUS
<1>6. l \in DmaSet /\ l.surface = y /\ l.enc = e /\ l.gen = d.gen
  BY <1>5 DEF DmaSet
<1>7. PICK o1 : o1 = o
  OBVIOUS
<1>8. (lost /\ o1 = l) \/ (~lost /\ o1 = d)
  BY <1>2, <1>3, <1>5, <1>7
<1>9. o1 \in DmaSet
  BY <1>6, <1>8
<1>10. PICK a \in BOOLEAN : a = AvcReady
  BY DEF AvcReady
<1>11. PICK z1 : z1 = z
  OBVIOUS
<1>12. z1 \in 0..MaxGen /\ z1 \in {0, o1.surface} /\ (~changed => z1 = o1.surface)
  BY <1>2, <1>7, <1>9, <1>11 DEF DmaSet
<1>13. PICK r1 : r1 = [o1 EXCEPT !.ready = a, !.gen = gfx.gen, !.surface = z1]
  OBVIOUS
<1>14. r1 = r
  BY <1>7, <1>10, <1>11, <1>13
<1>15. r1 \in DmaSet /\ r1.ready = a /\ r1.surface = z1 /\ r1.enc = o1.enc
  BY <1>1, <1>9, <1>12, <1>13 DEF DmaSet
<1>16. PICK u : u = [r1 EXCEPT !.enc = v, !.failures = n]
  OBVIOUS
<1>17. u \in DmaSet /\ u.ready = a /\ u.surface = z1 /\ u.enc = v
  BY <1>15, <1>16 DEF DmaSet
<1>18. PICK q1 : q1 = q
  OBVIOUS
<1>19. \/ a /\ (changed \/ r1.enc.kind = "none") /\ q1 = u
       \/ ~(a /\ (changed \/ r1.enc.kind = "none")) /\ q1 = r1
  BY <1>2, <1>3, <1>10, <1>14, <1>16, <1>18
<1>20. SessionRefreshed(d, kind) = q1
  BY <1>18 DEF SessionRefreshed
<1> HIDE DEF o, z, r, q, changed
<1>21. q1 \in DmaSet
  BY <1>15, <1>17, <1>19
<1>22. q1.surface \in {0, d.surface}
  BY <1>2, <1>6, <1>8, <1>12, <1>15, <1>17, <1>19
<1>23. ~q1.ready => q1.enc.kind = "none"
  BY <1>4, <1>6, <1>8, <1>10, <1>15, <1>17, <1>19
<1>24. \/ q1.enc = NoEncoder \/ q1.enc = NewEncoder(kind)
       \/ q1.enc = d.enc /\ (q1.surface = d.surface \/ d.enc.kind = "none")
  <2>1. CASE q1 = u
    BY <1>3, <1>17, <2>1
  <2>2. CASE q1 = r1 /\ o1 = l
    BY <1>3, <1>6, <1>15, <2>2
  <2>3. CASE q1 = r1 /\ o1 = d /\ ~(a /\ changed) /\ ~lost
    BY <1>10, <1>12, <1>15, <2>3
  <2> QED
    BY <1>8, <1>19, <2>1, <2>2, <2>3
<1> QED
  BY <1>20, <1>21, <1>22, <1>23, <1>24

(* The zero-copy loop encodes on the surface it has, or on a new one.      *)
LEMMA DmaSurfaceFields ==
  ASSUME gfx \in GfxSet, NEW d \in DmaSet
  PROVE  LET q == [d EXCEPT !.surface = IF @ = 0 /\ gfx.ready THEN gfx.gen ELSE @]
         IN  /\ q \in DmaSet /\ q.enc = d.enc /\ q.ready = d.ready
             /\ q.surface = d.surface \/ (d.surface = 0 /\ gfx.ready /\ q.surface = gfx.gen)
<1>1. PICK z : z = IF d.surface = 0 /\ gfx.ready THEN gfx.gen ELSE d.surface
  OBVIOUS
<1>2. z \in 0..MaxGen
  BY <1>1 DEF DmaSet, GfxSet
<1>3. PICK q : q = [d EXCEPT !.surface = z]
  OBVIOUS
<1>4. q = [d EXCEPT !.surface = IF @ = 0 /\ gfx.ready THEN gfx.gen ELSE @]
  BY <1>1, <1>3
<1>5. q \in DmaSet /\ q.enc = d.enc /\ q.ready = d.ready /\ q.surface = z
  BY <1>2, <1>3 DEF DmaSet
<1> QED
  BY <1>1, <1>4, <1>5

(* A zero-copy session after its frame was sent.                           *)
LEMMA DmaSentFields ==
  ASSUME NEW d \in DmaSet
  PROVE  LET q == [d EXCEPT !.failures = 0, !.sentFirst = TRUE, !.enc.idr = FALSE,
                            !.enc.drift = @ /\ ~d.enc.idr]
         IN  /\ q \in DmaSet /\ q.surface = d.surface /\ q.ready = d.ready
             /\ q.enc.kind = d.enc.kind /\ ~q.enc.idr
             /\ q.enc.drift => d.enc.drift /\ ~d.enc.idr
<1>1. PICK b \in BOOLEAN : b = TRUE
  OBVIOUS
<1>2. PICK n \in 0..MaxFailures : n = 0
  BY ProcessorAssumption
<1>3. PICK v \in Encoders : v = d.enc
  BY DEF DmaSet
<1>4. PICK e \in Encoders : e = [v EXCEPT !.idr = FALSE, !.drift = @ /\ ~v.idr]
  BY SentEncoder
<1>5. e.kind = v.kind /\ ~e.idr /\ (e.drift => v.drift /\ ~v.idr)
  BY <1>4, SentEncoder
<1>6. PICK q : q = [d EXCEPT !.failures = n, !.sentFirst = b, !.enc = e]
  OBVIOUS
<1>7. q \in DmaSet /\ q.surface = d.surface /\ q.ready = d.ready /\ q.enc = e
  BY <1>6 DEF DmaSet
<1>8. q = [d EXCEPT !.failures = 0, !.sentFirst = TRUE, !.enc.idr = FALSE,
                    !.enc.drift = @ /\ ~d.enc.idr]
  BY <1>1, <1>2, <1>3, <1>4, <1>6 DEF DmaSet, Encoders
<1> QED
  BY <1>3, <1>5, <1>7, <1>8

(* A zero-copy session whose frame was lost owes an IDR.                   *)
LEMMA DmaIdrFields ==
  ASSUME NEW d \in DmaSet, NEW n \in 0..MaxFailures
  PROVE  LET q == DmabufIdr([d EXCEPT !.failures = n])
         IN  /\ q \in DmaSet /\ q.surface = d.surface /\ q.ready = d.ready
             /\ q.enc.kind = d.enc.kind /\ q.enc.idr
<1>1. PICK b \in BOOLEAN : b = TRUE
  OBVIOUS
<1>2. PICK v \in Encoders : v = d.enc
  BY DEF DmaSet
<1>3. PICK e : e = [v EXCEPT !.idr = b, !.drift = b]
  OBVIOUS
<1>4. e \in Encoders /\ e.kind = v.kind /\ e.idr = b
  BY <1>3 DEF Encoders
<1>5. PICK o : o = [d EXCEPT !.failures = n]
  OBVIOUS
<1>6. o \in DmaSet /\ o.enc = v /\ o.surface = d.surface /\ o.ready = d.ready
  BY <1>2, <1>5 DEF DmaSet
<1>7. PICK q : q = [o EXCEPT !.enc = e]
  OBVIOUS
<1>8. q \in DmaSet /\ q.enc = e /\ q.surface = o.surface /\ q.ready = o.ready
  BY <1>4, <1>6, <1>7 DEF DmaSet
<1>9. q = DmabufIdr(o)
  BY <1>1, <1>3, <1>6, <1>7 DEF DmabufIdr, DmaSet, Encoders
<1> QED
  BY <1>1, <1>2, <1>4, <1>5, <1>6, <1>8, <1>9

(* No job is under way, or one starts with the frame of a buffer.          *)
LEMMA IdleJobFields ==
  ASSUME NEW i \in Indices, NEW pc \in Stages
  PROVE  /\ IdleJob \in JobSet /\ IdleJob.pc = "idle"
         /\ LET q == [IdleJob EXCEPT !.pc = pc, !.idx = i]
            IN  q \in JobSet /\ q.pc = pc /\ q.idx = i
<1>1. PICK f \in BOOLEAN, b \in BOOLEAN : f = FALSE /\ b = TRUE
  OBVIOUS
<1>2. PICK j : j = [pc |-> "idle", idx |-> 0, ready |-> f, negotiated |-> f, force |-> f,
                    damage |-> {}, out |-> "none", sent |-> f, continue |-> b]
  OBVIOUS
<1>3. j = IdleJob
  BY <1>1, <1>2 DEF IdleJob
<1>4. j \in JobSet /\ j.pc = "idle"
  BY <1>2 DEF JobSet, Indices, Stages
<1>5. PICK q : q = [j EXCEPT !.pc = pc, !.idx = i]
  OBVIOUS
<1>6. q \in JobSet /\ q.pc = pc /\ q.idx = i
  BY <1>4, <1>5 DEF JobSet
<1> QED
  BY <1>3, <1>4, <1>5, <1>6

(* The steps of process_at keep the buffer they read.                      *)
LEMMA JobMoves ==
  ASSUME NEW j \in JobSet, NEW pc \in Stages
  PROVE  LET r == [j EXCEPT !.pc = pc]
         IN  /\ r \in JobSet /\ r.pc = pc /\ r.idx = j.idx /\ r.damage = j.damage
             /\ r.out = j.out
BY DEF JobSet

-----------------------------------------------------------------------------
(* Steps that leave the loop alone.                                        *)

(* What a picture of the client may become: tile by tile it is kept, or    *)
(* taken from the frame last captured.                                     *)
Mixed(f) == \A t \in Tiles : f[t] \in {client.shown[t], captured[t]}

(* The state of the loop and of the compositor, as long as nothing of it   *)
(* changes.                                                                *)
LEMMA LoopUnchanged ==
  ASSUME PipelineInv, UNCHANGED <<scenario, shmVars>>
  PROVE  /\ LoopTypes' /\ WireInOrder' /\ CopyCovered' /\ ScreenCovered'
         /\ \A d : Reports(d)' <=> Reports(d)
<1>1. /\ UNCHANGED <<screen, unseen, buf, request, wire, cap, state, deferred, pacer, streak>>
      /\ UNCHANGED <<procLayout, ended, captured, unreported, layout, stop, zeroCopy, scenario>>
  BY DEF shmVars, compositorVars, loopVars
<1>2. \A d : Reports(d)' <=> Reports(d)
  BY <1>1 DEF Reports
<1>3. LoopTypes'
  BY <1>1 DEF PipelineInv, LoopTypes
<1>4. WireInOrder'
  BY <1>1 DEF PipelineInv, WireInOrder, Wlr
<1>5. CopyCovered'
  BY <1>1, <1>2 DEF PipelineInv, CopyCovered
<1>6. ScreenCovered'
  BY <1>1, <1>2 DEF PipelineInv, ScreenCovered
<1> QED
  BY <1>2, <1>3, <1>4, <1>5, <1>6

(* A step of process_at keeps its frame where it is, and what the client   *)
(* shows grows towards it.                                                 *)
LEMMA FrameStays ==
  ASSUME PipelineInv, UNCHANGED <<scenario, shmVars>>, job.pc \in ShmStages,
         job'.pc \in ShmStages, job'.idx = job.idx, client' \in ClientSet, Mixed(client'.shown)
  PROVE  /\ JobShape' /\ FrameHeld' /\ NothingCaptured' /\ VersionsGrow'
         /\ \A t \in Tiles : client'.shown[t] >= client.shown[t]
<1>1. /\ UNCHANGED <<screen, unseen, buf, request, wire, cap, state, deferred, ended>>
      /\ UNCHANGED <<captured, unreported, zeroCopy, scenario>>
  BY DEF shmVars, compositorVars, loopVars
<1>2. \A d : Reports(d)' <=> Reports(d)
  BY LoopUnchanged
<1>3. job.pc # "idle" /\ job'.pc # "idle" /\ job'.pc \notin DmaStages /\ ~zeroCopy
  BY DEF PipelineInv, JobShape, ShmStages, DmaStages
<1>4. JobShape'
  BY <1>1, <1>3 DEF PipelineInv, JobShape
<1>5. FrameHeld'
  BY <1>1, <1>3 DEF PipelineInv, FrameHeld
<1>6. captured # Blank
  BY <1>3 DEF PipelineInv, NothingCaptured
<1>7. NothingCaptured'
  BY <1>1, <1>6 DEF NothingCaptured, Blank
<1>8. buf[1 - cap] = captured /\ Older(client.shown, captured)
  BY <1>3 DEF PipelineInv, FrameHeld, VersionsGrow
<1>9. /\ client.shown \in Pictures /\ client'.shown \in Pictures /\ captured \in Pictures
      /\ screen \in Pictures /\ buf \in [Indices -> Pictures] /\ cap \in Indices
  BY ProcessorAssumption
     DEF PipelineInv, ProcessorTypes, LoopTypes, ClientSet, Frames, Pictures, Versions
<1>10. Older(client'.shown, captured) /\ \A t \in Tiles : client'.shown[t] >= client.shown[t]
  BY <1>8, <1>9 DEF Mixed, Older, Pictures
<1>11. VersionsGrow'
  <2>1. 1 - cap \in Indices
    BY <1>9 DEF Indices
  <2>2. Older(captured, screen)
    BY <1>8, <2>1 DEF PipelineInv, VersionsGrow
  <2>3. Older(client'.shown, screen)
    BY <1>9, <1>10, <2>2 DEF Older, Pictures
  <2>4. ASSUME NEW d \in SUBSET Tiles, Reports(d)
        PROVE  Older(client'.shown, buf[cap]) /\ Older(buf[1 - cap], buf[cap])
    <3>1. Older(captured, buf[cap])
      BY <1>8, <2>4 DEF PipelineInv, VersionsGrow
    <3> QED
      BY <1>8, <1>9, <1>10, <3>1 DEF Older, Pictures
  <2>5. \A t \in Tiles : screen[t] >= 1
    BY DEF PipelineInv, VersionsGrow
  <2>6. \A i \in Indices : Older(buf[i], screen)
    BY DEF PipelineInv, VersionsGrow
  <2> QED
    BY <1>1, <1>2, <1>8, <1>10, <2>3, <2>4, <2>5, <2>6 DEF VersionsGrow, Older
<1> QED
  BY <1>4, <1>5, <1>7, <1>10, <1>11

(* The types of the processor's state, field by field.                     *)
LEMMA ProcessorFields ==
  ASSUME ProcessorTypes
  PROVE  /\ scenario \in Sessions /\ gfx \in GfxSet /\ proc \in ProcSet /\ job \in JobSet
         /\ client \in ClientSet /\ dma \in DmaSet
         /\ gfx.ready \in BOOLEAN /\ gfx.gen \in Nat /\ gfx.gen \in 0..MaxGen
         /\ gfx.inFlight \in 0..Window /\ gfx.codec \in Codecs \cup {"none"}
         /\ proc.gen \in Nat /\ proc.surface \in Nat /\ proc.enc \in Encoders
         /\ proc.pending \in SUBSET Tiles /\ proc.ref \in Frames \cup {NoRef}
         /\ proc.sentFirst \in BOOLEAN
         /\ dma.surface \in Nat /\ dma.enc \in Encoders
         /\ job.damage \in SUBSET Tiles /\ client.shown \in Frames
<1>1. scenario \in Sessions /\ gfx \in GfxSet /\ proc \in ProcSet /\ job \in JobSet
      /\ client \in ClientSet /\ dma \in DmaSet
  BY ProcessorAssumption DEF ProcessorTypes
<1>2. /\ gfx.ready \in BOOLEAN /\ gfx.gen \in Nat /\ gfx.gen \in 0..MaxGen
      /\ gfx.inFlight \in 0..Window /\ gfx.codec \in Codecs \cup {"none"}
  BY <1>1, ProcessorAssumption DEF GfxSet
<1>3. /\ proc.gen \in Nat /\ proc.surface \in Nat /\ proc.enc \in Encoders
      /\ proc.pending \in SUBSET Tiles /\ proc.ref \in Frames \cup {NoRef}
      /\ proc.sentFirst \in BOOLEAN
  BY <1>1, ProcessorAssumption DEF ProcSet
<1>4. dma.surface \in Nat /\ dma.enc \in Encoders
  BY <1>1, ProcessorAssumption DEF DmaSet
<1>5. job.damage \in SUBSET Tiles /\ client.shown \in Frames
  BY <1>1 DEF JobSet, ClientSet
<1> QED
  BY <1>1, <1>2, <1>3, <1>4, <1>5

(* A call of process_at: the loop waits for it.                            *)
Call == PipelineInv /\ ended = "no" /\ UNCHANGED <<scenario, shmVars, dma>>

(* What every step of a call is shown to keep; FrameStays adds the rest.   *)
CallKept ==
  /\ ProcessorTypes' /\ StaleCovered' /\ DamageCovered' /\ ReferenceIsShown'
  /\ EncoderKept' /\ ChainIntact' /\ BackendRespected'
  /\ job'.pc \in ShmStages /\ job'.idx = job.idx /\ Mixed(client'.shown)

(* What is known while a call is under way: its frame is the one captured  *)
(* last.                                                                   *)
LEMMA CallFrame ==
  ASSUME Call, job.pc \in ShmStages
  PROVE  /\ ~zeroCopy /\ ~zeroCopy' /\ buf[job.idx] = captured /\ captured \in Frames
         /\ UNCHANGED <<captured, unreported, ended, buf>>
         /\ Mixed(client.shown) /\ job.pc \notin DmaStages
<1>1. UNCHANGED <<captured, unreported, ended, buf, zeroCopy>>
  BY DEF Call, shmVars, compositorVars, loopVars
<1>2. job.pc # "idle" /\ job.pc \notin DmaStages /\ ~zeroCopy
  BY DEF Call, PipelineInv, JobShape, ShmStages, DmaStages
<1>3. buf[job.idx] = captured /\ captured \in Frames
  BY <1>2 DEF Call, PipelineInv, FrameHeld, LoopTypes
<1> QED
  BY <1>1, <1>2, <1>3 DEF Mixed

(* A step that shows nothing: the processor keeps its damage, or starts    *)
(* afresh.                                                                 *)
LEMMA QuietPictures ==
  ASSUME Call, job.pc \in ShmStages, job.pc # "done",
         gfx'.gen = gfx.gen, client'.shown = client.shown,
         SameFrames(proc, proc') \/ (~proc'.sentFirst /\ proc'.ref = NoRef)
  PROVE  StaleCovered' /\ ReferenceIsShown'
<1>1. /\ ~zeroCopy /\ ~zeroCopy' /\ captured' = captured /\ unreported' = unreported
      /\ ended = "no"
  BY CallFrame DEF Call
<1>2. CASE SameFrames(proc, proc')
  BY <1>1, <1>2 DEF Call, PipelineInv, StaleCovered, ReferenceIsShown, SameFrames
<1>3. CASE ~proc'.sentFirst /\ proc'.ref = NoRef
  BY <1>3 DEF StaleCovered, ReferenceIsShown, NoRef
<1> QED
  BY <1>2, <1>3

(* A step that sends no frame: the encoder is kept with its surface, or    *)
(* owes an IDR, or there is none.                                          *)
LEMMA QuietEncoder ==
  ASSUME Call, ProcessorTypes', gfx'.gen = gfx.gen, gfx'.ready = gfx.ready,
         client'.decoder = client.decoder, lostChain' = lostChain,
         proc'.gen \in {proc.gen, gfx.gen}, proc'.surface \in {0, proc.surface, gfx.gen},
         \/ proc'.enc.kind = "none" \/ proc'.enc.idr
         \/ proc'.enc = proc.enc /\ (proc'.surface = proc.surface \/ proc.surface = 0),
         job'.pc # "deliver",
         (job'.pc = "send" /\ job'.out = "frame") => proc'.enc.kind # "none"
  PROVE  EncoderKept' /\ ChainIntact'
<1>1. /\ gfx.ready => gfx.gen # 0
      /\ proc.gen <= gfx.gen /\ proc.surface <= gfx.gen /\ dma.surface <= gfx.gen
      /\ ChainKept(proc.enc, proc.surface) /\ ChainKept(dma.enc, dma.surface)
      /\ ~dma.ready => dma.enc.kind = "none"
      /\ ~lostChain
  BY DEF Call, PipelineInv, EncoderKept, ChainIntact
<1>2. dma' = dma
  BY DEF Call
<1>3. gfx.gen \in Nat
  BY ProcessorFields DEF Call, PipelineInv
<1>4. proc'.gen <= gfx'.gen /\ proc'.surface <= gfx'.gen /\ dma'.surface <= gfx'.gen
  BY <1>1, <1>2, <1>3
<1>5. ChainKept(proc.enc, proc.surface)'
  BY <1>1 DEF ChainKept, SurfaceLives
<1>6. ChainKept(dma.enc, dma.surface)'
  BY <1>1, <1>2 DEF ChainKept, SurfaceLives
<1> QED
  BY <1>1, <1>2, <1>4, <1>5, <1>6 DEF EncoderKept, ChainIntact

(* The backend of a session changes only as its policy allows.             *)
LEMMA BackendStep ==
  ASSUME BackendRespected, UNCHANGED scenario, NEW c,
         \/ proc'.enc.kind \in {"none", proc.enc.kind}
         \/ proc'.enc.kind \in EncodersFor(c) \/ scenario.policy = "auto",
         \/ dma'.enc.kind \in {"none", dma.enc.kind} \/ dma'.enc.kind \in EncodersFor(c)
  PROVE  BackendRespected'
<1>1. /\ scenario.policy = "vaapi" => EncodersFor(c) \subseteq {"none", "vaapi"}
      /\ scenario.policy = "software" => "vaapi" \notin EncodersFor(c)
  BY DEF EncodersFor, AllowsVaapi, AllowsSoftware
<1> QED
  BY <1>1 DEF BackendRespected

(* A step that shows nothing and ends the encoding of its frame.           *)
LEMMA CallQuiet ==
  ASSUME Call, job.pc \in ShmStages, job.pc # "done", NEW c,
         gfx' \in GfxSet, gfx'.gen = gfx.gen, gfx'.ready = gfx.ready,
         proc' \in ProcSet, job' \in JobSet,
         client' = client, lostChain' = lostChain, earlyBitmap' = earlyBitmap,
         graceOver' = graceOver,
         job'.pc \in {"done", "bitmap"}, job'.idx = job.idx,
         SameFrames(proc, proc') \/ (~proc'.sentFirst /\ proc'.ref = NoRef),
         proc'.gen \in {proc.gen, gfx.gen}, proc'.surface \in {0, proc.surface, gfx.gen},
         \/ proc'.enc.kind = "none" \/ proc'.enc.idr
         \/ proc'.enc = proc.enc /\ (proc'.surface = proc.surface \/ proc.surface = 0),
         \/ proc'.enc.kind \in {"none", proc.enc.kind}
         \/ proc'.enc.kind \in EncodersFor(c) \/ scenario.policy = "auto"
  PROVE  CallKept
<1>1. ProcessorTypes'
  BY DEF Call, PipelineInv, ProcessorTypes
<1>2. StaleCovered' /\ ReferenceIsShown'
  BY QuietPictures
<1>3. DamageCovered'
  BY DEF DamageCovered
<1>4. EncoderKept' /\ ChainIntact'
  BY <1>1, QuietEncoder
<1>5. BackendRespected'
  BY BackendStep DEF Call, PipelineInv
<1>6. job'.pc \in ShmStages /\ Mixed(client'.shown)
  BY DEF ShmStages, Mixed
<1> QED
  BY <1>1, <1>2, <1>3, <1>4, <1>5, <1>6 DEF CallKept

(* What Return does to the job.                                            *)
LEMMA ReturnFields ==
  ASSUME job \in JobSet, NEW p, NEW continue \in BOOLEAN, Return(p, continue)
  PROVE  /\ proc' = p /\ job' \in JobSet /\ job'.pc = "done" /\ job'.idx = job.idx
         /\ job'.continue = continue
<1>1. PICK pc \in Stages : pc = "done"
  BY DEF Stages
<1>2. proc' = p /\ job' = [job EXCEPT !.pc = pc, !.continue = continue]
  BY <1>1 DEF Return
<1>3. job' \in JobSet
  BY <1>2 DEF JobSet
<1>4. job'.pc = pc /\ job'.idx = job.idx /\ job'.continue = continue
  BY <1>2 DEF JobSet
<1> QED
  BY <1>1, <1>2, <1>3, <1>4

(* An encoder that a codec may have is one of the backends.                *)
LEMMA EncodersAreBackends ==
  ASSUME NEW c
  PROVE  EncodersFor(c) \subseteq Backends /\ SoftwareFor(c) \subseteq Backends
BY DEF EncodersFor, SoftwareFor, Backends, AllowsVaapi, AllowsSoftware

(* The initial resize ends the call.                                       *)
LEMMA ResizeKept ==
  ASSUME Call, SendInitialResize
  PROVE  CallKept
<1>1. /\ job \in JobSet /\ proc \in ProcSet /\ gfx \in GfxSet
  BY ProcessorFields DEF Call, PipelineInv
<1>2. PICK f \in BOOLEAN : f = FALSE
  OBVIOUS
<1>3. PICK q : q = [proc EXCEPT !.resize = f]
  OBVIOUS
<1>4. /\ q \in ProcSet /\ SameFrames(proc, q) /\ q.enc = proc.enc /\ q.surface = proc.surface
      /\ q.gen = proc.gen
  BY <1>1, <1>3 DEF ProcSet, SameFrames
<1>5. /\ Return(q, f) /\ job.pc = "begin"
      /\ UNCHANGED <<scenario, gfxVars, lostChain, earlyBitmap>>
  BY <1>2, <1>3 DEF SendInitialResize
<1>6. proc' = q /\ job' \in JobSet /\ job'.pc = "done" /\ job'.idx = job.idx
  BY <1>1, <1>5, ReturnFields
<1>7. UNCHANGED <<gfx, graceOver, client, lostChain, earlyBitmap>>
  BY <1>5 DEF gfxVars
<1> QED
  BY <1>1, <1>4, <1>5, <1>6, <1>7, CallQuiet DEF ShmStages

(* Without a graphics channel the frame goes on to the bitmap.             *)
LEMMA WithoutGraphicsKept ==
  ASSUME Call, WithoutGraphics
  PROVE  CallKept
<1>1. /\ job \in JobSet /\ proc \in ProcSet /\ gfx \in GfxSet
  BY ProcessorFields DEF Call, PipelineInv
<1>2. /\ UNCHANGED <<gfx, graceOver, client, lostChain, earlyBitmap, proc>> /\ job.pc = "begin"
      /\ job' = [job EXCEPT !.pc = "bitmap"]
  BY DEF WithoutGraphics, gfxVars
<1>3. job' \in JobSet /\ job'.pc = "bitmap" /\ job'.idx = job.idx
  <2>1. PICK pc \in Stages : pc = "bitmap"
    BY DEF Stages
  <2>2. job' = [job EXCEPT !.pc = pc]
    BY <1>2, <2>1
  <2> QED
    BY <1>1, <2>1, <2>2, JobMoves
<1>4. SameFrames(proc, proc')
  BY <1>2 DEF SameFrames
<1> QED
  BY <1>1, <1>2, <1>3, <1>4, CallQuiet DEF ShmStages

(* The channel is not used for this frame.                                 *)
LEMMA NotEncodedKept ==
  ASSUME Call, NotEncoded \/ NotReady
  PROVE  CallKept
<1>1. /\ job \in JobSet /\ proc \in ProcSet /\ gfx \in GfxSet
  BY ProcessorFields DEF Call, PipelineInv
<1>2. PICK p : p = Surfaced(Activated(proc))
  OBVIOUS
<1>3. /\ p \in ProcSet /\ p.gen = proc.gen /\ SameFrames(proc, p) /\ p.enc = proc.enc
      /\ p.surface = proc.surface \/ (proc.surface = 0 /\ gfx.ready /\ p.surface = gfx.gen)
  BY <1>1, <1>2, SurfacedFields DEF SameFrames
<1>4. UNCHANGED <<gfx, graceOver, client, lostChain, earlyBitmap>> /\ job.pc = "encode"
  BY DEF NotEncoded, NotReady, gfxVars
<1>5. /\ proc' = p /\ job' \in JobSet /\ job'.pc \in {"done", "bitmap"} /\ job'.idx = job.idx
  <2>1. CASE NotEncoded
    <3>1. PICK pc \in Stages : pc = "bitmap"
      BY DEF Stages
    <3>2. proc' = p /\ job' = [job EXCEPT !.pc = pc]
      BY <1>2, <2>1, <3>1 DEF NotEncoded
    <3> QED
      BY <1>1, <3>1, <3>2, JobMoves
  <2>2. CASE NotReady
    <3>1. PICK b \in BOOLEAN : b = TRUE
      OBVIOUS
    <3>2. Return(p, b)
      BY <1>2, <2>2, <3>1 DEF NotReady
    <3> QED
      BY <1>1, <3>2, ReturnFields
  <2> QED
    BY <2>1, <2>2
<1> QED
  BY <1>1, <1>3, <1>4, <1>5, CallQuiet DEF ShmStages

(* The detector covers what is stale: outside the damage it finds, the     *)
(* client shows the captured frame or will not hear of it.                 *)
LEMMA DetectCovers ==
  ASSUME Call, job.pc = "begin", NEW p \in ProcSet, NEW kind,
         p.gen = gfx.gen, p.pending = proc.pending,
         Fresh(p, kind) \/ (proc.gen = gfx.gen /\ Kept(proc, p)),
         NEW candidates, candidates = Tiles \/ (p.sentFirst /\ candidates = p.pending),
         NEW damage, damage = Tiles \/ damage = Detect(p.ref, captured, candidates)
  PROVE  /\ damage \in SUBSET Tiles /\ (p.ref = NoRef => damage = Tiles)
         /\ p.ref # NoRef => p.ref = client.shown
         /\ \A t \in Tiles \ damage : client.shown[t] # captured[t] => t \in unreported
<1>1. ~zeroCopy /\ ended = "no" /\ job.pc # "done"
  BY CallFrame DEF Call, ShmStages
<1>2. proc.pending \in SUBSET Tiles
  BY ProcessorFields DEF Call, PipelineInv
<1>3. p.ref # NoRef => /\ p.ref = client.shown /\ proc.gen = gfx.gen
                       /\ p.sentFirst = proc.sentFirst
  BY <1>1 DEF Fresh, Kept, Call, PipelineInv, ReferenceIsShown
<1>4. damage \in SUBSET Tiles /\ (p.ref = NoRef => damage = Tiles)
  BY <1>2 DEF Detect
<1>5. ASSUME NEW t \in Tiles \ damage, client.shown[t] # captured[t]
      PROVE  t \in unreported
  <2>1. p.ref # NoRef /\ damage = {u \in candidates : captured[u] # p.ref[u]}
    BY <1>4, <1>5 DEF Detect
  <2>2. t \notin candidates
    BY <1>3, <1>5, <2>1
  <2>3. p.sentFirst /\ t \notin proc.pending
    BY <1>5, <2>2
  <2> QED
    BY <1>1, <1>3, <1>5, <2>1, <2>3 DEF Call, PipelineInv, StaleCovered
<1> QED
  BY <1>3, <1>4, <1>5

(* A frame sent with damage that covers what is stale leaves nothing       *)
(* stale, and the reference is again what the client shows.                *)
LEMMA ShownPictures ==
  ASSUME Call, job.pc \in ShmStages, job.pc # "done", gfx'.gen = gfx.gen,
         NEW ref \in Frames \cup {NoRef}, NEW damage \in SUBSET Tiles,
         proc'.gen = gfx.gen =>
           /\ ref = NoRef => damage = Tiles
           /\ ref # NoRef => ref = client.shown
           /\ \A t \in Tiles \ damage : client.shown[t] # captured[t] => t \in unreported,
         proc'.ref = RefAfter(ref, captured, damage),
         client'.shown = RefAfter(client.shown, captured, damage)
  PROVE  /\ client'.shown \in Frames /\ proc'.ref \in Frames
         /\ Mixed(client'.shown) /\ StaleCovered' /\ ReferenceIsShown'
<1>1. captured \in Frames /\ client.shown \in Frames /\ captured' = captured
  BY CallFrame, ProcessorFields DEF Call, PipelineInv
<1>2. unreported' = unreported
  BY CallFrame
<1>3. client.shown # NoRef
  BY <1>1, FrameIsNoRef
<1>4. PICK old \in Frames : old = client.shown
  BY <1>1
<1>5. PICK new : new = client'.shown
  OBVIOUS
<1>6. /\ new \in Frames /\ \A t \in damage : new[t] = captured[t]
      /\ \A t \in Tiles \ damage : new[t] = old[t]
  BY <1>1, <1>3, <1>4, <1>5, RefAfterFields
<1>7. proc'.ref \in Frames
  BY <1>1, RefAfterFields
<1>8. Mixed(new)
  BY <1>4, <1>6 DEF Mixed
<1>9. ASSUME proc'.gen = gfx.gen
      PROVE  /\ \A t \in Tiles : new[t] # captured[t] => t \in unreported
             /\ proc'.ref = new
  <2>1. \A t \in Tiles : new[t] # captured[t] => t \in unreported
    BY <1>4, <1>6, <1>9
  <2>2. CASE ref = NoRef
    <3>1. damage = Tiles /\ proc'.ref = captured
      BY <1>1, <1>9, <2>2, RefAfterFields
    <3>2. \A t \in Tiles : new[t] = captured[t]
      BY <1>6, <3>1
    <3>3. new = captured
      BY <1>1, <1>6, <3>2 DEF Frames
    <3> QED
      BY <2>1, <3>1, <3>3
  <2>3. CASE ref # NoRef
    BY <1>5, <1>9, <2>1, <2>3
  <2> QED
    BY <2>2, <2>3
<1>10. StaleCovered'
  BY <1>1, <1>2, <1>5, <1>9 DEF StaleCovered
<1>11. ReferenceIsShown'
  BY <1>5, <1>9 DEF ReferenceIsShown
<1> QED
  BY <1>5, <1>6, <1>7, <1>8, <1>10, <1>11

(* A processor that found nothing stale forgets its damage.                *)
LEMMA NothingStale ==
  ASSUME Call, job.pc \in ShmStages, job.pc # "done", NEW p \in ProcSet,
         gfx' \in GfxSet, gfx'.gen = gfx.gen, gfx'.ready = gfx.ready,
         p.gen = gfx.gen, proc.gen = gfx.gen, Kept(proc, p),
         \A t \in Tiles : client.shown[t] # captured[t] => t \in unreported,
         Return([p EXCEPT !.pending = {}], TRUE),
         UNCHANGED <<client, graceOver, lostChain, earlyBitmap>>
  PROVE  CallKept
<1>1. job \in JobSet /\ proc \in ProcSet
  BY ProcessorFields DEF Call, PipelineInv
<1>2. PICK q : q = [p EXCEPT !.pending = {}]
  OBVIOUS
<1>3. q \in ProcSet /\ q.gen = p.gen /\ q.pending = {} /\ Kept(p, q)
  BY <1>2 DEF ProcSet, Kept
<1>4. PICK b \in BOOLEAN : b = TRUE
  OBVIOUS
<1>5. Return(q, b)
  BY <1>2, <1>4
<1>6. proc' = q /\ job' \in JobSet /\ job'.pc = "done" /\ job'.idx = job.idx
  BY <1>1, <1>5, ReturnFields
<1>7. Kept(proc, q)
  BY <1>3 DEF Kept
<1>8. ProcessorTypes'
  BY <1>3, <1>6 DEF Call, PipelineInv, ProcessorTypes
<1>9. captured' = captured /\ unreported' = unreported /\ ~zeroCopy /\ Mixed(client.shown)
  BY CallFrame
<1>10. StaleCovered'
  BY <1>9 DEF StaleCovered
<1>11. ReferenceIsShown'
  BY <1>3, <1>6, <1>7, <1>9 DEF ReferenceIsShown, Kept, Call, PipelineInv
<1>12. DamageCovered'
  BY <1>6 DEF DamageCovered
<1>13. EncoderKept' /\ ChainIntact'
  BY <1>3, <1>6, <1>7, <1>8, QuietEncoder DEF Kept
<1>14. BackendRespected'
  BY <1>6, <1>7, BackendStep DEF Kept, Call, PipelineInv
<1>15. Mixed(client'.shown)
  BY <1>9 DEF Mixed
<1> QED
  BY <1>6, <1>8, <1>10, <1>11, <1>12, <1>13, <1>14, <1>15 DEF CallKept, ShmStages

(* ClearCodec: what is sent is what is stale, and only a frame that was    *)
(* sent becomes the reference.                                             *)
LEMMA ClearCodecKept ==
  ASSUME Call, ProcessClearCodec(buf[job.idx])
  PROVE  CallKept
<1> DEFINE p0 == IF gfx.gen # proc.gen \/ proc.enc.kind # "none"
                 THEN [Forgotten(proc) EXCEPT !.gen = gfx.gen, !.active = FALSE]
                 ELSE proc
           ready == IF gfx.forceFull THEN RefreshReady ELSE FrameReady
           damage(p) == IF gfx.forceFull \/ ~p.sentFirst THEN Tiles
                        ELSE Detect(p.ref, captured, p.pending)
           Outcome(p, d) ==
             \/ Return(p, TRUE) /\ UNCHANGED <<gfx, client>>
             \/ Return(p, FALSE) /\ UNCHANGED <<gfx, client>>
             \/ d = {} /\ Return([p EXCEPT !.pending = {}], TRUE) /\ UNCHANGED <<gfx, client>>
             \/ /\ ready /\ d # {}
                /\ Return([p EXCEPT !.sentFirst = TRUE, !.surface = gfx.gen, !.pending = {},
                                    !.ref = RefAfter(@, captured, d)], TRUE)
                /\ gfx' = [gfx EXCEPT !.forceFull = FALSE, !.inFlight = @ + 1]
                /\ client' = [client EXCEPT !.shown = RefAfter(@, captured, d)]
<1>1. /\ job \in JobSet /\ proc \in ProcSet /\ gfx \in GfxSet /\ client \in ClientSet
      /\ gfx.gen \in 0..MaxGen /\ gfx.inFlight \in 0..Window /\ client.shown \in Frames
  BY ProcessorFields DEF Call, PipelineInv
<1>2. job.pc = "begin" /\ job.pc \in ShmStages
  BY DEF ProcessClearCodec, ShmStages
<1>3. buf[job.idx] = captured /\ captured \in Frames
  BY <1>2, CallFrame
<1>4. PICK p : p = p0
  OBVIOUS
<1>5. /\ p \in ProcSet /\ p.gen = gfx.gen /\ p.pending = proc.pending /\ p.enc.kind = "none"
      /\ Fresh(p, "none") \/ (proc.gen = gfx.gen /\ Kept(proc, p) /\ p = proc)
  <2>1. CASE gfx.gen # proc.gen \/ proc.enc.kind # "none"
    <3>1. PICK f \in BOOLEAN : f = FALSE
      OBVIOUS
    <3>2. PICK o \in ProcSet : o = Forgotten(proc)
      BY <1>1, ForgottenFields
    <3>3. /\ o.pending = proc.pending /\ o.surface = 0 /\ o.enc = NoEncoder
          /\ o.ref = NoRef /\ ~o.sentFirst
      BY <1>1, <3>2, ForgottenFields
    <3>4. p = [o EXCEPT !.gen = gfx.gen, !.active = f]
      BY <1>4, <2>1, <3>1, <3>2
    <3>5. p \in ProcSet
      BY <1>1, <3>4 DEF ProcSet
    <3>6. /\ p.gen = gfx.gen /\ p.pending = o.pending /\ p.surface = o.surface
          /\ p.enc = o.enc /\ p.ref = o.ref /\ p.sentFirst = o.sentFirst
      BY <3>4 DEF ProcSet
    <3>7. NoEncoder.kind = "none"
      BY NewEncoderFields DEF Backends
    <3> QED
      BY <3>3, <3>5, <3>6, <3>7 DEF Fresh
  <2>2. CASE ~(gfx.gen # proc.gen \/ proc.enc.kind # "none")
    BY <1>1, <1>4, <2>2 DEF Kept
  <2> QED
    BY <2>1, <2>2
<1>6. PICK d : d = damage(p)
  OBVIOUS
<1>7. /\ d \in SUBSET Tiles /\ (p.ref = NoRef => d = Tiles)
      /\ p.ref # NoRef => p.ref = client.shown
      /\ \A t \in Tiles \ d : client.shown[t] # captured[t] => t \in unreported
  <2>1. PICK cand : cand = IF p.sentFirst THEN p.pending ELSE Tiles
    OBVIOUS
  <2>2. d = Tiles \/ d = Detect(p.ref, captured, cand)
    BY <1>6, <2>1
  <2> HIDE DEF damage
  <2> QED
    BY <1>2, <1>5, <2>1, <2>2, DetectCovers
<1>8. UNCHANGED <<graceOver, lostChain, earlyBitmap>>
  BY DEF ProcessClearCodec
<1>9. Outcome(p, d)
  <2>1. Outcome(p0, damage(p0))
    BY <1>3 DEF ProcessClearCodec
  <2> HIDE DEF p0, damage, Outcome
  <2> QED
    BY <1>4, <1>6, <2>1, Zenon
<1>10. CASE (Return(p, TRUE) \/ Return(p, FALSE)) /\ UNCHANGED <<gfx, client>>
  <2>1. PICK b \in BOOLEAN : Return(p, b)
    BY <1>10
  <2>2. proc' = p /\ job' \in JobSet /\ job'.pc = "done" /\ job'.idx = job.idx
    BY <1>1, <2>1, ReturnFields
  <2>3. SameFrames(proc, p) \/ (~p.sentFirst /\ p.ref = NoRef)
    BY <1>5 DEF SameFrames, Fresh
  <2>4. p.surface \in {0, proc.surface}
    BY <1>5 DEF Fresh
  <2> QED
    BY <1>1, <1>2, <1>5, <1>8, <1>10, <2>2, <2>3, <2>4, CallQuiet
<1>11. CASE d = {} /\ Return([p EXCEPT !.pending = {}], TRUE) /\ UNCHANGED <<gfx, client>>
  <2>1. p.ref # NoRef
    BY <1>7, <1>11, ProcessorAssumption
  <2>2. proc.gen = gfx.gen /\ Kept(proc, p)
    BY <1>5, <2>1 DEF Fresh
  <2> QED
    BY <1>1, <1>2, <1>5, <1>7, <1>8, <1>11, <2>2, NothingStale
<1>12. CASE /\ ready /\ d # {}
            /\ Return([p EXCEPT !.sentFirst = TRUE, !.surface = gfx.gen, !.pending = {},
                                !.ref = RefAfter(@, captured, d)], TRUE)
            /\ gfx' = [gfx EXCEPT !.forceFull = FALSE, !.inFlight = @ + 1]
            /\ client' = [client EXCEPT !.shown = RefAfter(@, captured, d)]
  <2>1. PICK r \in Frames : r = RefAfter(p.ref, captured, d)
    BY <1>3, <1>5, <1>7, RefAfterFields, ProcFields
  <2>2. PICK b \in BOOLEAN, f \in BOOLEAN : b = TRUE /\ f = FALSE
    OBVIOUS
  <2>3. PICK q : q = [p EXCEPT !.sentFirst = b, !.surface = gfx.gen, !.pending = {}, !.ref = r]
    OBVIOUS
  <2>4. q \in ProcSet
    BY <1>1, <1>5, <2>3 DEF ProcSet
  <2>5. /\ q.gen = p.gen /\ q.enc = p.enc /\ q.surface = gfx.gen /\ q.ref = r
    BY <1>5, <2>3 DEF ProcSet
  <2>6. Return(q, b)
    BY <1>12, <2>1, <2>2, <2>3
  <2>7. proc' = q /\ job' \in JobSet /\ job'.pc = "done" /\ job'.idx = job.idx
    BY <1>1, <2>6, ReturnFields
  <2>8. PICK n \in 0..Window : n = gfx.inFlight + 1
    BY <1>1, <1>12, ProcessorAssumption DEF RefreshReady, FrameReady
  <2>9. gfx' = [gfx EXCEPT !.forceFull = f, !.inFlight = n]
    BY <1>12, <2>2, <2>8
  <2>10. gfx' \in GfxSet
    BY <1>1, <2>9 DEF GfxSet
  <2>11. gfx'.gen = gfx.gen /\ gfx'.ready = gfx.ready
    BY <1>1, <2>9 DEF GfxSet
  <2>12. PICK s : s = RefAfter(client.shown, captured, d)
    OBVIOUS
  <2>13. s \in Frames
    BY <1>1, <1>3, <1>7, <2>12, RefAfterFields
  <2>14. client' \in ClientSet /\ client'.shown = s /\ client'.decoder = client.decoder
    BY <1>1, <1>12, <2>12, <2>13 DEF ClientSet
  <2>15. Mixed(client'.shown) /\ StaleCovered' /\ ReferenceIsShown'
    <3>1. PICK old \in Frames \cup {NoRef} : old = p.ref
      BY <1>5, ProcFields
    <3>2. /\ (old = NoRef => d = Tiles) /\ (old # NoRef => old = client.shown)
          /\ proc'.ref = RefAfter(old, captured, d)
          /\ client'.shown = RefAfter(client.shown, captured, d)
      BY <1>7, <2>1, <2>5, <2>7, <2>12, <2>14, <3>1
    <3>3. job.pc # "done"
      BY <1>2
    <3> HIDE DEF p0, ready, damage
    <3> QED
      BY <1>2, <1>7, <2>11, <3>2, <3>3, ShownPictures
  <2>16. ProcessorTypes'
    BY <1>8, <2>4, <2>7, <2>10, <2>14 DEF Call, PipelineInv, ProcessorTypes
  <2>17. DamageCovered'
    BY <2>7 DEF DamageCovered
  <2>18. EncoderKept' /\ ChainIntact'
    BY <1>5, <1>8, <2>5, <2>7, <2>11, <2>14, <2>16, QuietEncoder
  <2>19. BackendRespected'
    BY <1>5, <2>5, <2>7, BackendStep DEF Call, PipelineInv
  <2> QED
    BY <2>7, <2>15, <2>16, <2>17, <2>18, <2>19 DEF CallKept, ShmStages
<1> QED
  BY <1>9, <1>10, <1>11, <1>12

(* The channel is observed: the damage that goes to the encoder covers     *)
(* what is stale.                                                          *)
LEMMA ObserveKept ==
  ASSUME Call, ObserveChannel(buf[job.idx])
  PROVE  CallKept
<1>1. /\ job \in JobSet /\ proc \in ProcSet /\ gfx \in GfxSet /\ client \in ClientSet
      /\ gfx.gen \in 0..MaxGen
  BY ProcessorFields DEF Call, PipelineInv
<1>2. job.pc = "begin" /\ job.pc \in ShmStages /\ job.pc # "done"
  BY DEF ObserveChannel, ShmStages
<1>3. buf[job.idx] = captured
  BY <1>2, CallFrame
<1>4. UNCHANGED <<graceOver, client, lostChain, earlyBitmap>>
  BY DEF ObserveChannel
<1>5. PICK force \in BOOLEAN, g \in BOOLEAN :
        force = (gfx.ready /\ gfx.forceFull) /\ g = (gfx.forceFull /\ ~gfx.ready)
  OBVIOUS
<1> DEFINE Damage(p) == IF force THEN Tiles
                        ELSE Detect(p.ref, captured, IF p.sentFirst THEN p.pending ELSE Tiles)
           Outcome(p, d) ==
             \/ Return(p, TRUE) /\ UNCHANGED gfx
             \/ /\ p.sentFirst /\ d = {} /\ Return([p EXCEPT !.pending = {}], TRUE)
                /\ gfx' = [gfx EXCEPT !.forceFull = g]
             \/ /\ proc' = p
                /\ job' = [job EXCEPT !.pc = "encode", !.ready = gfx.ready, !.force = force,
                                      !.negotiated = gfx.everReady, !.damage = d]
                /\ gfx' = [gfx EXCEPT !.forceFull = g]
<1>6. PICK kind \in EncodersFor(gfx.codec) :
        Outcome(Observed(proc, kind), Damage(Observed(proc, kind)))
  BY <1>3, <1>5 DEF ObserveChannel
<1>7. PICK p : p = Observed(proc, kind)
  OBVIOUS
<1>8. PICK d : d = Damage(p)
  OBVIOUS
<1>9. Outcome(p, d)
  BY <1>6, <1>7, <1>8, Zenon
<1>10. kind \in Backends
  BY EncodersAreBackends
<1>11. /\ p \in ProcSet /\ p.gen = gfx.gen /\ p.pending = proc.pending
       /\ Fresh(p, kind) \/ (proc.gen = gfx.gen /\ Kept(proc, p))
  BY <1>1, <1>10, <1>7, ObservedFields
<1>12. /\ d \in SUBSET Tiles /\ (p.ref = NoRef => d = Tiles)
       /\ \A t \in Tiles \ d : client.shown[t] # captured[t] => t \in unreported
  <2>1. PICK cand : cand = IF p.sentFirst THEN p.pending ELSE Tiles
    OBVIOUS
  <2>2. d = Tiles \/ d = Detect(p.ref, captured, cand)
    BY <1>8, <2>1
  <2> HIDE DEF Damage, Outcome
  <2> QED
    BY <1>2, <1>11, <2>1, <2>2, DetectCovers
<1>13. SameFrames(proc, p) \/ (~p.sentFirst /\ p.ref = NoRef)
  BY <1>11 DEF SameFrames, Fresh, Kept
<1>14. /\ p.surface \in {0, proc.surface}
       /\ p.enc.kind = "none" \/ p.enc.idr
          \/ (p.enc = proc.enc /\ p.surface = proc.surface)
       /\ p.enc.kind \in {"none", proc.enc.kind} \/ p.enc.kind \in EncodersFor(gfx.codec)
  BY <1>10, <1>11, NewEncoderFields DEF Fresh, Kept
<1>15. CASE Return(p, TRUE) /\ UNCHANGED gfx
  <2>1. PICK b \in BOOLEAN : Return(p, b)
    BY <1>15
  <2>2. proc' = p /\ job' \in JobSet /\ job'.pc = "done" /\ job'.idx = job.idx
    BY <1>1, <2>1, ReturnFields
  <2> QED
    BY <1>1, <1>2, <1>4, <1>11, <1>13, <1>14, <1>15, <2>2, CallQuiet
<1>16. CASE gfx' = [gfx EXCEPT !.forceFull = g]
  <2>1. gfx' \in GfxSet /\ gfx'.gen = gfx.gen /\ gfx'.ready = gfx.ready
    BY <1>1, <1>16 DEF GfxSet
  <2>2. CASE p.sentFirst /\ d = {} /\ Return([p EXCEPT !.pending = {}], TRUE)
    <3>1. proc.gen = gfx.gen /\ Kept(proc, p)
      BY <1>11, <2>2 DEF Fresh
    <3> QED
      BY <1>2, <1>4, <1>11, <1>12, <2>1, <2>2, <3>1, NothingStale
  <2>3. CASE /\ proc' = p
             /\ job' = [job EXCEPT !.pc = "encode", !.ready = gfx.ready, !.force = force,
                                   !.negotiated = gfx.everReady, !.damage = d]
    <3>1. PICK pc \in Stages : pc = "encode"
      BY DEF Stages
    <3>2. gfx.ready \in BOOLEAN /\ gfx.everReady \in BOOLEAN
      BY <1>1 DEF GfxSet
    <3>3. job' = [job EXCEPT !.pc = pc, !.ready = gfx.ready, !.force = force,
                             !.negotiated = gfx.everReady, !.damage = d]
      BY <2>3, <3>1
    <3>4. job' \in JobSet
      BY <1>1, <1>12, <3>2, <3>3 DEF JobSet
    <3>5. job'.pc = pc /\ job'.idx = job.idx /\ job'.damage = d
      BY <1>1, <3>3 DEF JobSet
    <3>6. ProcessorTypes'
      BY <1>4, <1>11, <2>1, <2>3, <3>4 DEF Call, PipelineInv, ProcessorTypes
    <3>7. StaleCovered' /\ ReferenceIsShown'
      BY <1>2, <1>4, <1>13, <2>1, <2>3, QuietPictures
    <3>8. captured' = captured /\ unreported' = unreported /\ Mixed(client.shown)
      BY <1>2, CallFrame
    <3>9. DamageCovered'
      BY <1>4, <1>12, <2>3, <3>5, <3>8 DEF DamageCovered, NoRef
    <3>10. EncoderKept' /\ ChainIntact'
      BY <1>4, <1>11, <1>14, <2>1, <2>3, <3>1, <3>5, <3>6, QuietEncoder
    <3>11. BackendRespected'
      BY <1>14, <2>3, BackendStep DEF Call, PipelineInv
    <3>12. Mixed(client'.shown)
      BY <1>4, <3>8 DEF Mixed
    <3> QED
      BY <3>1, <3>5, <3>6, <3>7, <3>9, <3>10, <3>11, <3>12 DEF CallKept, ShmStages
  <2> QED
    BY <1>15, <1>9, <2>2, <2>3
<1> QED
  BY <1>15, <1>16, <1>9

(* The encoder runs.                                                       *)
LEMMA EncodeKept ==
  ASSUME Call, EncodeFrame
  PROVE  CallKept
<1>1. /\ job \in JobSet /\ proc \in ProcSet /\ gfx \in GfxSet /\ client \in ClientSet
      /\ scenario \in Sessions
  BY ProcessorFields DEF Call, PipelineInv
<1>2. job.pc = "encode" /\ job.pc \in ShmStages /\ job.pc # "done"
  BY DEF EncodeFrame, ShmStages
<1>3. UNCHANGED <<gfx, graceOver, client, lostChain, earlyBitmap>>
  BY DEF EncodeFrame, gfxVars
<1>4. PICK p : p = Surfaced(Activated(proc)) /\ proc' = p
  BY DEF EncodeFrame
<1>5. /\ p \in ProcSet /\ SameFrames(proc, p) /\ p.enc = proc.enc
      /\ p.surface = proc.surface \/ (proc.surface = 0 /\ gfx.ready /\ p.surface = gfx.gen)
  BY <1>1, <1>4, SurfacedFields DEF SameFrames
<1>6. PICK out \in IF p.enc.kind = "none" THEN {"none"} ELSE scenario.outcomes :
        job' = [job EXCEPT !.pc = "send", !.out = out]
  BY <1>4 DEF EncodeFrame
<1>7. out \in Outcomes \cup {"none"} /\ (out = "frame" => p.enc.kind # "none")
  BY <1>1, <1>6 DEF Sessions
<1>8. PICK pc \in Stages : pc = "send"
  BY DEF Stages
<1>9. job' = [job EXCEPT !.pc = pc, !.out = out]
  BY <1>6, <1>8
<1>10. job' \in JobSet
  BY <1>1, <1>7, <1>9 DEF JobSet
<1>11. job'.pc = pc /\ job'.idx = job.idx /\ job'.damage = job.damage /\ job'.out = out
  BY <1>1, <1>9 DEF JobSet
<1>12. ProcessorTypes'
  BY <1>3, <1>4, <1>5, <1>10 DEF Call, PipelineInv, ProcessorTypes
<1>13. StaleCovered' /\ ReferenceIsShown'
  BY <1>2, <1>3, <1>4, <1>5, QuietPictures
<1>14. captured' = captured /\ unreported' = unreported /\ Mixed(client.shown)
  BY <1>2, CallFrame
<1>15. DamageCovered'
  <2>1. proc'.gen = proc.gen /\ proc'.ref = proc.ref
    BY <1>4, <1>5 DEF SameFrames
  <2> QED
    BY <1>2, <1>3, <1>11, <1>14, <2>1 DEF Call, PipelineInv, DamageCovered
<1>16. EncoderKept' /\ ChainIntact'
  <2>1. proc'.gen = proc.gen /\ proc'.surface \in {proc.surface, gfx.gen}
    BY <1>4, <1>5 DEF SameFrames
  <2> QED
    BY <1>3, <1>4, <1>5, <1>7, <1>8, <1>11, <1>12, <2>1, QuietEncoder
<1>17. BackendRespected'
  BY <1>4, <1>5, BackendStep DEF Call, PipelineInv
<1>18. Mixed(client'.shown)
  BY <1>3, <1>14 DEF Mixed
<1> QED
  BY <1>8, <1>11, <1>12, <1>13, <1>15, <1>16, <1>17, <1>18 DEF CallKept, ShmStages

(* What SendFrame makes of the channel and of the job.                     *)
LEMMA SendFrameFields ==
  ASSUME Call, SendFrame(buf[job.idx])
  PROVE  /\ gfx' \in GfxSet /\ gfx'.gen = gfx.gen /\ gfx'.ready = gfx.ready
         /\ job' \in JobSet /\ job'.pc = "bitmap" /\ job'.idx = job.idx
         /\ UNCHANGED <<graceOver, earlyBitmap>> /\ job.pc = "send"
<1>1. /\ job \in JobSet /\ gfx \in GfxSet /\ gfx.inFlight \in 0..Window
  BY ProcessorFields DEF Call, PipelineInv
<1>2. PICK b \in BOOLEAN, f \in BOOLEAN : b = Sent /\ f = (gfx.forceFull \/ (job.force /\ ~Sent))
  BY DEF Sent
<1>3. PICK n : n = IF Sent THEN gfx.inFlight + 1 ELSE gfx.inFlight
  OBVIOUS
<1>4. n \in 0..Window
  BY <1>1, <1>3, ProcessorAssumption DEF Sent, FrameReady
<1>5. PICK pc \in Stages : pc = "bitmap"
  BY DEF Stages
<1>6. gfx' = [gfx EXCEPT !.inFlight = n, !.forceFull = f]
  BY <1>2, <1>3 DEF SendFrame
<1>7. job' = [job EXCEPT !.pc = pc, !.sent = b]
  BY <1>2, <1>5 DEF SendFrame
<1>8. gfx' \in GfxSet
  BY <1>1, <1>4, <1>6 DEF GfxSet
<1>9. gfx'.gen = gfx.gen /\ gfx'.ready = gfx.ready
  BY <1>1, <1>6 DEF GfxSet
<1>10. job' \in JobSet
  BY <1>1, <1>7 DEF JobSet
<1>11. job'.pc = pc /\ job'.idx = job.idx
  BY <1>1, <1>7 DEF JobSet
<1>12. UNCHANGED <<graceOver, earlyBitmap>> /\ job.pc = "send"
  BY DEF SendFrame
<1> QED
  BY <1>5, <1>8, <1>9, <1>10, <1>11, <1>12

(* A frame that was not sent keeps its damage and its reference, and costs *)
(* an IDR wherever the encoder has advanced.                               *)
LEMMA UnsentKept ==
  ASSUME Call, SendFrame(buf[job.idx]), ~Sent
  PROVE  CallKept
<1>1. proc \in ProcSet /\ proc.failures \in 0..MaxFailures
  BY ProcessorFields, ProcFields DEF Call, PipelineInv
<1>2. client' = client /\ lostChain' = lostChain
  BY DEF SendFrame, Call, PipelineInv, ProcessorTypes
<1> DEFINE Skipped == [proc EXCEPT !.failures = 0]
           Lost == AfterUnsent([proc EXCEPT !.failures = 0])
           Failed == ForceIdr(Drifted([proc EXCEPT !.failures = Counted(@)]))
<1>3. PICK p : /\ p \in {proc, Skipped, Lost, Failed}
               /\ \E kind \in SoftwareFor(proc.codec) : proc' = AfterFailures(p, kind)
  BY DEF SendFrame
<1>4. /\ p \in ProcSet /\ SameFrames(proc, p) /\ p.surface = proc.surface
      /\ p.enc.kind = proc.enc.kind
      /\ p.enc = proc.enc \/ p.enc.kind = "none" \/ p.enc.idr
  <2>1. PICK z \in 0..MaxFailures : z = 0
    BY ProcessorAssumption
  <2>2. PICK n \in 0..MaxFailures : n = Counted(proc.failures)
    BY <1>1, ProcessorAssumption DEF Counted
  <2>3. CASE p = proc
    BY <1>1, <2>3 DEF SameFrames
  <2>4. CASE p = Skipped
    <3>1. p = [proc EXCEPT !.failures = z]
      BY <2>1, <2>4
    <3> QED
      BY <1>1, <3>1 DEF ProcSet, SameFrames
  <2>5. CASE p = Lost
    <3>1. p = ForceIdr(Drifted([proc EXCEPT !.failures = z]))
      BY <2>1, <2>5 DEF AfterUnsent
    <3> QED
      BY <1>1, <3>1, UnsentFields
  <2>6. CASE p = Failed
    <3>1. p = ForceIdr(Drifted([proc EXCEPT !.failures = n]))
      BY <2>2, <2>6
    <3> QED
      BY <1>1, <3>1, UnsentFields
  <2> QED
    BY <1>3, <2>3, <2>4, <2>5, <2>6
<1>5. PICK kind \in Backends : proc' = AfterFailures(p, kind)
  BY <1>3, EncodersAreBackends
<1> HIDE DEF Skipped, Lost, Failed
<1>6. /\ proc' \in ProcSet /\ SameFrames(p, proc')
      /\ \/ proc'.enc = p.enc /\ proc'.surface = p.surface
         \/ proc'.enc = NoEncoder /\ proc'.surface = p.surface
         \/ /\ scenario.policy = "auto" /\ kind # "none"
            /\ proc'.enc = NewEncoder(kind) /\ proc'.surface = 0
  BY <1>4, <1>5, AfterFailuresFields
<1>7. NoEncoder.kind = "none" /\ (kind # "none" => NewEncoder(kind).idr)
  BY NewEncoderFields
<1>8. SameFrames(proc, proc') /\ proc'.gen = proc.gen
  BY <1>4, <1>6 DEF SameFrames
<1>9. /\ \/ proc'.enc.kind = "none" \/ proc'.enc.idr
         \/ proc'.enc = proc.enc /\ proc'.surface = proc.surface
      /\ proc'.surface \in {0, proc.surface}
      /\ proc'.enc.kind \in {"none", proc.enc.kind} \/ scenario.policy = "auto"
  BY <1>4, <1>6, <1>7
<1> QED
  BY <1>2, <1>6, <1>8, <1>9, SendFrameFields, CallQuiet DEF ShmStages

(* A frame that was sent: the client has its tiles, the reference follows  *)
(* it, and so does the chain of the encoder.                               *)
LEMMA SentKept ==
  ASSUME Call, SendFrame(buf[job.idx]), Sent
  PROVE  CallKept
<1>1. /\ proc \in ProcSet /\ client \in ClientSet /\ client.shown \in Frames
      /\ job.damage \in SUBSET Tiles /\ proc.ref \in Frames \cup {NoRef}
      /\ gfx.gen \in 0..MaxGen /\ gfx.gen \in Nat /\ gfx \in GfxSet
  BY ProcessorFields DEF Call, PipelineInv
<1>2. job.pc = "send" /\ job.pc \in ShmStages /\ job.pc # "done" /\ job.out = "frame"
  BY SendFrameFields DEF ShmStages, Sent
<1>3. buf[job.idx] = captured /\ captured \in Frames
  BY <1>2, CallFrame
<1>4. PICK r \in Frames : r = RefAfter(proc.ref, captured, job.damage)
  BY <1>1, <1>3, RefAfterFields
<1>5. PICK p : p = AfterSent(proc, buf[job.idx])
  OBVIOUS
<1>6. \E kind \in SoftwareFor(proc.codec) : proc' = AfterFailures(p, kind)
  BY <1>2, <1>5 DEF SendFrame
<1>7. p = [proc EXCEPT !.failures = 0, !.enc.idr = FALSE, !.enc.drift = @ /\ ~proc.enc.idr,
                        !.ref = r, !.sentFirst = TRUE, !.pending = {}]
  BY <1>1, <1>3, <1>4, <1>5 DEF ProcSet, AfterSent
<1>8. /\ p \in ProcSet /\ p.gen = proc.gen /\ p.surface = proc.surface /\ p.ref = r
      /\ p.enc.kind = proc.enc.kind /\ ~p.enc.idr
      /\ p.enc.drift => proc.enc.drift /\ ~proc.enc.idr
  BY <1>1, <1>7, SentFields
<1>9. PICK kind \in Backends : proc' = AfterFailures(p, kind)
  BY <1>6, EncodersAreBackends
<1>10. /\ proc' \in ProcSet /\ SameFrames(p, proc')
       /\ \/ proc'.enc = p.enc /\ proc'.surface = p.surface
          \/ proc'.enc = NoEncoder /\ proc'.surface = p.surface
          \/ /\ scenario.policy = "auto" /\ kind # "none"
             /\ proc'.enc = NewEncoder(kind) /\ proc'.surface = 0
  BY <1>8, <1>9, AfterFailuresFields
<1>11. proc'.gen = proc.gen /\ proc'.ref = RefAfter(proc.ref, captured, job.damage)
  BY <1>4, <1>8, <1>10 DEF SameFrames
<1>12. PICK s : s = RefAfter(client.shown, captured, job.damage)
  OBVIOUS
<1>13. s \in Frames
  BY <1>1, <1>3, <1>12, RefAfterFields
<1>14. client' = [shown |-> s, decoder |-> gfx.gen]
  BY <1>3, <1>12 DEF SendFrame
<1>15. client' \in ClientSet /\ client'.shown = s /\ client'.decoder = gfx.gen
  BY <1>1, <1>13, <1>14 DEF ClientSet
<1>16. gfx' \in GfxSet /\ gfx'.gen = gfx.gen /\ gfx'.ready = gfx.ready
  BY SendFrameFields
<1>17. Mixed(client'.shown) /\ StaleCovered' /\ ReferenceIsShown'
  <2>1. proc.gen = gfx.gen =>
          /\ proc.ref = NoRef => job.damage = Tiles
          /\ proc.ref # NoRef => proc.ref = client.shown
          /\ \A t \in Tiles \ job.damage : client.shown[t] # captured[t] => t \in unreported
    BY <1>2, CallFrame DEF Call, PipelineInv, DamageCovered, ReferenceIsShown
  <2>2. client'.shown = RefAfter(client.shown, captured, job.damage)
    BY <1>12, <1>15
  <2> QED
    BY <1>1, <1>2, <1>11, <1>16, <2>1, <2>2, ShownPictures
<1>18. /\ gfx.ready => gfx.gen # 0
       /\ proc.gen <= gfx.gen /\ proc.surface <= gfx.gen /\ dma.surface <= gfx.gen
       /\ ChainKept(proc.enc, proc.surface)
       /\ ~dma.ready => dma.enc.kind = "none"
       /\ proc.enc.kind # "none" /\ ~lostChain
       /\ ChainKept(dma.enc, dma.surface)
  BY <1>2 DEF Call, PipelineInv, EncoderKept, ChainIntact
<1>19. SurfaceLives(proc.surface) /\ gfx.ready /\ proc.surface = gfx.gen /\ proc.surface # 0
  BY <1>18 DEF Sent, SurfaceLives
<1>20. ~proc.enc.idr => ~proc.enc.drift /\ client.decoder = gfx.gen
  BY <1>18, <1>19 DEF ChainKept
<1>21. lostChain' = FALSE
  BY <1>18, <1>20 DEF SendFrame
<1>22. ProcessorTypes'
  BY <1>10, <1>15, <1>21, SendFrameFields DEF Call, PipelineInv, ProcessorTypes
<1>23. NoEncoder.kind = "none" /\ (kind # "none" => NewEncoder(kind).idr)
  BY NewEncoderFields
<1>24. ChainKept(proc.enc, proc.surface)'
  BY <1>8, <1>10, <1>15, <1>16, <1>19, <1>20, <1>23 DEF ChainKept
<1>25. dma' = dma
  BY DEF Call
<1>26. ChainKept(dma.enc, dma.surface)'
  BY <1>15, <1>16, <1>18, <1>25 DEF ChainKept
<1>27. proc'.gen <= gfx'.gen /\ proc'.surface <= gfx'.gen /\ dma'.surface <= gfx'.gen
  BY <1>1, <1>8, <1>10, <1>11, <1>16, <1>18, <1>25
<1>28. EncoderKept' /\ ChainIntact'
  BY <1>16, <1>18, <1>21, <1>24, <1>25, <1>26, <1>27, SendFrameFields
     DEF EncoderKept, ChainIntact
<1>29. DamageCovered'
  BY SendFrameFields DEF DamageCovered
<1>30. BackendRespected'
  BY <1>8, <1>10, <1>23, <1>25, BackendStep DEF Call, PipelineInv
<1> QED
  BY <1>17, <1>22, <1>28, <1>29, <1>30, SendFrameFields DEF CallKept, ShmStages

(* A bitmap shows the whole frame; one that could not be sent ends the     *)
(* loop.                                                                   *)
LEMMA BitmapKept ==
  ASSUME Call, BitmapStep(buf[job.idx])
  PROVE  CallKept
<1>1. /\ job \in JobSet /\ proc \in ProcSet /\ gfx \in GfxSet /\ client \in ClientSet
      /\ graceOver \in BOOLEAN /\ earlyBitmap \in BOOLEAN
  BY ProcessorFields DEF Call, PipelineInv, ProcessorTypes
<1>2. job.pc = "bitmap" /\ job.pc \in ShmStages /\ job.pc # "done"
  BY DEF BitmapStep, ShmStages
<1>3. /\ buf[job.idx] = captured /\ captured \in Frames /\ captured' = captured
      /\ ~zeroCopy /\ Mixed(client.shown)
  BY <1>2, CallFrame
<1>4. UNCHANGED <<gfx, graceOver, lostChain>>
  BY DEF BitmapStep
<1>5. CASE Return(proc, TRUE) /\ UNCHANGED <<client, earlyBitmap>>
  <2>1. PICK b \in BOOLEAN : Return(proc, b)
    BY <1>5
  <2>2. proc' = proc /\ job' \in JobSet /\ job'.pc = "done" /\ job'.idx = job.idx
    BY <1>1, <2>1, ReturnFields
  <2>3. SameFrames(proc, proc')
    BY <2>2 DEF SameFrames
  <2> QED
    BY <1>1, <1>2, <1>4, <1>5, <2>2, <2>3, CallQuiet
<1>6. ASSUME NEW q \in ProcSet, q.gen = proc.gen, q.enc = proc.enc, q.surface = proc.surface,
             proc' = q, job' \in JobSet, job'.pc = "done", job'.idx = job.idx,
             client' \in ClientSet, client'.decoder = client.decoder,
             earlyBitmap' \in BOOLEAN
      PROVE  /\ ProcessorTypes' /\ DamageCovered' /\ EncoderKept' /\ ChainIntact'
             /\ BackendRespected' /\ job'.pc \in ShmStages
  <2>1. ProcessorTypes'
    BY <1>4, <1>6 DEF Call, PipelineInv, ProcessorTypes
  <2>2. DamageCovered'
    BY <1>6 DEF DamageCovered
  <2>3. EncoderKept' /\ ChainIntact'
    BY <1>4, <1>6, <2>1, QuietEncoder
  <2>4. BackendRespected'
    BY <1>6, BackendStep DEF Call, PipelineInv
  <2> QED
    BY <1>6, <2>1, <2>2, <2>3, <2>4 DEF ShmStages
<1>7. CASE /\ Return([proc EXCEPT !.sentFirst = TRUE, !.ref = captured, !.pending = {}], TRUE)
           /\ client' = [client EXCEPT !.shown = captured]
           /\ earlyBitmap' = (earlyBitmap \/ (scenario.egfx /\ ~job.negotiated /\ ~graceOver))
  <2>1. PICK b \in BOOLEAN : b = TRUE
    OBVIOUS
  <2>2. PICK q : q = [proc EXCEPT !.sentFirst = b, !.ref = captured, !.pending = {}]
    OBVIOUS
  <2>3. q \in ProcSet
    BY <1>1, <1>3, <2>2 DEF ProcSet
  <2>4. q.gen = proc.gen /\ q.enc = proc.enc /\ q.surface = proc.surface /\ q.ref = captured
    BY <1>1, <2>2 DEF ProcSet
  <2>5. Return(q, b)
    BY <1>7, <2>1, <2>2
  <2>6. proc' = q /\ job' \in JobSet /\ job'.pc = "done" /\ job'.idx = job.idx
    BY <1>1, <2>5, ReturnFields
  <2>7. /\ client' \in ClientSet /\ client'.shown = captured
        /\ client'.decoder = client.decoder
    BY <1>1, <1>3, <1>7 DEF ClientSet
  <2>8. earlyBitmap' \in BOOLEAN
    BY <1>1, <1>7
  <2>9. StaleCovered' /\ ReferenceIsShown' /\ Mixed(client'.shown)
    BY <1>3, <2>4, <2>6, <2>7 DEF StaleCovered, ReferenceIsShown, Mixed
  <2> QED
    BY <1>6, <2>3, <2>4, <2>6, <2>7, <2>8, <2>9 DEF CallKept
<1>8. CASE Return([proc EXCEPT !.sentFirst = TRUE], FALSE) /\ UNCHANGED <<client, earlyBitmap>>
  <2>1. PICK b \in BOOLEAN, f \in BOOLEAN : b = TRUE /\ f = FALSE
    OBVIOUS
  <2>2. PICK q : q = [proc EXCEPT !.sentFirst = b]
    OBVIOUS
  <2>3. q \in ProcSet
    BY <1>1, <2>2 DEF ProcSet
  <2>4. q.gen = proc.gen /\ q.enc = proc.enc /\ q.surface = proc.surface /\ q.ref = proc.ref
    BY <1>1, <2>2 DEF ProcSet
  <2>5. Return(q, f)
    BY <1>8, <2>1, <2>2
  <2>6. /\ proc' = q /\ job' \in JobSet /\ job'.pc = "done" /\ job'.idx = job.idx
        /\ job'.continue = f
    BY <1>1, <2>5, ReturnFields
  <2>7. StaleCovered'
    BY <2>1, <2>6 DEF StaleCovered
  <2>8. ReferenceIsShown'
    BY <1>3, <1>4, <1>8, <2>4, <2>6 DEF ReferenceIsShown, Call, PipelineInv, NoRef
  <2>9. Mixed(client'.shown)
    BY <1>3, <1>8 DEF Mixed
  <2> QED
    BY <1>1, <1>6, <1>8, <2>3, <2>4, <2>6, <2>7, <2>8, <2>9 DEF CallKept
<1> QED
  BY <1>3, <1>5, <1>7, <1>8 DEF BitmapStep

(* Every step of process_at keeps the invariant, and what the client shows *)
(* does not go back.                                                       *)
LEMMA ProcessStepKept ==
  ASSUME PipelineInv, ProcessStep, UNCHANGED dma
  PROVE  PipelineInv' /\ \A t \in Tiles : client'.shown[t] >= client.shown[t]
<1>1. ended = "no" /\ UNCHANGED shmVars /\ ProcessNext(buf[job.idx])
  BY DEF ProcessStep
<1>2. scenario' = scenario /\ job.pc \in ShmStages
  BY <1>1 DEF ProcessNext, SendInitialResize, WithoutGraphics, ProcessClearCodec,
              ObserveChannel, NotEncoded, NotReady, EncodeFrame, SendFrame, BitmapStep,
              ShmStages
<1>3. Call
  BY <1>1, <1>2 DEF Call
<1>4. CallKept
  BY <1>1, <1>3, ResizeKept, WithoutGraphicsKept, ClearCodecKept, ObserveKept,
     NotEncodedKept, EncodeKept, UnsentKept, SentKept, BitmapKept DEF ProcessNext
<1>5. client' \in ClientSet
  BY <1>4 DEF CallKept, ProcessorTypes
<1>6. LoopTypes' /\ WireInOrder' /\ CopyCovered' /\ ScreenCovered'
  BY <1>1, <1>2, LoopUnchanged
<1>7. /\ JobShape' /\ FrameHeld' /\ NothingCaptured' /\ VersionsGrow'
      /\ \A t \in Tiles : client'.shown[t] >= client.shown[t]
  BY <1>1, <1>2, <1>4, <1>5, FrameStays DEF CallKept
<1> QED
  BY <1>4, <1>6, <1>7 DEF CallKept, PipelineInv

-----------------------------------------------------------------------------
(* The graphics channel.                                                   *)

(* A callback either starts a generation, with an empty screen, or leaves  *)
(* the generation and the screen alone.                                    *)
Renewed == gfx'.gen = gfx.gen + 1 /\ client'.shown = Blank
SameScreen ==
  /\ gfx'.gen = gfx.gen /\ client'.shown = client.shown
  /\ gfx'.ready => gfx.ready /\ client'.decoder = client.decoder

(* What the callbacks do, with the types of what they leave.               *)
LEMMA GraphicsFields ==
  ASSUME ProcessorTypes, GraphicsNext
  PROVE  /\ UNCHANGED <<scenario, procVars>>
         /\ gfx' \in GfxSet /\ client' \in ClientSet /\ graceOver' \in BOOLEAN
         /\ Renewed \/ SameScreen
<1>1. /\ scenario \in Sessions /\ gfx \in GfxSet /\ client \in ClientSet
      /\ graceOver \in BOOLEAN /\ gfx.gen \in 0..MaxGen /\ gfx.inFlight \in 0..Window
  BY ProcessorFields DEF ProcessorTypes
<1>2. PICK blank \in Frames : blank = Blank
  BY BlankIsFrame
<1>3. PICK z \in 0..MaxGen : z = 0
  BY ProcessorAssumption
<1>4. PICK n \in 0..Window : n = 0
  BY ProcessorAssumption
<1>5. ASSUME client' = [shown |-> Blank, decoder |-> 0]
      PROVE  client' \in ClientSet /\ client'.shown = Blank
  <2>1. client' = [shown |-> blank, decoder |-> z]
    BY <1>2, <1>3, <1>5
  <2> QED
    BY <1>2, <2>1 DEF ClientSet
<1>6. ASSUME NEW codec \in scenario.codecs, Negotiate(codec)
      PROVE  /\ UNCHANGED <<scenario, procVars, graceOver>>
             /\ gfx' \in GfxSet /\ client' \in ClientSet /\ Renewed
  <2>1. codec \in Codecs
    BY <1>1, <1>6 DEF Sessions
  <2>2. PICK b \in BOOLEAN, f \in BOOLEAN : b = TRUE /\ f = (gfx.forceFull \/ gfx.ready)
    OBVIOUS
  <2>3. PICK g \in 0..MaxGen : g = gfx.gen + 1
    BY <1>1, <1>6, ProcessorAssumption DEF Negotiate
  <2>4. gfx' = [ready |-> b, everReady |-> b, gen |-> g, codec |-> codec, forceFull |-> f,
                inFlight |-> n]
    BY <1>4, <1>6, <2>2, <2>3 DEF Negotiate
  <2>5. gfx' \in GfxSet /\ gfx'.gen = g
    BY <2>1, <2>4 DEF GfxSet
  <2> QED
    BY <1>5, <1>6, <2>3, <2>5 DEF Negotiate, Renewed
<1>7. CASE CloseChannel
  <2>1. PICK f \in BOOLEAN : f = FALSE
    OBVIOUS
  <2>2. gfx' = [gfx EXCEPT !.ready = f, !.inFlight = n]
    BY <1>4, <1>7, <2>1 DEF CloseChannel
  <2>3. gfx' \in GfxSet
    BY <1>1, <2>2 DEF GfxSet
  <2>4. gfx'.gen = gfx.gen /\ gfx'.ready = f
    BY <1>1, <2>2 DEF GfxSet
  <2>5. client' = [client EXCEPT !.decoder = z]
    BY <1>3, <1>7 DEF CloseChannel
  <2>6. client' \in ClientSet /\ client'.shown = client.shown
    BY <1>1, <2>5 DEF ClientSet
  <2> QED
    BY <1>1, <1>7, <2>1, <2>3, <2>4, <2>6 DEF CloseChannel, SameScreen
<1>8. CASE PrepareForResize
  <2>1. PICK g \in 0..MaxGen : g = gfx.gen + 1
    BY <1>1, <1>8, ProcessorAssumption DEF PrepareForResize
  <2>2. gfx' = [gfx EXCEPT !.gen = g, !.inFlight = n]
    BY <1>4, <1>8, <2>1 DEF PrepareForResize
  <2>3. gfx' \in GfxSet
    BY <1>1, <2>2 DEF GfxSet
  <2>4. gfx'.gen = g
    BY <1>1, <2>2 DEF GfxSet
  <2> QED
    BY <1>1, <1>5, <1>8, <2>1, <2>3, <2>4 DEF PrepareForResize, Renewed
<1>9. CASE FrameAck
  <2>1. PICK m \in 0..Window : m = gfx.inFlight - 1
    BY <1>1, <1>9, ProcessorAssumption DEF FrameAck
  <2>2. gfx' = [gfx EXCEPT !.inFlight = m]
    BY <1>9, <2>1 DEF FrameAck
  <2>3. gfx' \in GfxSet /\ gfx'.gen = gfx.gen /\ gfx'.ready = gfx.ready
    BY <1>1, <2>2 DEF GfxSet
  <2> QED
    BY <1>1, <1>9, <2>3 DEF FrameAck, SameScreen
<1>10. CASE GraceExpires
  BY <1>1, <1>10 DEF GraceExpires, SameScreen
<1> QED
  BY <1>1, <1>6, <1>7, <1>8, <1>9, <1>10 DEF GraphicsNext

(* A callback of the graphics channel between any two steps of the thread  *)
(* keeps the invariant; the screen of the client stays, or is emptied.     *)
LEMMA GraphicsKept ==
  ASSUME PipelineInv, GraphicsNext, UNCHANGED <<shmVars, dma>>
  PROVE  PipelineInv' /\ (client'.shown = Blank \/ client'.shown = client.shown)
<1>1. /\ UNCHANGED <<scenario, proc, job, lostChain, earlyBitmap>>
      /\ gfx' \in GfxSet /\ client' \in ClientSet /\ graceOver' \in BOOLEAN
      /\ Renewed \/ SameScreen
  BY GraphicsFields DEF PipelineInv, procVars
<1>2. /\ UNCHANGED <<screen, unseen, buf, request, wire, cap, state, deferred, ended>>
      /\ UNCHANGED <<captured, unreported, zeroCopy>>
  BY DEF shmVars, compositorVars, loopVars
<1>3. LoopTypes' /\ WireInOrder' /\ CopyCovered' /\ ScreenCovered'
  BY <1>1, LoopUnchanged
<1>4. \A d : Reports(d)' <=> Reports(d)
  BY <1>1, LoopUnchanged
<1>5. ProcessorTypes'
  BY <1>1 DEF PipelineInv, ProcessorTypes
<1>6. JobShape' /\ FrameHeld' /\ NothingCaptured'
  BY <1>1, <1>2 DEF PipelineInv, JobShape, FrameHeld, NothingCaptured, Blank
<1>7. BackendRespected' /\ ChainIntact'
  BY <1>1 DEF PipelineInv, BackendRespected, ChainIntact
<1>8. /\ gfx.gen \in Nat /\ proc.gen \in Nat /\ proc.surface \in Nat /\ dma.surface \in Nat
      /\ client.shown \in Frames
  BY ProcessorFields DEF PipelineInv
<1>9. /\ gfx.ready => gfx.gen # 0
      /\ proc.gen <= gfx.gen /\ proc.surface <= gfx.gen /\ dma.surface <= gfx.gen
      /\ ChainKept(proc.enc, proc.surface) /\ ChainKept(dma.enc, dma.surface)
  BY DEF PipelineInv, EncoderKept
<1>10. CASE Renewed
  <2>1. proc'.gen # gfx'.gen /\ proc'.surface # gfx'.gen /\ dma'.surface # gfx'.gen
    BY <1>1, <1>8, <1>9, <1>10 DEF Renewed
  <2>2. StaleCovered' /\ DamageCovered' /\ ReferenceIsShown'
    BY <2>1 DEF StaleCovered, DamageCovered, ReferenceIsShown
  <2>3. ChainKept(proc.enc, proc.surface)' /\ ChainKept(dma.enc, dma.surface)'
    BY <1>1, <1>9, <2>1 DEF ChainKept, SurfaceLives
  <2>4. EncoderKept'
    BY <1>1, <1>8, <1>9, <1>10, <2>3 DEF PipelineInv, EncoderKept, Renewed
  <2>5. VersionsGrow'
    <3>1. /\ screen \in Pictures /\ buf \in [Indices -> Pictures] /\ cap \in Indices
          /\ 1 - cap \in Indices
      BY ProcessorAssumption DEF PipelineInv, LoopTypes, Frames, Pictures, Versions, Indices
    <3>2. ASSUME NEW f \in Pictures
          PROVE  Older(client'.shown, f)
      BY <1>10, <3>2 DEF Older, Renewed, Blank, Pictures
    <3>3. Older(client'.shown, screen) /\ \A i \in Indices : Older(client'.shown, buf[i])
      BY <3>1, <3>2
    <3> QED
      BY <1>1, <1>2, <1>4, <3>1, <3>3 DEF PipelineInv, VersionsGrow, Older
  <2> QED
    BY <1>3, <1>5, <1>6, <1>7, <1>10, <2>2, <2>4, <2>5 DEF PipelineInv, Renewed
<1>11. CASE SameScreen
  <2>1. StaleCovered' /\ DamageCovered' /\ ReferenceIsShown'
    BY <1>1, <1>2, <1>11
       DEF PipelineInv, StaleCovered, DamageCovered, ReferenceIsShown, SameScreen, NoRef
  <2>2. ChainKept(proc.enc, proc.surface)' /\ ChainKept(dma.enc, dma.surface)'
    BY <1>1, <1>9, <1>11 DEF ChainKept, SurfaceLives, SameScreen
  <2>3. EncoderKept'
    BY <1>1, <1>9, <1>11, <2>2 DEF PipelineInv, EncoderKept, SameScreen
  <2>4. VersionsGrow'
    BY <1>1, <1>2, <1>4, <1>11 DEF PipelineInv, VersionsGrow, Older, SameScreen
  <2> QED
    BY <1>3, <1>5, <1>6, <1>7, <1>11, <2>1, <2>3, <2>4 DEF PipelineInv, SameScreen
<1> QED
  BY <1>1, <1>10, <1>11

-----------------------------------------------------------------------------
(* The compositor.                                                         *)

(* The processor's part of the invariant, while the processor and the      *)
(* frame last captured stay: more may become unreported.                   *)
LEMMA ProcessorStays ==
  ASSUME PipelineInv, UNCHANGED <<processorVars, dma, captured, zeroCopy>>,
         unreported \subseteq unreported', ended' = "no" => ended = "no"
  PROVE  /\ ProcessorTypes' /\ StaleCovered' /\ DamageCovered' /\ ReferenceIsShown'
         /\ EncoderKept' /\ ChainIntact' /\ BackendRespected'
<1>1. UNCHANGED <<scenario, gfx, graceOver, client, proc, job, lostChain, earlyBitmap>>
  BY DEF processorVars, gfxVars, procVars
<1>2. ProcessorTypes'
  BY <1>1 DEF PipelineInv, ProcessorTypes
<1>3. StaleCovered'
  BY <1>1 DEF PipelineInv, StaleCovered
<1>4. DamageCovered' /\ ReferenceIsShown'
  BY <1>1 DEF PipelineInv, DamageCovered, ReferenceIsShown, NoRef
<1>5. EncoderKept' /\ ChainIntact' /\ BackendRespected'
  BY <1>1 DEF PipelineInv, EncoderKept, ChainKept, SurfaceLives, ChainIntact, BackendRespected
<1> QED
  BY <1>2, <1>3, <1>4, <1>5

(* The places of the frames, while the loop leaves them alone.             *)
LEMMA FramesStay ==
  ASSUME PipelineInv, UNCHANGED <<processorVars, captured, zeroCopy, cap, deferred>>,
         ended' # "no" => job.pc = "idle", buf'[1 - cap] = buf[1 - cap]
  PROVE  JobShape' /\ FrameHeld' /\ NothingCaptured'
<1>1. UNCHANGED <<proc, job>>
  BY DEF processorVars, procVars
<1> QED
  BY <1>1 DEF PipelineInv, JobShape, FrameHeld, NothingCaptured, Blank

(* The types of the loop's state, for the steps that change little of it.  *)
LEMMA LoopFields ==
  ASSUME LoopTypes
  PROVE  /\ screen \in Pictures /\ buf \in [Indices -> Pictures] /\ cap \in Indices
         /\ 1 - cap \in Indices /\ 1 - cap # cap /\ captured \in Pictures
         /\ request.id \in FrameIds /\ state.damage \in SUBSET Tiles
         /\ Len(wire) \in Nat /\ \A i \in 1..Len(wire) : wire[i] \in EventSet
<1>1. /\ screen \in Pictures /\ buf \in [Indices -> Pictures] /\ cap \in Indices
      /\ captured \in Pictures
  BY ProcessorAssumption DEF LoopTypes, Frames, Pictures, Versions
<1>2. 1 - cap \in Indices /\ 1 - cap # cap
  BY <1>1 DEF Indices
<1>3. request.id \in FrameIds /\ state.damage \in SUBSET Tiles
  BY DEF LoopTypes, RequestSet, StateSet
<1>4. Len(wire) \in Nat /\ \A i \in 1..Len(wire) : wire[i] \in EventSet
  BY DEF LoopTypes
<1> QED
  BY <1>1, <1>2, <1>3, <1>4

(* An event of a request that is not yet served: no completed copy waited  *)
(* before, and one waits now only if the event reports one.                *)
LEMMA EventAppended ==
  ASSUME PipelineInv, NEW kind \in Kinds, NEW damage \in SUBSET Tiles,
         NEW stage \in {"asked", "offered", "copy", "none"},
         wire' = Event(kind, damage), request' = [request EXCEPT !.stage = stage],
         request.stage # "none", UNCHANGED <<scenario, state>>,
         unreported \subseteq unreported', unreported' \in SUBSET Tiles,
         kind \in Completions => stage = "none",
         kind # "ready" => damage = {}
  PROVE  /\ wire' \in Seq(EventSet) /\ request' \in RequestSet /\ WireInOrder'
         /\ \A d : ~Reports(d)
         /\ \A d : Reports(d)' <=> kind = "ready" /\ d = damage
<1>1. /\ wire \in Seq(EventSet) /\ Len(wire) \in Nat /\ request \in RequestSet
      /\ request.id \in FrameIds
  BY LoopFields DEF PipelineInv, LoopTypes
<1>2. request' \in RequestSet /\ request'.id = request.id /\ request'.stage = stage
  BY <1>1 DEF RequestSet
<1>3. PICK e : e = [id |-> request.id, kind |-> kind, damage |-> damage]
  OBVIOUS
<1>4. e \in EventSet /\ e.id = request.id /\ e.kind = kind /\ e.damage = damage
  BY <1>1, <1>3 DEF EventSet
<1>5. wire' = Append(wire, e)
  BY <1>3 DEF Event
<1>6. /\ wire' \in Seq(EventSet) /\ Len(wire') = Len(wire) + 1 /\ wire'[Len(wire) + 1] = e
      /\ \A i \in 1..Len(wire) : wire'[i] = wire[i]
  BY <1>1, <1>4, <1>5
<1>7. /\ ~Wlr => \A i \in 1..Len(wire) : wire[i].id = request.id
      /\ \A i \in 1..Len(wire) : ~(wire[i].id = request.id /\ wire[i].kind \in Completions)
      /\ \A i \in 1..Len(wire) : (wire[i].id # request.id \/ wire[i].kind # "ready") =>
           wire[i].damage \subseteq unreported
      /\ state.done = "no"
  BY DEF PipelineInv, WireInOrder
<1>8. \A d : ~Reports(d)
  BY <1>7 DEF Reports, Completions
<1>9. ASSUME NEW i \in 1..Len(wire')
      PROVE  (i \in 1..Len(wire) /\ wire'[i] = wire[i]) \/ (i = Len(wire') /\ wire'[i] = e)
  BY <1>1, <1>6
<1>10. \A d : Reports(d)' <=> kind = "ready" /\ d = damage
  <2>1. ASSUME NEW d, Reports(d)'
        PROVE  kind = "ready" /\ d = damage
    <3>1. PICK i \in 1..Len(wire') :
            wire'[i].kind = "ready" /\ wire'[i].id = request'.id /\ d = wire'[i].damage
      BY <1>7, <2>1 DEF Reports
    <3> QED
      BY <1>2, <1>4, <1>7, <1>9, <3>1 DEF Completions
  <2>2. ASSUME kind = "ready"
        PROVE  Reports(damage)'
    <3>1. Len(wire') \in 1..Len(wire') /\ wire'[Len(wire')] = e
      BY <1>1, <1>6
    <3> QED
      BY <1>2, <1>4, <2>2, <3>1 DEF Reports
  <2> QED
    BY <2>1, <2>2
<1>11. WireInOrder'
  <2>1. (~Wlr => \A i \in 1..Len(wire) : wire[i].id = request.id)'
    BY <1>2, <1>4, <1>7, <1>9 DEF Wlr
  <2>2. \A i \in 1..Len(wire') : (wire'[i].id = request'.id /\ wire'[i].kind \in Completions) =>
          i = Len(wire') /\ request'.stage = "none" /\ state'.done = "no"
    BY <1>2, <1>4, <1>7, <1>9
  <2>3. \A i \in 1..Len(wire') : (wire'[i].id # request'.id \/ wire'[i].kind # "ready") =>
          wire'[i].damage \subseteq unreported'
    BY <1>2, <1>4, <1>7, <1>9
  <2> QED
    BY <1>7, <2>1, <2>2, <2>3 DEF WireInOrder
<1> QED
  BY <1>2, <1>6, <1>8, <1>10, <1>11

(* The screen changes, or is drawn again: what changed is not seen yet.    *)
LEMMA ScreenKept ==
  ASSUME PipelineInv, UNCHANGED dma, Repaint \/ \E t \in Tiles : ScreenChanges(t)
  PROVE  PipelineInv' /\ client' = client
<1>1. /\ UNCHANGED <<processorVars, buf, request, wire, loopVars, layout, stop, zeroCopy>>
      /\ screen' \in Frames /\ unseen' \in SUBSET Tiles /\ unseen \subseteq unseen'
      /\ \A t \in Tiles : screen'[t] >= screen[t] /\ (screen'[t] # screen[t] => t \in unseen')
  <2>1. screen \in Frames /\ unseen \in SUBSET Tiles /\ MaxVersion \in Nat
    BY ProcessorAssumption DEF PipelineInv, LoopTypes
  <2>2. CASE Repaint
    BY <2>1, <2>2 DEF Repaint, Frames, Versions
  <2>3. ASSUME NEW t \in Tiles, ScreenChanges(t)
        PROVE  /\ screen' \in Frames /\ unseen' \in SUBSET Tiles /\ unseen \subseteq unseen'
               /\ \A u \in Tiles : /\ screen'[u] >= screen[u]
                                   /\ screen'[u] # screen[u] => u \in unseen'
    BY <2>1, <2>3 DEF ScreenChanges, Frames, Versions
  <2> QED
    BY <2>2, <2>3 DEF Repaint, ScreenChanges
<1>2. /\ UNCHANGED <<cap, state, deferred, pacer, streak, procLayout, ended, captured>>
      /\ UNCHANGED <<unreported, scenario, gfx, proc, client, job>>
  BY <1>1 DEF loopVars, processorVars, gfxVars, procVars
<1>3. \A d : Reports(d)' <=> Reports(d)
  BY <1>1, <1>2 DEF Reports
<1>4. /\ ProcessorTypes' /\ StaleCovered' /\ DamageCovered' /\ ReferenceIsShown'
      /\ EncoderKept' /\ ChainIntact' /\ BackendRespected'
  BY <1>1, <1>2, ProcessorStays
<1>5. JobShape' /\ FrameHeld' /\ NothingCaptured'
  BY <1>1, <1>2, FramesStay DEF PipelineInv, JobShape
<1>6. LoopTypes'
  BY <1>1, <1>2 DEF PipelineInv, LoopTypes
<1>7. WireInOrder'
  BY <1>1, <1>2 DEF PipelineInv, WireInOrder, Wlr
<1>8. CopyCovered'
  BY <1>1, <1>2, <1>3 DEF PipelineInv, CopyCovered
<1>9. ScreenCovered'
  BY <1>1, <1>2, <1>3 DEF PipelineInv, ScreenCovered, Blank
<1>10. VersionsGrow'
  <2>1. /\ screen \in Pictures /\ screen' \in Pictures /\ client.shown \in Pictures
        /\ buf \in [Indices -> Pictures]
    <3>1. screen \in Pictures /\ buf \in [Indices -> Pictures]
      BY LoopFields DEF PipelineInv
    <3>2. client.shown \in Frames
      BY ProcessorFields DEF PipelineInv
    <3>3. Frames \subseteq Pictures
      BY ProcessorAssumption DEF Frames, Versions, Pictures
    <3> QED
      BY <1>1, <3>1, <3>2, <3>3
  <2>2. /\ \A t \in Tiles : screen[t] >= 1
        /\ Older(client.shown, screen) /\ \A i \in Indices : Older(buf[i], screen)
    BY DEF PipelineInv, VersionsGrow
  <2>3. \A t \in Tiles : screen'[t] >= 1
    BY <1>1, <2>1, <2>2 DEF Pictures
  <2>4. Older(client.shown, screen') /\ \A i \in Indices : Older(buf[i], screen')
    BY <1>1, <2>1, <2>2 DEF Older, Pictures
  <2> QED
    BY <1>1, <1>2, <1>3, <2>3, <2>4 DEF PipelineInv, VersionsGrow, Older
<1> QED
  BY <1>2, <1>4, <1>5, <1>6, <1>7, <1>8, <1>9, <1>10 DEF PipelineInv

(* An offer of a buffer, or a frame that failed, reports no copy.          *)
LEMMA OtherEventKept ==
  ASSUME PipelineInv, UNCHANGED dma,
         \/ \E kind \in {"buffer", "resized"} : OfferBuffer(kind)
         \/ \E kind \in Failures : FailFrame(kind)
  PROVE  PipelineInv' /\ client' = client
<1>1. PICK kind \in Kinds, stage \in {"asked", "offered", "copy", "none"} :
        /\ wire' = Event(kind, {}) /\ request' = [request EXCEPT !.stage = stage]
        /\ request.stage # "none" /\ kind # "ready" /\ (kind \in Completions => stage = "none")
        /\ UNCHANGED <<processorVars, screen, unseen, buf, loopVars, layout, stop, zeroCopy>>
  BY DEF OfferBuffer, FailFrame, Kinds, Completions, Failures
<1>2. /\ UNCHANGED <<cap, state, deferred, pacer, streak, procLayout, ended, captured>>
      /\ UNCHANGED <<unreported, scenario, gfx, proc, client, job>>
  BY <1>1 DEF loopVars, processorVars, gfxVars, procVars
<1>3. PICK none \in SUBSET Tiles : none = {}
  OBVIOUS
<1>4. /\ wire' \in Seq(EventSet) /\ request' \in RequestSet /\ WireInOrder'
      /\ \A d : ~Reports(d)
      /\ \A d : Reports(d)' <=> kind = "ready" /\ d = none
  <2>1. wire' = Event(kind, none) /\ unreported' \in SUBSET Tiles
    BY <1>1, <1>2, <1>3 DEF PipelineInv, LoopTypes
  <2> QED
    BY <1>1, <1>2, <1>3, <2>1, EventAppended
<1>5. /\ ProcessorTypes' /\ StaleCovered' /\ DamageCovered' /\ ReferenceIsShown'
      /\ EncoderKept' /\ ChainIntact' /\ BackendRespected'
  BY <1>1, <1>2, ProcessorStays
<1>6. JobShape' /\ FrameHeld' /\ NothingCaptured'
  BY <1>1, <1>2, FramesStay DEF PipelineInv, JobShape
<1>7. LoopTypes'
  BY <1>1, <1>2, <1>4 DEF PipelineInv, LoopTypes
<1>8. CopyCovered'
  BY <1>1, <1>4 DEF CopyCovered
<1>9. ScreenCovered'
  BY <1>1, <1>2, <1>4 DEF PipelineInv, ScreenCovered, Blank
<1>10. VersionsGrow'
  BY <1>1, <1>2, <1>4 DEF PipelineInv, VersionsGrow, Older
<1> QED
  BY <1>2, <1>4, <1>5, <1>6, <1>7, <1>8, <1>9, <1>10 DEF PipelineInv

(* The compositor copies the screen: the copy is newer than anything else, *)
(* and what it changes is in the damage it reports, or counted as          *)
(* unreported.                                                             *)
LEMMA CopyScreenKept ==
  ASSUME PipelineInv, UNCHANGED dma, ended = "no",
         NEW reported \in SUBSET Tiles, CopyScreen(reported)
  PROVE  PipelineInv' /\ client' = client
<1>1. /\ UNCHANGED <<processorVars, screen, cap, state, deferred, pacer, streak, procLayout>>
      /\ UNCHANGED <<ended, captured, layout, stop, zeroCopy>>
      /\ request.stage = "copy" /\ wire' = Event("ready", reported)
      /\ request' = [request EXCEPT !.stage = "none"]
      /\ buf' = [buf EXCEPT ![cap] = screen] /\ unseen' = {}
      /\ unreported' = unreported \cup (unseen \ reported)
  BY DEF CopyScreen
<1>2. UNCHANGED <<scenario, gfx, proc, client, job>>
  BY <1>1 DEF processorVars, gfxVars, procVars
<1>3. /\ screen \in Frames /\ buf \in [Indices -> Frames] /\ cap \in Indices
      /\ unseen \in SUBSET Tiles /\ unreported \in SUBSET Tiles
      /\ 1 - cap \in Indices /\ 1 - cap # cap
  BY LoopFields DEF PipelineInv, LoopTypes
<1>4. unreported' \in SUBSET Tiles /\ unreported \subseteq unreported'
  BY <1>1, <1>3
<1>5. /\ buf' \in [Indices -> Frames] /\ buf'[cap] = screen /\ buf'[1 - cap] = buf[1 - cap]
  BY <1>1, <1>3
<1>6. PICK kind \in Kinds, stage \in {"asked", "offered", "copy", "none"} :
        kind = "ready" /\ stage = "none"
  BY DEF Kinds
<1>7. /\ wire' \in Seq(EventSet) /\ request' \in RequestSet /\ WireInOrder'
      /\ \A d : ~Reports(d)
      /\ \A d : Reports(d)' <=> d = reported
  <2>1. /\ wire' = Event(kind, reported) /\ request' = [request EXCEPT !.stage = stage]
        /\ request.stage # "none" /\ state' = state
    BY <1>1, <1>6
  <2>2. /\ wire' \in Seq(EventSet) /\ request' \in RequestSet /\ WireInOrder'
        /\ \A d : ~Reports(d)
        /\ \A d : Reports(d)' <=> kind = "ready" /\ d = reported
    BY <1>2, <1>4, <1>6, <2>1, EventAppended
  <2> QED
    BY <1>6, <2>2
<1>8. /\ ProcessorTypes' /\ StaleCovered' /\ DamageCovered' /\ ReferenceIsShown'
      /\ EncoderKept' /\ ChainIntact' /\ BackendRespected'
  BY <1>1, <1>4, ProcessorStays
<1>9. JobShape' /\ FrameHeld' /\ NothingCaptured'
  BY <1>1, <1>5, FramesStay DEF PipelineInv, JobShape
<1>10. LoopTypes'
  BY <1>1, <1>4, <1>5, <1>7 DEF PipelineInv, LoopTypes
<1>11. \A t \in Tiles : screen[t] >= 1
  BY DEF PipelineInv, VersionsGrow
<1>12. CopyCovered'
  <2>1. (~zeroCopy /\ captured # Blank) =>
          \A t \in Tiles : screen[t] # captured[t] => t \in reported \cup unreported'
    BY <1>1, <1>7 DEF PipelineInv, ScreenCovered
  <2> QED
    BY <1>1, <1>5, <1>7, <1>11, <2>1 DEF CopyCovered, Blank
<1>13. ScreenCovered'
  BY <1>7 DEF ScreenCovered
<1>14. VersionsGrow'
  <2>1. Older(client.shown, screen) /\ \A i \in Indices : Older(buf[i], screen)
    BY DEF PipelineInv, VersionsGrow
  <2>2. Older(screen, screen)
    BY LoopFields DEF PipelineInv, Older, Pictures
  <2>3. \A i \in Indices : Older(buf'[i], screen)
    BY <1>3, <1>5, <2>1, <2>2 DEF Indices
  <2>4. (job.pc # "idle" \/ deferred # NoFrame) => Older(client.shown, buf[1 - cap])
    BY DEF PipelineInv, VersionsGrow
  <2> QED
    BY <1>1, <1>2, <1>3, <1>5, <1>7, <1>11, <2>1, <2>3, <2>4 DEF VersionsGrow, Older
<1> QED
  BY <1>2, <1>7, <1>8, <1>9, <1>10, <1>12, <1>13, <1>14 DEF PipelineInv

-----------------------------------------------------------------------------
(* The loop between two frames.                                            *)

(* A step that takes no copy, and touches no frame, keeps the invariant    *)
(* when it keeps the order of the events.                                  *)
LEMMA SameReportsKept ==
  ASSUME PipelineInv, \A d : Reports(d)' <=> Reports(d), WireInOrder',
         UNCHANGED <<processorVars, dma, screen, unseen, buf, cap, deferred, streak>>,
         UNCHANGED <<captured, unreported, zeroCopy>>,
         wire' \in Seq(EventSet), request' \in RequestSet, state' \in StateSet,
         pacer' \in BOOLEAN, stop' \in BOOLEAN, layout' \in Nat, procLayout' \in Nat,
         ended' = ended \/ (job.pc = "idle" /\ ended' \in Ends \ {"no"})
  PROVE  PipelineInv' /\ client' = client
<1>1. UNCHANGED <<scenario, gfx, proc, client, job>>
  BY DEF processorVars, gfxVars, procVars
<1>2. ended' = "no" => ended = "no"
  OBVIOUS
<1>3. /\ ProcessorTypes' /\ StaleCovered' /\ DamageCovered' /\ ReferenceIsShown'
      /\ EncoderKept' /\ ChainIntact' /\ BackendRespected'
  BY <1>2, ProcessorStays
<1>4. ended' # "no" => job.pc = "idle"
  BY DEF PipelineInv, JobShape
<1>5. JobShape' /\ FrameHeld' /\ NothingCaptured'
  BY <1>4, FramesStay
<1>6. LoopTypes'
  BY <1>2 DEF PipelineInv, LoopTypes, Ends
<1>7. CopyCovered'
  BY DEF PipelineInv, CopyCovered, Blank
<1>8. ScreenCovered'
  BY <1>2 DEF PipelineInv, ScreenCovered, Blank
<1>9. VersionsGrow'
  BY <1>1 DEF PipelineInv, VersionsGrow, Older
<1> QED
  BY <1>1, <1>3, <1>5, <1>6, <1>7, <1>8, <1>9 DEF PipelineInv

(* Neither the display, the pacer nor the stop flag touch a frame.         *)
LEMMA OwnerKept ==
  ASSUME PipelineInv, UNCHANGED dma, LayoutChanges \/ StopRequested \/ PacerOpens \/ LeaveLoop
  PROVE  PipelineInv' /\ client' = client
<1>1. /\ UNCHANGED <<processorVars, compositorVars, cap, state, deferred, streak, procLayout>>
      /\ UNCHANGED <<captured, unreported, zeroCopy>>
      /\ ended' = ended \/ (job.pc = "idle" /\ ended' = "ok")
      /\ layout' \in {layout, layout + 1} /\ stop' \in {stop, TRUE} /\ pacer' \in {pacer, TRUE}
  BY DEF LayoutChanges, StopRequested, PacerOpens, LeaveLoop, Running, loopVars
<1>2. UNCHANGED <<screen, unseen, buf, request, wire, scenario>>
  BY <1>1 DEF compositorVars, processorVars
<1>3. \A d : Reports(d)' <=> Reports(d)
  BY <1>1, <1>2 DEF Reports
<1>4. WireInOrder'
  BY <1>1, <1>2 DEF PipelineInv, WireInOrder, Wlr
<1>5. /\ wire' \in Seq(EventSet) /\ request' \in RequestSet /\ state' \in StateSet
      /\ pacer' \in BOOLEAN /\ stop' \in BOOLEAN /\ layout' \in Nat /\ procLayout' \in Nat
  <2>1. /\ wire' \in Seq(EventSet) /\ request' \in RequestSet /\ state' \in StateSet
        /\ layout' \in Nat /\ procLayout' \in Nat
    BY <1>1, <1>2 DEF PipelineInv, LoopTypes
  <2>2. pacer \in BOOLEAN /\ stop \in BOOLEAN
    BY DEF PipelineInv, LoopTypes
  <2>3. pacer' \in BOOLEAN /\ stop' \in BOOLEAN
    BY <1>1, <2>2, Zenon
  <2> QED
    BY <2>1, <2>3
<1>6. ended' = ended \/ (job.pc = "idle" /\ ended' \in Ends \ {"no"})
  BY <1>1 DEF Ends
<1> QED
  BY <1>1, <1>2, <1>3, <1>4, <1>5, <1>6, SameReportsKept

(* Dispatch: a completed copy passes from the wire to the loop, and        *)
(* nothing else reports one.                                               *)
LEMMA DispatchKept ==
  ASSUME PipelineInv, UNCHANGED dma, Dispatch
  PROVE  PipelineInv' /\ client' = client
<1> DEFINE event == Head(wire)
<1>1. /\ state.done = "no" /\ wire # <<>> /\ wire' = Tail(wire) /\ Running
      /\ UNCHANGED <<processorVars, screen, unseen, buf, request, cap, deferred, pacer, streak>>
      /\ UNCHANGED <<procLayout, captured, unreported, layout, stop, zeroCopy>>
  BY DEF Dispatch
<1>2. wire \in Seq(EventSet) /\ state \in StateSet /\ request \in RequestSet
  BY DEF PipelineInv, LoopTypes
<1>3. UNCHANGED scenario
  BY <1>1 DEF processorVars
<1>4. /\ event \in EventSet /\ event = wire[1] /\ Len(wire) \in Nat /\ Len(wire) >= 1
      /\ wire' \in Seq(EventSet) /\ Len(wire') = Len(wire) - 1
      /\ \A i \in 1..Len(wire') : wire'[i] = wire[i + 1] /\ i + 1 \in 1..Len(wire)
  BY <1>1, <1>2
<1>5. event.kind \in Kinds /\ event.damage \in SUBSET Tiles
  BY <1>4 DEF EventSet
<1>6. /\ ~Wlr => \A i \in 1..Len(wire) : wire[i].id = request.id
      /\ \A i \in 1..Len(wire) : (wire[i].id = request.id /\ wire[i].kind \in Completions) =>
           i = Len(wire) /\ request.stage = "none" /\ state.done = "no"
      /\ \A i \in 1..Len(wire) : (wire[i].id # request.id \/ wire[i].kind # "ready") =>
           wire[i].damage \subseteq unreported
  BY DEF PipelineInv, WireInOrder
<1>7. /\ ~Wlr => \A i \in 1..Len(wire') : wire'[i].id = request.id
      /\ \A i \in 1..Len(wire') : (wire'[i].id = request.id /\ wire'[i].kind \in Completions) =>
           i = Len(wire') /\ request.stage = "none"
      /\ \A i \in 1..Len(wire') : (wire'[i].id # request.id \/ wire'[i].kind # "ready") =>
           wire'[i].damage \subseteq unreported
  <2>1. ~Wlr => \A i \in 1..Len(wire') : wire'[i].id = request.id
    BY <1>4, <1>6
  <2>2. ASSUME NEW i \in 1..Len(wire')
        PROVE  /\ (wire'[i].id = request.id /\ wire'[i].kind \in Completions) =>
                    i = Len(wire') /\ request.stage = "none"
               /\ (wire'[i].id # request.id \/ wire'[i].kind # "ready") =>
                    wire'[i].damage \subseteq unreported
    <3>1. i + 1 \in 1..Len(wire) /\ wire'[i] = wire[i + 1]
      BY <1>4, <2>2
    <3>2. (wire'[i].id = request.id /\ wire'[i].kind \in Completions) =>
            i + 1 = Len(wire) /\ request.stage = "none"
      BY <1>6, <3>1
    <3>3. (wire'[i].id # request.id \/ wire'[i].kind # "ready") =>
            wire'[i].damage \subseteq unreported
      BY <1>6, <3>1
    <3> QED
      BY <1>4, <3>2, <3>3
  <2> QED
    BY <2>1, <2>2
<1>8. /\ wire' \in Seq(EventSet) /\ request' \in RequestSet /\ pacer' \in BOOLEAN
      /\ stop' \in BOOLEAN /\ layout' \in Nat /\ procLayout' \in Nat
  BY <1>1, <1>2, <1>4 DEF PipelineInv, LoopTypes
<1>9. CASE IsActiveFrameEvent(event.id) /\ event.kind \in Completions
  <2>1. event.id = request.id
    BY <1>4, <1>6, <1>9 DEF IsActiveFrameEvent
  <2>2. Len(wire) = 1 /\ request.stage = "none" /\ Len(wire') = 0 /\ wire' = <<>>
    BY <1>4, <1>6, <1>9, <2>1
  <2>3. /\ state' = [state EXCEPT !.done = event.kind, !.damage = event.damage]
        /\ UNCHANGED ended
    BY <1>9 DEF Dispatch, Completions
  <2>4. /\ state' \in StateSet /\ state'.done = event.kind /\ state'.damage = event.damage
    BY <1>2, <1>5, <1>9, <2>3 DEF StateSet
  <2>5. \A d : Reports(d) <=> event.kind = "ready" /\ d = event.damage
    BY <1>1, <1>4, <2>1, <2>2 DEF Reports
  <2>6. \A d : Reports(d)' <=> event.kind = "ready" /\ d = event.damage
    BY <2>2, <2>4 DEF Reports
  <2>7. WireInOrder'
    BY <1>1, <2>2 DEF WireInOrder
  <2> QED
    BY <1>1, <1>8, <2>3, <2>4, <2>5, <2>6, <2>7, SameReportsKept
<1>10. CASE ~(IsActiveFrameEvent(event.id) /\ event.kind \in Completions)
  <2>1. ~(event.id = request.id /\ event.kind = "ready")
    BY <1>10 DEF IsActiveFrameEvent, Completions
  <2>2. state' \in {state, [state EXCEPT !.info = TRUE]}
    BY <1>5, <1>10 DEF Dispatch, Completions, Kinds
  <2>3. ended' = ended \/ ended' = "restart"
    BY <1>5, <1>10 DEF Dispatch, Completions, Kinds
  <2>4. PICK t \in BOOLEAN : t = TRUE
    OBVIOUS
  <2>5. state' \in StateSet /\ state'.done = "no"
    BY <1>1, <1>2, <2>2, <2>4 DEF StateSet
  <2>6. WireInOrder'
    BY <1>1, <1>3, <1>7, <2>5 DEF WireInOrder, Wlr
  <2>7. ASSUME NEW d
        PROVE  Reports(d)' <=> Reports(d)
    <3>1. ASSUME Reports(d)
          PROVE  Reports(d)'
      <4>1. PICK i \in 1..Len(wire) :
              wire[i].kind = "ready" /\ wire[i].id = request.id /\ d = wire[i].damage
        BY <1>1, <3>1 DEF Reports
      <4>2. i # 1
        BY <1>4, <2>1, <4>1
      <4>3. i - 1 \in 1..Len(wire') /\ wire'[i - 1] = wire[i]
        BY <1>4, <4>1, <4>2
      <4> QED
        BY <1>1, <4>1, <4>3 DEF Reports
    <3>2. ASSUME Reports(d)'
          PROVE  Reports(d)
      <4>1. PICK i \in 1..Len(wire') :
              wire'[i].kind = "ready" /\ wire'[i].id = request.id /\ d = wire'[i].damage
        BY <1>1, <2>5, <3>2 DEF Reports
      <4> QED
        BY <1>4, <4>1 DEF Reports
    <3> QED
      BY <3>1, <3>2
  <2>8. ended' = ended \/ (job.pc = "idle" /\ ended' \in Ends \ {"no"})
    BY <1>1, <2>3 DEF Running, Ends
  <2> QED
    BY <1>1, <1>8, <2>5, <2>6, <2>7, <2>8, SameReportsKept
<1> QED
  BY <1>9, <1>10

(* The copy is requested once its buffer was offered: nothing reported it. *)
LEMMA RequestCopyKept ==
  ASSUME PipelineInv, UNCHANGED dma, RequestCopy
  PROVE  PipelineInv' /\ client' = client
<1>1. /\ state.done = "no" /\ request.stage = "offered"
      /\ request' = [request EXCEPT !.stage = "copy"]
      /\ UNCHANGED <<processorVars, screen, unseen, buf, wire, loopVars, layout, stop, zeroCopy>>
  BY DEF RequestCopy
<1>2. /\ UNCHANGED <<cap, state, deferred, pacer, streak, procLayout, ended, captured>>
      /\ UNCHANGED <<unreported, scenario>>
  BY <1>1 DEF loopVars, processorVars
<1>3. request' \in RequestSet /\ request'.id = request.id
  BY <1>1 DEF PipelineInv, LoopTypes, RequestSet
<1>4. \A d : Reports(d)' <=> Reports(d)
  BY <1>1, <1>2, <1>3 DEF Reports
<1>5. WireInOrder'
  BY <1>1, <1>2, <1>3 DEF PipelineInv, WireInOrder, Wlr
<1>6. /\ wire' \in Seq(EventSet) /\ state' \in StateSet /\ pacer' \in BOOLEAN
      /\ stop' \in BOOLEAN /\ layout' \in Nat /\ procLayout' \in Nat
  BY <1>1, <1>2 DEF PipelineInv, LoopTypes
<1> QED
  BY <1>1, <1>2, <1>3, <1>4, <1>5, <1>6, SameReportsKept

(* A new request: what is still on the wire is of the frame given up.      *)
LEMMA RequestFields ==
  ASSUME LoopTypes, NewRequest, state' = Waiting, UNCHANGED <<scenario, wire>>,
         wire = <<>> \/ Wlr,
         \A i \in 1..Len(wire) : wire[i].id # NextId /\ wire[i].damage \subseteq unreported'
  PROVE  /\ request' \in RequestSet /\ state' \in StateSet /\ WireInOrder'
         /\ \A d : ~Reports(d)'
<1>1. NextId \in FrameIds
  BY LoopFields DEF NextId, FrameIds
<1>2. FirstStage \in {"asked", "offered", "copy", "none"}
  BY DEF FirstStage
<1>3. request' \in RequestSet /\ request'.id = NextId
  BY <1>1, <1>2 DEF NewRequest, RequestSet
<1>4. PICK f \in BOOLEAN : f = FALSE
  OBVIOUS
<1>5. PICK none \in SUBSET Tiles : none = {}
  OBVIOUS
<1>6. state' = [done |-> "no", damage |-> none, info |-> f]
  BY <1>4, <1>5 DEF Waiting
<1>7. state' \in StateSet /\ state'.done = "no"
  BY <1>6 DEF StateSet
<1>8. \A d : ~Reports(d)'
  BY <1>3, <1>7 DEF Reports
<1>9. WireInOrder'
  <2>1. Len(wire') = Len(wire) /\ \A i \in 1..Len(wire) : wire'[i] = wire[i]
    OBVIOUS
  <2>2. ~Wlr' => Len(wire) = 0
    BY DEF Wlr
  <2>3. ~Wlr' => \A i \in 1..Len(wire') : wire'[i].id = request'.id
    BY <2>1, <2>2
  <2> QED
    BY <1>3, <1>7, <2>1, <2>3 DEF WireInOrder
<1> QED
  BY <1>3, <1>7, <1>8, <1>9

(* A frame is given up that did not come: the damage of a copy that is on  *)
(* its way becomes unreported.                                             *)
LEMMA StallKept ==
  ASSUME PipelineInv, UNCHANGED dma, Stall
  PROVE  PipelineInv' /\ client' = client
<1>1. /\ Running /\ ~zeroCopy /\ Wlr /\ state.done = "no" /\ NewRequest /\ state' = Waiting
      /\ \A i \in 1..Len(wire) : wire[i].id # NextId
      /\ unreported' = unreported \cup UNION {wire[i].damage : i \in 1..Len(wire)}
      /\ UNCHANGED <<processorVars, screen, unseen, buf, wire, cap, deferred, pacer, streak>>
      /\ UNCHANGED <<procLayout, ended, captured, layout, stop, zeroCopy>>
  BY DEF Stall, InLoop
<1>2. UNCHANGED <<scenario, gfx, proc, client, job>>
  BY <1>1 DEF processorVars, gfxVars, procVars
<1>3. /\ unreported \subseteq unreported' /\ unreported' \in SUBSET Tiles
      /\ \A i \in 1..Len(wire) : wire[i].damage \subseteq unreported'
  <2>1. \A i \in 1..Len(wire) : wire[i].damage \in SUBSET Tiles
    BY LoopFields DEF PipelineInv, EventSet
  <2>2. unreported \in SUBSET Tiles
    BY DEF PipelineInv, LoopTypes
  <2> QED
    BY <1>1, <2>1, <2>2
<1>4. /\ request' \in RequestSet /\ state' \in StateSet /\ WireInOrder'
      /\ \A d : ~Reports(d)'
  BY <1>1, <1>2, <1>3, RequestFields DEF PipelineInv
<1>5. /\ ProcessorTypes' /\ StaleCovered' /\ DamageCovered' /\ ReferenceIsShown'
      /\ EncoderKept' /\ ChainIntact' /\ BackendRespected'
  BY <1>1, <1>3, ProcessorStays
<1>6. JobShape' /\ FrameHeld' /\ NothingCaptured'
  BY <1>1, FramesStay DEF Running
<1>7. LoopTypes'
  BY <1>1, <1>3, <1>4 DEF PipelineInv, LoopTypes
<1>8. CopyCovered'
  BY <1>4 DEF CopyCovered
<1>9. ScreenCovered'
  <2>1. CASE \E d \in SUBSET Tiles : Reports(d)
    <3>1. PICK d \in SUBSET Tiles : Reports(d)
      BY <2>1
    <3>2. d \subseteq unreported'
      BY <1>1, <1>3, <3>1 DEF Reports
    <3>3. /\ \A t \in Tiles : screen[t] # buf[cap][t] => t \in unseen
          /\ captured # Blank =>
               \A t \in Tiles : buf[cap][t] # captured[t] => t \in d \cup unreported
      BY <1>1, <3>1 DEF PipelineInv, CopyCovered
    <3>4. captured # Blank =>
            \A t \in Tiles : screen[t] # captured[t] => t \in unseen \cup unreported'
      BY <1>3, <3>2, <3>3
    <3> QED
      BY <1>1, <3>4 DEF ScreenCovered, Blank
  <2>2. CASE ~ \E d \in SUBSET Tiles : Reports(d)
    BY <1>1, <1>3, <2>2 DEF PipelineInv, ScreenCovered, Running, Blank
  <2> QED
    BY <2>1, <2>2
<1>10. VersionsGrow'
  BY <1>1, <1>2, <1>4 DEF PipelineInv, VersionsGrow, Older
<1> QED
  BY <1>2, <1>4, <1>5, <1>6, <1>7, <1>8, <1>9, <1>10 DEF PipelineInv

(* A completed frame of which nothing is kept: it failed, or the zero-copy *)
(* loop turned it away.                                                    *)
LEMMA FrameDropped ==
  ASSUME PipelineInv, Running, state.done # "no", state.done = "ready" => zeroCopy,
         NewRequest, state' = Waiting,
         UNCHANGED <<processorVars, dma, screen, unseen, buf, wire, captured, unreported>>,
         UNCHANGED <<pacer, procLayout, layout, stop, zeroCopy>>,
         cap' \in {cap, 1 - cap}, deferred' = NoFrame, ended' \in Ends,
         streak' \in 0..MaxStreak, ended' = "no" => streak' < MaxStreak
  PROVE  PipelineInv' /\ client' = client
<1>1. UNCHANGED <<scenario, gfx, proc, client, job>>
  BY DEF processorVars, gfxVars, procVars
<1>2. /\ ended = "no" /\ job.pc = "idle" /\ wire = <<>>
  BY DEF Running, PipelineInv, WireInOrder
<1>3. \A i \in 1..Len(wire) : wire[i].id # NextId /\ wire[i].damage \subseteq unreported'
  BY <1>2
<1>4. /\ request' \in RequestSet /\ state' \in StateSet /\ WireInOrder'
      /\ \A d : ~Reports(d)'
  BY <1>1, <1>2, <1>3, RequestFields DEF PipelineInv
<1>5. /\ ProcessorTypes' /\ StaleCovered' /\ DamageCovered' /\ ReferenceIsShown'
      /\ EncoderKept' /\ ChainIntact' /\ BackendRespected'
  BY <1>2, ProcessorStays
<1>6. JobShape' /\ FrameHeld' /\ NothingCaptured'
  BY <1>1, <1>2
     DEF PipelineInv, JobShape, FrameHeld, NothingCaptured, Blank, ShmStages, DmaStages
<1>7. LoopTypes'
  <2>1. cap' \in Indices /\ NoFrame \in {0, 1, 2}
    BY LoopFields DEF PipelineInv, NoFrame
  <2> QED
    BY <1>4, <2>1 DEF PipelineInv, LoopTypes
<1>8. CopyCovered'
  BY <1>4 DEF CopyCovered
<1>9. ScreenCovered'
  <2>1. ~zeroCopy => \A d : ~Reports(d)
    BY <1>2 DEF Reports
  <2> QED
    BY <1>2, <2>1 DEF PipelineInv, ScreenCovered, Blank
<1>10. VersionsGrow'
  BY <1>1, <1>2, <1>4 DEF PipelineInv, VersionsGrow, Older
<1> QED
  BY <1>1, <1>4, <1>5, <1>6, <1>7, <1>8, <1>9, <1>10 DEF PipelineInv

(* A failed capture, in either loop, and a frame the zero-copy loop turns  *)
(* away.                                                                   *)
LEMMA FailedKept ==
  ASSUME PipelineInv,
         (CompleteFailed /\ UNCHANGED dma) \/ DmabufFailed \/ DmabufSkipped
  PROVE  PipelineInv' /\ client' = client
<1>1. /\ streak \in 0..MaxStreak /\ MaxStreak \in Nat
      /\ ended = "no" => streak < MaxStreak
  BY LoopAssumption DEF PipelineInv, LoopTypes
<1>2. CASE CompleteFailed /\ UNCHANGED dma
  <2>1. /\ InLoop /\ state.done \in Failures /\ NewRequest /\ state' = Waiting
        /\ deferred' = NoFrame
        /\ UNCHANGED <<processorVars, screen, unseen, buf, wire, pacer, procLayout, captured>>
        /\ UNCHANGED <<unreported, layout, stop, zeroCopy>>
        /\ \/ ended' \in {"restart", "error"} /\ UNCHANGED <<cap, streak>>
           \/ /\ cap' = 1 - cap /\ streak' = streak + 1
              /\ ended' = IF streak + 1 >= MaxStreak THEN "restart" ELSE "no"
    BY <1>2 DEF CompleteFailed, DeferredAfterFailure
  <2>2. Running /\ ended = "no" /\ state.done # "no" /\ state.done # "ready"
    BY <2>1 DEF InLoop, Running, Failures
  <2>3. /\ cap' \in {cap, 1 - cap} /\ ended' \in Ends /\ streak' \in 0..MaxStreak
        /\ ended' = "no" => streak' < MaxStreak
    BY <1>1, <2>1, <2>2 DEF Ends
  <2> QED
    BY <1>2, <2>1, <2>2, <2>3, FrameDropped
<1>3. CASE DmabufFailed \/ DmabufSkipped
  <2>1. /\ Zero /\ state.done \in Failures \cup {"ready"} /\ NextRequest /\ Stays
        /\ UNCHANGED <<processorVars, pacer, layout, stop, dma>>
    BY <1>3 DEF DmabufFailed, DmabufSkipped
  <2>2. Running /\ ended = "no" /\ zeroCopy /\ state.done # "no"
    BY <2>1 DEF Zero, Running, Failures
  <2>3. /\ cap' = 1 - cap /\ NewRequest /\ state' = Waiting
        /\ UNCHANGED <<screen, unseen, buf, wire, zeroCopy, deferred, streak, procLayout>>
        /\ UNCHANGED <<captured, unreported, ended>>
    BY <2>1 DEF NextRequest, Stays
  <2>4. deferred' = NoFrame
    BY <2>2, <2>3 DEF PipelineInv, JobShape
  <2>5. /\ ended' \in Ends /\ streak' \in 0..MaxStreak
        /\ ended' = "no" => streak' < MaxStreak
    BY <1>1, <2>2, <2>3 DEF Ends
  <2> QED
    BY <2>1, <2>2, <2>3, <2>4, <2>5, FrameDropped
<1> QED
  BY <1>2, <1>3

(* What the loop makes of a frame that completed: its processor, which may *)
(* be a new one, with the damage of the frame queued.                      *)
LEMMA QueuedFields ==
  ASSUME PipelineInv, NEW damage \in Reported
  PROVE  LET p == QueueDamage(Refreshed, damage)
         IN  /\ damage \in {state.damage, Tiles} /\ damage \in SUBSET Tiles
             /\ p \in ProcSet
             /\ \/ Kept(proc, p) /\ p.gen = proc.gen /\ p.pending = proc.pending \cup damage
                \/ /\ ~p.sentFirst /\ p.ref = NoRef /\ p.gen = 0 /\ p.surface = 0
                   /\ p.enc.kind = "none"
<1>1. damage \in {state.damage, Tiles} /\ damage \in SUBSET Tiles
  BY LoopFields DEF PipelineInv, Reported, Promoted
<1>2. proc \in ProcSet
  BY DEF PipelineInv, ProcessorTypes
<1>3. PICK f \in BOOLEAN : f = FALSE
  OBVIOUS
<1>4. PICK n \in ProcSet : n = NewProcessor(FALSE)
  BY <1>3, NewProcessorFields
<1>5. ~n.sentFirst /\ n.ref = NoRef /\ n.gen = 0 /\ n.surface = 0 /\ n.enc.kind = "none"
  BY <1>3, <1>4, NewProcessorFields, NewEncoderFields DEF Backends
<1>6. Refreshed \in {proc, n}
  BY <1>4 DEF Refreshed
<1>7. PICK r \in ProcSet : r = Refreshed
  BY <1>2, <1>6
<1>8. PICK p : p = QueueDamage(r, damage)
  OBVIOUS
<1>9. p \in ProcSet /\ p.gen = r.gen /\ Kept(r, p) /\ p.pending = r.pending \cup damage
  BY <1>1, <1>7, <1>8, QueueDamageFields
<1> QED
  BY <1>1, <1>5, <1>6, <1>7, <1>8, <1>9 DEF Kept

(* While the channel and the client do nothing, an encoder keeps the chain *)
(* when it is left alone, given up or owes an IDR.                         *)
LEMMA EncoderStays ==
  ASSUME PipelineInv, UNCHANGED <<gfx, client>>,
         proc'.gen \in {0, proc.gen}, proc'.surface \in {0, proc.surface},
         \/ proc'.enc.kind = "none"
         \/ proc'.enc = proc.enc /\ proc'.surface = proc.surface,
         dma'.surface \in {0, dma.surface, gfx.gen},
         \/ dma'.enc.kind = "none" \/ dma'.enc.idr
         \/ dma'.enc = dma.enc /\ (dma'.surface = dma.surface \/ dma.surface = 0),
         ~dma'.ready => dma'.enc.kind = "none", job'.pc # "send",
         (job'.pc = "deliver" /\ job'.out = "frame") => dma'.enc.kind # "none"
  PROVE  EncoderKept'
<1>1. /\ gfx.ready => gfx.gen # 0
      /\ proc.gen <= gfx.gen /\ proc.surface <= gfx.gen /\ dma.surface <= gfx.gen
      /\ ChainKept(proc.enc, proc.surface) /\ ChainKept(dma.enc, dma.surface)
  BY DEF PipelineInv, EncoderKept
<1>2. gfx.gen \in Nat
  BY ProcessorFields DEF PipelineInv
<1>3. proc'.gen <= gfx'.gen /\ proc'.surface <= gfx'.gen /\ dma'.surface <= gfx'.gen
  BY <1>1, <1>2
<1>4. ChainKept(proc.enc, proc.surface)' /\ ChainKept(dma.enc, dma.surface)'
  BY <1>1 DEF ChainKept, SurfaceLives
<1> QED
  BY <1>1, <1>3, <1>4 DEF EncoderKept

(* A frame completed: it becomes the frame last captured, in the buffer    *)
(* that the compositor leaves alone, and whatever the client has not got   *)
(* of it is pending.                                                       *)
LEMMA CompleteReadyKept ==
  ASSUME PipelineInv, UNCHANGED dma, NEW damage \in Reported, CompleteReady(damage)
  PROVE  PipelineInv' /\ client' = client
<1> DEFINE Queued == QueueDamage(Refreshed, damage)
<1>1. /\ InLoop /\ state.done = "ready"
      /\ cap' = 1 - cap /\ NewRequest /\ state' = Waiting /\ streak' = 0 /\ procLayout' = layout
      /\ captured' = buf[cap] /\ proc' = Queued
      /\ unreported' = IF damage = Tiles THEN {} ELSE unreported
      /\ UNCHANGED <<scenario, gfxVars, lostChain, earlyBitmap, screen, unseen, buf, wire>>
      /\ UNCHANGED <<ended, layout, stop, zeroCopy>>
  BY DEF CompleteReady
<1>2. \/ deferred' = NoFrame /\ UNCHANGED <<job, pacer>>
      \/ deferred' = NoFrame /\ StartJob(cap) /\ pacer' = FALSE
      \/ deferred' = cap /\ UNCHANGED <<job, pacer>>
  BY DEF CompleteReady
<1>3. ended = "no" /\ job.pc = "idle" /\ ~zeroCopy /\ wire = <<>> /\ UNCHANGED <<gfx, client>>
  BY <1>1 DEF InLoop, Running, PipelineInv, WireInOrder, gfxVars
<1>4. /\ damage \in {state.damage, Tiles} /\ damage \in SUBSET Tiles /\ proc' \in ProcSet
      /\ \/ /\ Kept(proc, proc') /\ proc'.gen = proc.gen
            /\ proc'.pending = proc.pending \cup damage
         \/ /\ ~proc'.sentFirst /\ proc'.ref = NoRef /\ proc'.gen = 0 /\ proc'.surface = 0
            /\ proc'.enc.kind = "none"
  BY <1>1, QueuedFields
<1> HIDE DEF Queued
<1>5. /\ screen \in Pictures /\ buf \in [Indices -> Frames] /\ cap \in Indices
      /\ 1 - cap \in Indices /\ 1 - (1 - cap) = cap /\ state.damage \in SUBSET Tiles
      /\ cap # NoFrame
  BY LoopFields DEF PipelineInv, LoopTypes, Indices, NoFrame
<1>6. /\ job' \in JobSet
      /\ \/ job'.pc = "idle" \/ (job'.pc = "begin" /\ job'.idx = cap /\ deferred' = NoFrame)
      /\ deferred' \in {cap, NoFrame} /\ (deferred' # NoFrame => job'.pc = "idle")
  <2>1. PICK pc \in Stages : pc = "begin"
    BY DEF Stages
  <2>2. PICK j : j = [IdleJob EXCEPT !.pc = pc, !.idx = cap]
    OBVIOUS
  <2>3. j \in JobSet /\ j.pc = pc /\ j.idx = cap
    BY <1>5, <2>2, IdleJobFields
  <2>4. StartJob(cap) => job' = j
    BY <2>1, <2>2 DEF StartJob
  <2>5. job \in JobSet
    BY DEF PipelineInv, ProcessorTypes
  <2> QED
    BY <1>2, <1>3, <2>1, <2>3, <2>4, <2>5
<1>7. Reports(state.damage)
  BY <1>1 DEF Reports
<1>8. /\ \A t \in Tiles : buf[cap][t] >= 1
      /\ \A t \in Tiles : screen[t] # buf[cap][t] => t \in unseen
      /\ captured # Blank =>
           \A t \in Tiles : buf[cap][t] # captured[t] => t \in state.damage \cup unreported
  BY <1>3, <1>5, <1>7 DEF PipelineInv, CopyCovered
<1>9. captured' # Blank
  BY <1>1, <1>8, ProcessorAssumption DEF Blank
<1>10. \A i \in 1..Len(wire) : wire[i].id # NextId /\ wire[i].damage \subseteq unreported'
  BY <1>3
<1>11. /\ request' \in RequestSet /\ state' \in StateSet /\ WireInOrder'
       /\ \A d : ~Reports(d)'
  BY <1>1, <1>3, <1>10, RequestFields DEF PipelineInv
<1>12. ProcessorTypes'
  BY <1>1, <1>3, <1>4, <1>6 DEF PipelineInv, ProcessorTypes, gfxVars
<1>13. StaleCovered'
  <2>1. SUFFICES ASSUME proc'.sentFirst, proc'.gen = gfx.gen, NEW t \in Tiles,
                        client.shown[t] # buf[cap][t]
                 PROVE  t \in proc'.pending \cup unreported'
    BY <1>1, <1>3 DEF StaleCovered
  <2>2. /\ proc.sentFirst /\ proc.gen = gfx.gen /\ proc'.pending = proc.pending \cup damage
    BY <1>4, <2>1 DEF Kept
  <2>3. captured # Blank
    BY <1>3, <2>2 DEF PipelineInv, NothingCaptured
  <2>4. client.shown[t] # captured[t] => t \in proc.pending \cup unreported
    BY <1>3, <2>2 DEF PipelineInv, StaleCovered
  <2>5. t \in proc.pending \cup unreported \cup state.damage
    BY <1>8, <2>1, <2>3, <2>4
  <2> QED
    BY <1>1, <1>4, <2>2, <2>5
<1>14. DamageCovered'
  BY <1>6 DEF DamageCovered
<1>15. ReferenceIsShown'
  BY <1>1, <1>3, <1>4 DEF PipelineInv, ReferenceIsShown, Kept, NoRef
<1>16. EncoderKept' /\ ChainIntact'
  <2>1. /\ proc'.gen \in {0, proc.gen} /\ proc'.surface \in {0, proc.surface}
        /\ \/ proc'.enc.kind = "none"
           \/ proc'.enc = proc.enc /\ proc'.surface = proc.surface
    BY <1>4 DEF Kept
  <2>2. ~dma'.ready => dma'.enc.kind = "none"
    BY DEF PipelineInv, EncoderKept
  <2>3. job'.pc # "send" /\ job'.pc # "deliver"
    BY <1>6
  <2> QED
    BY <1>1, <1>3, <2>1, <2>2, <2>3, EncoderStays DEF PipelineInv, ChainIntact
<1>17. BackendRespected'
  BY <1>1, <1>4, BackendStep DEF PipelineInv, Kept
<1>18. JobShape' /\ FrameHeld' /\ NothingCaptured'
  BY <1>1, <1>3, <1>5, <1>6, <1>9
     DEF JobShape, FrameHeld, NothingCaptured, ShmStages, DmaStages, Blank
<1>19. LoopTypes'
  <2>1. /\ streak' \in 0..MaxStreak /\ streak' < MaxStreak
    BY <1>1, LoopAssumption
  <2>2. deferred' \in {0, 1, 2} /\ pacer' \in BOOLEAN
    BY <1>2, <1>5 DEF PipelineInv, LoopTypes, NoFrame, Indices
  <2>3. captured' \in Frames /\ unreported' \in SUBSET Tiles
    BY <1>1, <1>5 DEF PipelineInv, LoopTypes
  <2> QED
    BY <1>1, <1>5, <1>11, <2>1, <2>2, <2>3 DEF PipelineInv, LoopTypes
<1>20. CopyCovered'
  BY <1>11 DEF CopyCovered
<1>21. ScreenCovered'
  BY <1>1, <1>8 DEF ScreenCovered
<1>22. VersionsGrow'
  <2>1. Older(client.shown, buf[cap])
    BY <1>5, <1>7 DEF PipelineInv, VersionsGrow
  <2> QED
    BY <1>1, <1>3, <1>5, <1>11, <2>1 DEF PipelineInv, VersionsGrow, Older
<1> QED
  BY <1>3, <1>11, <1>12, <1>13, <1>14, <1>15, <1>16, <1>17, <1>18, <1>19, <1>20, <1>21, <1>22
     DEF PipelineInv

(* process is called for the deferred frame, or has returned: the frame is *)
(* still the one last captured.                                            *)
LEMMA CallBeginsOrEnds ==
  ASSUME PipelineInv, UNCHANGED dma, FlushDeferred \/ ProcessDone
  PROVE  PipelineInv' /\ client' = client
<1>1. /\ UNCHANGED <<scenario, gfxVars, proc, lostChain, earlyBitmap, compositorVars, cap>>
      /\ UNCHANGED <<state, streak, procLayout, captured, unreported, layout, stop, zeroCopy>>
      /\ ended = "no" /\ (pacer' = FALSE \/ UNCHANGED pacer)
      /\ \/ /\ job.pc = "idle" /\ deferred # NoFrame /\ ~zeroCopy /\ StartJob(deferred)
            /\ UNCHANGED <<deferred, ended>>
         \/ /\ job.pc = "done" /\ job' = IdleJob /\ deferred' = NoFrame
            /\ ended' = IF job.continue THEN "no" ELSE "ok"
  BY DEF FlushDeferred, ProcessDone, InLoop, Running
<1>2. UNCHANGED <<screen, unseen, buf, request, wire, gfx, client, graceOver>>
  BY <1>1 DEF compositorVars, gfxVars
<1>3. /\ cap \in Indices /\ 1 - cap \in Indices /\ ended' \in Ends /\ pacer' \in BOOLEAN
      /\ deferred' \in {0, 1, 2}
  <2>1. cap \in Indices /\ 1 - cap \in Indices
    BY LoopFields DEF PipelineInv
  <2>2. ended' \in Ends /\ deferred' \in {0, 1, 2}
    BY <1>1 DEF PipelineInv, LoopTypes, Ends, NoFrame
  <2>3. pacer \in BOOLEAN
    BY DEF PipelineInv, LoopTypes
  <2> QED
    BY <1>1, <2>1, <2>2, <2>3
<1>4. deferred # NoFrame => deferred = 1 - cap
  BY DEF PipelineInv, FrameHeld
<1>5. /\ job' \in JobSet
      /\ \/ job.pc = "done" /\ job'.pc = "idle" /\ deferred' = NoFrame
         \/ /\ job.pc = "idle" /\ job'.pc = "begin" /\ job'.idx = 1 - cap
            /\ deferred # NoFrame /\ deferred' = deferred /\ ended' = "no" /\ ~zeroCopy
  <2>1. PICK i \in Indices : i = 1 - cap
    BY <1>3
  <2>2. PICK pc \in Stages : pc = "begin"
    BY DEF Stages
  <2>3. /\ IdleJob \in JobSet /\ IdleJob.pc = "idle"
        /\ [IdleJob EXCEPT !.pc = pc, !.idx = i] \in JobSet
        /\ [IdleJob EXCEPT !.pc = pc, !.idx = i].pc = pc
        /\ [IdleJob EXCEPT !.pc = pc, !.idx = i].idx = i
    BY IdleJobFields
  <2>4. \/ job.pc = "done" /\ job' = IdleJob /\ deferred' = NoFrame
        \/ /\ job.pc = "idle" /\ job' = [IdleJob EXCEPT !.pc = pc, !.idx = i]
           /\ deferred # NoFrame /\ deferred' = deferred /\ ended' = "no" /\ ~zeroCopy
    BY <1>1, <1>4, <2>1, <2>2 DEF StartJob
  <2> QED
    BY <2>1, <2>2, <2>3, <2>4
<1>6. \A d : Reports(d)' <=> Reports(d)
  BY <1>1, <1>2 DEF Reports
<1>7. ProcessorTypes'
  BY <1>1, <1>2, <1>5 DEF PipelineInv, ProcessorTypes
<1>8. StaleCovered'
  <2>1. ended' = "no" => ~(job.pc = "done" /\ ~job.continue)
    BY <1>1
  <2> QED
    BY <1>1, <1>2, <2>1 DEF PipelineInv, StaleCovered
<1>9. DamageCovered' /\ ReferenceIsShown'
  BY <1>1, <1>2, <1>5 DEF PipelineInv, DamageCovered, ReferenceIsShown, NoRef
<1>10. EncoderKept' /\ ChainIntact' /\ BackendRespected'
  BY <1>1, <1>2, <1>5
     DEF PipelineInv, EncoderKept, ChainKept, SurfaceLives, ChainIntact, BackendRespected
<1>11. JobShape' /\ FrameHeld' /\ NothingCaptured'
  <2>1. zeroCopy => deferred' = NoFrame
    BY <1>5 DEF PipelineInv, JobShape
  <2>2. JobShape'
    BY <1>1, <1>5, <2>1 DEF JobShape, ShmStages, DmaStages
  <2>3. FrameHeld'
    BY <1>1, <1>2, <1>4, <1>5 DEF PipelineInv, FrameHeld
  <2>4. NothingCaptured'
    BY <1>1, <1>5 DEF PipelineInv, NothingCaptured, Blank
  <2> QED
    BY <2>2, <2>3, <2>4
<1>12. LoopTypes'
  BY <1>1, <1>2, <1>3 DEF PipelineInv, LoopTypes
<1>13. WireInOrder'
  BY <1>1, <1>2 DEF PipelineInv, WireInOrder, Wlr
<1>14. CopyCovered' /\ ScreenCovered'
  BY <1>1, <1>2, <1>6 DEF PipelineInv, CopyCovered, ScreenCovered, Blank
<1>15. VersionsGrow'
  BY <1>1, <1>2, <1>5, <1>6 DEF PipelineInv, VersionsGrow, Older
<1> QED
  BY <1>2, <1>7, <1>8, <1>9, <1>10, <1>11, <1>12, <1>13, <1>14, <1>15 DEF PipelineInv

-----------------------------------------------------------------------------
(* The zero-copy loop.                                                     *)

(* A fall back starts over in shared memory, with the client's screen as   *)
(* it is.                                                                  *)
LEMMA FallBackKept ==
  ASSUME PipelineInv, ended = "no", FallBackToShm,
         UNCHANGED <<scenario, gfxVars, lostChain, earlyBitmap, screen, unseen, layout, stop>>
  PROVE  PipelineInv' /\ client' = client
<1>1. /\ zeroCopy' = FALSE /\ proc' = NewProcessor(scenario.resize) /\ cap' = 0
      /\ buf' = [i \in Indices |-> Blank] /\ request' = [id |-> NextId, stage |-> "copy"]
      /\ wire' = <<>> /\ state' = Waiting /\ deferred' = NoFrame /\ pacer' = TRUE
      /\ streak' = 0 /\ procLayout' = layout /\ captured' = Blank /\ unreported' = {}
      /\ job' = IdleJob /\ dma' = NewDma /\ ended' = ended
  BY DEF FallBackToShm
<1>2. UNCHANGED <<gfx, graceOver, client>>
  BY DEF gfxVars
<1>3. PICK resize \in BOOLEAN : resize = scenario.resize
  BY ProcessorFields DEF PipelineInv, Sessions
<1>4. /\ proc' \in ProcSet /\ proc'.gen = 0 /\ proc'.surface = 0 /\ proc'.enc.kind = "none"
      /\ proc'.ref = NoRef /\ ~proc'.sentFirst
  BY <1>1, <1>3, NewProcessorFields, NewEncoderFields DEF Backends
<1>5. dma' \in DmaSet /\ dma'.surface = 0 /\ dma'.enc.kind = "none"
  BY <1>1, NewDmaFields
<1>6. job' \in JobSet /\ job'.pc = "idle"
  <2>1. 0 \in Indices /\ "idle" \in Stages
    BY DEF Indices, Stages
  <2> QED
    BY <1>1, <2>1, IdleJobFields
<1>7. /\ request' \in RequestSet /\ state' \in StateSet /\ state'.done = "no"
  <2>1. NextId \in FrameIds
    BY LoopFields DEF PipelineInv, NextId, FrameIds
  <2>2. PICK f \in BOOLEAN : f = FALSE
    OBVIOUS
  <2>3. state' = [done |-> "no", damage |-> {}, info |-> f]
    BY <1>1, <2>2 DEF Waiting
  <2> QED
    BY <1>1, <2>1, <2>3 DEF RequestSet, StateSet
<1>8. \A d : ~Reports(d)'
  BY <1>1, <1>7 DEF Reports
<1>9. ProcessorTypes'
  BY <1>2, <1>4, <1>5, <1>6 DEF PipelineInv, ProcessorTypes
<1>10. StaleCovered' /\ DamageCovered' /\ ReferenceIsShown'
  BY <1>4, <1>6 DEF StaleCovered, DamageCovered, ReferenceIsShown, NoRef
<1>11. EncoderKept' /\ ChainIntact'
  <2>1. job'.pc # "send" /\ job'.pc # "deliver"
    BY <1>6
  <2> QED
    BY <1>2, <1>4, <1>5, <2>1, EncoderStays DEF PipelineInv, ChainIntact
<1>12. BackendRespected'
  BY <1>4, <1>5 DEF BackendRespected
<1>13. JobShape' /\ FrameHeld' /\ NothingCaptured'
  BY <1>1, <1>4, <1>6 DEF JobShape, FrameHeld, NothingCaptured, ShmStages, DmaStages
<1>14. LoopTypes'
  <2>1. Blank \in Frames /\ buf' \in [Indices -> Frames] /\ cap' \in Indices
    BY <1>1, BlankIsFrame DEF Indices
  <2>2. streak' \in 0..MaxStreak /\ streak' < MaxStreak /\ deferred' \in {0, 1, 2}
    BY <1>1, LoopAssumption DEF NoFrame
  <2>3. wire' \in Seq(EventSet)
    BY <1>1
  <2>4. captured' \in Frames /\ zeroCopy' \in BOOLEAN /\ pacer' \in BOOLEAN
    BY <1>1, <2>1
  <2> QED
    BY <1>1, <1>7, <2>1, <2>2, <2>3, <2>4 DEF PipelineInv, LoopTypes
<1>15. WireInOrder'
  BY <1>1, <1>7 DEF WireInOrder
<1>16. CopyCovered' /\ ScreenCovered'
  BY <1>1, <1>8 DEF CopyCovered, ScreenCovered, Blank
<1>17. VersionsGrow'
  <2>1. \A i \in Indices : Older(buf'[i], screen)
    BY <1>1, LoopFields DEF PipelineInv, Older, Blank, Pictures
  <2> QED
    BY <1>1, <1>2, <1>6, <1>8, <2>1 DEF PipelineInv, VersionsGrow, Older
<1> QED
  BY <1>2, <1>9, <1>10, <1>11, <1>12, <1>13, <1>14, <1>15, <1>16, <1>17 DEF PipelineInv

(* The geometry changed under the zero-copy loop.                          *)
LEMMA GeometryKept ==
  ASSUME PipelineInv, NEW decision, GeometryChanged(decision)
  PROVE  PipelineInv' /\ client' = client
<1>1. CASE FallBackToShm /\ UNCHANGED <<screen, unseen, lostChain, earlyBitmap>>
  BY <1>1, FallBackKept DEF GeometryChanged, Zero, Running
<1>2. CASE /\ UNCHANGED <<procVars, compositorVars, cap, state, deferred, pacer, streak>>
           /\ UNCHANGED <<captured, unreported, zeroCopy, dma>>
           /\ procLayout' \in {layout, procLayout}
           /\ ended' = ended \/ ended' = "restart"
  <2>1. UNCHANGED <<screen, unseen, buf, request, wire, processorVars, layout, stop, scenario>>
    BY <1>2 DEF compositorVars, processorVars, GeometryChanged
  <2>2. \A d : Reports(d)' <=> Reports(d)
    BY <1>2, <2>1 DEF Reports
  <2>3. WireInOrder'
    BY <1>2, <2>1 DEF PipelineInv, WireInOrder, Wlr
  <2>4. /\ wire' \in Seq(EventSet) /\ request' \in RequestSet /\ state' \in StateSet
        /\ pacer' \in BOOLEAN /\ stop' \in BOOLEAN /\ layout' \in Nat /\ procLayout' \in Nat
    BY <1>2, <2>1 DEF PipelineInv, LoopTypes
  <2>5. ended' = ended \/ (job.pc = "idle" /\ ended' \in Ends \ {"no"})
    BY <1>2 DEF Ends, GeometryChanged, Zero, Running
  <2> QED
    BY <1>2, <2>1, <2>2, <2>3, <2>4, <2>5, SameReportsKept
<1> QED
  BY <1>1, <1>2 DEF GeometryChanged

(* The zero-copy loop takes a completed frame.                             *)
LEMMA DmabufStartKept ==
  ASSUME PipelineInv, DmabufStart
  PROVE  PipelineInv' /\ client' = client
<1>1. /\ Running /\ zeroCopy /\ state.done = "ready" /\ pacer' = FALSE
      /\ cap' = 1 - cap /\ NewRequest /\ state' = Waiting
      /\ job' = [IdleJob EXCEPT !.pc = "refresh", !.idx = cap]
      /\ UNCHANGED <<screen, unseen, buf, wire, zeroCopy, deferred, streak, procLayout>>
      /\ UNCHANGED <<captured, unreported, ended, layout, stop, dma>>
      /\ UNCHANGED <<scenario, gfxVars, proc, lostChain, earlyBitmap>>
  BY DEF DmabufStart, Zero, NextRequest, Stays
<1>2. /\ ended = "no" /\ job.pc = "idle" /\ wire = <<>> /\ deferred = NoFrame
      /\ UNCHANGED <<gfx, client, graceOver>>
  BY <1>1 DEF Running, PipelineInv, WireInOrder, JobShape, gfxVars
<1>3. /\ cap \in Indices /\ 1 - cap \in Indices /\ 1 - (1 - cap) = cap
      /\ state.damage \in SUBSET Tiles
  BY LoopFields DEF PipelineInv, Indices
<1>4. job' \in JobSet /\ job'.pc = "refresh" /\ job'.idx = cap
  <2>1. PICK pc \in Stages : pc = "refresh"
    BY DEF Stages
  <2>2. job' = [IdleJob EXCEPT !.pc = pc, !.idx = cap]
    BY <1>1, <2>1
  <2>3. job' \in JobSet /\ job'.pc = pc /\ job'.idx = cap
    BY <1>3, <2>2, IdleJobFields
  <2> QED
    BY <2>1, <2>3
<1>5. \A i \in 1..Len(wire) : wire[i].id # NextId /\ wire[i].damage \subseteq unreported'
  BY <1>2
<1>6. /\ request' \in RequestSet /\ state' \in StateSet /\ WireInOrder'
      /\ \A d : ~Reports(d)'
  BY <1>1, <1>2, <1>5, RequestFields DEF PipelineInv
<1>7. ProcessorTypes'
  BY <1>1, <1>2, <1>4 DEF PipelineInv, ProcessorTypes
<1>8. StaleCovered' /\ DamageCovered' /\ ReferenceIsShown'
  BY <1>1, <1>4 DEF StaleCovered, DamageCovered, ReferenceIsShown
<1>9. EncoderKept' /\ ChainIntact' /\ BackendRespected'
  BY <1>1, <1>2, <1>4
     DEF PipelineInv, EncoderKept, ChainKept, SurfaceLives, ChainIntact, BackendRespected
<1>10. JobShape' /\ FrameHeld' /\ NothingCaptured'
  BY <1>1, <1>2, <1>3, <1>4 DEF JobShape, FrameHeld, NothingCaptured, ShmStages, DmaStages
<1>11. LoopTypes'
  BY <1>1, <1>3, <1>6 DEF PipelineInv, LoopTypes
<1>12. CopyCovered' /\ ScreenCovered'
  BY <1>1, <1>6 DEF CopyCovered, ScreenCovered
<1>13. VersionsGrow'
  <2>1. Older(client.shown, buf[cap])
    BY <1>1, <1>3 DEF PipelineInv, VersionsGrow, Reports
  <2> QED
    BY <1>1, <1>2, <1>3, <1>6, <2>1 DEF PipelineInv, VersionsGrow, Older
<1> QED
  BY <1>2, <1>6, <1>7, <1>8, <1>9, <1>10, <1>11, <1>12, <1>13 DEF PipelineInv

(* A step of a zero-copy frame that reaches no client.                     *)
LEMMA DmaCallKept ==
  ASSUME PipelineInv, job.pc \in DmaStages, NEW c,
         UNCHANGED <<scenario, gfxVars, proc, lostChain, earlyBitmap, compositorVars, cap>>,
         UNCHANGED <<state, pacer, zeroCopy, deferred, streak, procLayout, captured>>,
         UNCHANGED <<unreported, layout, stop>>,
         dma' \in DmaSet, dma'.surface \in {0, dma.surface, gfx.gen},
         \/ dma'.enc.kind = "none" \/ dma'.enc.idr
         \/ dma'.enc = dma.enc /\ (dma'.surface = dma.surface \/ dma.surface = 0),
         ~dma'.ready => dma'.enc.kind = "none",
         dma'.enc.kind \in {"none", dma.enc.kind} \/ dma'.enc.kind \in EncodersFor(c),
         job' \in JobSet, job'.pc = "idle" \/ (job'.pc \in DmaStages /\ job'.idx = job.idx),
         (job'.pc = "deliver" /\ job'.out = "frame") => dma'.enc.kind # "none",
         ended' = ended \/ (ended' = "ok" /\ job'.pc = "idle")
  PROVE  PipelineInv' /\ client' = client
<1>1. UNCHANGED <<screen, unseen, buf, request, wire, gfx, client, graceOver>>
  BY DEF compositorVars, gfxVars
<1>2. /\ zeroCopy /\ ended = "no" /\ deferred = NoFrame /\ job.pc # "idle"
  BY DEF PipelineInv, JobShape, DmaStages
<1>3. \A d : Reports(d)' <=> Reports(d)
  BY <1>1 DEF Reports
<1>4. ProcessorTypes'
  BY <1>1 DEF PipelineInv, ProcessorTypes
<1>5. StaleCovered' /\ ReferenceIsShown' /\ ScreenCovered'
  BY <1>2 DEF StaleCovered, ReferenceIsShown, ScreenCovered
<1>6. DamageCovered'
  BY DEF DamageCovered, DmaStages
<1>7. EncoderKept' /\ ChainIntact'
  <2>1. job'.pc # "send"
    BY DEF DmaStages
  <2> QED
    BY <1>1, <2>1, EncoderStays DEF PipelineInv, ChainIntact
<1>8. BackendRespected'
  BY BackendStep DEF PipelineInv
<1>9. JobShape' /\ FrameHeld' /\ NothingCaptured'
  BY <1>2 DEF PipelineInv, JobShape, FrameHeld, NothingCaptured, ShmStages, DmaStages
<1>10. LoopTypes'
  BY <1>1, <1>2 DEF PipelineInv, LoopTypes, Ends
<1>11. WireInOrder'
  BY <1>1 DEF PipelineInv, WireInOrder, Wlr
<1>12. CopyCovered'
  BY <1>1, <1>2, <1>3 DEF PipelineInv, CopyCovered
<1>13. VersionsGrow'
  BY <1>1, <1>2, <1>3 DEF PipelineInv, VersionsGrow, Older
<1> QED
  BY <1>1, <1>4, <1>5, <1>6, <1>7, <1>8, <1>9, <1>10, <1>11, <1>12, <1>13 DEF PipelineInv

(* The session is refreshed, ends the capture or gives up zero copy.       *)
LEMMA DmabufRefreshKept ==
  ASSUME PipelineInv, DmabufRefresh
  PROVE  PipelineInv' /\ client' = client
<1>1. /\ job.pc = "refresh" /\ ended = "no"
      /\ UNCHANGED <<scenario, gfxVars, lostChain, earlyBitmap, layout, stop>>
  BY DEF DmabufRefresh
<1>2. /\ job \in JobSet /\ dma \in DmaSet /\ gfx \in GfxSet
      /\ ~dma.ready => dma.enc.kind = "none"
  BY DEF PipelineInv, ProcessorTypes, EncoderKept
<1>3. job.pc \in DmaStages
  BY <1>1 DEF DmaStages
<1>4. IdleJob \in JobSet /\ IdleJob.pc = "idle"
  <2>1. 0 \in Indices /\ "idle" \in Stages
    BY DEF Indices, Stages
  <2> QED
    BY <2>1, IdleJobFields
<1>5. CASE /\ ended' = "ok" /\ job' = IdleJob
           /\ UNCHANGED <<proc, compositorVars, cap, state, deferred, pacer, streak>>
           /\ UNCHANGED <<procLayout, captured, unreported, zeroCopy, dma>>
  BY <1>1, <1>2, <1>3, <1>4, <1>5, DmaCallKept
<1>6. CASE FallBackToShm /\ UNCHANGED <<screen, unseen>>
  BY <1>1, <1>6, FallBackKept
<1>7. ASSUME NEW kind \in EncodersFor("avc420"), dma' = SessionRefreshed(dma, kind),
             job' = IdleJob \/ job' = [job EXCEPT !.pc = "convert"], JobStays, UNCHANGED proc
      PROVE  PipelineInv' /\ client' = client
  <2>1. kind \in Backends
    BY EncodersAreBackends
  <2>2. PICK d : d = SessionRefreshed(dma, kind)
    OBVIOUS
  <2>3. /\ d \in DmaSet /\ d.surface \in {0, dma.surface}
        /\ ~d.ready => d.enc.kind = "none"
        /\ \/ d.enc = NoEncoder \/ d.enc = NewEncoder(kind)
           \/ d.enc = dma.enc /\ (d.surface = dma.surface \/ dma.enc.kind = "none")
    BY <1>2, <2>1, <2>2, SessionFields
  <2>4. /\ NoEncoder.kind = "none" /\ NewEncoder(kind).kind = kind
        /\ kind # "none" => NewEncoder(kind).idr
    BY <2>1, NewEncoderFields
  <2>5. /\ d.enc.kind = "none" \/ d.enc.idr \/ (d.enc = dma.enc /\ d.surface = dma.surface)
        /\ d.enc.kind \in {"none", dma.enc.kind} \/ d.enc.kind \in EncodersFor("avc420")
    BY <1>7, <2>3, <2>4
  <2>6. PICK pc \in Stages : pc = "convert"
    BY DEF Stages
  <2>7. /\ [job EXCEPT !.pc = pc] \in JobSet /\ [job EXCEPT !.pc = pc].pc = pc
        /\ [job EXCEPT !.pc = pc].idx = job.idx
    BY <1>2, JobMoves
  <2>8. /\ job' \in JobSet /\ job'.pc # "deliver"
        /\ job'.pc = "idle" \/ (job'.pc \in DmaStages /\ job'.idx = job.idx)
    BY <1>4, <1>7, <2>6, <2>7 DEF DmaStages
  <2>9. /\ UNCHANGED <<compositorVars, cap, state, pacer, zeroCopy, deferred, streak>>
        /\ UNCHANGED <<procLayout, captured, unreported, ended>>
    BY <1>7 DEF JobStays, Stays
  <2> QED
    BY <1>1, <1>3, <1>7, <2>2, <2>3, <2>5, <2>8, <2>9, DmaCallKept
<1> QED
  BY <1>5, <1>6, <1>7 DEF DmabufRefresh

(* The frame is converted and encoded, on the surface of the session.      *)
LEMMA DmabufEncodeKept ==
  ASSUME PipelineInv, DmabufEncode
  PROVE  PipelineInv' /\ client' = client
<1> DEFINE Surface == [dma EXCEPT !.surface = IF @ = 0 /\ gfx.ready THEN gfx.gen ELSE @]
<1>1. /\ job.pc = "convert" /\ dma' = Surface
      /\ UNCHANGED <<scenario, gfxVars, proc, lostChain, earlyBitmap, shmVars>>
      /\ \/ job' = IdleJob
         \/ \E out \in IF Surface.enc.kind = "vaapi" THEN scenario.outcomes ELSE {"error"} :
              job' = [job EXCEPT !.pc = "deliver", !.out = out]
  BY DEF DmabufEncode
<1>2. /\ job \in JobSet /\ dma \in DmaSet /\ gfx \in GfxSet
      /\ ~dma.ready => dma.enc.kind = "none"
  BY DEF PipelineInv, ProcessorTypes, EncoderKept
<1>3. job.pc \in DmaStages
  BY <1>1 DEF DmaStages
<1>4. /\ Surface \in DmaSet /\ Surface.enc = dma.enc /\ Surface.ready = dma.ready
      /\ \/ Surface.surface = dma.surface
         \/ dma.surface = 0 /\ gfx.ready /\ Surface.surface = gfx.gen
  BY <1>2, DmaSurfaceFields
<1> HIDE DEF Surface
<1>5. IdleJob \in JobSet /\ IdleJob.pc = "idle"
  <2>1. 0 \in Indices /\ "idle" \in Stages
    BY DEF Indices, Stages
  <2> QED
    BY <2>1, IdleJobFields
<1>6. /\ job' \in JobSet
      /\ job'.pc = "idle" \/ (job'.pc \in DmaStages /\ job'.idx = job.idx)
      /\ (job'.pc = "deliver" /\ job'.out = "frame") => dma'.enc.kind # "none"
  <2>1. CASE job' = IdleJob
    BY <1>5, <2>1
  <2>2. ASSUME NEW out \in IF Surface.enc.kind = "vaapi" THEN scenario.outcomes ELSE {"error"},
               job' = [job EXCEPT !.pc = "deliver", !.out = out]
        PROVE  /\ job' \in JobSet /\ job'.pc \in DmaStages /\ job'.idx = job.idx
               /\ job'.out = "frame" => dma'.enc.kind # "none"
    <3>1. scenario.outcomes \subseteq Outcomes
      BY ProcessorFields DEF PipelineInv, Sessions
    <3>2. out \in Outcomes \cup {"none"} /\ (out = "frame" => Surface.enc.kind = "vaapi")
      BY <2>2, <3>1 DEF Outcomes
    <3>3. PICK pc \in Stages : pc = "deliver"
      BY DEF Stages
    <3>4. job' = [job EXCEPT !.pc = pc, !.out = out]
      BY <2>2, <3>3
    <3>5. job' \in JobSet
      BY <1>2, <3>2, <3>4 DEF JobSet
    <3>6. job'.pc = pc /\ job'.idx = job.idx /\ job'.out = out
      BY <1>2, <3>4 DEF JobSet
    <3> QED
      BY <1>1, <3>2, <3>3, <3>5, <3>6 DEF DmaStages
  <2> QED
    BY <1>1, <2>1, <2>2
<1>7. /\ UNCHANGED <<compositorVars, cap, state, pacer, zeroCopy, deferred, streak>>
      /\ UNCHANGED <<procLayout, captured, unreported, ended, layout, stop>>
  BY <1>1 DEF shmVars, loopVars
<1> QED
  BY <1>1, <1>2, <1>3, <1>4, <1>6, <1>7, DmaCallKept

(* A zero-copy frame reaches the client: it is newer than what the client  *)
(* shows, and continues the chain its decoder has, or starts one.          *)
LEMMA DmabufSentKept ==
  ASSUME PipelineInv, DmabufSend, DmabufSent
  PROVE  PipelineInv' /\ \A t \in Tiles : client'.shown[t] >= client.shown[t]
<1>1. /\ job.pc = "deliver" /\ job.out = "frame" /\ FrameReady /\ SurfaceLives(dma.surface)
      /\ dma' = [dma EXCEPT !.failures = 0, !.sentFirst = TRUE, !.enc.idr = FALSE,
                            !.enc.drift = @ /\ ~dma.enc.idr]
      /\ job' = IdleJob /\ JobStays /\ UNCHANGED proc
      /\ gfx' = [gfx EXCEPT !.inFlight = @ + 1]
      /\ client' = [shown |-> buf[job.idx], decoder |-> gfx.gen]
      /\ lostChain' = (lostChain \/ (~dma.enc.idr /\ (dma.enc.drift \/ client.decoder # gfx.gen)))
      /\ UNCHANGED <<scenario, graceOver, earlyBitmap, layout, stop>>
  BY DEF DmabufSend, DmabufSent
<1>2. /\ UNCHANGED <<compositorVars, cap, state, pacer, zeroCopy, deferred, streak>>
      /\ UNCHANGED <<procLayout, captured, unreported, ended>>
  BY <1>1 DEF JobStays, Stays
<1>3. UNCHANGED <<screen, unseen, buf, request, wire>>
  BY <1>2 DEF compositorVars
<1>4. /\ zeroCopy /\ ended = "no" /\ deferred = NoFrame /\ job.idx = 1 - cap
  BY <1>1 DEF PipelineInv, JobShape, FrameHeld, DmaStages
<1>5. /\ dma \in DmaSet /\ dma.enc \in Encoders /\ gfx \in GfxSet /\ gfx.gen \in 0..MaxGen
      /\ gfx.gen \in Nat
  BY ProcessorFields DEF PipelineInv
<1>6. buf \in [Indices -> Frames] /\ 1 - cap \in Indices
  BY LoopFields DEF PipelineInv, LoopTypes
<1>7. PICK d \in DmaSet : d = dma
  BY <1>5
<1>8. /\ dma' \in DmaSet /\ dma'.surface = dma.surface /\ dma'.ready = dma.ready
      /\ dma'.enc.kind = dma.enc.kind /\ ~dma'.enc.idr
      /\ dma'.enc.drift => dma.enc.drift /\ ~dma.enc.idr
  BY <1>1, <1>5, DmaSentFields
<1>9. gfx' \in GfxSet /\ gfx'.gen = gfx.gen /\ gfx'.ready = gfx.ready
  <2>1. PICK n \in 0..Window : n = gfx.inFlight + 1
    BY <1>1, <1>5, ProcessorAssumption DEF FrameReady, GfxSet
  <2>2. gfx' = [gfx EXCEPT !.inFlight = n]
    BY <1>1, <2>1
  <2> QED
    BY <1>5, <2>2 DEF GfxSet
<1>10. client' \in ClientSet /\ client'.shown = buf[1 - cap] /\ client'.decoder = gfx.gen
  BY <1>1, <1>4, <1>5, <1>6 DEF ClientSet
<1>11. job' \in JobSet /\ job'.pc = "idle"
  <2>1. 0 \in Indices /\ "idle" \in Stages
    BY DEF Indices, Stages
  <2> QED
    BY <1>1, <2>1, IdleJobFields
<1>12. \A e : Reports(e)' <=> Reports(e)
  BY <1>2, <1>3 DEF Reports
<1>13. /\ gfx.ready => gfx.gen # 0
       /\ proc.gen <= gfx.gen /\ proc.surface <= gfx.gen /\ dma.surface <= gfx.gen
       /\ ChainKept(proc.enc, proc.surface) /\ ChainKept(dma.enc, dma.surface)
       /\ ~dma.ready => dma.enc.kind = "none"
       /\ dma.enc.kind # "none" /\ ~lostChain
  BY <1>1 DEF PipelineInv, EncoderKept, ChainIntact
<1>14. ~dma.enc.idr => ~dma.enc.drift /\ client.decoder = gfx.gen
  BY <1>1, <1>13 DEF ChainKept
<1>15. ~lostChain' /\ ChainIntact'
  BY <1>1, <1>13, <1>14 DEF ChainIntact
<1>16. EncoderKept'
  <2>1. ChainKept(proc.enc, proc.surface)'
    BY <1>1, <1>9, <1>10, <1>13 DEF ChainKept, SurfaceLives
  <2>2. dma.surface # 0
    BY <1>1, <1>13 DEF SurfaceLives
  <2>3. ChainKept(dma.enc, dma.surface)'
    BY <1>8, <1>9, <1>10, <1>14, <2>2 DEF ChainKept
  <2> QED
    BY <1>1, <1>8, <1>9, <1>11, <1>13, <2>1, <2>3 DEF EncoderKept
<1>17. ProcessorTypes'
  BY <1>1, <1>8, <1>9, <1>10, <1>11, <1>15 DEF PipelineInv, ProcessorTypes
<1>18. StaleCovered' /\ DamageCovered' /\ ReferenceIsShown' /\ ScreenCovered'
  BY <1>2, <1>4, <1>11 DEF StaleCovered, DamageCovered, ReferenceIsShown, ScreenCovered
<1>19. BackendRespected'
  BY <1>1, <1>8 DEF PipelineInv, BackendRespected
<1>20. JobShape' /\ FrameHeld' /\ NothingCaptured'
  BY <1>2, <1>4, <1>11 DEF JobShape, FrameHeld, NothingCaptured, ShmStages, DmaStages
<1>21. LoopTypes' /\ WireInOrder' /\ CopyCovered'
  BY <1>1, <1>2, <1>3, <1>4, <1>12
     DEF PipelineInv, LoopTypes, WireInOrder, CopyCovered, Wlr
<1>22. Older(client.shown, buf[1 - cap])
  BY <1>1 DEF PipelineInv, VersionsGrow
<1>23. VersionsGrow'
  <2>1. /\ \A t \in Tiles : screen[t] >= 1
        /\ \A i \in Indices : Older(buf[i], screen)
        /\ \A e \in SUBSET Tiles : Reports(e) => Older(buf[1 - cap], buf[cap])
    BY DEF PipelineInv, VersionsGrow
  <2> QED
    BY <1>2, <1>3, <1>4, <1>6, <1>10, <1>11, <1>12, <2>1 DEF VersionsGrow, Older
<1>24. \A t \in Tiles : client'.shown[t] >= client.shown[t]
  <2>1. client.shown \in Frames /\ buf[1 - cap] \in Frames
    BY <1>6, ProcessorFields DEF PipelineInv
  <2> QED
    BY <1>10, <1>22, <2>1, ProcessorAssumption DEF Older, Frames, Versions
<1> QED
  BY <1>15, <1>16, <1>17, <1>18, <1>19, <1>20, <1>21, <1>23, <1>24 DEF PipelineInv

(* A zero-copy frame that is refused, lost or not made leaves the encoder  *)
(* owing an IDR, or ends zero copy.                                        *)
LEMMA DmabufUnsentKept ==
  ASSUME PipelineInv, DmabufSend, ~DmabufSent
  PROVE  PipelineInv' /\ client' = client
<1>1. /\ job.pc = "deliver" /\ client' = client
      /\ gfx' = [gfx EXCEPT !.inFlight = @] /\ lostChain' = (lostChain \/ FALSE)
      /\ UNCHANGED <<scenario, graceOver, earlyBitmap, layout, stop>>
  BY DEF DmabufSend
<1>2. /\ dma \in DmaSet /\ gfx \in GfxSet /\ lostChain \in BOOLEAN /\ ~lostChain
      /\ ~dma.ready => dma.enc.kind = "none"
      /\ dma.failures \in 0..MaxFailures
  BY DEF PipelineInv, ProcessorTypes, EncoderKept, ChainIntact, DmaSet
<1>3. gfx' = gfx
  BY <1>1, <1>2 DEF GfxSet
<1>4. lostChain' = lostChain
  BY <1>1, <1>2
<1>5. UNCHANGED gfxVars
  BY <1>1, <1>3 DEF gfxVars
<1>6. job.pc \in DmaStages
  BY <1>1 DEF DmaStages
<1>7. ended = "no"
  BY <1>1 DEF PipelineInv, JobShape
<1>8. CASE FallBackToShm /\ UNCHANGED <<screen, unseen>>
  BY <1>1, <1>4, <1>5, <1>7, <1>8, FallBackKept
<1>9. ASSUME NEW n \in 0..MaxFailures, dma' = DmabufIdr([dma EXCEPT !.failures = n]),
             job' = IdleJob, JobStays, UNCHANGED proc
      PROVE  PipelineInv' /\ client' = client
  <2>1. /\ dma' \in DmaSet /\ dma'.surface = dma.surface /\ dma'.ready = dma.ready
        /\ dma'.enc.kind = dma.enc.kind /\ dma'.enc.idr
    BY <1>2, <1>9, DmaIdrFields
  <2>2. job' \in JobSet /\ job'.pc = "idle"
    <3>1. 0 \in Indices /\ "idle" \in Stages
      BY DEF Indices, Stages
    <3> QED
      BY <1>9, <3>1, IdleJobFields
  <2>3. /\ UNCHANGED <<compositorVars, cap, state, pacer, zeroCopy, deferred, streak>>
        /\ UNCHANGED <<procLayout, captured, unreported, ended>>
    BY <1>9 DEF JobStays, Stays
  <2> QED
    BY <1>1, <1>2, <1>4, <1>5, <1>6, <1>9, <2>1, <2>2, <2>3, DmaCallKept
<1>10. CASE /\ dma' = DmabufUnsent([dma EXCEPT !.failures = 0]) /\ job' = IdleJob
            /\ JobStays /\ UNCHANGED proc
  <2>1. PICK n \in 0..MaxFailures : n = 0
    BY ProcessorAssumption
  <2> QED
    BY <1>9, <1>10, <2>1 DEF DmabufUnsent
<1>11. CASE /\ dma.failures + 1 < MaxFailures
            /\ dma' = DmabufIdr([dma EXCEPT !.failures = @ + 1]) /\ job' = IdleJob
            /\ JobStays /\ UNCHANGED proc
  <2>1. PICK n \in 0..MaxFailures : n = dma.failures + 1
    BY <1>2, <1>11, ProcessorAssumption
  <2>2. [dma EXCEPT !.failures = @ + 1] = [dma EXCEPT !.failures = n]
    BY <2>1
  <2> QED
    BY <1>9, <1>11, <2>1, <2>2
<1> QED
  BY <1>8, <1>10, <1>11 DEF DmabufSend

-----------------------------------------------------------------------------
(* The thread and its environment.                                         *)

(* Before the first frame: nothing captured, nothing shown.                *)
LEMMA InitKept == Init => PipelineInv
<1> SUFFICES ASSUME Init PROVE PipelineInv
  OBVIOUS
<1>1. /\ scenario \in Scenarios /\ graceOver = FALSE /\ job = IdleJob
      /\ gfx = [ready |-> FALSE, everReady |-> FALSE, gen |-> 0, codec |-> "none",
                forceFull |-> FALSE, inFlight |-> 0]
      /\ proc = NewProcessor(scenario.resize) /\ client = [shown |-> Blank, decoder |-> 0]
      /\ lostChain = FALSE /\ earlyBitmap = FALSE /\ dma = NewDma
  BY DEF Init, ProcessorInit, DmabufInit
<1>2. /\ screen = [t \in Tiles |-> 1] /\ unseen = Tiles /\ buf = [i \in Indices |-> Blank]
      /\ cap = 0 /\ request = [id |-> 0, stage |-> FirstStage] /\ wire = <<>>
      /\ state = Waiting /\ deferred = NoFrame /\ pacer = TRUE /\ streak = 0
      /\ layout = 0 /\ procLayout = 0 /\ stop = FALSE /\ ended = "no"
      /\ zeroCopy = (scenario.mode = "dmabuf") /\ captured = Blank /\ unreported = {}
  BY DEF Init, ShmInit
<1>3. PICK f \in BOOLEAN : f = FALSE
  OBVIOUS
<1>4. PICK resize \in BOOLEAN : resize = scenario.resize
  BY <1>1, ProcessorAssumption DEF Sessions
<1>5. /\ proc \in ProcSet /\ proc.gen = 0 /\ proc.surface = 0 /\ proc.enc.kind = "none"
      /\ proc.ref = NoRef /\ ~proc.sentFirst
  BY <1>1, <1>4, NewProcessorFields, NewEncoderFields DEF Backends
<1>6. dma \in DmaSet /\ dma.surface = 0 /\ dma.enc.kind = "none"
  BY <1>1, NewDmaFields
<1>7. job \in JobSet /\ job.pc = "idle"
  <2>1. 0 \in Indices /\ "idle" \in Stages
    BY DEF Indices, Stages
  <2> QED
    BY <1>1, <2>1, IdleJobFields
<1>8. gfx \in GfxSet /\ gfx.gen = 0 /\ gfx.ready = FALSE
  <2>1. gfx = [ready |-> f, everReady |-> f, gen |-> 0, codec |-> "none", forceFull |-> f,
               inFlight |-> 0]
    BY <1>1, <1>3
  <2>2. gfx \in GfxSet
    BY <2>1, ProcessorAssumption DEF GfxSet
  <2>3. gfx.gen = 0 /\ gfx.ready = f
    BY <2>1
  <2> QED
    BY <1>3, <2>2, <2>3
<1>9. client \in ClientSet /\ client.shown = Blank
  BY <1>1, BlankIsFrame, ProcessorAssumption DEF ClientSet
<1>10. request \in RequestSet /\ request.id = 0
  <2>1. FirstStage \in {"asked", "offered", "copy", "none"} /\ 0 \in FrameIds
    BY DEF FirstStage, FrameIds
  <2> QED
    BY <1>2, <2>1 DEF RequestSet
<1>11. state \in StateSet /\ state.done = "no"
  <2>1. state = [done |-> "no", damage |-> {}, info |-> f]
    BY <1>2, <1>3 DEF Waiting
  <2> QED
    BY <2>1 DEF StateSet
<1>12. \A d : ~Reports(d)
  BY <1>2, <1>11 DEF Reports
<1>13. ProcessorTypes
  BY <1>1, <1>5, <1>6, <1>7, <1>8, <1>9 DEF ProcessorTypes
<1>14. StaleCovered /\ DamageCovered /\ ReferenceIsShown
  BY <1>5, <1>7 DEF StaleCovered, DamageCovered, ReferenceIsShown
<1>15. EncoderKept /\ ChainIntact /\ BackendRespected
  BY <1>1, <1>5, <1>6, <1>7, <1>8
     DEF EncoderKept, ChainKept, ChainIntact, BackendRespected
<1>16. JobShape /\ FrameHeld /\ NothingCaptured
  BY <1>2, <1>5, <1>7 DEF JobShape, FrameHeld, NothingCaptured, ShmStages, DmaStages
<1>17. LoopTypes
  <2>1. screen \in Frames /\ buf \in [Indices -> Frames] /\ captured \in Frames
    BY <1>2, BlankIsFrame, ProcessorAssumption DEF Frames, Versions
  <2>2. cap \in Indices /\ deferred \in {0, 1, 2} /\ ended \in Ends /\ wire \in Seq(EventSet)
    BY <1>2 DEF Indices, NoFrame, Ends
  <2>3. streak \in 0..MaxStreak /\ streak < MaxStreak
    BY <1>2, LoopAssumption
  <2>4. zeroCopy \in BOOLEAN /\ pacer \in BOOLEAN /\ stop \in BOOLEAN
    BY <1>2
  <2> QED
    BY <1>2, <1>10, <1>11, <2>1, <2>2, <2>3, <2>4 DEF LoopTypes
<1>18. WireInOrder /\ CopyCovered /\ ScreenCovered
  BY <1>2, <1>11, <1>12 DEF WireInOrder, CopyCovered, ScreenCovered
<1>19. VersionsGrow
  <2>1. Older(Blank, screen)
    BY <1>2 DEF Older, Blank
  <2> QED
    BY <1>2, <1>7, <1>9, <1>12, <2>1 DEF VersionsGrow
<1> QED
  BY <1>13, <1>14, <1>15, <1>16, <1>17, <1>18, <1>19 DEF PipelineInv

(* What one step may do to the client's screen.                            *)
Forward == client'.shown = Blank \/ \A t \in Tiles : client'.shown[t] >= client.shown[t]

(* Every step keeps the invariant, and no step shows an older picture.     *)
LEMMA StepKept ==
  ASSUME PipelineInv, Next
  PROVE  PipelineInv' /\ Forward
<1>1. ASSUME client'.shown = client.shown
      PROVE  Forward
  <2>1. client.shown \in Frames
    BY ProcessorFields DEF PipelineInv
  <2> QED
    BY <1>1, <2>1, ProcessorAssumption DEF Forward, Frames, Versions
<1>2. CASE LoopNext /\ UNCHANGED dma
  <2>1. CASE Dispatch
    BY <1>1, <1>2, <2>1, DispatchKept
  <2>2. CASE RequestCopy \/ Stall
    BY <1>1, <1>2, <2>2, RequestCopyKept, StallKept
  <2>3. ASSUME NEW damage \in Reported, CompleteReady(damage)
        PROVE  PipelineInv' /\ Forward
    BY <1>1, <1>2, <2>3, CompleteReadyKept
  <2>4. CASE CompleteFailed
    BY <1>1, <1>2, <2>4, FailedKept
  <2>5. CASE FlushDeferred \/ ProcessDone
    BY <1>1, <1>2, <2>5, CallBeginsOrEnds
  <2>6. CASE ProcessStep
    BY <1>2, <2>6, ProcessStepKept DEF Forward
  <2>7. CASE LeaveLoop
    BY <1>1, <1>2, <2>7, OwnerKept
  <2> QED
    BY <1>2, <2>1, <2>2, <2>3, <2>4, <2>5, <2>6, <2>7 DEF LoopNext
<1>3. CASE DmabufNext
  <2>1. ASSUME NEW decision, GeometryChanged(decision)
        PROVE  PipelineInv' /\ Forward
    BY <1>1, <2>1, GeometryKept
  <2>2. CASE DmabufFailed \/ DmabufSkipped
    BY <1>1, <2>2, FailedKept
  <2>3. CASE DmabufStart \/ DmabufRefresh \/ DmabufEncode
    BY <1>1, <2>3, DmabufStartKept, DmabufRefreshKept, DmabufEncodeKept
  <2>4. CASE DmabufSend
    <3>1. CASE DmabufSent
      BY <2>4, <3>1, DmabufSentKept DEF Forward
    <3>2. CASE ~DmabufSent
      BY <1>1, <2>4, <3>2, DmabufUnsentKept
    <3> QED
      BY <3>1, <3>2
  <2> QED
    BY <1>3, <2>1, <2>2, <2>3, <2>4 DEF DmabufNext
<1>4. CASE EnvironmentNext
  <2>1. ended = "no" /\ UNCHANGED dma
    BY <1>4 DEF EnvironmentNext
  <2>2. CASE GraphicsNext /\ UNCHANGED shmVars
    BY <1>1, <2>1, <2>2, GraphicsKept DEF Forward
  <2>3. CASE CompositorNext
    <3>1. CASE Repaint \/ \E t \in Tiles : ScreenChanges(t)
      BY <1>1, <2>1, <3>1, ScreenKept
    <3>2. CASE \/ \E kind \in {"buffer", "resized"} : OfferBuffer(kind)
               \/ \E kind \in Failures : FailFrame(kind)
      BY <1>1, <2>1, <3>2, OtherEventKept
    <3>3. ASSUME NEW reported \in SUBSET Tiles, CopyScreen(reported)
          PROVE  PipelineInv' /\ Forward
      BY <1>1, <2>1, <3>3, CopyScreenKept
    <3> QED
      BY <2>3, <3>1, <3>2, <3>3 DEF CompositorNext
  <2>4. CASE LayoutChanges \/ StopRequested \/ PacerOpens
    BY <1>1, <2>1, <2>4, OwnerKept
  <2> QED
    BY <1>4, <2>2, <2>3, <2>4 DEF EnvironmentNext
<1> QED
  BY <1>2, <1>3, <1>4 DEF Next, ThreadNext

(* A step in which nothing happens keeps the invariant.                    *)
LEMMA StutterKept ==
  ASSUME PipelineInv, UNCHANGED vars
  PROVE  PipelineInv'
<1>1. UNCHANGED <<processorVars, shmVars, dma>>
  BY DEF vars
<1>2. UNCHANGED <<scenario, gfx, graceOver, client, proc, job, lostChain, earlyBitmap>>
  BY <1>1 DEF processorVars, gfxVars, procVars
<1>3. UNCHANGED <<compositorVars, loopVars, layout, stop, zeroCopy>>
  BY <1>1 DEF shmVars
<1>4. /\ UNCHANGED <<screen, unseen, buf, request, wire, cap, state, deferred, pacer, streak>>
      /\ UNCHANGED <<procLayout, ended, captured, unreported>>
  BY <1>3 DEF compositorVars, loopVars
<1>5. /\ LoopTypes' /\ WireInOrder' /\ CopyCovered' /\ ScreenCovered'
      /\ \A d : Reports(d)' <=> Reports(d)
  BY <1>1, <1>2, LoopUnchanged
<1>6. /\ wire' \in Seq(EventSet) /\ request' \in RequestSet /\ state' \in StateSet
      /\ pacer' \in BOOLEAN /\ stop' \in BOOLEAN /\ layout' \in Nat /\ procLayout' \in Nat
  BY <1>5 DEF LoopTypes
<1> QED
  BY <1>1, <1>3, <1>4, <1>5, <1>6, SameReportsKept

(* The whole invariant holds throughout every session.                     *)
THEOREM PipelineInvariant == Spec => []PipelineInv
<1>1. PipelineInv /\ [Next]_vars => PipelineInv'
  BY StepKept, StutterKept
<1> QED
  BY <1>1, InitKept, PTL DEF Spec

(* The state of the capture thread keeps its types.                        *)
THEOREM TypesKept == Spec => []TypeOK
<1>1. PipelineInv => TypeOK
  <2> SUFFICES ASSUME PipelineInv PROVE TypeOK
    OBVIOUS
  <2>1. ProcessorTypes /\ LoopTypes
    BY DEF PipelineInv
  <2>2. job.pc \in Stages /\ request.id \in FrameIds
    BY <2>1 DEF ProcessorTypes, LoopTypes, JobSet, RequestSet
  <2>3. deferred \in Indices \cup {NoFrame}
    BY <2>1 DEF LoopTypes, Indices, NoFrame
  <2> QED
    BY <2>1, <2>2, <2>3
       DEF TypeOK, ProcessorTypes, LoopTypes, GfxSet, ProcSet, ClientSet, Stages
<1> QED
  BY <1>1, PipelineInvariant, PTL

(* Damage is forgotten only once it was shown, for every screen, window,   *)
(* number of encoder failures and kind of session: no order of refused,    *)
(* failed, skipped, renegotiated and given up frames loses a tile that the *)
(* compositor reported (pending_damage of FrameProcessor).                 *)
THEOREM DamageIsKept == Spec => []StaleIsPending
<1>1. PipelineInv => StaleIsPending
  BY DEF PipelineInv, StaleCovered, StaleIsPending
<1> QED
  BY <1>1, PipelineInvariant, PTL

(* The damage detector compares with what the client shows, no P-frame is  *)
(* sent whose reference the client lacks, and no fall back replaces a      *)
(* forced backend, in either loop and across the change from one to the    *)
(* other.                                                                  *)
THEOREM EncoderStaysInStep == Spec => []EncoderFollows
<1>1. PipelineInv => EncoderFollows
  BY DEF PipelineInv, EncoderFollows
<1> QED
  BY <1>1, PipelineInvariant, PTL

(* The deferred frame is still the frame captured, a completed frame is    *)
(* the one asked for, and the client's screen never goes back in time,     *)
(* except to an empty one.                                                 *)
THEOREM FramesStayInOrder == Spec => FramesInOrder
<1>1. PipelineInv => DeferredIntact /\ CompletedIsCopied
  <2> SUFFICES ASSUME PipelineInv PROVE DeferredIntact /\ CompletedIsCopied
    OBVIOUS
  <2>1. DeferredIntact
    BY DEF PipelineInv, JobShape, FrameHeld, DeferredIntact
  <2>2. CompletedIsCopied
    BY DEF PipelineInv, WireInOrder, CompletedIsCopied
  <2> QED
    BY <2>1, <2>2
<1>2. PipelineInv /\ PipelineInv' /\ [Next]_vars =>
        [/\ DeferredIntact' /\ CompletedIsCopied'
         /\ client'.shown = Blank \/ \A t \in Tiles : client'.shown[t] >= client.shown[t]]_vars
  <2>1. PipelineInv' => DeferredIntact' /\ CompletedIsCopied'
    BY <1>1, PTL
  <2> QED
    BY <2>1, StepKept DEF Forward
<1>3. Spec => [][Next]_vars
  BY DEF Spec
<1> QED
  BY <1>2, <1>3, PipelineInvariant, PTL DEF FramesInOrder
===============================================================================
