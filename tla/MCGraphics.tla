------------------------------ MODULE MCGraphics ------------------------------
(***************************************************************************)
(* The graphics path: the flow control of its channel (EgfxFlow), the two  *)
(* encoders (Avc444, VideoEncoder) and the algorithms on regions, sizes    *)
(* and byte streams, which are functions of their input.  A behaviour      *)
(* either runs one of the first, the others resting, or holds one input of *)
(* an algorithm.                                                           *)
(***************************************************************************)
EXTENDS MCEgfxFlow, Avc444, VideoEncoder, Geometry, ClearCodec, H264

VARIABLES part, input

partVars == <<part, input>>
NoInput == <<>>

Stroke(x, y, pixel, damage) == [x |-> x, y |-> y, pixel |-> pixel, damage |-> damage]
MCStrokes ==
  {Stroke(3, 1, [Black EXCEPT !.u = 4], <<3, 1, 1, 1>>), Stroke(6, 1, [Black EXCEPT !.u = 4], <<6, 1, 1, 1>>),
   Stroke(4, 3, [Black EXCEPT !.v = 4], <<3, 3, 9, 9>>), Stroke(2, 0, [Black EXCEPT !.y = 4], <<2, -1, 1, 2>>)}

-----------------------------------------------------------------------------
(* Inputs of the algorithms.                                               *)

(* Damage, in and out of a frame of 9 by 4: apart, touching, nested, empty.*)
Rects ==
  {<<0, 0, 2, 2>>, <<2, 0, 2, 1>>, <<4, 0, 5, 4>>, <<-1, -1, 2, 2>>, <<8, 3, 5, 5>>, <<3, 1, 3, 2>>,
   <<1, 2, 4, 1>>, <<0, 3, 9, 1>>, <<6, 1, 1, 1>>, <<5, 5, 1, 1>>, <<7, 0, 0, 3>>, <<0, 1, 4, 2>>, <<5, 0, 2, 1>>}
DamageInputs == [damage : UNION {[1..n -> Rects] : n \in 1..3}, distance : {0, 2}]

ScaleSizes == {<<w, h>> : w \in 1..7, h \in 1..5}
ScaleInputs == [source : ScaleSizes, presentation : ScaleSizes]

SliceInputs == [idr : {TRUE}, number : {0}, id : 0..15] \cup [idr : {FALSE}, number : 1..255, id : {0}]

SetInputs ==
  [high : BOOLEAN, level : {30, 52}, width : {2, 16, 18, 640, 1366, 3840}, height : {2, 34, 480, 1080, 2160},
   references : {1}, fps : {1, 30, 144},
   picInitQp : {RateControl(8000000, quality, mode).picInitQp : quality \in {0, 60}, mode \in {"vbr", "cqp"}}]

(* Units of one to three bytes: headers of each type and payloads that end *)
(* in anything but zero, as H.264 requires.                                *)
Units == {<<103>>, <<104, 1>>, <<103, 0, 5>>, <<101, 0, 0, 3, 1>>, <<65, 7>>, <<9>>, <<104, 0, 3>>}
Coded == [code : {ShortCode, LongCode}, unit : Units]
NalInputs == UNION {[1..n -> Coded] : n \in 1..3}

StuffInputs == UNION {[1..n -> {0, 1, 3, 4}] : n \in 1..6}

LevelInputs ==
  [high : BOOLEAN, width : {16, 720, 1366, 1920, 3840, 8000}, height : {16, 480, 1080, 2160}, fps : {1, 30, 60, 144},
   bitrate : {RateControl(bitrate, 20, mode).bitrate :
                bitrate \in {10000000, 80000000, 400000000}, mode \in {"vbr", "cqp"}}, references : {1}]

-----------------------------------------------------------------------------
(* Nothing captured: the AVC444 encoder while another part runs.           *)
Avc444Rests ==
  /\ screen = NoInput /\ dirty = <<WholeScreen>> /\ strokes = MaxStrokes /\ frames = MaxFrames
  /\ enc = [luma |-> NoReference, chroma |-> NoReference] /\ viewer = NoInput /\ starved = FALSE

GraphicsInit ==
  /\ EncoderInit
  /\ \/ part = "flow" /\ input = NoInput /\ Init
     \/ /\ Init /\ scenario = CHOOSE s \in MCScenarios : s.clearCodec
        /\ \/ part \in {"avc444", "encoder"} /\ input = NoInput
           \/ part = "damage" /\ input \in DamageInputs
           \/ part = "scale" /\ input \in ScaleInputs
           \/ part = "slice" /\ input \in SliceInputs
           \/ part = "sets" /\ input \in SetInputs
           \/ part = "units" /\ input \in NalInputs
           \/ part = "stuffing" /\ input \in StuffInputs
           \/ part = "level" /\ input \in LevelInputs
  /\ part # "encoder" => backend = "software" /\ ~venc.packed
  /\ IF part = "avc444" THEN Avc444Init ELSE Avc444Rests

GraphicsNext ==
  \/ part = "flow" /\ Next /\ UNCHANGED <<partVars, avcVars, encoderVars>>
  \/ part = "avc444" /\ Avc444Next /\ UNCHANGED <<partVars, vars, encoderVars>>
  \/ part = "encoder" /\ EncoderNext /\ UNCHANGED <<partVars, vars, avcVars>>

(* The fairness of EgfxFlow.                                               *)
GraphicsSpec ==
  /\ GraphicsInit /\ [][GraphicsNext]_<<partVars, vars, avcVars, encoderVars>>
  /\ WF_vars(part = "flow" /\ CaptureNext) /\ WF_vars(part = "flow" /\ Deliver)
  /\ SF_vars(part = "flow" /\ \E s \in SuspendChoices : FrameAck(s))
  /\ \A a \in Clearers : WF_vars(part = "flow" /\ (ClearCut(a) \/ ClearZero(a)))

-----------------------------------------------------------------------------
(* Damage.                                                                 *)

FrameWidth == 9
FrameHeight == 4
DamagedPixels ==
  UNION {Pixels(input.damage[i]) : i \in DOMAIN input.damage} \cap Grid(FrameWidth, FrameHeight)

(* No damage inside the frame is lost on its way through the pending list, *)
(* however often regions are joined while others are removed from it, and  *)
(* none of the regions leaves the frame.                                   *)
DamageKept ==
  part = "damage" =>
    LET pending == FoldLeft(LAMBDA list, r : QueueDamage(list, r, FrameWidth, FrameHeight, input.distance),
                            <<>>, input.damage)
        covered == UNION {Pixels(pending[i]) : i \in DOMAIN pending}
    IN /\ DamagedPixels \subseteq covered /\ covered \subseteq Grid(FrameWidth, FrameHeight)
       /\ (covered = {}) = (DamagedPixels = {})

(* "Exact union by horizontal bands. Unlike a bounding box, this never     *)
(* includes gaps" (clearcodec.rs:95): every damaged pixel is encoded once  *)
(* and no other, in rectangles of the bounded size.                        *)
BandsExact ==
  part = "damage" =>
    LET limit == input.distance + 1
        rects == Rectangles(Range(input.damage), FrameWidth, FrameHeight, limit)
    IN /\ UNION {Pixels(r) : r \in rects} = DamagedPixels
       /\ \A r \in rects : r[3] \in 1..limit /\ r[4] \in 1..limit
       /\ \A r, s \in rects : r # s => Pixels(r) \cap Pixels(s) = {}

-----------------------------------------------------------------------------
(* Scaling.                                                                *)

(* A frame that arrives before the layout knows its size.                  *)
Shown == FrameGeometry(Geometry(input.presentation, input.presentation), input.source)
VisiblePixels(g) == Pixels(g.visible)

(* A change of one source pixel damages every pixel it is averaged into,   *)
(* up or down whatever the ratio, so that no stale pixel stays on the      *)
(* client; the visible rectangle is inside the presentation and shows      *)
(* every edge of the source.                                               *)
DamageShown ==
  part = "scale" =>
    LET g == Shown
        visible == VisiblePixels(g)
    IN /\ visible \subseteq Grid(g.presentation[1], g.presentation[2])
       /\ FrameShape(g, g.source) = g.presentation
       /\ \A p \in visible : \A s \in Box(g, p) :
            \E r \in MapSourceDamage(g, {<<s[1], s[2], 1, 1>>}) : p \in Pixels(r)
       /\ \A axis \in {1, 2} : \E p, q \in visible : \E s \in Box(g, p), t \in Box(g, q) :
            s[axis] = 0 /\ t[axis] = g.source[axis] - 1

(* A click lands on what the client sees under the pointer: a source pixel *)
(* that is part of the clicked one; in the bars, on the nearest edge; and  *)
(* every corner of the source can be reached.                              *)
PointerOnPixel ==
  part = "scale" =>
    LET g == Shown
        screenPixels == Grid(g.presentation[1], g.presentation[2])
    IN /\ \A p \in screenPixels : MapPresentationPoint(g, p) \in Grid(g.source[1], g.source[2])
       /\ \A p \in VisiblePixels(g) : MapPresentationPoint(g, p) \in Box(g, p)
       /\ \E p \in screenPixels :
            MapPresentationPoint(g, p) = <<g.source[1] - 1, g.source[2] - 1>>

-----------------------------------------------------------------------------
(* Byte streams, read back by the rules of H.264.                          *)

(* Behind the end of a stream a reader finds ones.                         *)
BitAt(bits, at) == IF at \in DOMAIN bits THEN bits[at] ELSE 1
RECURSIVE LeadingZeros(_, _)
LeadingZeros(bits, at) == IF BitAt(bits, at) = 1 THEN 0 ELSE 1 + LeadingZeros(bits, at + 1)
Number(bits) == FoldLeft(LAMBDA value, bit : value * 2 + bit, 0, bits)
(* The values of consecutive fields: n > 0 for n bits, 0 for a ue code;    *)
(* and the position behind them.                                           *)
ReadField(state, n) ==
  LET zeros == IF n = 0 THEN LeadingZeros(state.bits, state.at) ELSE 0
      first == state.at + zeros
      length == IF n = 0 THEN zeros + 1 ELSE n
      value == Number([i \in 1..length |-> BitAt(state.bits, first + i - 1)])
  IN [bits |-> state.bits, at |-> first + length,
      values |-> Append(state.values, IF n = 0 THEN value - 1 ELSE value)]
Fields(bits, kinds) == FoldLeft(ReadField, [bits |-> bits, at |-> 1, values |-> <<>>], kinds)

SliceFields(idr) == <<8, 0, 0, 0, 8>> \o (IF idr THEN <<0, 8, 2>> ELSE <<8, 3, 0>>) \o <<0, 0, 0, 0>>

(* A decoder reads out of the packed slice header the numbers that the     *)
(* driver's parameters hold, and the header never needs a stuffing byte,   *)
(* which its bit length would not count (vaapi.rs:176).                    *)
SliceHeaderExact ==
  part = "slice" =>
    LET poc == (input.number * 2) % 256
        header == SliceHeader(input.idr, input.number, input.id, poc)
        read == Fields(header, SliceFields(input.idr))
    IN /\ Stuffed(Bytes(header)) = Bytes(header)
       /\ read.at = Len(header) + 1
       /\ SubSeq(read.values, 5, 7) =
            IF input.idr THEN <<input.number, input.id, poc>> ELSE <<input.number, poc, 0>>

SpsFields(high, cropped) ==
  <<8, 8, 8, 8, 0>> \o (IF high THEN <<0, 0, 0, 2>> ELSE <<>>) \o <<0, 0, 0, 0, 1, 0, 0, 2, 1>>
  \o (IF cropped THEN <<0, 0, 0, 0>> ELSE <<>>)

(* A decoder gets the encoder's picture size, level and number of          *)
(* references out of the synthesized parameter sets, which the extraction  *)
(* finds whole.                                                            *)
SetsReadBack ==
  part = "sets" =>
    LET data == GenerateSpsPps(input)
        cropped == input.width % 16 # 0 \/ input.height % 16 # 0
        skip == IF input.high THEN 9 ELSE 5
        values == Fields(Sps(input), SpsFields(input.high, cropped)).values
        Field(i) == values[skip + i]
        Cropped(mbs, crop) == (Field(mbs) + 1) * 16 - (IF cropped THEN 2 * Field(crop) ELSE 0)
    IN /\ values[4] = input.level /\ Field(4) = input.references /\ (Field(9) = 1) = cropped
       /\ Cropped(6, 11) = input.width /\ Cropped(7, 13) = input.height
       /\ ExtractSpsPps(data) = data /\ AnnexBNalTypes(data) = <<SpsType, PpsType>>

(* Of a stream of units behind long and short start codes exactly the      *)
(* parameter sets are found, whole and in order.                           *)
ParameterSetsFound ==
  part = "units" =>
    LET stream == FoldLeft(LAMBDA all, c : all \o c.code \o c.unit, <<>>, input)
        sets == SelectSeq(input, LAMBDA c : NalType(c.unit[1]) \in {SpsType, PpsType})
    IN /\ ExtractSpsPps(stream) = FoldLeft(LAMBDA all, c : all \o c.code \o c.unit, <<>>, sets)
       /\ AnnexBNalTypes(stream) = [i \in DOMAIN input |-> NalType(input[i].unit[1])]

(* No stuffed payload holds a start code or the beginning of one, and the  *)
(* decoder's removal of the third byte of 0, 0, 3 restores it.             *)
StuffingReverses ==
  part = "stuffing" =>
    LET stuffed == Stuffed(input)
        Unstuff(s, byte) ==
          IF s.zeros >= 2 /\ byte = 3 THEN [out |-> s.out, zeros |-> 0]
          ELSE [out |-> Append(s.out, byte), zeros |-> IF byte = 0 THEN s.zeros + 1 ELSE 0]
    IN /\ \A i \in 3..Len(stuffed) : stuffed[i - 2] = 0 /\ stuffed[i - 1] = 0 => stuffed[i] >= 3
       /\ FoldLeft(Unstuff, [out |-> <<>>, zeros |-> 0], stuffed).out = input

(* The level a stream is given grows with its size and rate, and a decoder *)
(* of the level can hold a frame and its references ("selecting by MaxMBPS *)
(* alone signals non-conformant levels for large frames", vaapi.rs:71).    *)
LevelSound ==
  part = "level" =>
    LET level == H264Level(input)
        pixels == input.width * input.height
    IN /\ level # NoLevel =>
            \E i \in DOMAIN Levels :
              /\ Levels[i][1] = level /\ pixels <= Levels[i][3] * 256
              /\ (input.references + 1) * pixels <= Levels[i][4] * 256 + pixels
       /\ \A fps \in {f \in {1, 30, 60, 144} : f <= input.fps} :
            LET slower == H264Level([input EXCEPT !.fps = fps, !.bitrate = 0])
            IN level # NoLevel => slower # NoLevel /\ slower <= level

(* The window is exact for ClearCodec frames of one client that is not     *)
(* resized by DisplayControl, although acknowledgements of frames from     *)
(* before a renegotiation come after it: it bounds what is unacknowledged  *)
(* and leaks no slot.  Queued payloads are bounded always: with ClearCodec *)
(* and AVC, over resizes and the clients that follow one another.          *)
WindowSound ==
  /\ ClearCodecAckReleasesSlot
  /\ WindowEnforced
  /\ OutputBounded

(* Regions and points survive joining, banding and scaling in both         *)
(* directions: nothing damaged stays stale, and a click lands on what is   *)
(* shown.                                                                  *)
RegionsExact ==
  /\ DamageKept
  /\ BandsExact
  /\ DamageShown
  /\ PointerOnPixel

(* A decoder reads out of the written headers what the encoder meant,      *)
(* wherever bytes are stuffed and units end, at a level that admits the    *)
(* stream.                                                                 *)
StreamsReadBack ==
  /\ SliceHeaderExact
  /\ SetsReadBack
  /\ ParameterSetsFound
  /\ StuffingReverses
  /\ LevelSound
===============================================================================
