--------------------------------- MODULE Avc444 ---------------------------------
(***************************************************************************)
(* The AVC444v2 encoder (egfx/avc444.rs): a screen of full colour          *)
(* resolution packed into two pictures of half resolution, a main and an   *)
(* auxiliary one, the detection of what changed in each against what was   *)
(* last sent, and the regions of the screen the client is told to update.  *)
(*                                                                         *)
(* A pixel is [y, u, v], its conversion from BGRA and the loss of H.264    *)
(* left out; a picture is a function of samples <<plane, column, row>>.    *)
(* The damage detector that chooses the candidate regions and the client,  *)
(* which keeps both pictures and updates the regions it is told, are       *)
(* external.                                                               *)
(***************************************************************************)
EXTENDS Regions

CONSTANTS
  Width, Height,  \* of the screen
  Tile,           \* the detection's 64
  Strokes,        \* what is drawn: [x, y, pixel, damage]
  MaxStrokes,     \* bound on the strokes
  MaxFrames       \* bound on the frames

ASSUME Avc444Assumption ==
  Width % 4 = 0 /\ Height % 2 = 0 /\ Width > 0 /\ Height > 0 /\ Tile % 2 = 0 /\ Tile > 0

VARIABLES
  screen,   \* the captured frame
  dirty,    \* damage not sent yet, in the order it came
  strokes, frames,
  enc,      \* [planes, luma, chroma, lastLuma, lastChroma, chromaEncoded, full]
  viewer,   \* the client's two pictures
  starved   \* history: the encoder left out the chroma of a frame that was sent

avcVars == <<screen, dirty, strokes, frames, enc, viewer, starved>>

Grid(w, h) == (0..(w - 1)) \X (0..(h - 1))
Black == [y |-> 0, u |-> 0, v |-> 0]
WholeScreen == <<0, 0, Width, Height>>

FullSize(plane) == plane \in {"y", "ay"}
PlaneSamples(planes) ==
  UNION {{<<plane, p[1], p[2]>> : p \in IF FullSize(plane) THEN Grid(Width, Height)
                                        ELSE Grid(Width \div 2, Height \div 2)} : plane \in planes}
MainPlanes == {"y", "mu", "mv"}
AuxPlanes == {"ay", "au", "av"}
MainSamples == PlaneSamples(MainPlanes)
AuxSamples == PlaneSamples(AuxPlanes)
Samples == MainSamples \cup AuxSamples

(* The pixel a sample is taken from (for "mu" and "mv" the first of four), *)
(* and whether an auxiliary sample is in the half that holds V.            *)
Source == [s \in Samples |->
  CASE s[1] = "y" -> <<s[2], s[3]>>
    [] s[1] \in {"mu", "mv"} -> <<2 * s[2], 2 * s[3]>>
    [] s[1] = "ay" -> <<2 * (s[2] % (Width \div 2)) + 1, s[3]>>
    [] s[1] = "au" -> <<4 * (s[2] % (Width \div 4)), 2 * s[3] + 1>>
    [] s[1] = "av" -> <<4 * (s[2] % (Width \div 4)) + 2, 2 * s[3] + 1>>]
HoldsV(s) == s[2] >= IF s[1] = "ay" THEN Width \div 2 ELSE Width \div 4

(* avg4_floor *)
Average(a, b, c, d) == (a + b + c + d) \div 4

PackedSample(image, s) ==
  LET p == Source[s]
      Right == image[<<p[1] + 1, p[2]>>]
      Below == image[<<p[1], p[2] + 1>>]
      Across == image[<<p[1] + 1, p[2] + 1>>]
  IN CASE s[1] = "y" -> image[p].y
       [] s[1] = "mu" -> Average(image[p].u, Right.u, Below.u, Across.u)
       [] s[1] = "mv" -> Average(image[p].v, Right.v, Below.v, Across.v)
       [] OTHER -> IF HoldsV(s) THEN image[p].v ELSE image[p].u

(* bgra_to_avc444_v2_plane_regions_selective *)
Convert(planes, image, regions) ==
  LET inside == UNION {Pixels(AlignRegion(r, Width, Height, 4, 2)) : r \in regions}
  IN [s \in Samples |-> IF Source[s] \in inside THEN PackedSample(image, s) ELSE planes[s]]

-----------------------------------------------------------------------------
(* Detection.                                                              *)

(* The samples of a picture, given by its planes, that a region of its own *)
(* coordinates covers.                                                     *)
RegionSamples(picture, r) ==
  LET half == <<r[1] \div 2, r[2] \div 2,
                (r[1] + r[3] + 1) \div 2 - r[1] \div 2, (r[2] + r[4] + 1) \div 2 - r[2] \div 2>>
      Of(plane) == {<<plane, p[1], p[2]>> : p \in Pixels(IF FullSize(plane) THEN r ELSE half)}
  IN UNION {Of(plane) : plane \in picture}

NoReference == <<>>

(* detect_yuv420_regions *)
DetectRegions(picture, planes, reference, candidates) ==
  IF reference = NoReference THEN {WholeScreen}
  ELSE {t \in UNION {TilesOf(ClampRegion(r, Width, Height), Tile) : r \in candidates} :
          \E s \in RegionSamples(picture, t) : planes[s] # reference[s]}

Half(r, offset) == <<offset + r[1] \div 2, r[2], (r[1] + r[3] + 1) \div 2 - r[1] \div 2, r[4]>>
(* Mutant: only the half of U is looked at.                                *)
PackedLeft(r) == {Half(ClampRegion(r, Width, Height), 0)}
(* avc444_v2_chroma_packed_candidates *)
PackedCandidates(r) ==
  {Half(ClampRegion(r, Width, Height), 0), Half(ClampRegion(r, Width, Height), Width \div 2)}

(* avc444_v2_chroma_packed_region_to_protocol_regions: a region of the     *)
(* auxiliary picture as regions of the screen, touching ones joined.       *)
ProtocolRegions(r) ==
  LET Segment(offset) ==
        LET left == Greater(r[1], offset)
            right == Lesser(r[1] + r[3], offset + Width \div 2)
        IN IF right <= left THEN NoRegion
           ELSE AlignRegion(<<(left - offset) * 2, r[2], (right - left) * 2, r[4]>>, Width, Height, 4, 2)
      segments == {Segment(0), Segment(Width \div 2)} \ {NoRegion}
  IN IF \E a, b \in segments : a # b /\ Near(a, b, 0)
     THEN {UnionRegion(Segment(0), Segment(Width \div 2))} ELSE segments

(* detect_avc444_v2_chroma_regions: in the picture, and on the screen.     *)
DetectChroma(planes, reference, candidates) ==
  LET packed == DetectRegions(AuxPlanes, planes, reference, UNION {PackedCandidates(r) : r \in candidates})
  IN IF reference = NoReference THEN [packed |-> {WholeScreen}, protocol |-> {WholeScreen}]
     ELSE [packed |-> packed, protocol |-> UNION {ProtocolRegions(r) : r \in packed}]

(* align_regions: aligned regions that overlap or touch become one.        *)
AlignRegions(regions) ==
  LET Add(aligned, r) ==
        LET a == AlignRegion(r, Width, Height, 4, 2)
        IN IF a = NoRegion THEN aligned ELSE MergeRegion(aligned, a, 0)
  IN Range(FoldLeft(Add, <<>>, regions))

-----------------------------------------------------------------------------
(* Avc444Encoder::encode, up to the H.264 encoder.                         *)
Candidates(regions) ==
  IF enc.full THEN {WholeScreen} ELSE AlignRegions(regions)
Detected(candidates, planes, chroma) ==
  [planes |-> planes,
   luma |-> IF enc.full THEN {WholeScreen} ELSE DetectRegions(MainPlanes, planes, enc.luma, candidates),
   packed |-> IF enc.full THEN {WholeScreen} ELSE chroma.packed,
   protocol |-> IF enc.full THEN {WholeScreen} ELSE chroma.protocol]
ConvertedAndDetected(candidates, planes) ==
  Detected(candidates, planes, DetectChroma(planes, enc.chroma, candidates))
PreparedFrom(candidates) == ConvertedAndDetected(candidates, Convert(enc.planes, screen, candidates))
Prepared(regions) == PreparedFrom(Candidates(regions))

(* The pictures the client holds after it updated these regions.           *)
Updated(planes, luma, chroma) ==
  LET lumaPixels == UNION {Pixels(r) : r \in luma}
      chromaPixels == UNION {Pixels(r) : r \in chroma}
  IN [s \in Samples |-> IF Source[s] \in (IF s[1] \in MainPlanes THEN lumaPixels ELSE chromaPixels)
                        THEN planes[s] ELSE viewer[s]]

(* update_yuv420_reference_regions *)
ReferenceAfter(reference, picture, planes, regions) ==
  IF reference = NoReference THEN [s \in PlaneSamples(picture) |-> planes[s]]
  ELSE LET sent == UNION {RegionSamples(picture, r) : r \in regions}
       IN [s \in DOMAIN reference |-> IF s \in sent THEN planes[s] ELSE reference[s]]

(* Mutant: the chroma is committed although it was left out.               *)
CommitBoth(e) ==
  [e EXCEPT !.luma = ReferenceAfter(@, MainPlanes, e.planes, e.lastLuma),
            !.chroma = ReferenceAfter(@, AuxPlanes, e.planes, e.lastChroma)]
(* commit_reference *)
CommitReference(e) ==
  [e EXCEPT !.luma = ReferenceAfter(@, MainPlanes, e.planes, e.lastLuma),
            !.chroma = IF e.chromaEncoded THEN ReferenceAfter(@, AuxPlanes, e.planes, e.lastChroma) ELSE @]

(* normalize_avc444_encoded_frame: which of the two pictures are in the    *)
(* frame, given which the H.264 encoder had output for.                    *)
Normalized(luma, chroma, lumaData, chromaData) ==
  IF luma # {} THEN [luma |-> lumaData, chroma |-> lumaData /\ chroma # {} /\ chromaData]
  ELSE [luma |-> FALSE, chroma |-> chroma # {} /\ chromaData]

Avc444Init ==
  /\ screen = [p \in Grid(Width, Height) |-> Black] /\ dirty = <<WholeScreen>>
  /\ strokes = 0 /\ frames = 0 /\ starved = FALSE
  /\ enc = [planes |-> [s \in Samples |-> IF s[1] = "y" THEN 0 ELSE 128],
            luma |-> NoReference, chroma |-> NoReference,
            lastLuma |-> {}, lastChroma |-> {}, chromaEncoded |-> FALSE, full |-> TRUE]
  /\ viewer = [s \in Samples |-> -1]

Draw(stroke) ==
  /\ strokes < MaxStrokes /\ strokes' = strokes + 1
  /\ screen' = [screen EXCEPT ![<<stroke.x, stroke.y>>] = stroke.pixel]
  /\ dirty' = Append(dirty, stroke.damage)
  /\ UNCHANGED <<frames, enc, viewer, starved>>

(* The encoder after it prepared a frame of which the given pictures are   *)
(* sent.                                                                   *)
Encoded(p, frame) ==
  [enc EXCEPT !.planes = p.planes, !.full = FALSE,
              !.lastLuma = p.luma, !.lastChroma = p.packed, !.chromaEncoded = frame.chroma]

(* encode and, once the frame is sent, commit_reference.                   *)
SendEncoded(p, frame) ==
  /\ frame.luma \/ frame.chroma
  /\ enc' = CommitReference(Encoded(p, frame)) /\ dirty' = <<>>
  /\ viewer' = Updated(p.planes, IF frame.luma THEN p.luma ELSE {}, IF frame.chroma THEN p.protocol ELSE {})
  /\ starved' = ((starved /\ p.protocol # {WholeScreen}) \/ (p.protocol # {} /\ ~frame.chroma))

(* A frame that is not sent: force_idr.  One without regions or data is    *)
(* skipped.                                                                *)
RejectEncoded(p, frame) ==
  /\ frame.luma \/ frame.chroma
  /\ enc' = [Encoded(p, frame) EXCEPT !.full = TRUE]
  /\ UNCHANGED <<dirty, viewer, starved>>
SkipEncoded(p, frame) ==
  /\ ~(frame.luma \/ frame.chroma)
  /\ enc' = Encoded(p, frame)
  /\ UNCHANGED <<dirty, viewer, starved>>
(* encode fails in the H.264 encoder: force_idr.                           *)
FailEncoding(p, frame) ==
  /\ frame = [luma |-> FALSE, chroma |-> FALSE] /\ (p.luma # {} \/ p.protocol # {})
  /\ enc' = [enc EXCEPT !.planes = p.planes, !.full = TRUE, !.lastLuma = p.luma, !.lastChroma = p.packed]
  /\ UNCHANGED <<dirty, viewer, starved>>

(* One frame of the damage so far; the H.264 encoder has output for either *)
(* picture, both or none.                                                  *)
EncodeFrame ==
  /\ dirty # <<>> /\ frames < MaxFrames /\ frames' = frames + 1
  /\ \E p \in {Prepared(dirty)}, lumaData, chromaData \in BOOLEAN :
     \E frame \in {Normalized(p.luma, p.protocol, lumaData, chromaData)} :
       SendEncoded(p, frame) \/ RejectEncoded(p, frame) \/ SkipEncoded(p, frame) \/ FailEncoding(p, frame)
  /\ UNCHANGED <<screen, strokes>>

Avc444Next ==
  \/ \E stroke \in Strokes : Draw(stroke)
  \/ EncodeFrame

-----------------------------------------------------------------------------
(* combine_avc444_v2_planes: the client's screen.                          *)
Combined(p) ==
  LET x == p[1]
      y == p[2]
      at == IF x % 2 = 1 THEN <<"ay", x \div 2, y>>
            ELSE IF y % 2 = 1 THEN <<IF x % 4 = 0 THEN "au" ELSE "av", x \div 4, y \div 2>>
            ELSE <<"mu", x \div 2, y \div 2>>
      half == IF at[1] = "ay" THEN Width \div 2 ELSE Width \div 4
  IN [y |-> viewer[<<"y", x, y>>], u |-> viewer[at],
      v |-> IF at[1] = "mu" THEN viewer[<<"mv", at[2], at[3]>>] ELSE viewer[<<at[1], at[2] + half, at[3]>>]]

(* What the encoder takes for sent is what the client has, sample for      *)
(* sample, after frames that were refused, failed, skipped or sent without *)
(* one of the pictures: a change is never detected against a picture the   *)
(* client does not have.                                                   *)
ReferenceIsViewers ==
  /\ enc.luma # NoReference => \A s \in MainSamples : enc.luma[s] = viewer[s]
  /\ enc.chroma # NoReference => \A s \in AuxSamples : enc.chroma[s] = viewer[s]

(* Once the damage is sent the client shows the captured screen in full    *)
(* colour resolution, however small the regions it was told to update (the *)
(* first pixel of four has the average's colour); unless a frame went out  *)
(* without its chroma.                                                     *)
ScreenShown ==
  dirty = <<>> /\ ~starved =>
    \A p \in Grid(Width, Height) :
      /\ Combined(p).y = screen[p].y
      /\ p[1] % 2 = 1 \/ p[2] % 2 = 1 => Combined(p) = screen[p]

(* After any pattern of refused, failed, skipped and partial frames the    *)
(* encoder knows what the client has, and once the damage is sent the      *)
(* client shows the screen.                                                *)
PictureKept ==
  /\ ReferenceIsViewers
  /\ ScreenShown
===============================================================================
