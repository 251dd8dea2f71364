-------------------------------- MODULE Regions --------------------------------
(***************************************************************************)
(* Rectangles of a frame, <<x, y, w, h>>, as the damage detector           *)
(* (capture/damage.rs) and the AVC encoders (egfx/avc420.rs, avc444.rs)    *)
(* clip, align, join and compare them.                                     *)
(***************************************************************************)
EXTENDS Integers, Sequences, FiniteSets, SequencesExt

Lesser(a, b) == IF a < b THEN a ELSE b
Greater(a, b) == IF a > b THEN a ELSE b
Clip(x, limit) == Greater(0, Lesser(x, limit))

NoRegion == <<0, 0, 0, 0>>

(* clamp_damage_region, clamp_region: NoRegion if nothing is inside.       *)
ClampRegion(r, width, height) ==
  LET left == Clip(r[1], width)
      top == Clip(r[2], height)
      right == Clip(r[1] + r[3], width)
      bottom == Clip(r[2] + r[4], height)
  IN IF r[3] <= 0 \/ r[4] <= 0 \/ right <= left \/ bottom <= top THEN NoRegion
     ELSE <<left, top, right - left, bottom - top>>

(* damage_regions_to_avc420: left, top, right and bottom.                  *)
Avc420Region(r, width, height) ==
  LET c == ClampRegion(r, width, height) IN <<c[1], c[2], c[1] + c[3], c[2] + c[4]>>

AlignDown(x, n) == x - (x % n)
AlignUp(x, n) == IF x % n = 0 THEN x ELSE x + n - (x % n)

(* One region of align_regions.                                            *)
AlignRegion(r, width, height, nx, ny) ==
  LET left == AlignDown(Clip(r[1], width), nx)
      top == AlignDown(Clip(r[2], height), ny)
      right == Clip(AlignUp(Clip(r[1] + r[3], width), nx), width)
      bottom == Clip(AlignUp(Clip(r[2] + r[4], height), ny), height)
  IN IF r[3] <= 0 \/ r[4] <= 0 \/ right <= left \/ bottom <= top THEN NoRegion
     ELSE <<left, top, right - left, bottom - top>>

-----------------------------------------------------------------------------
(* damage_regions_are_near; regions_overlap_or_touch is distance 0.        *)
Gap(a, aSize, b, bSize) == IF b >= a + aSize THEN b - (a + aSize) ELSE a - (b + bSize)
Near(a, b, distance) ==
  Gap(a[1], a[3], b[1], b[3]) <= distance /\ Gap(a[2], a[4], b[2], b[4]) <= distance

(* Mutant: the join keeps the size of the larger one.                      *)
UnionSized(a, b) == <<Lesser(a[1], b[1]), Lesser(a[2], b[2]), Greater(a[3], b[3]), Greater(a[4], b[4])>>
(* union_damage_region, union_region *)
UnionRegion(a, b) ==
  LET left == Lesser(a[1], b[1])
      top == Lesser(a[2], b[2])
  IN <<left, top, Greater(a[1] + a[3], b[1] + b[3]) - left, Greater(a[2] + a[4], b[2] + b[4]) - top>>

SwapRemove(regions, i) ==
  IF i = Len(regions) THEN Front(regions) ELSE Front([regions EXCEPT ![i] = Last(regions)])

(* merge_nearby_damage_region, merge_region: one pass over the list, with  *)
(* a region that grows on the way.                                         *)
RECURSIVE MergeFrom(_, _, _, _)
MergeFrom(regions, merged, distance, i) ==
  IF i > Len(regions) THEN Append(regions, merged)
  ELSE IF Near(regions[i], merged, distance)
  THEN MergeFrom(SwapRemove(regions, i), UnionRegion(regions[i], merged), distance, i)
  ELSE MergeFrom(regions, merged, distance, i + 1)

MergeRegion(regions, region, distance) == MergeFrom(regions, region, distance, 1)

(* queue_damage: what is inside the frame is merged into the pending list. *)
QueueDamage(pending, region, width, height, distance) ==
  LET r == ClampRegion(region, width, height)
  IN IF r = NoRegion THEN pending ELSE MergeRegion(pending, r, distance)

-----------------------------------------------------------------------------
Pixels(r) == (r[1]..(r[1] + r[3] - 1)) \X (r[2]..(r[2] + r[4] - 1))

(* The tiles of a region: steps of one size from its corner.               *)
TilesOf(r, tile) ==
  {<<x, y, Lesser(tile, r[1] + r[3] - x), Lesser(tile, r[2] + r[4] - y)>> :
     x \in {x \in r[1]..(r[1] + r[3] - 1) : (x - r[1]) % tile = 0},
     y \in {y \in r[2]..(r[2] + r[4] - 1) : (y - r[2]) % tile = 0}}
===============================================================================
