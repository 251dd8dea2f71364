-------------------------------- MODULE Geometry --------------------------------
(***************************************************************************)
(* The captured source on the client's screen (display/geometry.rs and     *)
(* capture/scale.rs): the visible rectangle between black bars, the scaled *)
(* copy, the damage and the pointer mapped between the two.  Sizes are     *)
(* <<width, height>>, rectangles <<x, y, w, h>>, and axis 1 is horizontal. *)
(***************************************************************************)
EXTENDS Regions

Bounded(x, low, high) == Greater(low, Lesser(x, high))

ScaleFloor(value, numerator, denominator) == (value * numerator) \div denominator
(* Mutant: rounded down.                                                   *)
ScaleDown(value, numerator, denominator) == (value * numerator) \div denominator
ScaleCeil(value, numerator, denominator) == (value * numerator + denominator - 1) \div denominator

(* PresentationGeometry::new *)
Visible(source, presentation) ==
  LET wide == source[1] * presentation[2] > presentation[1] * source[2]
      w == IF wide THEN presentation[1]
           ELSE Lesser(Greater((presentation[2] * source[1]) \div source[2], 1), presentation[1])
      h == IF wide THEN Lesser(Greater((presentation[1] * source[2]) \div source[1], 1), presentation[2])
           ELSE presentation[2]
  IN <<(presentation[1] - w) \div 2, (presentation[2] - h) \div 2, w, h>>

Geometry(source, presentation) ==
  [source |-> source, presentation |-> presentation, visible |-> Visible(source, presentation)]

IsIdentity(g) == g.source = g.presentation /\ g.visible = <<0, 0>> \o g.source

(* map_source_rect: NoRegion if nothing is visible of it.                  *)
MapSourceRect(g, r) ==
  LET c == ClampRegion(r, g.source[1], g.source[2])
      From(axis) == g.visible[axis] + ScaleFloor(c[axis], g.visible[axis + 2], g.source[axis])
      To(axis) == g.visible[axis] + ScaleCeil(c[axis] + c[axis + 2], g.visible[axis + 2], g.source[axis])
      Inside(x, axis) == Bounded(x, g.visible[axis], g.visible[axis] + g.visible[axis + 2])
      left == Inside(From(1), 1)
      top == Inside(From(2), 2)
      right == Inside(To(1), 1)
      bottom == Inside(To(2), 2)
  IN IF c = NoRegion \/ right <= left \/ bottom <= top THEN NoRegion
     ELSE <<left, top, right - left, bottom - top>>

MapSourceDamage(g, regions) == {MapSourceRect(g, r) : r \in regions} \ {NoRegion}

(* Mutant: the last pixel is scaled like the others.                       *)
PointScaled(g, x, axis) ==
  ScaleFloor(Bounded(x, g.visible[axis], g.visible[axis] + g.visible[axis + 2] - 1) - g.visible[axis],
             g.source[axis], g.visible[axis + 2])
(* map_presentation_point_to_source, on one axis.                          *)
PointOnAxis(g, x, axis) ==
  LET last == g.visible[axis] + g.visible[axis + 2] - 1
      inside == Bounded(x, g.visible[axis], last)
  IN IF inside = last THEN g.source[axis] - 1
     ELSE Lesser(ScaleFloor(inside - g.visible[axis], g.source[axis], g.visible[axis + 2]), g.source[axis] - 1)
MapPresentationPoint(g, p) == <<PointOnAxis(g, p[1], 1), PointOnAxis(g, p[2], 2)>>

(* copy_scaled_visible_rect: the source pixels that are averaged into a    *)
(* pixel of the visible rectangle, on one axis.                            *)
BoxOnAxis(g, x, axis) ==
  LET rel == x - g.visible[axis]
      s0 == (rel * g.source[axis]) \div g.visible[axis + 2]
      s1 == Lesser(Greater(((rel + 1) * g.source[axis]) \div g.visible[axis + 2], s0 + 1), g.source[axis])
  IN s0..(s1 - 1)
Box(g, p) == BoxOnAxis(g, p[1], 1) \X BoxOnAxis(g, p[2], 2)

(* prepare_presentation_frame and presentation_frame_shape: a frame of a   *)
(* size other than the geometry's source is shown by a geometry of its own.*)
FrameGeometry(layout, source) ==
  IF layout.source = source THEN layout ELSE Geometry(source, layout.presentation)
FrameShape(layout, source) ==
  IF IsIdentity(FrameGeometry(layout, source)) THEN source ELSE layout.presentation
===============================================================================
