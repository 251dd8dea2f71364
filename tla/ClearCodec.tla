------------------------------- MODULE ClearCodec -------------------------------
(***************************************************************************)
(* The rectangles of a ClearCodec frame (egfx/clearcodec.rs): the damage   *)
(* cut into horizontal bands, the spans of a band joined, and the result   *)
(* cut to a largest size.  The encoding itself belongs to IronRDP.         *)
(***************************************************************************)
EXTENDS Regions

(* The bands between consecutive edges.                                    *)
Bands(clipped) ==
  LET edges == {r[2] : r \in clipped} \cup {r[2] + r[4] : r \in clipped}
  IN {<<top, bottom>> \in edges \X edges :
        top < bottom /\ ~\E y \in edges : top < y /\ y < bottom}

(* Mutant: a joined span ends where the later one does.                    *)
JoinLater(merged, span) ==
  IF merged # <<>> /\ span[1] <= Last(merged)[2]
  THEN Append(Front(merged), <<Last(merged)[1], span[2]>>)
  ELSE Append(merged, span)
JoinSpan(merged, span) ==
  IF merged # <<>> /\ span[1] <= Last(merged)[2]
  THEN Append(Front(merged), <<Last(merged)[1], Greater(Last(merged)[2], span[2])>>)
  ELSE Append(merged, span)

(* spans.sort_unstable: by left, then by right edge.                       *)
SortedSpans(spans) ==
  SetToSortSeq(spans, LAMBDA a, b : a[1] < b[1] \/ (a[1] = b[1] /\ a[2] <= b[2]))

(* ClearCodecInput::new *)
Rectangles(damage, width, height, limit) ==
  LET clipped == {ClampRegion(r, width, height) : r \in damage} \ {NoRegion}
      Spans(band) == {<<r[1], r[1] + r[3]>> : r \in {c \in clipped : c[2] <= band[1] /\ c[2] + c[4] >= band[2]}}
      Joined(band) == FoldLeft(JoinSpan, <<>>, SortedSpans(Spans(band)))
  IN UNION {UNION {TilesOf(<<span[1], band[1], span[2] - span[1], band[2] - band[1]>>, limit) :
                     span \in Range(Joined(band))} : band \in Bands(clipped)}
===============================================================================
