-------------------------- MODULE MCVolumeAssembly --------------------------
(***************************************************************************)
(* Volumes of up to MaxSegments segments whose extents lie anywhere among  *)
(* the first extents of the physical volume, also past its end; volumes    *)
(* with gaps, and with numbers that are negative or whose products do not  *)
(* fit; one volume of each other kind the program does not support.        *)
(***************************************************************************)
EXTENDS VolumeAssembly, SequencesExt

CONSTANTS MaxSegments, ExtentBytes, PVExtents

Piece(start, count, place) ==
  [startExtent |-> start, extentCount |-> count,
   stripes |-> <<[pvName |-> "pv0", startExtent |-> place]>>]

\* The segments with these sizes and places, one after the other.
Layout(sizes, places) ==
  [n \in 1 .. Len(sizes) |->
     Piece(FoldSeq(+, 0, SubSeq(sizes, 1, n - 1)), sizes[n], places[n])]

Layouts ==
  UNION {{Layout(sizes, places) :
            sizes \in [1 .. n -> 1 .. 2], places \in [1 .. n -> PVExtents]}
         : n \in 0 .. MaxSegments}

Single == Piece(0, 1, 0)

Stripe0 == Single.stripes[1]

\* Gaps in front of and between segments, and segments that overlap.
LooseLayouts ==
  {<<Piece(1, 1, 0)>>, <<Single, Piece(2, 1, 1)>>, <<Piece(0, 2, 1), Piece(1, 2, 3)>>}

\* Numbers around zero and around the ends of a word, in extents of two bytes.
WildLayouts ==
  {<<Piece(start, count, place)>> :
     start \in {-1, 0, 15, 31}, count \in {-1, 1, 2, 31}, place \in {-1, 0, 15, 31}}

\* A second stripe on an unknown volume and one at another extent, a missing
\* stripe, an unset name, a segment on an unknown volume.
OddLayouts ==
  {<<[Single EXCEPT !.stripes = <<Stripe0, [Stripe0 EXCEPT !.pvName = "pv1"]>>]>>,
   <<[Piece(0, 2, 0) EXCEPT
        !.stripes = <<Stripe0, [Stripe0 EXCEPT !.startExtent = 3]>>]>>,
   <<[Single EXCEPT !.stripes = <<>>]>>,
   <<[Single EXCEPT !.stripes[1].pvName = NullName]>>,
   <<Single, [Single EXCEPT !.startExtent = 1, !.stripes[1].pvName = "pv1"]>>}

MCVolumes ==
  [name : {"pv0"}, extentSize : {ExtentBytes}, peStart : {0, 1},
   segments : Layouts]
    \cup [name : {"pv0"}, extentSize : {ExtentBytes}, peStart : {-1, 0, 1},
          segments : LooseLayouts \cup WildLayouts]
    \cup [name : {"pv0", NullName}, extentSize : {ExtentBytes}, peStart : {1},
          segments : OddLayouts]
    \cup [name : {"pv0"}, extentSize : {0}, peStart : {1}, segments : {<<Single>>}]

\* A partition that holds all the extents and one that ends within them.
MCWindows == {[start |-> 3, length |-> 9], [start |-> 2, length |-> 5]}
=============================================================================
