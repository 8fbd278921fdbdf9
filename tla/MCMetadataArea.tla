--------------------------- MODULE MCMetadataArea ---------------------------
(***************************************************************************)
(* Every choice of labels for the four sectors together with one metadata  *)
(* area, and one label together with every list of raw locations.          *)
(***************************************************************************)
EXTENDS MetadataArea

At(offset, length) == [offset |-> offset, length |-> length]

Labelled(list, inside) ==
  [labelled |-> TRUE, descriptors |-> list, inside |-> inside]

\* Areas at offsets 4 and 7; a data area's length of zero means "the rest".
\* The last two labels' lists do not end in the four sectors: one goes on in
\* memory, the other comes to the end of it.
MCLabels ==
  {Labelled(<<At(9, 0), Zero, At(4, 3), Zero>>, 4),
   Labelled(<<Zero, At(7, 3), At(4, 3), Zero, At(9, 1)>>, 5),
   Labelled(<<At(9, 1), At(10, 0), Zero, Zero>>, 4),
   Labelled(<<At(9, 0), Zero, At(4, 3), At(5, 5), Zero>>, 3),
   Labelled(<<At(9, 0), Zero, At(4, 3)>>, 3)}

OneLabel ==
  [n \in 1 .. 4 |->
     IF n = 2 THEN Labelled(<<At(9, 0), Zero, At(4, 3), Zero>>, 4) ELSE NoLabel]

\* A text inside the area, one that goes on past the area's end and one of
\* which the partition's end, or the medium's, cuts off a part; one in front
\* of the partition and one whose length wraps round.
MCLocations ==
  {NoLocation}
    \cup [offset : {1}, length : {2}, active : BOOLEAN]
    \cup [offset : {2, 6}, length : {3}, active : {TRUE}]
    \cup [offset : {-6}, length : {2}, active : {TRUE}]
    \cup [offset : {1}, length : {35}, active : {TRUE}]

AreaWith(locations) ==
  [signed |-> TRUE, start |-> 4, length |-> 3, locations |-> locations]

OneArea ==
  AreaWith([n \in 1 .. MaxLocations |->
              IF n = 1 THEN [offset |-> 1, length |-> 2, active |-> TRUE]
              ELSE NoLocation])

MCPhysicalVolumes ==
  [labels : [1 .. 4 -> MCLabels \cup {NoLabel}],
   headers : {[offset \in {4} |-> OneArea]}]
    \cup
  [labels : {OneLabel},
   headers : {[offset \in {4} |-> AreaWith(locations)] :
                locations \in [1 .. MaxLocations -> MCLocations]}
               \cup {[offset \in {4} |-> [OneArea EXCEPT !.signed = FALSE]]}]

\* A partition the medium holds, one it ends within, and the window a search
\* without result leaves at the start of the medium.
MCWindows ==
  {[start |-> 2, length |-> 12], [start |-> 6, length |-> 12],
   [start |-> 0, length |-> 5]}
=============================================================================
