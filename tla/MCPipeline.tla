----------------------------- MODULE MCPipeline -----------------------------
(***************************************************************************)
(* Media with no, one or two LVM partitions, a table that lists another    *)
(* partition only, a header longer than its block, a medium that is a      *)
(* physical volume as a whole; two active texts on one partition, which    *)
(* describe two volumes, and a text in front of its partition.             *)
(***************************************************************************)
EXTENDS Pipeline

Partition(kind, first, last) == [kind |-> kind, firstLBA |-> first, lastLBA |-> last]

Table(signed, entries) ==
  [signed |-> signed, size |-> HeaderSize, crcMatches |-> TRUE, firstLBA |-> 2,
   entries |-> entries]

\* The partitions at 5 and 28 hold physical volumes, and so does the one at 52
\* if it is LVM's.
MCHeaders ==
  {Table(TRUE, <<Partition("lvm", 5, 26), Partition("other", 52, 54)>>),
   Table(TRUE, <<Partition("lvm", 5, 26), Partition("lvm", 28, 49)>>),
   Table(TRUE, <<Partition("lvm", 28, 49), Partition("lvm", 5, 26)>>),
   Table(TRUE, <<Partition("other", 52, 54), Partition("lvm", 28, 49)>>),
   Table(TRUE, <<Partition("other", 52, 54), Partition("other", 5, 26)>>),
   Table(TRUE, <<Partition("lvm", 52, 68)>>),
   [Table(TRUE, <<>>) EXCEPT !.size = HeaderSize + 1],
   Table(FALSE, <<>>)}

Text(offset, active) == [offset |-> offset, length |-> 2, active |-> active]

Nothing == [offset |-> 0, length |-> 0, active |-> TRUE]

Area(locations) == [signed |-> TRUE, start |-> 9, length |-> 5, locations |-> locations]

NoDescriptor == [offset |-> 0, length |-> 0]

\* The label in the sector after the first, the first area's header at 9.
Labelled(area) ==
  [labels |-> [n \in 1 .. 4 |->
     IF n = 2
     THEN [labelled |-> TRUE,
           descriptors |-> <<[offset |-> 13, length |-> 0], NoDescriptor,
                             [offset |-> 9, length |-> 5], NoDescriptor>>,
           inside |-> 4]
     ELSE NoLabel],
   headers |-> [offset \in {9} |-> area]]

OneText == Labelled(Area(<<Text(1, TRUE), Text(3, FALSE), Text(0, FALSE)>>))

TwoTexts == Labelled(Area(<<Text(3, TRUE), Text(2, FALSE), Text(1, TRUE)>>))

\* The place of this text is -1.
TextInFront == Labelled(Area(<<Text(-10, TRUE), Nothing, Nothing>>))

MCContents ==
  [a \in {0, 5, 28, 52} |->
     CASE a = 28 -> TwoTexts
       [] a = 52 -> TextInFront
       [] OTHER -> OneText]

Extents(start, count, place) ==
  [startExtent |-> start, extentCount |-> count,
   stripes |-> <<[pvName |-> "pv0", startExtent |-> place]>>]

VolumeOf(segs) == [name |-> "pv0", extentSize |-> 2, peStart |-> 14, segments |-> segs]

\* Two segments in reverse order; one that ends past the partition; one
\* whose extent is between those of the other; one on another volume.
Reversed == VolumeOf(<<Extents(0, 1, 1), Extents(1, 1, 0)>>)

PastTheEnd == VolumeOf(<<Extents(0, 2, 0), Extents(2, 3, 2)>>)

Interleaved == VolumeOf(<<Extents(0, 1, 0), Extents(1, 1, 2), Extents(2, 1, 1)>>)

Foreign == [Reversed EXCEPT !.name = "pv1"]

\* What a wrong tree may give: an extent in front of the partition, whose
\* request wraps round to its first bytes; a gap; a second stripe.
InFront == VolumeOf(<<Extents(0, 4, -10)>>)

Gap == VolumeOf(<<Extents(0, 1, 0), Extents(2, 1, 1)>>)

Striped ==
  VolumeOf(<<[Extents(0, 2, 0) EXCEPT
               !.stripes = @ \o <<[pvName |-> "pv0", startExtent |-> 2]>>]>>)

MCVolumes ==
  {NoVolume, Reversed, PastTheEnd, Interleaved, Foreign, InFront, Gap, Striped}

\* The texts by their addresses: the partition's start, the area's and the
\* location's offset.
MCDescribed ==
  [a \in {5 + 9 + 1, 28 + 9 + 1, 28 + 9 + 3, 52 + 9 - 10} |->
     CASE a = 5 + 9 + 1 -> Reversed
       [] a = 28 + 9 + 1 -> Interleaved
       [] OTHER -> PastTheEnd]
=============================================================================
