------------------------- MODULE MCVolumeCollection -------------------------
(***************************************************************************)
(* Volume groups of up to two physical volumes and two logical volumes of  *)
(* up to two segments, the segments and their attributes in several        *)
(* orders; and the volume group of the run that finds a divergence.        *)
(***************************************************************************)
EXTENDS VolumeCollection, VolumeGroups

VolumeTrees(name) ==
  {VolumeTree(name, 0, <<>>)}
    \cup {VolumeTree(name, 1, SegmentTree(1, nodes)) :
            nodes \in {Plain(0, 1), Shuffled(0, 2), Striped(0), Deep}}
    \cup {VolumeTree(name, 2, nodes) :
            nodes \in {SegmentTree(1, Plain(0, 1)) \o SegmentTree(2, Shuffled(1, 4)),
                       SegmentTree(2, Plain(1, 6)) \o SegmentTree(1, Striped(0)),
                       SegmentTree(2, Plain(1, 6)) \o List("tags", Item("u"))
                         \o SegmentTree(1, Plain(0, 2)),
                       SegmentTree(0, Num("start_extent", 9)) \o Tree("extra", Num("n", 9))
                         \o SegmentTree(1, Plain(0, 2)) \o SegmentTree(2, Plain(1, 4))}}

\* Strings that the parser makes NULL pointers of.
Nameless ==
  {Group(Tree("pv0", Str("id", "")), VolumeTree("lv", 0, <<>>)),
   Group(PV("pv0", 2),
         VolumeTree("lv", 1, SegmentTree(1, Num("stripe_count", 1) \o Stripes("", 0))))}

Bare(name) == Tree(name, Str("id", name) \o Num("pe_start", 9))

MCPhysicalVolumes == {PV("pv0", 2), PV("pv0", 2) \o PV("pv1", 5),
                      PV("pv0", 2) \o Bare("pv1")}

Other == VolumeTree("other", 1, SegmentTree(1, Plain(3, 3)))

MCDocuments ==
  {Group(pvs, lv) : pvs \in MCPhysicalVolumes, lv \in VolumeTrees("lv")}
    \cup {Group(PV("pv0", 2), Other \o lv) : lv \in VolumeTrees("lv")}
    \cup {Group(PV("pv0", 2), lv \o Other) : lv \in VolumeTrees("lv")}
    \cup Nameless
    \cup {Root(<<>>),
          Root(Tree("vg", Num("physical_volumes", 1) \o Tree("logical_volumes", Other)))}

\* The theorems about what is collected are about volume groups like these,
\* not about the ones below.
Text(d, label) == INSTANCE VolumeText WITH document <- d, lvName <- label

ASSUME MCWellFormed ==
  \A d \in MCDocuments : \A label \in {"lv", "other"} : Text(d, label)!WellFormed

\* A segment with tags.
MCTagged == {Group(PV("pv0", 2), VolumeTree("lv", 1, SegmentTree(1, Tagged)))}
=============================================================================
