----------------------------- MODULE VolumeText -----------------------------
(***************************************************************************)
(* What the metadata says of a logical volume, read off the structure of   *)
(* the document: the names and the nesting of its nodes, in any order.     *)
(* And the documents of which readLogicalVolume collects what they say:    *)
(* what the metadata writer keeps to, and the callbacks rely on without a  *)
(* look.                                                                   *)
(***************************************************************************)
EXTENDS Preorder

CONSTANT lvName  \* the logical volume asked for

\* The children of p with that key, as a rule at most one.
Child(p, key) == {q \in Children(p) : document[q].key = key}

Section(key) == UNION {Child(p, key) : p \in Children(1)}

\* The logical volume asked for.
Volume == UNION {Child(p, lvName) : p \in Section("logical_volumes")}

PhysicalVolumes == UNION {Children(p) : p \in Section("physical_volumes")}

IntegerAt(ps) == IF ps = {} THEN 0 ELSE document[Min(ps)].integer

\* The n-th element of the list p.
Element(p, n) == document[CHOOSE q \in Children(p) : Index(q) = n - 1]

StripesAt(ps, count) ==
  [k \in 1 .. count |->
     [pvName |-> Element(Min(ps), 2 * k - 1).string,
      startExtent |-> Element(Min(ps), 2 * k).integer]]

SegmentAt(p) ==
  [startExtent |-> IntegerAt(Child(p, "start_extent")),
   extentCount |-> IntegerAt(Child(p, "extent_count")),
   stripes |-> StripesAt(Child(p, "stripes"), IntegerAt(Child(p, "stripe_count")))]

SegmentsOf(p) ==
  {q \in Children(p) : document[q].type = "child" /\ document[q].segment > 0}

-----------------------------------------------------------------------------
(* Documents of which everything is collected.                             *)

AtMostOne(ps) == \A p, q \in ps : p = q

Integers(ps) == \A p \in ps : document[p].type = "integer"

\* The sections are where they belong and nowhere else, and the label is the
\* name of one volume and of nothing else among the volumes.
SectionsFound ==
  /\ \A key \in {"physical_volumes", "logical_volumes"} :
       Found(key, 1) = Section(key) /\ AtMostOne(Section(key))
  /\ \A p \in Section("logical_volumes") : Found(lvName, p) = Child(p, lvName)
  /\ AtMostOne(Volume)
  /\ Volume # {} => Section("physical_volumes") # {}

\* The physical volumes are trees below a tree, and their numbers numbers.
PhysicalVolumesListed ==
  /\ \A p \in Section("physical_volumes") :
       Children(p) # {} => document[p].type = "child"
  /\ \A p \in PhysicalVolumes :
       /\ document[p].type = "child"
       /\ \A key \in {"dev_size", "pe_start", "pe_count"} : Integers(Child(p, key))

\* A list of stripes comes behind their count, and has a name and an extent
\* for each.
StripesListed(q, r) ==
  LET count == IntegerAt(Child(q, "stripe_count"))
  IN  /\ \E s \in Child(q, "stripe_count") : s < r
      /\ \A n \in 0 .. 2 * count - 1 : \E e \in Children(r) : Index(e) = n
      /\ \A e \in Children(r) :
           /\ Index(e) < 2 * count
           /\ document[e].type = IF Index(e) % 2 = 0 THEN "string" ELSE "integer"

SegmentNumbers == {"start_extent", "extent_count", "stripe_count"}

\* A segment has each attribute once, and no other strings and numbers where
\* those of its stripes stand.
SegmentComplete(q) ==
  /\ \A key \in SegmentNumbers : AtMostOne(Child(q, key)) /\ Integers(Child(q, key))
  /\ AtMostOne(Child(q, "stripes"))
  /\ IntegerAt(Child(q, "stripe_count")) > 0 => Child(q, "stripes") # {}
  /\ \A r \in Children(q) :
       IF document[r].key = "stripes" THEN StripesListed(q, r)
       ELSE \A e \in Children(r) : document[e].type \notin {"string", "integer"}

\* What is no segment has nothing the walk would take for a segment's; of a
\* segment without a number only the stripes would be taken.
NothingCollected(q) ==
  /\ \A r \in Children(q) : \A e \in Children(r) :
       document[e].type \notin {"string", "integer"}
  /\ \/ document[q].type = "child" /\ document[q].segment = 0
     \/ \A key \in SegmentNumbers : \A r \in Child(q, key) : document[r].type # "integer"

\* The segments have a number each, up to their count.
VolumeComplete(p) ==
  LET counts == Child(p, "segment_count")
  IN  /\ Found("segment_count", p) = counts
      /\ AtMostOne(counts) /\ Integers(counts)
      /\ \A q \in SegmentsOf(p) :
           /\ document[q].segment <= IntegerAt(counts)
           /\ \A r \in SegmentsOf(p) :
                document[r].segment = document[q].segment => r = q
           /\ SegmentComplete(q)
      /\ \A q \in Children(p) \ SegmentsOf(p) : NothingCollected(q)

WellFormed ==
  SectionsFound /\ PhysicalVolumesListed /\ \A p \in Volume : VolumeComplete(p)
=============================================================================
