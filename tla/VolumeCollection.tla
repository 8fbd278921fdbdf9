-------------------------- MODULE VolumeCollection --------------------------
(***************************************************************************)
(* The first part of readLogicalVolume of parseMetadata.c, up to the       *)
(* segments that VolumeAssembly reads: keys are looked up in the tree of   *)
(* the metadata (getKeyPath), and the trees found are walked by            *)
(* forEachNode with physVolCallback and logVolCallback, which keep what    *)
(* they know of their place in the tree in two static variables.           *)
(***************************************************************************)
EXTENDS NodeSequence

CONSTANTS
  SectorSize,  \* drive->sectorSize
  Labels       \* the names of logical volumes main may be given

NoName == ""  \* what stands for a NULL pointer is a string like any other

ASSUME CollectionAssumption == SectorSize \in Nat \ {0} /\ NoName \in STRING

PVNumbers == {"dev_size", "pe_start", "pe_count"}
PVNames == {"id", "device"}

\* The one tPhysicalVolume: its name, the extent size in bytes and what was
\* collected for each attribute.
NoPhysicalVolume ==
  [name |-> NoName, extentSize |-> 0,
   numbers |-> [a \in PVNumbers |-> 0], names |-> [a \in PVNames |-> NoName]]

NoSegment == [startExtent |-> 0, extentCount |-> 0, stripes |-> <<>>]

NoStripe == [pvName |-> NoName, startExtent |-> 0]

VARIABLES
  stage,       \* where readLogicalVolume is
  document,    \* the tree; never written
  lvName,      \* the logical volume asked for
  root,        \* the node forEachNode was called for
  position,    \* the node the callback is called with next
  seg,         \* static: the segment the walk is in, counted from 0
  stripeCount, \* static: the stripe_count seen last
  pv,          \* the physical volume, as collected so far
  segments     \* the segments, as collected so far

INSTANCE VolumeText

vars == <<stage, document, lvName, root, position, seg, stripeCount, pv, segments>>

\* "crashed": NULL was followed; "corrupted": something outside an array was
\* written; "exhausted": an unchecked allocation returned NULL.
Stages == {"extent size", "physical volumes", "in physical volumes",
           "logical volume", "segment count", "in logical volume",
           "collected", "crashed", "corrupted", "exhausted"}

TypeOK ==
  /\ stage \in Stages
  /\ document \in Documents
  /\ lvName \in Labels
  /\ root \in DOMAIN document
  /\ position \in 1 .. Len(document) + 1
  /\ seg \in Nat \cup {-1}
  /\ stripeCount \in Nat
  /\ pv \in [name : STRING, extentSize : Nat,
             numbers : [PVNumbers -> Nat], names : [PVNames -> STRING]]
  /\ segments \in Seq([startExtent : Nat, extentCount : Nat,
                       stripes : Seq([pvName : STRING, startExtent : Nat])])

Init ==
  /\ stage = "extent size"
  /\ document \in Documents
  /\ lvName \in Labels
  /\ root = 1
  /\ position = 1
  /\ seg = 0
  /\ stripeCount = 0
  /\ pv = NoPhysicalVolume
  /\ segments = <<>>

-----------------------------------------------------------------------------
(* The tree.                                                               *)

FoundInteger(key, p) ==
  Found(key, p) # {} /\ document[Min(Found(key, p))].type = "integer"

Here == document[position]

\* Slip: the step to the next node only for nodes without elements.
NextLeaf == IF Here.type = "list" THEN position ELSE position + 1

NextNode == position + 1

Depth == Here.depth - document[root].depth

Walked == position \notin Nodes(root)

-----------------------------------------------------------------------------
(* The physical volume.                                                    *)

ReadExtentSize ==
  /\ stage = "extent size"
  /\ stage' = "physical volumes"
  /\ pv' = IF FoundInteger("extent_size", 1)
           THEN [pv EXCEPT !.extentSize =
                   document[Min(Found("extent_size", 1))].integer * SectorSize]
           ELSE pv
  /\ UNCHANGED <<document, lvName, root, position, seg, stripeCount, segments>>

\* The log's dump of a tree that was not found follows NULL.
FindPhysicalVolumes ==
  /\ stage = "physical volumes"
  /\ LET found == Found("physical_volumes", 1)
     IN  IF found = {}
         THEN stage' = "crashed" /\ UNCHANGED <<root, position>>
         ELSE IF document[Min(found)].type = "child"
         THEN /\ root' = Min(found)
              /\ position' = Min(found) + 1
              /\ stage' = "in physical volumes"
         ELSE stage' = "logical volume" /\ UNCHANGED <<root, position>>
  /\ UNCHANGED <<document, lvName, seg, stripeCount, pv, segments>>

\* Slip: the first volume's name not protected from the volumes after it.
NamedByAny == Depth = 1 /\ Here.type = "child"

\* Only the first physical volume gives its name.
NamesPhysicalVolume == Depth = 1 /\ Index(position) = 0 /\ Here.type = "child"

GivesName == Depth = 2 /\ Here.key \in PVNames /\ Here.type = "string"

\* Every physical volume's attributes are taken.
VisitPhysicalVolumes ==
  /\ stage = "in physical volumes"
  /\ ~ Walked
  /\ IF GivesName => Here.string # NoName
     THEN position' = NextNode /\ UNCHANGED stage
     ELSE stage' = "crashed" /\ UNCHANGED position
  /\ pv' =
       CASE NamesPhysicalVolume -> [pv EXCEPT !.name = Here.key]
         [] Depth = 2 /\ Here.key \in PVNumbers /\ Here.type = "integer" ->
              [pv EXCEPT !.numbers[Here.key] = Here.integer]
         [] GivesName /\ Here.string # NoName ->
              [pv EXCEPT !.names[Here.key] = Here.string]
         [] OTHER -> pv
  /\ UNCHANGED <<document, lvName, root, seg, stripeCount, segments>>

PhysicalVolumesWalked ==
  /\ stage = "in physical volumes"
  /\ Walked
  /\ stage' = "logical volume"
  /\ UNCHANGED <<document, lvName, root, position, seg, stripeCount, pv, segments>>

-----------------------------------------------------------------------------
(* The logical volume.                                                     *)

FindLogicalVolume ==
  /\ stage = "logical volume"
  /\ LET volumes == Found("logical_volumes", 1)
         found == IF volumes = {} THEN {} ELSE Found(lvName, Min(volumes))
     IN  IF found = {}
         THEN stage' = "crashed" /\ UNCHANGED root
         ELSE stage' = "segment count" /\ root' = Min(found)
  /\ UNCHANGED <<document, lvName, position, seg, stripeCount, pv, segments>>

SegmentCount ==
  IF FoundInteger("segment_count", root)
  THEN document[Min(Found("segment_count", root))].integer ELSE 0

\* The array of segments, and the walk that fills it if there are any.
CountSegments ==
  /\ stage = "segment count"
  /\ IF SegmentCount > 0
     THEN /\ segments' = [n \in 1 .. SegmentCount |-> NoSegment]
          /\ position' = root + 1
          /\ stage' = "in logical volume"
     ELSE stage' = "collected" /\ UNCHANGED <<segments, position>>
  /\ UNCHANGED <<document, lvName, root, seg, stripeCount, pv>>

\* Slip: the name of the node not looked at.
UncheckedNumber == IF Here.type = "child" THEN Here.segment - 1 ELSE 0

\* A tree whose name begins with "segment" and goes on without a number, or
\* with 0, gives -1.
EnteredSegment ==
  IF Here.segment # NotSegment /\ Here.type = "child" THEN Here.segment - 1 ELSE 0

\* Depth 1: is it a segment, and which one?
EnterSegment ==
  /\ stage = "in logical volume" /\ ~ Walked
  /\ Depth = 1
  /\ seg' = EnteredSegment
  /\ position' = NextNode
  /\ UNCHANGED <<stage, document, lvName, root, stripeCount, pv, segments>>

\* Slip: segments taken to be counted from 1 in memory as on the medium.
AsWritten == seg

\* Segment seg as the sequence of segments counts.
Slot == seg + 1

\* Slip: the case for the stripe count missing.
WithoutStripeCount == {"start_extent", "extent_count"}

SegmentKeys == {"start_extent", "extent_count", "stripe_count"}

Attribute(segment, key, value) ==
  CASE key = "start_extent" -> [segment EXCEPT !.startExtent = value]
    [] key = "extent_count" -> [segment EXCEPT !.extentCount = value]
    [] key = "stripe_count" ->
         [segment EXCEPT !.stripes = [n \in 1 .. value |-> NoStripe]]

\* Depth 2: an attribute of the segment, or of any list or tree between two
\* segments, which counts as the first segment's.
VisitAttribute ==
  /\ stage = "in logical volume" /\ ~ Walked
  /\ Depth = 2
  /\ IF seg >= 0 /\ Here.key \in SegmentKeys /\ Here.type = "integer"
     THEN IF Slot \in DOMAIN segments
          THEN /\ segments' = [segments EXCEPT ![Slot] =
                                 Attribute(@, Here.key, Here.integer)]
               /\ stripeCount' = IF Here.key = "stripe_count"
                                 THEN Here.integer ELSE stripeCount
               /\ position' = NextNode
               /\ UNCHANGED stage
          ELSE stage' = "corrupted" /\ UNCHANGED <<segments, stripeCount, position>>
     ELSE position' = NextNode /\ UNCHANGED <<stage, segments, stripeCount>>
  /\ UNCHANGED <<document, lvName, root, seg, pv>>

\* The elements of a list come in pairs.
IsName == Index(position) % 2 = 0 /\ Here.type = "string"

\* Slip: the last stripe left out.
IsEarlierExtent ==
  /\ Index(position) % 2 = 1 /\ Here.type = "integer"
  /\ Index(position) \div 2 < stripeCount - 1

IsExtent ==
  /\ Index(position) % 2 = 1 /\ Here.type = "integer"
  /\ Index(position) \div 2 < stripeCount

StripeHere == Index(position) \div 2 + 1

\* Depth 3: an element of the list of stripes, or of whatever list or tree
\* is this deep: the list's own key is not looked at, and only extents are
\* checked against the number of stripes.  strdup follows the NULL pointer
\* of an empty string, here and in the physical volumes.
VisitStripe ==
  /\ stage = "in logical volume" /\ ~ Walked
  /\ Depth = 3
  /\ IF ~ IsName /\ ~ IsExtent
     THEN position' = NextNode /\ UNCHANGED <<stage, segments>>
     ELSE IF IsName /\ Here.string = NoName
     THEN stage' = "crashed" /\ UNCHANGED <<position, segments>>
     ELSE IF Slot \in DOMAIN segments /\ StripeHere \in DOMAIN segments[Slot].stripes
     THEN /\ segments' =
               [segments EXCEPT ![Slot].stripes[StripeHere] =
                  IF IsName THEN [@ EXCEPT !.pvName = Here.string]
                  ELSE [@ EXCEPT !.startExtent = Here.integer]]
          /\ position' = NextNode
          /\ UNCHANGED stage
     ELSE /\ stage' = IF Slot \in DOMAIN segments /\ segments[Slot].stripes = <<>>
                      THEN "crashed" ELSE "corrupted"
          /\ UNCHANGED <<segments, position>>
  /\ UNCHANGED <<document, lvName, root, seg, stripeCount, pv>>

\* The callback ignores what is deeper.
PassDeeper ==
  /\ stage = "in logical volume" /\ ~ Walked
  /\ Depth > 3
  /\ position' = NextNode
  /\ UNCHANGED <<stage, document, lvName, root, seg, stripeCount, pv, segments>>

LogicalVolumeWalked ==
  /\ stage = "in logical volume"
  /\ Walked
  /\ stage' = "collected"
  /\ UNCHANGED <<document, lvName, root, position, seg, stripeCount, pv, segments>>

\* The next step allocates the physical volume, the segments, a segment's
\* stripes or one of the names that are compared later.
Allocates ==
  \/ stage = "extent size"
  \/ stage = "segment count" /\ SegmentCount > 0
  \/ stage = "in physical volumes" /\ ~ Walked /\ NamesPhysicalVolume
  \/ stage = "in logical volume" /\ ~ Walked
       /\ \/ Depth = 2 /\ Here.key = "stripe_count" /\ Here.type = "integer"
          \/ Depth = 3 /\ IsName

\* The allocation, like all of them not checked, returned NULL.  From here on
\* the call is not followed: it dies where the memory is used.
OutOfMemory ==
  /\ Allocates
  /\ stage' = "exhausted"
  /\ UNCHANGED <<document, lvName, root, position, seg, stripeCount, pv, segments>>

\* VolumeAssembly goes on from here, or the process died.
Over ==
  /\ stage \in {"collected", "crashed", "corrupted", "exhausted"}
  /\ UNCHANGED vars

Next ==
  \/ ReadExtentSize \/ FindPhysicalVolumes
  \/ VisitPhysicalVolumes \/ PhysicalVolumesWalked
  \/ FindLogicalVolume \/ CountSegments
  \/ EnterSegment \/ VisitAttribute \/ VisitStripe \/ PassDeeper
  \/ LogicalVolumeWalked
  \/ OutOfMemory
  \/ Over

\* The program is one thread that runs until it exits.
Spec == Init /\ [][Next]_vars /\ WF_vars(Next)

-----------------------------------------------------------------------------
(* Properties.  What a document says is read off its structure by           *)
(* VolumeText.                                                             *)

\* The segments collected are the segments of the logical volume asked for,
\* each in the place its number says and with the stripes of its own list,
\* whatever the order of the segments and of their attributes, and whatever
\* stands between them (parseMetadata.c:777-847, 877-898).
SegmentsAsWritten ==
  (stage = "collected" /\ Volume # {}) =>
    \A p \in Volume :
      /\ Len(segments) = IntegerAt(Child(p, "segment_count"))
      /\ \A q \in Children(p) :
           (document[q].segment > 0 /\ document[q].type = "child") =>
             segments[document[q].segment] = SegmentAt(q)

\* The physical volume that is collected has the name of the first one
\* listed and, of each number, the value the last one gives that has it: of
\* one physical volume everything, of several a mixture
\* (parseMetadata.c:696-747).
PhysicalVolumeAsWritten ==
  stage \in {"logical volume", "segment count", "in logical volume", "collected"} =>
    /\ \A p \in PhysicalVolumes :
         Index(p) = 0 => pv.name = document[p].key
    /\ \A a \in PVNumbers :
         LET given == UNION {Child(p, a) : p \in PhysicalVolumes}
         IN  given # {} => pv.numbers[a] = document[Max(given)].integer

\* No walk over a volume group writes outside an array: segments and stripes
\* are counted in the text before and apart from the nodes that fill them
\* (parseMetadata.c:789, 799-820, 825-844).
WritesStayInArrays == stage # "corrupted"

\* NULL is followed only when the volume asked for is not there, or at an
\* empty string (parseMetadata.c:220-223, 377, 717, 724, 830).
VolumeCollected ==
  stage = "crashed" =>
    \/ Volume = {}
    \/ Here.type = "string" /\ Here.string = NoName

\* Collecting ends, whatever the tree.
CollectionEnds == <>(stage \in {"collected", "crashed", "corrupted", "exhausted"})

-----------------------------------------------------------------------------
(* What the sources say.                                                   *)

\* parseMetadata.c:765-766: what is at depth 3 are the "stripe pairs
\* themselves", so that a volume with other lists in its segments, such as
\* tags, is collected all the same.
ListsTolerated == VolumeCollected
============================================================================
