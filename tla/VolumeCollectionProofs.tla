----------------------- MODULE VolumeCollectionProofs -----------------------
(***************************************************************************)
(* Proofs about the collection of a logical volume from the tree of the    *)
(* metadata, for trees of any size: type correctness for every tree, and   *)
(* for the trees VolumeText calls well formed that everything is collected *)
(* as it is written, however the segments and attributes are ordered and   *)
(* whatever else is in the text.                                           *)
(***************************************************************************)
EXTENDS VolumeCollection, FiniteSetTheorems, NaturalsInduction,
        WellFoundedInduction, TLAPS

-----------------------------------------------------------------------------
(* Numbers.                                                                *)

\* Some number of a set is the least.
LEMMA LeastNumber ==
  ASSUME NEW S, S \subseteq Nat, S # {}
  PROVE  \E x \in S : \A y \in S : x <= y
<1> DEFINE below == OpToRel(<, Nat)
<1>1. IsWellFoundedOn(below, Nat)
  BY NatLessThanWellFounded
<1>2. \E x \in S : \A y \in S : ~ (<<y, x>> \in below)
  <2> HIDE DEF below
  <2> QED
    BY <1>1, WFMin
<1>3. PICK x \in S : \A y \in S : ~ (<<y, x>> \in below)
  BY <1>2
<1>4. \A y \in S : ~ (y < x)
  BY <1>3 DEF OpToRel
<1>5. \A y \in S : x <= y
  BY <1>4
<1> QED
  BY <1>5

LEMMA MinIsLeast ==
  ASSUME NEW S, S \subseteq Nat, S # {}
  PROVE  Min(S) \in S /\ \A y \in S : Min(S) <= y
<1>1. \E x \in S : \A y \in S : x <= y
  BY LeastNumber
<1> QED
  BY <1>1 DEF Min

LEMMA MinOfOne ==
  ASSUME NEW x \in Nat
  PROVE  Min({x}) = x
<1>1. Min({x}) \in {x}
  BY MinIsLeast
<1> QED
  BY <1>1

\* The greatest of some numbers and one behind them all.
LEMMA MaxOfLast ==
  ASSUME NEW S, S \subseteq Nat, NEW x \in S, \A y \in S : y <= x
  PROVE  Max(S) = x
<1>1. \A m \in S : (\A y \in S : m >= y) => m = x
  BY SMT
<1>2. \A y \in S : x >= y
  BY SMT
<1> QED
  BY <1>1, <1>2 DEF Max

-----------------------------------------------------------------------------
(* The tree.                                                               *)

D(p) == document[p].depth

LEMMA DocumentFacts ==
  ASSUME document \in Documents
  PROVE  /\ DOMAIN document = 1 .. Len(document) /\ Len(document) \in Nat
         /\ 1 \in DOMAIN document
         /\ \A p \in DOMAIN document : document[p] \in Node /\ D(p) \in Nat
         /\ \A p \in Nat : p \in DOMAIN document /\ p + 1 \in DOMAIN document =>
              D(p + 1) <= D(p) + 1
<1>1. document \in Seq(Node) /\ Len(document) \in Nat /\ document # <<>>
  BY DocumentsAssumption
<1>2. DOMAIN document = 1 .. Len(document) /\ Len(document) # 0
  BY <1>1
<1>3. ASSUME NEW p \in DOMAIN document
      PROVE  document[p] \in Node /\ D(p) \in Nat
  <2>1. document[p] \in Node
    BY <1>1, <1>2, <1>3
  <2> QED
    BY <2>1 DEF D, Node
<1>4. ASSUME NEW p \in Nat, p \in DOMAIN document, p + 1 \in DOMAIN document
      PROVE  D(p + 1) <= D(p) + 1
  <2>1. p + 1 \in 2 .. Len(document) /\ (p + 1) - 1 = p
    BY <1>1, <1>2, <1>4
  <2>2. D(p + 1) \in 1 .. D(p) + 1
    BY <2>1, DocumentsAssumption DEF D
  <2> QED
    BY <1>3, <1>4, <2>2
<1> QED
  BY <1>1, <1>2, <1>3, <1>4

LEMMA NodeFacts ==
  ASSUME document \in Documents, NEW p \in DOMAIN document
  PROVE  /\ p \in Nat \ {0} /\ p <= Len(document)
         /\ document[p].depth \in Nat /\ document[p].key \in STRING
         /\ document[p].type \in Types /\ document[p].integer \in Nat
         /\ document[p].string \in STRING
         /\ document[p].segment \in Nat \cup {NotSegment}
<1>1. p \in 1 .. Len(document) /\ Len(document) \in Nat /\ document[p] \in Node
  BY DocumentFacts
<1> QED
  BY <1>1 DEF Node

\* A node and those below it, one after the other.
LEMMA NodesFacts ==
  ASSUME document \in Documents, NEW p \in DOMAIN document
  PROVE  /\ p \in Nodes(p)
         /\ \A q \in Nodes(p) :
              /\ q \in DOMAIN document /\ p <= q
              /\ q # p => D(q) > D(p)
              /\ \A r \in p .. q : r \in Nodes(p)
<1>1. p \in 1 .. Len(document) /\ Len(document) \in Nat /\ DOMAIN document = 1 .. Len(document)
  BY DocumentFacts
<1>2. p \in Nodes(p)
  BY <1>1 DEF Nodes
<1>3. ASSUME NEW q \in Nodes(p)
      PROVE  /\ q \in DOMAIN document /\ p <= q
             /\ q # p => D(q) > D(p)
             /\ \A r \in p .. q : r \in Nodes(p)
  <2>1. q \in p .. Len(document) /\ \A r \in p + 1 .. q : D(r) > D(p)
    BY <1>3 DEF Nodes, D
  <2>2. \A r \in p .. q : r \in p .. Len(document) /\ p + 1 .. r \subseteq p + 1 .. q
    BY <1>1, <2>1
  <2>3. \A r \in p .. q : r \in Nodes(p)
    BY <2>1, <2>2 DEF Nodes, D
  <2>4. q # p => q \in p + 1 .. q
    BY <1>1, <2>1
  <2> QED
    BY <1>1, <2>1, <2>3, <2>4
<1> QED
  BY <1>2, <1>3

LEMMA ChildFacts ==
  ASSUME document \in Documents, NEW p \in DOMAIN document, NEW q \in Children(p)
  PROVE  q \in DOMAIN document /\ q \in Nodes(p) /\ p < q /\ D(q) = D(p) + 1
<1>1. q \in Nodes(p) /\ D(q) = D(p) + 1
  BY DEF Children, D
<1>2. q \in DOMAIN document /\ p <= q /\ q \in Nat /\ p \in Nat /\ D(p) \in Nat
  BY <1>1, NodesFacts, NodeFacts, DocumentFacts
<1> QED
  BY <1>1, <1>2

\* What is below a child is below its parent.
LEMMA BelowChild ==
  ASSUME document \in Documents, NEW p \in DOMAIN document, NEW q \in Children(p),
         NEW x \in Nodes(q)
  PROVE  x \in Nodes(p) /\ q <= x /\ x \in DOMAIN document
<1>1. /\ DOMAIN document = 1 .. Len(document) /\ Len(document) \in Nat
      /\ \A r \in DOMAIN document : D(r) \in Nat
  BY DocumentFacts
<1>2. q \in DOMAIN document /\ q \in Nodes(p) /\ p < q /\ D(q) = D(p) + 1
  BY ChildFacts
<1>3. x \in DOMAIN document /\ q <= x
  BY <1>2, NodesFacts
<1>4. ASSUME NEW r \in p + 1 .. x
      PROVE  D(r) > D(p)
  <2>1. CASE r <= q
    <3>1. r \in p .. q /\ r # p
      BY <1>1, <1>2, <1>4, <2>1
    <3> QED
      BY <1>2, <3>1, NodesFacts
  <2>2. CASE r > q
    <3>1. r \in q .. x /\ r # q /\ r \in DOMAIN document
      BY <1>1, <1>2, <1>3, <1>4, <2>2
    <3>2. r \in Nodes(q)
      BY <1>2, <3>1, NodesFacts
    <3>3. D(r) > D(q)
      BY <1>2, <3>1, <3>2, NodesFacts
    <3> QED
      BY <1>1, <1>2, <3>1, <3>3
  <2> QED
    BY <1>1, <1>2, <1>3, <1>4, <2>1, <2>2
<1>5. x \in p .. Len(document)
  BY <1>1, <1>2, <1>3
<1> QED
  BY <1>3, <1>4, <1>5 DEF Nodes, D

\* A node is below one child of its grandparent at most.
LEMMA OneTree ==
  ASSUME document \in Documents, NEW p \in DOMAIN document,
         NEW q \in Children(p), NEW r \in Children(p),
         NEW x, x \in Nodes(q), x \in Nodes(r)
  PROVE  q = r
<1>1. /\ DOMAIN document = 1 .. Len(document) /\ Len(document) \in Nat
      /\ D(p) \in Nat
  BY DocumentFacts
<1>2. /\ q \in DOMAIN document /\ r \in DOMAIN document
      /\ D(q) = D(p) + 1 /\ D(r) = D(p) + 1
  BY ChildFacts
<1>3. q <= x /\ r <= x /\ x \in DOMAIN document
  BY <1>2, NodesFacts
<1>4. ASSUME q < r
      PROVE  FALSE
  <2>1. r \in q .. x
    BY <1>1, <1>2, <1>3, <1>4
  <2>2. r \in Nodes(q)
    BY <1>2, <2>1, NodesFacts
  <2>3. D(r) > D(q)
    BY <1>1, <1>2, <1>4, <2>2, NodesFacts
  <2> QED
    BY <1>1, <1>2, <2>3
<1>5. ASSUME r < q
      PROVE  FALSE
  <2>1. q \in r .. x
    BY <1>1, <1>2, <1>3, <1>5
  <2>2. q \in Nodes(r)
    BY <1>2, <2>1, NodesFacts
  <2>3. D(q) > D(r)
    BY <1>1, <1>2, <1>5, <2>2, NodesFacts
  <2> QED
    BY <1>1, <1>2, <2>3
<1> QED
  BY <1>1, <1>2, <1>4, <1>5

\* A node below p is a child of p or below one.
LEMMA UnderAChild ==
  ASSUME document \in Documents, NEW p \in DOMAIN document,
         NEW x \in Nodes(p), x # p
  PROVE  \E q \in Children(p) : x \in Nodes(q)
<1>1. /\ DOMAIN document = 1 .. Len(document) /\ Len(document) \in Nat
      /\ \A r \in DOMAIN document : D(r) \in Nat
      /\ \A r \in Nat : r \in DOMAIN document /\ r + 1 \in DOMAIN document =>
           D(r + 1) <= D(r) + 1
  BY DocumentFacts
<1>2. x \in DOMAIN document /\ p < x /\ \A r \in p .. x : r \in Nodes(p)
  <2>1. x \in DOMAIN document /\ p <= x /\ \A r \in p .. x : r \in Nodes(p)
    BY NodesFacts
  <2> QED
    BY <1>1, <2>1
<1>3. \A r \in p + 1 .. x : r \in DOMAIN document /\ D(r) > D(p)
  <2>1. \A r \in p + 1 .. x : r \in Nodes(p) /\ r # p
    BY <1>1, <1>2
  <2> QED
    BY <2>1, NodesFacts
<1> DEFINE back == {k \in Nat : k < x - p /\ D(x - k) = D(p) + 1}
<1>4. back # {}
  <2>1. p + 1 \in p + 1 .. x /\ p \in Nat /\ x \in Nat
    BY <1>1, <1>2
  <2>2. D(p + 1) = D(p) + 1
    BY <1>1, <1>3, <2>1
  <2>3. x - (p + 1) \in Nat /\ x - (p + 1) < x - p /\ x - (x - (p + 1)) = p + 1
    BY <1>2, <2>1
  <2> QED
    BY <2>2, <2>3
<1>5. PICK k \in back : \A l \in back : k <= l
  <2>1. back \subseteq Nat
    OBVIOUS
  <2> HIDE DEF back
  <2> QED
    BY <1>4, <2>1, LeastNumber
<1> DEFINE q == x - k
<1>6. q \in p + 1 .. x /\ D(q) = D(p) + 1 /\ q \in DOMAIN document
  BY <1>1, <1>2, <1>3, <1>5
<1>7. ASSUME NEW r \in q + 1 .. x
      PROVE  D(r) > D(q)
  <2>1. r \in p + 1 .. x /\ x - r \in Nat /\ x - r < x - p /\ x - (x - r) = r /\ x - r < k
    BY <1>1, <1>2, <1>5, <1>6, <1>7, SMTT(40)
  <2>2. x - r \notin back
    BY <1>5, <2>1
  <2>3. D(r) # D(p) + 1
    BY <2>1, <2>2
  <2>4. D(r) > D(p) /\ D(r) \in Nat /\ D(p) \in Nat
    BY <1>1, <1>3, <2>1
  <2> HIDE DEF back, q
  <2> QED
    BY <1>6, <2>3, <2>4
<1>8. x \in q .. Len(document)
  BY <1>1, <1>2, <1>6
<1>9. x \in Nodes(q)
  BY <1>7, <1>8 DEF Nodes, D
<1>10. q \in Children(p)
  <2>1. q \in p .. x
    BY <1>1, <1>2, <1>6
  <2> QED
    BY <1>2, <1>6, <2>1 DEF Children, D
<1> QED
  BY <1>9, <1>10

LEMMA ChildOfChild ==
  ASSUME document \in Documents, NEW p \in DOMAIN document, NEW x \in Nodes(p),
         D(x) = D(p) + 2
  PROVE  \E q \in Children(p) : x \in Children(q)
<1>1. D(p) \in Nat /\ x # p
  BY DocumentFacts
<1>2. PICK q \in Children(p) : x \in Nodes(q)
  BY <1>1, UnderAChild
<1>3. D(q) = D(p) + 1
  BY ChildFacts
<1> QED
  BY <1>1, <1>2, <1>3 DEF Children, D

LEMMA ChildOfChildOfChild ==
  ASSUME document \in Documents, NEW p \in DOMAIN document, NEW x \in Nodes(p),
         D(x) = D(p) + 3
  PROVE  \E q \in Children(p) : \E r \in Children(q) : x \in Children(r)
<1>1. D(p) \in Nat /\ x # p
  BY DocumentFacts
<1>2. PICK q \in Children(p) : x \in Nodes(q)
  BY <1>1, UnderAChild
<1>3. q \in DOMAIN document /\ D(q) = D(p) + 1
  BY ChildFacts
<1>4. D(x) = D(q) + 2
  BY <1>1, <1>3
<1> QED
  BY <1>2, <1>3, <1>4, ChildOfChild

\* The children of a node have different places among their siblings.
LEMMA IndexGrows ==
  ASSUME document \in Documents, NEW p \in DOMAIN document,
         NEW q \in Children(p), NEW r \in Children(p), q < r
  PROVE  Index(q) < Index(r)
<1>1. /\ DOMAIN document = 1 .. Len(document) /\ Len(document) \in Nat
      /\ \A x \in DOMAIN document : D(x) \in Nat
  BY DocumentFacts
<1>2. /\ q \in DOMAIN document /\ r \in DOMAIN document /\ r \in Nodes(p)
      /\ p < q /\ D(q) = D(p) + 1 /\ D(r) = D(p) + 1
  BY ChildFacts
<1> DEFINE before(x) == {y \in 1 .. x - 1 :
                           D(y) = D(x) /\ \A s \in y .. x : D(s) >= D(x)}
<1>3. \A x : Index(x) = Cardinality(before(x))
  BY DEF Index, D
<1>4. \A s \in q .. r : D(s) >= D(r)
  <2>1. ASSUME NEW s \in q .. r
        PROVE  D(s) >= D(r)
    <3>1. s \in p .. r /\ s # p /\ s \in DOMAIN document
      BY <1>1, <1>2, <2>1
    <3>2. s \in Nodes(p)
      BY <1>2, <3>1, NodesFacts
    <3>3. D(s) > D(p)
      BY <3>1, <3>2, NodesFacts
    <3> QED
      BY <1>1, <1>2, <3>1, <3>3
  <2> QED
    BY <2>1
<1>5. q \in before(r) /\ q \notin before(q)
  BY <1>1, <1>2, <1>4
<1>6. before(q) \subseteq before(r)
  <2>1. ASSUME NEW y \in before(q)
        PROVE  y \in before(r)
    <3>1. y \in 1 .. q - 1 /\ D(y) = D(q) /\ \A s \in y .. q : D(s) >= D(q)
      BY <2>1
    <3>2. y \in 1 .. r - 1
      BY <1>1, <1>2, <3>1
    <3>3. ASSUME NEW s \in y .. r
          PROVE  D(s) >= D(r)
      <4>1. s \in y .. q \/ s \in q .. r
        BY <1>1, <1>2, <3>1, <3>3
      <4> QED
        BY <1>2, <1>4, <3>1, <4>1
    <3> QED
      BY <1>2, <3>1, <3>2, <3>3
  <2> QED
    BY <2>1
<1>7. IsFiniteSet(before(r))
  <2>1. before(r) \subseteq 1 .. r - 1
    OBVIOUS
  <2>2. IsFiniteSet(1 .. r - 1)
    BY <1>1, <1>2, FS_Interval
  <2> HIDE DEF before
  <2> QED
    BY <2>1, <2>2, FS_Subset
<1> HIDE DEF before
<1>8. IsFiniteSet(before(q))
  BY <1>6, <1>7, FS_Subset
<1>9. Cardinality(before(q)) < Cardinality(before(r))
  <2>1. before(q) # before(r)
    BY <1>5
  <2>2. Cardinality(before(q)) <= Cardinality(before(r))
    BY <1>6, <1>7, FS_Subset
  <2>3. Cardinality(before(q)) # Cardinality(before(r))
    BY <1>6, <1>7, <2>1, FS_Subset
  <2> QED
    BY <1>7, <1>8, <2>2, <2>3, FS_CardinalityType
<1> QED
  BY <1>3, <1>9

LEMMA IndexTyped ==
  ASSUME NEW x \in Nat
  PROVE  Index(x) \in Nat
<1> DEFINE before == {y \in 1 .. x - 1 :
               /\ document[y].depth = document[x].depth
               /\ \A s \in y .. x : document[s].depth >= document[x].depth}
<1>1. before \subseteq 1 .. x - 1 /\ Index(x) = Cardinality(before)
  BY DEF Index
<1>2. IsFiniteSet(1 .. x - 1)
  BY FS_Interval
<1> HIDE DEF before
<1> QED
  BY <1>1, <1>2, FS_Subset, FS_CardinalityType

LEMMA IndexOfOne ==
  ASSUME document \in Documents, NEW p \in DOMAIN document,
         NEW q \in Children(p), NEW r \in Children(p), Index(q) = Index(r)
  PROVE  q = r
<1>1. q \in Nat /\ r \in Nat
  BY ChildFacts, NodeFacts
<1>2. ~ (q < r) /\ ~ (r < q)
  BY <1>1, IndexTyped, IndexGrows
<1> QED
  BY <1>1, <1>2

-----------------------------------------------------------------------------
(* Type correctness.                                                       *)

PV == [name : STRING, extentSize : Nat,
       numbers : [PVNumbers -> Nat], names : [PVNames -> STRING]]

Stripe == [pvName : STRING, startExtent : Nat]

Segment == [startExtent : Nat, extentCount : Nat, stripes : Seq(Stripe)]

LEMMA NoNameIsString == NoName \in STRING
BY CollectionAssumption

LEMMA NothingTyped == NoPhysicalVolume \in PV /\ NoSegment \in Segment /\ NoStripe \in Stripe
<1>1. NoPhysicalVolume \in PV
  BY NoNameIsString DEF NoPhysicalVolume, PV
<1>2. NoStripe \in Stripe
  BY NoNameIsString DEF NoStripe, Stripe
<1>3. NoSegment \in Segment
  BY DEF NoSegment, Segment
<1> QED
  BY <1>1, <1>2, <1>3

\* A lookup finds a node of the tree.
LEMMA FirstFound ==
  ASSUME document \in Documents, NEW p \in DOMAIN document, NEW key, Found(key, p) # {}
  PROVE  Min(Found(key, p)) \in Found(key, p) /\ Min(Found(key, p)) \in DOMAIN document
<1>1. \A q \in Found(key, p) : q \in DOMAIN document
  BY NodesFacts DEF Found
<1>2. Found(key, p) \subseteq Nat
  BY <1>1, NodeFacts
<1>3. Min(Found(key, p)) \in Found(key, p)
  BY <1>2, MinIsLeast
<1> QED
  BY <1>1, <1>3

LEMMA WalkFacts ==
  ASSUME TypeOK, ~ Walked
  PROVE  /\ position \in DOMAIN document /\ position \in Nodes(root) /\ root <= position
         /\ position + 1 \in 1 .. Len(document) + 1
         /\ Here \in Node /\ Depth = D(position) - D(root) /\ Depth \in Nat
         /\ position # root <=> Depth > 0
<1>1. document \in Documents /\ root \in DOMAIN document
  BY DEF TypeOK
<1>2. position \in Nodes(root)
  BY DEF Walked
<1>3. /\ position \in DOMAIN document /\ root <= position
      /\ position # root => D(position) > D(root)
  BY <1>1, <1>2, NodesFacts
<1>4. /\ document[position] \in Node /\ D(position) \in Nat /\ D(root) \in Nat
      /\ position \in 1 .. Len(document) /\ Len(document) \in Nat
  BY <1>1, <1>3, DocumentFacts
<1> QED
  BY <1>1, <1>2, <1>3, <1>4 DEF Here, Depth, D

LEMMA HereTyped ==
  ASSUME TypeOK, ~ Walked
  PROVE  /\ Here.key \in STRING /\ Here.integer \in Nat /\ Here.string \in STRING
         /\ Here.segment \in Nat \cup {NotSegment} /\ Here.type \in Types
BY WalkFacts DEF Node

LEMMA PVTyped ==
  ASSUME TypeOK, VisitPhysicalVolumes
  PROVE  pv' \in PV
<1>1. ~ Walked /\ pv \in PV
  BY DEF VisitPhysicalVolumes, TypeOK, PV
<1>2. Here.key \in STRING /\ Here.integer \in Nat /\ Here.string \in STRING
  BY <1>1, HereTyped
<1> DEFINE takesNumber == Depth = 2 /\ Here.key \in PVNumbers /\ Here.type = "integer"
           takesName == GivesName /\ Here.string # NoName
<1>3. [pv EXCEPT !.name = Here.key] \in PV
  BY <1>1, <1>2 DEF PV
<1>4. takesNumber => [pv EXCEPT !.numbers[Here.key] = Here.integer] \in PV
  BY <1>1, <1>2 DEF PV
<1>5. takesName => [pv EXCEPT !.names[Here.key] = Here.string] \in PV
  BY <1>1, <1>2 DEF PV, GivesName
<1>6. \/ pv' = [pv EXCEPT !.name = Here.key]
      \/ takesNumber /\ pv' = [pv EXCEPT !.numbers[Here.key] = Here.integer]
      \/ takesName /\ pv' = [pv EXCEPT !.names[Here.key] = Here.string]
      \/ pv' = pv
  <2>1. pv' = CASE NamesPhysicalVolume -> [pv EXCEPT !.name = Here.key]
                [] takesNumber -> [pv EXCEPT !.numbers[Here.key] = Here.integer]
                [] takesName -> [pv EXCEPT !.names[Here.key] = Here.string]
                [] OTHER -> pv
    BY DEF VisitPhysicalVolumes
  <2> HIDE DEF takesNumber, takesName
  <2> QED
    BY <2>1
<1> QED
  BY <1>1, <1>3, <1>4, <1>5, <1>6

LEMMA AttributeTyped ==
  ASSUME NEW s \in Segment, NEW key \in SegmentKeys, NEW value \in Nat
  PROVE  Attribute(s, key, value) \in Segment
<1>1. CASE key = "start_extent"
  BY <1>1 DEF Attribute, Segment
<1>2. CASE key = "extent_count"
  BY <1>2 DEF Attribute, Segment
<1>3. CASE key = "stripe_count"
  <2>1. [n \in 1 .. value |-> NoStripe] \in Seq(Stripe)
    BY NothingTyped
  <2>2. Attribute(s, key, value) = [s EXCEPT !.stripes = [n \in 1 .. value |-> NoStripe]]
    BY <1>3 DEF Attribute
  <2> QED
    BY <2>1, <2>2 DEF Segment
<1> QED
  BY <1>1, <1>2, <1>3 DEF SegmentKeys

\* The stripe a step writes.
StripeWith(stripe) ==
  IF IsName THEN [stripe EXCEPT !.pvName = Here.string]
  ELSE [stripe EXCEPT !.startExtent = Here.integer]

\* What a step at depth 3 does: nothing, or write the stripe.
LEMMA StripeWritten ==
  ASSUME TypeOK, VisitStripe
  PROVE  \/ segments' = segments
         \/ /\ Slot \in DOMAIN segments
            /\ StripeHere \in DOMAIN segments[Slot].stripes
            /\ segments' = [segments EXCEPT ![Slot].stripes[StripeHere] = StripeWith(@)]
BY DEF VisitStripe, StripeWith

LEMMA StripeTyped ==
  ASSUME TypeOK, ~ Walked, Slot \in DOMAIN segments,
         StripeHere \in DOMAIN segments[Slot].stripes
  PROVE  [segments EXCEPT ![Slot].stripes[StripeHere] = StripeWith(@)] \in Seq(Segment)
<1>1. segments \in Seq(Segment)
  BY DEF TypeOK, Segment, Stripe
<1>2. segments[Slot] \in Segment
  BY <1>1
<1>3. segments[Slot].stripes \in Seq(Stripe)
  BY <1>2 DEF Segment
<1> DEFINE stripes == segments[Slot].stripes
<1>4. StripeWith(stripes[StripeHere]) \in Stripe
  <2>1. stripes[StripeHere] \in Stripe
    BY <1>3
  <2> QED
    BY <2>1, HereTyped DEF StripeWith, Stripe
<1>5. [stripes EXCEPT ![StripeHere] = StripeWith(@)] \in Seq(Stripe)
  BY <1>3, <1>4
<1> DEFINE written == [stripes EXCEPT ![StripeHere] = StripeWith(@)]
<1>6. [segments EXCEPT ![Slot].stripes[StripeHere] = StripeWith(@)]
        = [segments EXCEPT ![Slot] = [segments[Slot] EXCEPT !.stripes = written]]
  OBVIOUS
<1>7. [segments[Slot] EXCEPT !.stripes = written] \in Segment
  <2> HIDE DEF written
  <2> QED
    BY <1>2, <1>5 DEF Segment, written
<1> HIDE DEF written
<1> QED
  BY <1>1, <1>6, <1>7

LEMMA TypeParts ==
  TypeOK <=>
    /\ stage \in Stages /\ document \in Documents /\ lvName \in Labels
    /\ root \in DOMAIN document /\ position \in 1 .. Len(document) + 1
    /\ seg \in Nat \cup {-1} /\ stripeCount \in Nat
    /\ pv \in PV /\ segments \in Seq(Segment)
BY DEF TypeOK, PV, Segment, Stripe

LEMMA InitTyped == Init => TypeOK
<1> SUFFICES ASSUME Init
             PROVE  TypeOK
  OBVIOUS
<1>1. 1 \in DOMAIN document /\ Len(document) \in Nat
  BY DocumentFacts DEF Init
<1>2. pv \in PV
  BY NothingTyped DEF Init
<1>3. segments \in Seq(Segment)
  <2>1. segments = <<>>
    BY DEF Init
  <2>2. <<>> \in Seq(Segment)
    OBVIOUS
  <2> QED
    BY <2>1, <2>2
<1>4. root \in DOMAIN document /\ position \in 1 .. Len(document) + 1
  <2>1. root = 1 /\ position = 1
    BY DEF Init
  <2> QED
    BY <1>1, <2>1
<1>5. /\ stage \in Stages /\ document \in Documents /\ lvName \in Labels
      /\ seg \in Nat /\ stripeCount \in Nat
  BY DEF Init, Stages
<1> QED
  BY <1>2, <1>3, <1>4, <1>5, TypeParts

LEMMA IntegerFound ==
  ASSUME document \in Documents, NEW p \in DOMAIN document, NEW key, FoundInteger(key, p)
  PROVE  document[Min(Found(key, p))].integer \in Nat
BY FirstFound, NodeFacts DEF FoundInteger

LEMMA SegmentCountTyped ==
  ASSUME document \in Documents, root \in DOMAIN document
  PROVE  SegmentCount \in Nat
BY IntegerFound DEF SegmentCount

\* The arrays a step of the walk leaves.
LEMMA SegmentsTyped ==
  ASSUME TypeOK, VisitAttribute
  PROVE  /\ segments' \in Seq(Segment) /\ stripeCount' \in Nat
         /\ Len(segments') = Len(segments)
<1>1. ~ Walked /\ segments \in Seq(Segment) /\ stripeCount \in Nat
  BY TypeParts DEF VisitAttribute
<1>2. Here.integer \in Nat
  BY <1>1, HereTyped
<1>3. CASE segments' = segments /\ stripeCount' = stripeCount
  BY <1>1, <1>3
<1>4. CASE /\ Here.key \in SegmentKeys /\ Slot \in DOMAIN segments
           /\ segments' = [segments EXCEPT ![Slot] = Attribute(@, Here.key, Here.integer)]
           /\ stripeCount' \in {Here.integer, stripeCount}
  <2>1. Attribute(segments[Slot], Here.key, Here.integer) \in Segment
    BY <1>1, <1>2, <1>4, AttributeTyped
  <2> QED
    BY <1>1, <1>2, <1>4, <2>1
<1> QED
  BY <1>3, <1>4 DEF VisitAttribute

LEMMA StepTyped == TypeOK /\ [Next]_vars => TypeOK'
<1> SUFFICES ASSUME TypeOK, [Next]_vars
             PROVE  TypeOK'
  OBVIOUS
<1>0. /\ stage \in Stages /\ document \in Documents /\ lvName \in Labels
      /\ root \in DOMAIN document /\ position \in 1 .. Len(document) + 1
      /\ seg \in Nat \cup {-1} /\ stripeCount \in Nat
      /\ pv \in PV /\ segments \in Seq(Segment)
  BY TypeParts
<1>a. TypeOK' <=>
        /\ stage' \in Stages /\ document' \in Documents /\ lvName' \in Labels
        /\ root' \in DOMAIN document' /\ position' \in 1 .. Len(document') + 1
        /\ seg' \in Nat \cup {-1} /\ stripeCount' \in Nat
        /\ pv' \in PV /\ segments' \in Seq(Segment)
  BY DEF TypeOK, PV, Segment, Stripe
<1>b. Len(document) \in Nat /\ DOMAIN document = 1 .. Len(document) /\ 1 \in DOMAIN document
  BY <1>0, DocumentFacts
<1>1. CASE ReadExtentSize
  <2>1. pv' \in PV
    <3>1. FoundInteger("extent_size", 1) =>
            document[Min(Found("extent_size", 1))].integer * SectorSize \in Nat
      BY <1>0, <1>b, IntegerFound, CollectionAssumption
    <3> QED
      BY <1>0, <1>1, <3>1 DEF ReadExtentSize, PV
  <2> QED
    BY <1>0, <1>1, <1>a, <2>1 DEF ReadExtentSize, Stages
<1>2. CASE FindPhysicalVolumes
  <2>1. Found("physical_volumes", 1) # {} =>
          Min(Found("physical_volumes", 1)) \in 1 .. Len(document)
    BY <1>0, <1>b, FirstFound
  <2> DEFINE found == Found("physical_volumes", 1)
  <2>2. \/ found # {} /\ root' = Min(found) /\ position' = Min(found) + 1
        \/ root' = root /\ position' = position
    BY <1>2 DEF FindPhysicalVolumes
  <2>3. root' \in DOMAIN document /\ position' \in 1 .. Len(document) + 1
    <3> HIDE DEF found
    <3> QED
      BY <1>0, <1>b, <2>1, <2>2 DEF found
  <2> QED
    BY <1>0, <1>2, <1>a, <2>3 DEF FindPhysicalVolumes, Stages
<1>3. CASE VisitPhysicalVolumes
  <2>1. position + 1 \in 1 .. Len(document) + 1
    BY <1>3, WalkFacts DEF VisitPhysicalVolumes
  <2>2. pv' \in PV
    BY <1>3, PVTyped
  <2>3. position' \in 1 .. Len(document) + 1
    BY <1>0, <1>3, <2>1 DEF VisitPhysicalVolumes, NextNode
  <2>4. stage' \in Stages
    BY <1>0, <1>3 DEF VisitPhysicalVolumes, Stages
  <2> QED
    BY <1>0, <1>3, <1>a, <2>2, <2>3, <2>4 DEF VisitPhysicalVolumes
<1>4. CASE PhysicalVolumesWalked
  BY <1>0, <1>4, <1>a DEF PhysicalVolumesWalked, Stages
<1>5. CASE FindLogicalVolume
  <2> DEFINE sections == Found("logical_volumes", 1)
             found == IF sections = {} THEN {} ELSE Found(lvName, Min(sections))
  <2>1. sections # {} => Min(sections) \in DOMAIN document
    BY <1>0, <1>b, FirstFound
  <2>2. found # {} => Min(found) \in DOMAIN document
    BY <1>0, <2>1, FirstFound
  <2>3. \/ found = {} /\ stage' = "crashed" /\ root' = root
        \/ found # {} /\ stage' = "segment count" /\ root' = Min(found)
    BY <1>5 DEF FindLogicalVolume
  <2>4. root' \in DOMAIN document /\ stage' \in Stages
    BY <1>0, <2>2, <2>3 DEF Stages
  <2> QED
    BY <1>0, <1>5, <1>a, <2>4 DEF FindLogicalVolume
<1>6. CASE CountSegments
  <2>1. SegmentCount \in Nat
    BY <1>0, SegmentCountTyped
  <2>2. [n \in 1 .. SegmentCount |-> NoSegment] \in Seq(Segment)
    BY <2>1, NothingTyped
  <2>3. root + 1 \in 1 .. Len(document) + 1
    BY <1>0, <1>b
  <2> QED
    BY <1>0, <1>6, <1>a, <2>2, <2>3 DEF CountSegments, Stages
<1>7. CASE EnterSegment
  <2>1. position + 1 \in 1 .. Len(document) + 1 /\ Here.segment \in Nat \cup {NotSegment}
    BY <1>7, WalkFacts, HereTyped DEF EnterSegment
  <2>2. EnteredSegment \in Nat \cup {-1}
    BY <2>1 DEF EnteredSegment, NotSegment
  <2> QED
    BY <1>0, <1>7, <1>a, <2>1, <2>2 DEF EnterSegment, NextNode
<1>8. CASE VisitAttribute
  <2>1. position + 1 \in 1 .. Len(document) + 1
    BY <1>8, WalkFacts DEF VisitAttribute
  <2>2. segments' \in Seq(Segment) /\ stripeCount' \in Nat
    BY <1>8, SegmentsTyped
  <2>3. position' \in 1 .. Len(document) + 1 /\ stage' \in Stages
    BY <1>0, <1>8, <2>1 DEF VisitAttribute, NextNode, Stages
  <2> QED
    BY <1>0, <1>8, <1>a, <2>2, <2>3 DEF VisitAttribute
<1>9. CASE VisitStripe
  <2>1. position + 1 \in 1 .. Len(document) + 1 /\ ~ Walked
    BY <1>9, WalkFacts DEF VisitStripe
  <2>2. segments' \in Seq(Segment)
    BY <1>0, <1>9, <2>1, StripeWritten, StripeTyped
  <2>3. position' \in 1 .. Len(document) + 1 /\ stage' \in Stages
    BY <1>0, <1>9, <2>1 DEF VisitStripe, NextNode, Stages
  <2> QED
    BY <1>0, <1>9, <1>a, <2>2, <2>3 DEF VisitStripe
<1>10. CASE PassDeeper
  <2>1. position + 1 \in 1 .. Len(document) + 1
    BY <1>10, WalkFacts DEF PassDeeper
  <2> QED
    BY <1>0, <1>10, <1>a, <2>1 DEF PassDeeper, NextNode
<1>11. CASE LogicalVolumeWalked
  BY <1>0, <1>11, <1>a DEF LogicalVolumeWalked, Stages
<1>12. CASE OutOfMemory
  BY <1>0, <1>12, <1>a DEF OutOfMemory, Stages
<1>13. CASE Over \/ UNCHANGED vars
  BY <1>0, <1>13, <1>a DEF Over, vars
<1> QED
  BY <1>1, <1>2, <1>3, <1>4, <1>5, <1>6, <1>7, <1>8, <1>9, <1>10, <1>11, <1>12, <1>13
     DEF Next

\* Whatever the tree of the metadata, the walks stay in it and what is
\* collected has its types (parseMetadata.c:690-898).
THEOREM TypeCorrect == Spec => []TypeOK
<1>1. Init => TypeOK
  BY InitTyped
<1>2. TypeOK /\ [Next]_vars => TypeOK'
  BY StepTyped
<1> QED
  BY <1>1, <1>2, PTL DEF Spec

-----------------------------------------------------------------------------
(* The inductive invariant, for well-formed documents.                     *)

\* Those of some nodes that come before node p.
Before(ps, p) == {q \in ps : q < p}

\* The walk from a node has come as far as node p.
Walking(from, p) == from < p /\ p - 1 \in Nodes(from)

Numbers(a) == UNION {Child(p, a) : p \in PhysicalVolumes}

\* v is the physical volume as collected from the nodes before p.
VolumeTaken(v, p) ==
  /\ \A q \in Before(PhysicalVolumes, p) : Index(q) = 0 => v.name = document[q].key
  /\ \A a \in PVNumbers :
       LET given == Before(Numbers(a), p)
       IN  given # {} => v.numbers[a] = document[Max(given)].integer

PhysicalVolumeInv ==
  stage = "in physical volumes" =>
    /\ root \in Section("physical_volumes")
    /\ Walking(root, position)
    /\ VolumeTaken(pv, position)

\* What EnterSegment makes of node q.
Entered(q) ==
  IF document[q].segment # NotSegment /\ document[q].type = "child"
  THEN document[q].segment - 1 ELSE 0

\* The elements of a list of stripes before p are in their places.
StripesTaken(stripes, r, p) ==
  \A e \in Before(Children(r), p) :
    LET stripe == stripes[Index(e) \div 2 + 1]
    IN  IF Index(e) % 2 = 0 THEN stripe.pvName = document[e].string
        ELSE stripe.startExtent = document[e].integer

\* s is segment q as collected from the nodes before p.
SegmentTaken(s, q, p) ==
  /\ s.startExtent = IntegerAt(Before(Child(q, "start_extent"), p))
  /\ s.extentCount = IntegerAt(Before(Child(q, "extent_count"), p))
  /\ Len(s.stripes) = IntegerAt(Before(Child(q, "stripe_count"), p))
  /\ \A r \in Child(q, "stripes") : StripesTaken(s.stripes, r, p)

\* The static variables belong to the tree the walk is in.
StaticsFit(number, count, from, p) ==
  \A q \in Children(from) :
    p - 1 \in Nodes(q) =>
      /\ number = Entered(q)
      /\ q \in SegmentsOf(from) =>
           \A s \in Before(Child(q, "stripe_count"), p) : count = document[s].integer

AllTaken(ss, from, p) ==
  \A q \in SegmentsOf(from) : SegmentTaken(ss[document[q].segment], q, p)

SegmentsInv ==
  stage = "in logical volume" =>
    /\ Walking(root, position)
    /\ Len(segments) = IntegerAt(Child(root, "segment_count")) /\ segments # <<>>
    /\ StaticsFit(seg, stripeCount, root, position)
    /\ AllTaken(segments, root, position)

\* Nothing is collected of the logical volume before it is found.
FoundInv ==
  /\ stage \in {"segment count", "in logical volume"} => root \in Volume
  /\ stage \in {"extent size", "physical volumes", "in physical volumes",
                "logical volume", "segment count"} => segments = <<>>

TextInv == TypeOK /\ WellFormed

IInv ==
  /\ TextInv /\ PhysicalVolumeInv /\ PhysicalVolumeAsWritten
  /\ FoundInv /\ SegmentsInv /\ SegmentsAsWritten
  /\ WritesStayInArrays /\ VolumeCollected

LEMMA TreeKept ==
  ASSUME document' = document
  PROVE  /\ \A p : /\ Nodes(p)' = Nodes(p) /\ Children(p)' = Children(p)
                   /\ Index(p)' = Index(p) /\ SegmentsOf(p)' = SegmentsOf(p)
                   /\ IntegerAt(p)' = IntegerAt(p) /\ Entered(p)' = Entered(p)
         /\ \A key : /\ Section(key)' = Section(key)
                     /\ \A p : Found(key, p)' = Found(key, p) /\ Child(p, key)' = Child(p, key)
<1>1. \A p : Nodes(p)' = Nodes(p)
  BY DEF Nodes
<1>2. \A p : Children(p)' = Children(p)
  BY <1>1 DEF Children
<1>3. \A p : Index(p)' = Index(p)
  BY DEF Index
<1>4. \A p : SegmentsOf(p)' = SegmentsOf(p) /\ IntegerAt(p)' = IntegerAt(p) /\ Entered(p)' = Entered(p)
  BY <1>2 DEF SegmentsOf, IntegerAt, Entered
<1>5. \A key : \A p : Found(key, p)' = Found(key, p) /\ Child(p, key)' = Child(p, key)
  BY <1>1, <1>2 DEF Found, Child
<1>6. \A key : Section(key)' = Section(key)
  BY <1>2, <1>5 DEF Section
<1> QED
  BY <1>1, <1>2, <1>3, <1>4, <1>5, <1>6

LEMMA TextKept ==
  ASSUME document' = document, lvName' = lvName
  PROVE  /\ Volume' = Volume /\ PhysicalVolumes' = PhysicalVolumes
         /\ \A a : Numbers(a)' = Numbers(a)
         /\ \A p : SegmentAt(p)' = SegmentAt(p)
         /\ WellFormed' <=> WellFormed
<1>1. Volume' = Volume
  BY TreeKept DEF Volume
<1>2. PhysicalVolumes' = PhysicalVolumes
  BY TreeKept DEF PhysicalVolumes
<1>3. \A a : Numbers(a)' = Numbers(a)
  BY <1>2, TreeKept DEF Numbers
<1>4. ASSUME NEW p
      PROVE  SegmentAt(p)' = SegmentAt(p)
  <2>1. \A r, n : Element(r, n)' = Element(r, n)
    <3> SUFFICES ASSUME NEW r, NEW n
                 PROVE  Element(r, n)' = Element(r, n)
      OBVIOUS
    <3>1. Children(r)' = Children(r) /\ \A q : Index(q)' = Index(q)
      BY TreeKept
    <3>2. (CHOOSE q \in Children(r) : Index(q) = n - 1)'
            = CHOOSE q \in Children(r) : Index(q) = n - 1
      BY <3>1
    <3> QED
      BY <3>2 DEF Element
  <2>2. \A ps, count : StripesAt(ps, count)' = StripesAt(ps, count)
    BY <2>1 DEF StripesAt
  <2> QED
    BY <2>2, TreeKept DEF SegmentAt
<1>5. SectionsFound' <=> SectionsFound
  BY <1>1, TreeKept DEF SectionsFound, AtMostOne
<1>a. \A ps : Integers(ps)' <=> Integers(ps)
  BY DEF Integers
<1>6. PhysicalVolumesListed' <=> PhysicalVolumesListed
  <2>1. \A p : \A key : Integers(Child(p, key))' <=> Integers(Child(p, key))
    BY <1>a, TreeKept
  <2> QED
    BY <1>2, <2>1, TreeKept DEF PhysicalVolumesListed
<1>7. ASSUME NEW q, NEW r
      PROVE  StripesListed(q, r)' <=> StripesListed(q, r)
  <2>1. /\ Child(q, "stripe_count")' = Child(q, "stripe_count")
        /\ IntegerAt(Child(q, "stripe_count"))' = IntegerAt(Child(q, "stripe_count"))
        /\ Children(r)' = Children(r)
        /\ \A e : Index(e)' = Index(e)
    BY TreeKept
  <2> QED
    BY <2>1 DEF StripesListed
<1>8. ASSUME NEW q
      PROVE  SegmentComplete(q)' <=> SegmentComplete(q)
  <2>1. /\ Children(q)' = Children(q) /\ \A r : Children(r)' = Children(r)
        /\ \A key : Child(q, key)' = Child(q, key)
        /\ \A key : Integers(Child(q, key))' <=> Integers(Child(q, key))
        /\ IntegerAt(Child(q, "stripe_count"))' = IntegerAt(Child(q, "stripe_count"))
        /\ \A r : StripesListed(q, r)' <=> StripesListed(q, r)
    BY <1>7, <1>a, TreeKept
  <2> QED
    BY <2>1 DEF SegmentComplete
<1>9. \A q : NothingCollected(q)' <=> NothingCollected(q)
  BY TreeKept DEF NothingCollected
<1>10. \A p : VolumeComplete(p)' <=> VolumeComplete(p)
  BY <1>8, <1>9, TreeKept DEF VolumeComplete, Integers
<1> QED
  BY <1>1, <1>2, <1>3, <1>4, <1>5, <1>6, <1>10 DEF WellFormed

LEMMA TakenKept ==
  ASSUME document' = document, lvName' = lvName
  PROVE  /\ \A from, p : Walking(from, p)' <=> Walking(from, p)
         /\ \A v, p : VolumeTaken(v, p)' <=> VolumeTaken(v, p)
         /\ \A number, count, from, p :
              StaticsFit(number, count, from, p)' <=> StaticsFit(number, count, from, p)
         /\ \A ss, from, p : AllTaken(ss, from, p)' <=> AllTaken(ss, from, p)
<1>1. \A from, p : Walking(from, p)' <=> Walking(from, p)
  BY TreeKept DEF Walking
<1>2. \A v, p : VolumeTaken(v, p)' <=> VolumeTaken(v, p)
  BY TreeKept, TextKept DEF VolumeTaken
<1>3. \A number, count, from, p :
        StaticsFit(number, count, from, p)' <=> StaticsFit(number, count, from, p)
  BY TreeKept DEF StaticsFit
<1>4. \A stripes, r, p : StripesTaken(stripes, r, p)' <=> StripesTaken(stripes, r, p)
  BY TreeKept DEF StripesTaken
<1>5. \A s, q, p : SegmentTaken(s, q, p)' <=> SegmentTaken(s, q, p)
  BY <1>4, TreeKept, ZenonT(40) DEF SegmentTaken
<1>6. \A ss, from, p : AllTaken(ss, from, p)' <=> AllTaken(ss, from, p)
  BY <1>5, TreeKept DEF AllTaken
<1> QED
  BY <1>1, <1>2, <1>3, <1>6

\* The parts of the invariant after a step, about the tree as it is before it.
LEMMA PartsPrimed ==
  ASSUME document' = document, lvName' = lvName
  PROVE  /\ PhysicalVolumeInv' <=>
              (stage' = "in physical volumes" =>
                 /\ root' \in Section("physical_volumes")
                 /\ Walking(root', position')
                 /\ VolumeTaken(pv', position'))
         /\ FoundInv' <=>
              /\ stage' \in {"segment count", "in logical volume"} => root' \in Volume
              /\ stage' \in {"extent size", "physical volumes", "in physical volumes",
                            "logical volume", "segment count"} => segments' = <<>>
         /\ SegmentsInv' <=>
              (stage' = "in logical volume" =>
                 /\ Walking(root', position')
                 /\ Len(segments') = IntegerAt(Child(root', "segment_count"))
                 /\ segments' # <<>>
                 /\ StaticsFit(seg', stripeCount', root', position')
                 /\ AllTaken(segments', root', position'))
<1>1. PhysicalVolumeInv' <=>
        (stage' = "in physical volumes" =>
           /\ root' \in Section("physical_volumes")
           /\ Walking(root', position')
           /\ VolumeTaken(pv', position'))
  BY TreeKept, TakenKept DEF PhysicalVolumeInv
<1>2. FoundInv' <=>
        /\ stage' \in {"segment count", "in logical volume"} => root' \in Volume
        /\ stage' \in {"extent size", "physical volumes", "in physical volumes",
                      "logical volume", "segment count"} => segments' = <<>>
  BY TextKept DEF FoundInv
<1>3. SegmentsInv' <=>
        (stage' = "in logical volume" =>
           /\ Walking(root', position')
           /\ Len(segments') = IntegerAt(Child(root', "segment_count"))
           /\ segments' # <<>>
           /\ StaticsFit(seg', stripeCount', root', position')
           /\ AllTaken(segments', root', position'))
  BY TreeKept, TakenKept DEF SegmentsInv
<1> QED
  BY <1>1, <1>2, <1>3

\* The properties after a step, about the tree as it is before it.
LEMMA PropertiesPrimed ==
  ASSUME document' = document, lvName' = lvName
  PROVE  /\ SegmentsAsWritten' <=>
              (stage' = "collected" /\ Volume # {} =>
                 \A p \in Volume :
                   /\ Len(segments') = IntegerAt(Child(p, "segment_count"))
                   /\ \A q \in Children(p) :
                        document[q].segment > 0 /\ document[q].type = "child" =>
                          segments'[document[q].segment] = SegmentAt(q))
         /\ VolumeCollected' <=>
              (stage' = "crashed" =>
                 \/ Volume = {}
                 \/ document[position'].type = "string" /\ document[position'].string = NoName)
<1>1. \A p : /\ Children(p)' = Children(p) /\ SegmentAt(p)' = SegmentAt(p)
             /\ IntegerAt(Child(p, "segment_count"))' = IntegerAt(Child(p, "segment_count"))
  BY TreeKept, TextKept
<1>2. Volume' = Volume
  BY TextKept
<1>3. SegmentsAsWritten' <=>
        (stage' = "collected" /\ Volume # {} =>
           \A p \in Volume :
             /\ Len(segments') = IntegerAt(Child(p, "segment_count"))
             /\ \A q \in Children(p) :
                  document[q].segment > 0 /\ document[q].type = "child" =>
                    segments'[document[q].segment] = SegmentAt(q))
  BY <1>1, <1>2 DEF SegmentsAsWritten
<1>4. VolumeCollected' <=>
        (stage' = "crashed" =>
           \/ Volume = {}
           \/ document[position'].type = "string" /\ document[position'].string = NoName)
  BY <1>2 DEF VolumeCollected, Here
<1> QED
  BY <1>3, <1>4

LEMMA SectionFacts ==
  ASSUME document \in Documents, NEW key, NEW p \in Section(key)
  PROVE  p \in DOMAIN document /\ p # 1
<1>1. PICK q \in Children(1) : p \in Child(q, key)
  BY DEF Section
<1>2. 1 \in DOMAIN document
  BY DocumentFacts
<1>3. q \in DOMAIN document /\ 1 < q
  BY <1>2, ChildFacts
<1>4. p \in DOMAIN document /\ q < p /\ q \in Nat /\ p \in Nat
  BY <1>1, <1>3, ChildFacts, NodeFacts DEF Child
<1> QED
  BY <1>3, <1>4

LEMMA VolumesAreNodes ==
  ASSUME document \in Documents
  PROVE  /\ PhysicalVolumes \subseteq DOMAIN document /\ Volume \subseteq DOMAIN document
         /\ \A a : Numbers(a) \subseteq DOMAIN document
<1>1. PhysicalVolumes \subseteq DOMAIN document
  <2>1. ASSUME NEW p \in Section("physical_volumes"), NEW q \in Children(p)
        PROVE  q \in DOMAIN document
    BY SectionFacts, ChildFacts
  <2> QED
    BY <2>1 DEF PhysicalVolumes
<1>2. Volume \subseteq DOMAIN document
  <2>1. ASSUME NEW p \in Section("logical_volumes"), NEW q \in Children(p)
        PROVE  q \in DOMAIN document
    BY SectionFacts, ChildFacts
  <2> QED
    BY <2>1 DEF Volume, Child
<1>3. ASSUME NEW a, NEW x \in Numbers(a)
      PROVE  x \in DOMAIN document
  <2>1. PICK p \in PhysicalVolumes : x \in Child(p, a)
    BY <1>3 DEF Numbers
  <2> QED
    BY <1>1, <2>1, ChildFacts DEF Child
<1> QED
  BY <1>1, <1>2, <1>3

LEMMA NodesAreNumbers ==
  ASSUME document \in Documents
  PROVE  DOMAIN document \subseteq Nat /\ Len(document) \in Nat
BY DocumentFacts

LEMMA BeforeNext ==
  ASSUME NEW ps, ps \subseteq Nat, NEW p \in Nat
  PROVE  Before(ps, p + 1) = IF p \in ps THEN Before(ps, p) \cup {p} ELSE Before(ps, p)
<1>1. \A q \in Nat : q < p + 1 <=> q < p \/ q = p
  OBVIOUS
<1> QED
  BY <1>1 DEF Before

LEMMA BeforeEnd ==
  ASSUME document \in Documents, NEW ps, ps \subseteq DOMAIN document
  PROVE  Before(ps, Len(document) + 1) = ps
<1>1. \A q \in DOMAIN document : q < Len(document) + 1
  BY DocumentFacts
<1> QED
  BY <1>1 DEF Before

\* What is written of the physical volume is what all the nodes give.
LEMMA WrittenIsTaken ==
  ASSUME document \in Documents
  PROVE  PhysicalVolumeAsWritten <=>
           (stage \in {"logical volume", "segment count", "in logical volume", "collected"} =>
              VolumeTaken(pv, Len(document) + 1))
<1>1. Before(PhysicalVolumes, Len(document) + 1) = PhysicalVolumes
  BY VolumesAreNodes, BeforeEnd
<1>2. \A a : Before(Numbers(a), Len(document) + 1) = Numbers(a)
  BY VolumesAreNodes, BeforeEnd
<1>3. PhysicalVolumeAsWritten <=>
        (stage \in {"logical volume", "segment count", "in logical volume", "collected"} =>
           /\ \A p \in PhysicalVolumes : Index(p) = 0 => pv.name = document[p].key
           /\ \A a \in PVNumbers :
                Numbers(a) # {} => pv.numbers[a] = document[Max(Numbers(a))].integer)
  BY DEF PhysicalVolumeAsWritten, Numbers
<1> QED
  BY <1>1, <1>2, <1>3 DEF VolumeTaken

LEMMA WrittenPrimed ==
  ASSUME document \in Documents, document' = document, lvName' = lvName
  PROVE  PhysicalVolumeAsWritten' <=>
           (stage' \in {"logical volume", "segment count", "in logical volume", "collected"} =>
              VolumeTaken(pv', Len(document) + 1))
<1>1. Before(PhysicalVolumes, Len(document) + 1) = PhysicalVolumes
  BY VolumesAreNodes, BeforeEnd
<1>2. \A a : Before(Numbers(a), Len(document) + 1) = Numbers(a)
  BY VolumesAreNodes, BeforeEnd
<1>3. /\ PhysicalVolumes' = PhysicalVolumes
      /\ \A a : Numbers(a)' = Numbers(a)
      /\ \A p : Index(p)' = Index(p)
  BY TreeKept, TextKept
<1>4. PhysicalVolumeAsWritten' <=>
        (stage' \in {"logical volume", "segment count", "in logical volume", "collected"} =>
           /\ \A p \in PhysicalVolumes' : Index(p)' = 0 => pv'.name = document[p].key
           /\ \A a \in PVNumbers :
                Numbers(a)' # {} => pv'.numbers[a] = document[Max(Numbers(a)')].integer)
  BY DEF PhysicalVolumeAsWritten, Numbers
<1> QED
  BY <1>1, <1>2, <1>3, <1>4 DEF VolumeTaken

-----------------------------------------------------------------------------
(* The walk over the physical volumes.                                     *)

LEMMA WalkGoesOn ==
  ASSUME TypeOK, ~ Walked
  PROVE  Walking(root, position + 1)
BY WalkFacts, NodeFacts DEF Walking, TypeOK

\* A walk that is over has passed every node of its tree.
LEMMA AllPassed ==
  ASSUME TypeOK, Walked, Walking(root, position), NEW q \in Nodes(root)
  PROVE  q < position
<1>1. document \in Documents /\ root \in DOMAIN document /\ position \in Nat
  <2>1. document \in Documents /\ position \in 1 .. Len(document) + 1 /\ root \in DOMAIN document
    BY DEF TypeOK
  <2> QED
    BY <2>1, DocumentFacts
<1>2. q \in Nat /\ root < position /\ root \in Nat /\ position \notin Nodes(root)
  BY <1>1, NodesFacts, NodeFacts DEF Walking, Walked
<1>3. position \notin root .. q
  BY <1>1, <1>2, NodesFacts
<1> QED
  BY <1>1, <1>2, <1>3

LEMMA OneSection ==
  ASSUME WellFormed, root \in Section("physical_volumes")
  PROVE  PhysicalVolumes = Children(root)
<1>1. Section("physical_volumes") = {root}
  BY DEF WellFormed, SectionsFound, AtMostOne
<1> QED
  BY <1>1 DEF PhysicalVolumes

LEMMA VisitedVolume ==
  ASSUME TypeOK, VisitPhysicalVolumes
  PROVE  /\ pv'.name = IF NamesPhysicalVolume THEN Here.key ELSE pv.name
         /\ \A a \in PVNumbers :
              pv'.numbers[a] = IF Depth = 2 /\ Here.key = a /\ Here.type = "integer"
                               THEN Here.integer ELSE pv.numbers[a]
<1>1. pv \in PV
  BY TypeParts
<1> DEFINE takesNumber == Depth = 2 /\ Here.key \in PVNumbers /\ Here.type = "integer"
           takesName == GivesName /\ Here.string # NoName
<1>2. CASE NamesPhysicalVolume
  <2>1. Depth # 2
    BY <1>2 DEF NamesPhysicalVolume
  <2>2. ~ takesName /\ ~ takesNumber
    BY <2>1 DEF GivesName
  <2>3. pv' = [pv EXCEPT !.name = Here.key]
    BY <1>2, <2>2 DEF VisitPhysicalVolumes
  <2> QED
    BY <1>1, <1>2, <2>1, <2>3 DEF PV
<1>3. CASE takesNumber
  <2>1. ~ NamesPhysicalVolume
    BY <1>3 DEF NamesPhysicalVolume
  <2>2. ~ takesName
    BY <1>3 DEF GivesName
  <2>3. pv' = [pv EXCEPT !.numbers[Here.key] = Here.integer]
    BY <1>3, <2>1, <2>2 DEF VisitPhysicalVolumes
  <2> QED
    BY <1>1, <1>3, <2>1, <2>3 DEF PV
<1>4. CASE takesName
  <2>1. ~ NamesPhysicalVolume
    BY <1>4 DEF NamesPhysicalVolume, GivesName
  <2>2. ~ takesNumber
    BY <1>4 DEF GivesName
  <2>3. pv' = [pv EXCEPT !.names[Here.key] = Here.string]
    BY <1>4, <2>1, <2>2 DEF VisitPhysicalVolumes
  <2> QED
    BY <1>1, <2>1, <2>2, <2>3 DEF PV
<1>5. CASE ~ NamesPhysicalVolume /\ ~ takesNumber /\ ~ takesName
  <2>1. pv' = pv
    BY <1>5 DEF VisitPhysicalVolumes
  <2> QED
    BY <1>5, <2>1
<1> QED
  BY <1>2, <1>3, <1>4, <1>5

LEMMA NumberNodes ==
  ASSUME document \in Documents, NEW from \in DOMAIN document,
         PhysicalVolumes = Children(from), NEW a, NEW x
  PROVE  x \in Numbers(a) <=>
           x \in Nodes(from) /\ D(x) = D(from) + 2 /\ document[x].key = a
<1>1. ASSUME x \in Numbers(a)
      PROVE  x \in Nodes(from) /\ D(x) = D(from) + 2 /\ document[x].key = a
  <2>1. PICK q \in Children(from) : x \in Children(q) /\ document[x].key = a
    BY <1>1 DEF Numbers, Child
  <2>2. q \in DOMAIN document /\ D(q) = D(from) + 1 /\ D(from) \in Nat
    BY ChildFacts, DocumentFacts
  <2>3. x \in Nodes(q) /\ D(x) = D(q) + 1
    BY <2>1, <2>2, ChildFacts
  <2>4. x \in Nodes(from)
    BY <2>3, BelowChild
  <2> QED
    BY <2>1, <2>2, <2>3, <2>4
<1>2. ASSUME x \in Nodes(from), D(x) = D(from) + 2, document[x].key = a
      PROVE  x \in Numbers(a)
  <2>1. PICK q \in Children(from) : x \in Children(q)
    BY <1>2, ChildOfChild
  <2> QED
    BY <1>2, <2>1 DEF Numbers, Child
<1> QED
  BY <1>1, <1>2

LEMMA NameTaken ==
  ASSUME TextInv, PhysicalVolumeInv, VisitPhysicalVolumes,
         NEW q \in Before(PhysicalVolumes, position + 1), Index(q) = 0
  PROVE  pv'.name = document[q].key
<1>1. /\ document \in Documents /\ root \in DOMAIN document /\ TypeOK /\ WellFormed
      /\ ~ Walked /\ root \in Section("physical_volumes") /\ VolumeTaken(pv, position)
  BY DEF TextInv, PhysicalVolumeInv, VisitPhysicalVolumes, TypeOK
<1>2. PhysicalVolumes = Children(root)
  BY <1>1, OneSection
<1>3. /\ position \in DOMAIN document /\ position \in Nodes(root) /\ position \in Nat
      /\ Depth = D(position) - D(root) /\ D(position) \in Nat /\ D(root) \in Nat
  BY <1>1, WalkFacts, NodeFacts DEF D
<1>4. pv'.name = IF NamesPhysicalVolume THEN Here.key ELSE pv.name
  BY <1>1, VisitedVolume
<1>5. q \in Children(root) /\ q \in Nat /\ D(q) = D(root) + 1
  BY <1>1, <1>2, ChildFacts, NodeFacts DEF Before
<1>6. q < position \/ q = position
  BY <1>3, <1>5 DEF Before
<1>7. CASE q = position
  <2>1. document[q].type = "child"
    BY <1>1, <1>2, <1>5 DEF WellFormed, PhysicalVolumesListed
  <2>2. NamesPhysicalVolume
    BY <1>3, <1>5, <1>7, <2>1 DEF NamesPhysicalVolume, Here
  <2> QED
    BY <1>4, <1>7, <2>2 DEF Here
<1>8. CASE q < position
  <2>1. pv.name = document[q].key
    BY <1>1, <1>2, <1>5, <1>8 DEF VolumeTaken, Before
  <2>2. ASSUME NamesPhysicalVolume
        PROVE  FALSE
    <3>1. Depth = 1 /\ Index(position) = 0
      BY <2>2 DEF NamesPhysicalVolume
    <3>2. D(position) = D(root) + 1
      BY <1>3, <3>1
    <3>3. position \in Children(root)
      BY <1>3, <3>2 DEF Children, D
    <3>4. position = q
      BY <1>1, <1>5, <3>1, <3>3, IndexOfOne
    <3> QED
      BY <1>3, <1>8, <3>4
  <2> QED
    BY <1>4, <2>1, <2>2
<1> QED
  BY <1>6, <1>7, <1>8

LEMMA NumberTaken ==
  ASSUME TextInv, PhysicalVolumeInv, VisitPhysicalVolumes,
         NEW a \in PVNumbers, Before(Numbers(a), position + 1) # {}
  PROVE  pv'.numbers[a] = document[Max(Before(Numbers(a), position + 1))].integer
<1>1. /\ document \in Documents /\ root \in DOMAIN document /\ TypeOK /\ WellFormed
      /\ ~ Walked /\ root \in Section("physical_volumes") /\ VolumeTaken(pv, position)
  BY DEF TextInv, PhysicalVolumeInv, VisitPhysicalVolumes, TypeOK
<1>2. PhysicalVolumes = Children(root)
  BY <1>1, OneSection
<1>3. /\ position \in DOMAIN document /\ position \in Nodes(root) /\ position \in Nat
      /\ Depth = D(position) - D(root) /\ D(position) \in Nat /\ D(root) \in Nat
  BY <1>1, WalkFacts, NodeFacts DEF D
<1>4. pv'.numbers[a] = IF Depth = 2 /\ Here.key = a /\ Here.type = "integer"
                       THEN Here.integer ELSE pv.numbers[a]
  BY <1>1, VisitedVolume
<1>5. Numbers(a) \subseteq Nat
  BY <1>1, VolumesAreNodes, NodesAreNumbers
<1>6. position \in Numbers(a) <=> Depth = 2 /\ Here.key = a
  <2>1. Depth = 2 <=> D(position) = D(root) + 2
    BY <1>3
  <2> QED
    BY <1>1, <1>2, <1>3, <2>1, NumberNodes DEF Here
<1>7. CASE position \in Numbers(a)
  <2>1. Here.type = "integer"
    <3>1. PICK p \in PhysicalVolumes : position \in Child(p, a)
      BY <1>7 DEF Numbers
    <3>2. Integers(Child(p, a))
      BY <1>1, <3>1 DEF WellFormed, PhysicalVolumesListed, PVNumbers
    <3> QED
      BY <3>1, <3>2 DEF Integers, Here
  <2>2. Before(Numbers(a), position + 1) = Before(Numbers(a), position) \cup {position}
    BY <1>3, <1>5, <1>7, BeforeNext
  <2>3. Max(Before(Numbers(a), position + 1)) = position
    <3> DEFINE given == Before(Numbers(a), position + 1)
    <3>1. given \subseteq Nat /\ position \in given /\ \A y \in given : y <= position
      BY <1>3, <1>5, <2>2 DEF Before
    <3> HIDE DEF given
    <3> QED
      BY <3>1, MaxOfLast DEF given
  <2> QED
    BY <1>4, <1>6, <1>7, <2>1, <2>3 DEF Here
<1>8. CASE position \notin Numbers(a)
  <2>1. Before(Numbers(a), position + 1) = Before(Numbers(a), position)
    BY <1>3, <1>5, <1>8, BeforeNext
  <2>2. pv'.numbers[a] = pv.numbers[a]
    BY <1>4, <1>6, <1>8
  <2> QED
    BY <1>1, <2>1, <2>2 DEF VolumeTaken
<1> QED
  BY <1>7, <1>8

LEMMA VolumeTakenNext ==
  ASSUME TextInv, PhysicalVolumeInv, VisitPhysicalVolumes
  PROVE  VolumeTaken(pv', position + 1)
BY NameTaken, NumberTaken DEF VolumeTaken

\* Before the walk nothing is taken, and nothing has to be.
LEMMA NothingTaken ==
  ASSUME document \in Documents, NEW from \in DOMAIN document,
         PhysicalVolumes = Children(from), NEW v
  PROVE  VolumeTaken(v, from + 1)
<1>1. ASSUME NEW q \in Nodes(from), D(q) # D(from)
      PROVE  ~ (q < from + 1)
  <2>1. q \in Nat /\ from \in Nat /\ from <= q /\ q # from
    BY <1>1, NodesFacts, NodeFacts
  <2> QED
    BY <2>1
<1>2. D(from) \in Nat
  BY DocumentFacts
<1>3. Before(PhysicalVolumes, from + 1) = {}
  <2>1. ASSUME NEW q \in Children(from)
        PROVE  q \in Nodes(from) /\ D(q) # D(from)
    BY <1>2, ChildFacts
  <2> QED
    BY <1>1, <2>1 DEF Before
<1>4. \A a : Before(Numbers(a), from + 1) = {}
  <2>1. ASSUME NEW a, NEW q \in Numbers(a)
        PROVE  q \in Nodes(from) /\ D(q) # D(from)
    BY <1>2, NumberNodes
  <2> QED
    BY <1>1, <2>1 DEF Before
<1> QED
  BY <1>3, <1>4 DEF VolumeTaken

LEMMA SectionFound ==
  ASSUME WellFormed, document \in Documents, Found("physical_volumes", 1) # {}
  PROVE  /\ Min(Found("physical_volumes", 1)) \in Section("physical_volumes")
         /\ Min(Found("physical_volumes", 1)) \in DOMAIN document
<1>1. 1 \in DOMAIN document
  BY DocumentFacts
<1> QED
  BY <1>1, FirstFound DEF WellFormed, SectionsFound

LEMMA WalkStarts ==
  ASSUME document \in Documents, NEW from \in DOMAIN document
  PROVE  Walking(from, from + 1)
<1>1. from \in Nodes(from) /\ from \in Nat
  BY NodesFacts, NodeFacts
<1> QED
  BY <1>1 DEF Walking

LEMMA TextNext ==
  ASSUME TextInv, [Next]_vars
  PROVE  TextInv' /\ document' = document /\ lvName' = lvName /\ document \in Documents
<1>1. document' = document /\ lvName' = lvName
  BY DEF Next, vars, ReadExtentSize, FindPhysicalVolumes, VisitPhysicalVolumes,
         PhysicalVolumesWalked, FindLogicalVolume, CountSegments, EnterSegment,
         VisitAttribute, VisitStripe, PassDeeper, LogicalVolumeWalked, OutOfMemory, Over
<1>2. TypeOK'
  BY StepTyped DEF TextInv
<1>3. WellFormed'
  BY <1>1, TextKept DEF TextInv
<1> QED
  BY <1>1, <1>2, <1>3 DEF TextInv, TypeOK

LEMMA InitEstablishes == Init /\ WellFormed => IInv
<1> SUFFICES ASSUME Init, WellFormed
             PROVE  IInv
  OBVIOUS
<1>1. TextInv
  BY InitTyped DEF TextInv
<1>2. stage = "extent size" /\ segments = <<>>
  BY DEF Init
<1>3. PhysicalVolumeInv /\ PhysicalVolumeAsWritten
  BY <1>2 DEF PhysicalVolumeInv, PhysicalVolumeAsWritten
<1>4. FoundInv /\ SegmentsInv /\ SegmentsAsWritten
  BY <1>2 DEF FoundInv, SegmentsInv, SegmentsAsWritten
<1>5. WritesStayInArrays /\ VolumeCollected
  BY <1>2 DEF WritesStayInArrays, VolumeCollected
<1> QED
  BY <1>1, <1>3, <1>4, <1>5 DEF IInv

LEMMA ReadExtentSizePreserves == IInv /\ ReadExtentSize => IInv'
<1> SUFFICES ASSUME IInv, ReadExtentSize
             PROVE  IInv'
  OBVIOUS
<1>1. TextInv' /\ document' = document /\ lvName' = lvName /\ document \in Documents
  BY TextNext DEF IInv, Next
<1>2. stage' = "physical volumes" /\ segments' = <<>>
  BY DEF ReadExtentSize, IInv, FoundInv
<1>3. PhysicalVolumeInv' /\ FoundInv' /\ SegmentsInv'
  BY <1>1, <1>2, PartsPrimed
<1>4. PhysicalVolumeAsWritten' /\ SegmentsAsWritten' /\ VolumeCollected'
  BY <1>1, <1>2, PropertiesPrimed, WrittenPrimed
<1>5. WritesStayInArrays'
  BY <1>2 DEF WritesStayInArrays
<1> QED
  BY <1>1, <1>3, <1>4, <1>5 DEF IInv

LEMMA FindPhysicalVolumesPreserves == IInv /\ FindPhysicalVolumes => IInv'
<1> SUFFICES ASSUME IInv, FindPhysicalVolumes
             PROVE  IInv'
  OBVIOUS
<1>1. TextInv' /\ document' = document /\ lvName' = lvName /\ document \in Documents
  BY TextNext DEF IInv, Next
<1> DEFINE found == Found("physical_volumes", 1)
<1>2. /\ WellFormed /\ segments' = <<>> /\ pv' = pv /\ stage = "physical volumes"
      /\ \/ found = {} /\ stage' = "crashed"
         \/ /\ found # {} /\ document[Min(found)].type = "child"
            /\ stage' = "in physical volumes"
            /\ root' = Min(found) /\ position' = Min(found) + 1
         \/ /\ found # {} /\ document[Min(found)].type # "child"
            /\ stage' = "logical volume"
  BY DEF FindPhysicalVolumes, IInv, FoundInv, TextInv
<1>3. found # {} => /\ Min(found) \in Section("physical_volumes")
                    /\ Min(found) \in DOMAIN document
                    /\ PhysicalVolumes = Children(Min(found))
  <2>1. found # {} => /\ Min(found) \in Section("physical_volumes")
                      /\ Min(found) \in DOMAIN document
    BY <1>1, <1>2, SectionFound
  <2>2. found # {} => Section("physical_volumes") = {Min(found)}
    <3> HIDE DEF found
    <3> QED
      BY <1>2, <2>1 DEF WellFormed, SectionsFound, AtMostOne
  <2>3. found # {} => PhysicalVolumes = Children(Min(found))
    <3> HIDE DEF found
    <3> QED
      BY <2>2 DEF PhysicalVolumes
  <2> QED
    BY <2>1, <2>3
<1>4. stage' = "in physical volumes" =>
        /\ root' \in Section("physical_volumes")
        /\ Walking(root', position')
        /\ VolumeTaken(pv', position')
  <2> SUFFICES ASSUME stage' = "in physical volumes"
               PROVE  /\ root' \in Section("physical_volumes")
                      /\ Walking(root', position')
                      /\ VolumeTaken(pv', position')
    OBVIOUS
  <2>1. /\ root' \in Section("physical_volumes") /\ root' \in DOMAIN document
        /\ PhysicalVolumes = Children(root') /\ position' = root' + 1
    <3> HIDE DEF found
    <3> QED
      BY <1>2, <1>3
  <2>2. \A from \in DOMAIN document : Walking(from, from + 1)
    BY <1>1, WalkStarts
  <2>3. Walking(root', position')
    BY <2>1, <2>2
  <2>4. VolumeTaken(pv', position')
    BY <1>1, <2>1, NothingTaken
  <2> QED
    BY <2>1, <2>3, <2>4
<1>5. stage' = "logical volume" => VolumeTaken(pv', Len(document) + 1)
  <2> SUFFICES ASSUME stage' = "logical volume"
               PROVE  VolumeTaken(pv', Len(document) + 1)
    OBVIOUS
  <2>1. /\ Min(found) \in Section("physical_volumes")
        /\ document[Min(found)].type # "child"
        /\ PhysicalVolumes = Children(Min(found))
    <3> HIDE DEF found
    <3> QED
      BY <1>2, <1>3
  <2>2. PhysicalVolumes = {}
    <3> HIDE DEF found
    <3> QED
      BY <1>2, <2>1 DEF WellFormed, PhysicalVolumesListed
  <2>3. \A a : Numbers(a) = {}
    BY <2>2 DEF Numbers
  <2> QED
    BY <2>2, <2>3 DEF VolumeTaken, Before
<1>6. stage' = "crashed" => Volume = {}
  <2> SUFFICES ASSUME stage' = "crashed"
               PROVE  Volume = {}
    OBVIOUS
  <2>1. Found("physical_volumes", 1) = {}
    BY <1>2
  <2> QED
    BY <1>2, <2>1 DEF WellFormed, SectionsFound
<1>7. stage' \in {"in physical volumes", "logical volume", "crashed"} /\ segments' = <<>>
  BY <1>2
<1> HIDE DEF found
<1>8. PhysicalVolumeInv' /\ FoundInv' /\ SegmentsInv'
  BY <1>1, <1>4, <1>7, PartsPrimed
<1>9. PhysicalVolumeAsWritten'
  BY <1>1, <1>5, <1>7, WrittenPrimed
<1>10. SegmentsAsWritten' /\ VolumeCollected'
  BY <1>1, <1>6, <1>7, PropertiesPrimed
<1>11. WritesStayInArrays'
  BY <1>7 DEF WritesStayInArrays
<1> QED
  BY <1>1, <1>8, <1>9, <1>10, <1>11 DEF IInv

LEMMA VisitPhysicalVolumesPreserves == IInv /\ VisitPhysicalVolumes => IInv'
<1> SUFFICES ASSUME IInv, VisitPhysicalVolumes
             PROVE  IInv'
  OBVIOUS
<1>1. TextInv' /\ document' = document /\ lvName' = lvName /\ document \in Documents
  BY TextNext DEF IInv, Next
<1>2. /\ TextInv /\ TypeOK /\ PhysicalVolumeInv /\ stage = "in physical volumes"
      /\ segments' = <<>> /\ root' = root /\ ~ Walked
  BY DEF IInv, TextInv, FoundInv, VisitPhysicalVolumes
<1>3. \/ stage' = "in physical volumes" /\ position' = position + 1
      \/ /\ stage' = "crashed" /\ position' = position
         /\ Here.type = "string" /\ Here.string = NoName
  BY <1>2 DEF VisitPhysicalVolumes, NextNode, GivesName
<1>4. stage' = "in physical volumes" =>
        /\ root' \in Section("physical_volumes")
        /\ Walking(root', position')
        /\ VolumeTaken(pv', position')
  <2>1. root \in Section("physical_volumes")
    BY <1>2 DEF PhysicalVolumeInv
  <2>2. Walking(root, position + 1)
    BY <1>2, WalkGoesOn
  <2>3. VolumeTaken(pv', position + 1)
    BY <1>2, VolumeTakenNext
  <2> QED
    BY <1>2, <1>3, <2>1, <2>2, <2>3
<1>5. stage' = "crashed" =>
        document[position'].type = "string" /\ document[position'].string = NoName
  BY <1>3 DEF Here
<1>6. stage' \in {"in physical volumes", "crashed"} /\ segments' = <<>>
  BY <1>2, <1>3
<1>7. PhysicalVolumeInv' /\ FoundInv' /\ SegmentsInv'
  BY <1>1, <1>4, <1>6, PartsPrimed
<1>8. PhysicalVolumeAsWritten'
  BY <1>1, <1>6, WrittenPrimed
<1>9. SegmentsAsWritten' /\ VolumeCollected'
  BY <1>1, <1>5, <1>6, PropertiesPrimed
<1>10. WritesStayInArrays'
  BY <1>6 DEF WritesStayInArrays
<1> QED
  BY <1>1, <1>7, <1>8, <1>9, <1>10 DEF IInv

LEMMA PhysicalVolumesWalkedPreserves == IInv /\ PhysicalVolumesWalked => IInv'
<1> SUFFICES ASSUME IInv, PhysicalVolumesWalked
             PROVE  IInv'
  OBVIOUS
<1>1. TextInv' /\ document' = document /\ lvName' = lvName /\ document \in Documents
  BY TextNext DEF IInv, Next
<1>2. /\ TypeOK /\ WellFormed /\ root \in DOMAIN document /\ root \in Section("physical_volumes")
      /\ Walked /\ Walking(root, position) /\ VolumeTaken(pv, position)
      /\ stage' = "logical volume" /\ segments' = <<>> /\ pv' = pv
  BY DEF IInv, TextInv, TypeOK, FoundInv, PhysicalVolumeInv, PhysicalVolumesWalked
<1>3. \A q \in Nodes(root) : q < position
  BY <1>2, AllPassed
<1>4. PhysicalVolumes = Children(root)
  BY <1>2, OneSection
<1>5. Before(PhysicalVolumes, position) = PhysicalVolumes
  BY <1>3, <1>4 DEF Before, Children
<1>6. \A a : Before(Numbers(a), position) = Numbers(a)
  <2>1. \A a : \A x \in Numbers(a) : x \in Nodes(root)
    BY <1>1, <1>2, <1>4, NumberNodes
  <2> QED
    BY <1>3, <2>1 DEF Before
<1>7. VolumeTaken(pv', Len(document) + 1)
  <2>1. Before(PhysicalVolumes, Len(document) + 1) = PhysicalVolumes
    BY <1>1, VolumesAreNodes, BeforeEnd
  <2>2. \A a : Before(Numbers(a), Len(document) + 1) = Numbers(a)
    BY <1>1, VolumesAreNodes, BeforeEnd
  <2> QED
    BY <1>2, <1>5, <1>6, <2>1, <2>2 DEF VolumeTaken
<1>8. PhysicalVolumeInv' /\ FoundInv' /\ SegmentsInv'
  BY <1>1, <1>2, PartsPrimed
<1>9. PhysicalVolumeAsWritten'
  BY <1>1, <1>7, WrittenPrimed
<1>10. SegmentsAsWritten' /\ VolumeCollected'
  BY <1>1, <1>2, PropertiesPrimed
<1>11. WritesStayInArrays'
  BY <1>2 DEF WritesStayInArrays
<1> QED
  BY <1>1, <1>8, <1>9, <1>10, <1>11 DEF IInv

-----------------------------------------------------------------------------
(* From the physical volumes to the walk over the logical volume.          *)

LEMMA TheVolume ==
  ASSUME document \in Documents, WellFormed, NEW p \in Volume
  PROVE  p \in DOMAIN document /\ Volume = {p} /\ VolumeComplete(p)
<1>1. p \in DOMAIN document
  BY VolumesAreNodes
<1> QED
  BY <1>1 DEF WellFormed, SectionsFound, AtMostOne

\* The volume asked for is what the lookup finds.
LEMMA VolumeIsFound ==
  ASSUME document \in Documents, WellFormed, Volume # {}
  PROVE  /\ Found("logical_volumes", 1) # {}
         /\ Found(lvName, Min(Found("logical_volumes", 1))) # {}
<1> DEFINE sections == Found("logical_volumes", 1)
<1>1. PICK p \in Section("logical_volumes") : Child(p, lvName) # {}
  BY DEF Volume
<1>2. sections = Section("logical_volumes") /\ AtMostOne(sections)
  BY DEF WellFormed, SectionsFound
<1>3. sections # {} /\ 1 \in DOMAIN document
  BY <1>1, <1>2, DocumentFacts
<1>4. Min(sections) \in sections
  BY <1>3, FirstFound
<1>5. Min(sections) = p
  <2> HIDE DEF sections
  <2> QED
    BY <1>1, <1>2, <1>4 DEF AtMostOne
<1>6. Found(lvName, p) = Child(p, lvName)
  BY <1>1 DEF WellFormed, SectionsFound
<1> QED
  BY <1>1, <1>3, <1>5, <1>6

LEMMA FoundIsVolume ==
  ASSUME document \in Documents, WellFormed, Found("logical_volumes", 1) # {},
         Found(lvName, Min(Found("logical_volumes", 1))) # {}
  PROVE  Min(Found(lvName, Min(Found("logical_volumes", 1)))) \in Volume
<1> DEFINE sections == Found("logical_volumes", 1)
           p == Min(sections)
<1>1. 1 \in DOMAIN document
  BY DocumentFacts
<1>2. p \in sections /\ p \in DOMAIN document
  BY <1>1, FirstFound
<1>3. p \in Section("logical_volumes") /\ Found(lvName, p) = Child(p, lvName)
  BY <1>2 DEF WellFormed, SectionsFound
<1>4. Min(Found(lvName, p)) \in Found(lvName, p)
  <2> HIDE DEF p, sections
  <2>1. Found(lvName, p) # {}
    BY DEF p, sections
  <2> QED
    BY <1>2, <2>1, FirstFound
<1> HIDE DEF p, sections
<1>5. Min(Found(lvName, p)) \in Volume
  BY <1>3, <1>4 DEF Volume
<1> QED
  BY <1>5 DEF p, sections

LEMMA FindLogicalVolumePreserves == IInv /\ FindLogicalVolume => IInv'
<1> SUFFICES ASSUME IInv, FindLogicalVolume
             PROVE  IInv'
  OBVIOUS
<1>1. TextInv' /\ document' = document /\ lvName' = lvName /\ document \in Documents
  BY TextNext DEF IInv, Next
<1> DEFINE sections == Found("logical_volumes", 1)
           found == IF sections = {} THEN {} ELSE Found(lvName, Min(sections))
<1>2. /\ WellFormed /\ stage = "logical volume" /\ segments' = <<>> /\ pv' = pv
      /\ PhysicalVolumeAsWritten
  BY DEF FindLogicalVolume, IInv, TextInv, FoundInv
<1>3. \/ found = {} /\ stage' = "crashed"
      \/ found # {} /\ stage' = "segment count" /\ root' = Min(found)
  BY DEF FindLogicalVolume
<1>4. found = {} => Volume = {}
  BY <1>1, <1>2, VolumeIsFound
<1>5. found # {} => Min(found) \in Volume
  BY <1>1, <1>2, FoundIsVolume
<1>6. VolumeTaken(pv', Len(document) + 1)
  BY <1>1, <1>2, WrittenIsTaken
<1> HIDE DEF found
<1>7. PhysicalVolumeInv' /\ FoundInv' /\ SegmentsInv'
  BY <1>1, <1>2, <1>3, <1>5, PartsPrimed
<1>8. PhysicalVolumeAsWritten'
  BY <1>1, <1>6, WrittenPrimed
<1>9. SegmentsAsWritten' /\ VolumeCollected'
  BY <1>1, <1>3, <1>4, PropertiesPrimed
<1>10. WritesStayInArrays'
  BY <1>3 DEF WritesStayInArrays
<1> QED
  BY <1>1, <1>7, <1>8, <1>9, <1>10 DEF IInv

LEMMA IntegerAtOne ==
  ASSUME document \in Documents, NEW ps, ps \subseteq DOMAIN document, AtMostOne(ps),
         NEW p \in ps
  PROVE  IntegerAt(ps) = document[p].integer
<1>1. ps = {p} /\ p \in Nat
  BY NodesAreNumbers DEF AtMostOne
<1> QED
  BY <1>1, MinOfOne DEF IntegerAt

LEMMA ChildrenAreNodes ==
  ASSUME document \in Documents, NEW p \in DOMAIN document
  PROVE  /\ Children(p) \subseteq DOMAIN document
         /\ \A key : Child(p, key) \subseteq Children(p)
  BY ChildFacts DEF Child

LEMMA IntegerAtTyped ==
  ASSUME document \in Documents, NEW ps, ps \subseteq DOMAIN document
  PROVE  IntegerAt(ps) \in Nat
<1>1. ps # {} => Min(ps) \in ps
  BY MinIsLeast, NodesAreNumbers
<1> QED
  BY <1>1, NodeFacts DEF IntegerAt

\* The count that is looked up is the volume's own.
LEMMA CountAsWritten ==
  ASSUME document \in Documents, WellFormed, root \in Volume
  PROVE  SegmentCount = IntegerAt(Child(root, "segment_count"))
<1> DEFINE counts == Child(root, "segment_count")
<1>1. root \in DOMAIN document /\ VolumeComplete(root)
  BY TheVolume
<1>2. Found("segment_count", root) = counts /\ AtMostOne(counts) /\ Integers(counts)
  BY <1>1 DEF VolumeComplete
<1>3. counts # {} => Min(counts) \in counts
  BY <1>1, <1>2, FirstFound
<1> QED
  BY <1>2, <1>3 DEF SegmentCount, FoundInteger, IntegerAt, Integers

\* The attributes of the trees below a node, and what is below those.
LEMMA DeepFacts ==
  ASSUME document \in Documents, NEW from \in DOMAIN document,
         NEW q \in Children(from), NEW r \in Children(q)
  PROVE  /\ q \in DOMAIN document /\ r \in DOMAIN document /\ from \in Nat
         /\ q \in Nat /\ r \in Nat /\ from < q /\ q < r
         /\ D(from) \in Nat /\ D(q) = D(from) + 1 /\ D(r) = D(from) + 2
         /\ r \in Nodes(from) /\ r \in Nodes(q)
         /\ \A e \in Children(r) :
              /\ e \in DOMAIN document /\ e \in Nat /\ r < e
              /\ D(e) = D(from) + 3 /\ e \in Nodes(from) /\ e \in Nodes(q)
<1>1. q \in DOMAIN document /\ from < q /\ D(q) = D(from) + 1
  BY ChildFacts
<1>2. r \in DOMAIN document /\ r \in Nodes(q) /\ q < r /\ D(r) = D(q) + 1
  BY <1>1, ChildFacts
<1>3. r \in Nodes(from)
  BY <1>2, BelowChild
<1>4. from \in Nat /\ q \in Nat /\ r \in Nat /\ D(from) \in Nat
  BY <1>1, <1>2, NodeFacts DEF D
<1>5. ASSUME NEW e \in Children(r)
      PROVE  /\ e \in DOMAIN document /\ e \in Nat /\ r < e
             /\ D(e) = D(from) + 3 /\ e \in Nodes(from) /\ e \in Nodes(q)
  <2>1. e \in DOMAIN document /\ e \in Nodes(r) /\ r < e /\ D(e) = D(r) + 1
    BY <1>2, ChildFacts
  <2>2. e \in Nodes(q)
    BY <1>1, <2>1, BelowChild
  <2>3. e \in Nodes(from)
    BY <2>2, BelowChild
  <2> QED
    BY <1>1, <1>2, <1>4, <2>1, <2>2, <2>3, NodeFacts
<1> QED
  BY <1>1, <1>2, <1>3, <1>4, <1>5

LEMMA EmptyTaken ==
  ASSUME document \in Documents, NEW from \in DOMAIN document,
         NEW q \in Children(from)
  PROVE  SegmentTaken(NoSegment, q, from + 1)
<1>1. \A key : Before(Child(q, key), from + 1) = {}
  <2>1. \A r \in Children(q) : ~ (r < from + 1)
    BY DeepFacts
  <2> QED
    BY <2>1 DEF Before, Child
<1>2. \A r \in Child(q, "stripes") : Before(Children(r), from + 1) = {}
  <2>1. ASSUME NEW r \in Children(q), NEW e \in Children(r)
        PROVE  ~ (e < from + 1)
    <3>1. e \in Nat /\ r \in Nat /\ q \in Nat /\ from \in Nat /\ from < q /\ q < r /\ r < e
      BY DeepFacts
    <3> QED
      BY <3>1
  <2> QED
    BY <2>1 DEF Before, Child
<1>3. NoSegment.startExtent = 0 /\ NoSegment.extentCount = 0 /\ Len(NoSegment.stripes) = 0
  BY DEF NoSegment
<1>4. IntegerAt({}) = 0
  BY DEF IntegerAt
<1> QED
  BY <1>1, <1>2, <1>3, <1>4 DEF SegmentTaken, StripesTaken

LEMMA SegmentNumber ==
  ASSUME document \in Documents, NEW p \in DOMAIN document, VolumeComplete(p),
         NEW q \in SegmentsOf(p)
  PROVE  /\ q \in Children(p) /\ SegmentComplete(q)
         /\ document[q].segment \in 1 .. IntegerAt(Child(p, "segment_count"))
         /\ Entered(q) = document[q].segment - 1
         /\ \A r \in SegmentsOf(p) : document[r].segment = document[q].segment => r = q
<1>1. q \in Children(p) /\ document[q].type = "child" /\ document[q].segment > 0
  BY DEF SegmentsOf
<1>2. q \in DOMAIN document
  BY <1>1, ChildFacts
<1>3. document[q].segment \in Nat
  BY <1>1, <1>2, NodeFacts DEF NotSegment
<1>4. IntegerAt(Child(p, "segment_count")) \in Nat
  <2>1. Child(p, "segment_count") \subseteq DOMAIN document
    BY ChildrenAreNodes
  <2> QED
    BY <2>1, IntegerAtTyped
<1> QED
  BY <1>1, <1>3, <1>4 DEF VolumeComplete, Entered, NotSegment

LEMMA OneBack ==
  ASSUME NEW n \in Nat
  PROVE  (n + 1) - 1 = n
OBVIOUS

LEMMA ParentOutside ==
  ASSUME document \in Documents, NEW p \in DOMAIN document, NEW q \in Children(p)
  PROVE  p \notin Nodes(q)
<1>1. q \in DOMAIN document /\ p < q /\ p \in Nat /\ q \in Nat
  BY ChildFacts, NodeFacts
<1>2. \A x \in Nodes(q) : q <= x
  BY <1>1, NodesFacts
<1> QED
  BY <1>1, <1>2

LEMMA LengthOfSpan ==
  ASSUME NEW n \in Nat, NEW x
  PROVE  /\ Len([k \in 1 .. n |-> x]) = n
         /\ n > 0 => [k \in 1 .. n |-> x] # <<>>
<1>1. [k \in 1 .. n |-> x] \in Seq({x})
  OBVIOUS
<1>2. Len([k \in 1 .. n |-> x]) = n
  BY <1>1
<1> QED
  BY <1>1, <1>2

LEMMA CountSegmentsPreserves == IInv /\ CountSegments => IInv'
<1> SUFFICES ASSUME IInv, CountSegments
             PROVE  IInv'
  OBVIOUS
<1>1. TextInv' /\ document' = document /\ lvName' = lvName /\ document \in Documents
  BY TextNext DEF IInv, Next
<1> DEFINE count == IntegerAt(Child(root, "segment_count"))
<1>2. /\ WellFormed /\ stage = "segment count" /\ segments = <<>> /\ pv' = pv
      /\ root' = root /\ root \in Volume /\ PhysicalVolumeAsWritten
  BY DEF CountSegments, IInv, TextInv, FoundInv
<1>3. SegmentCount = count
  BY <1>1, <1>2, CountAsWritten
<1>4. root \in DOMAIN document /\ VolumeComplete(root) /\ Volume = {root}
  BY <1>1, <1>2, TheVolume
<1>5. count \in Nat
  <2>1. Child(root, "segment_count") \subseteq DOMAIN document
    BY <1>1, <1>4, ChildrenAreNodes
  <2> QED
    BY <1>1, <2>1, IntegerAtTyped
<1> HIDE DEF count
<1>6. \/ /\ count > 0 /\ stage' = "in logical volume" /\ position' = root + 1
         /\ segments' = [n \in 1 .. count |-> NoSegment]
      \/ count = 0 /\ stage' = "collected" /\ segments' = <<>>
  <2>1. \/ /\ SegmentCount > 0 /\ stage' = "in logical volume" /\ position' = root + 1
           /\ segments' = [n \in 1 .. SegmentCount |-> NoSegment]
        \/ ~ (SegmentCount > 0) /\ stage' = "collected" /\ segments' = segments
    BY DEF CountSegments
  <2>2. ~ (count > 0) => count = 0
    BY <1>5
  <2> QED
    BY <1>2, <1>3, <2>1, <2>2
<1>7. VolumeTaken(pv', Len(document) + 1)
  BY <1>1, <1>2, WrittenIsTaken
<1>8. stage' = "in logical volume" =>
        /\ Walking(root', position')
        /\ Len(segments') = IntegerAt(Child(root', "segment_count"))
        /\ segments' # <<>>
        /\ StaticsFit(seg', stripeCount', root', position')
        /\ AllTaken(segments', root', position')
  <2> SUFFICES ASSUME stage' = "in logical volume"
               PROVE  /\ Walking(root, root + 1)
                      /\ Len(segments') = count
                      /\ segments' # <<>>
                      /\ StaticsFit(seg', stripeCount', root, root + 1)
                      /\ AllTaken(segments', root, root + 1)
    BY <1>2, <1>6 DEF count
  <2>1. /\ count > 0 /\ segments' = [n \in 1 .. count |-> NoSegment]
    BY <1>6
  <2>2. Len(segments') = count /\ segments' # <<>>
    BY <1>5, <2>1, LengthOfSpan
  <2>3. Walking(root, root + 1)
    BY <1>1, <1>4, WalkStarts
  <2>4. StaticsFit(seg', stripeCount', root, root + 1)
    <3>1. ASSUME NEW q \in Children(root)
          PROVE  (root + 1) - 1 \notin Nodes(q)
      <4>1. root \in Nat
        BY <1>1, <1>4, NodeFacts
      <4>2. (root + 1) - 1 = root
        BY <4>1, OneBack
      <4> QED
        BY <1>1, <1>4, <4>2, ParentOutside
    <3> QED
      BY <3>1 DEF StaticsFit
  <2>5. AllTaken(segments', root, root + 1)
    <3>1. ASSUME NEW q \in SegmentsOf(root)
          PROVE  SegmentTaken(segments'[document[q].segment], q, root + 1)
      <4>1. q \in Children(root) /\ document[q].segment \in 1 .. count
        BY <1>1, <1>4, SegmentNumber DEF count
      <4>2. segments'[document[q].segment] = NoSegment
        BY <2>1, <4>1
      <4> QED
        BY <1>1, <1>4, <4>1, <4>2, EmptyTaken
    <3> QED
      BY <3>1 DEF AllTaken
  <2> QED
    BY <2>2, <2>3, <2>4, <2>5
<1>9. stage' = "collected" /\ Volume # {} =>
        \A p \in Volume :
          /\ Len(segments') = IntegerAt(Child(p, "segment_count"))
          /\ \A q \in Children(p) :
               document[q].segment > 0 /\ document[q].type = "child" =>
                 segments'[document[q].segment] = SegmentAt(q)
  <2> SUFFICES ASSUME stage' = "collected"
               PROVE  /\ Len(segments') = count
                      /\ SegmentsOf(root) = {}
    BY <1>4 DEF SegmentsOf, count
  <2>1. Len(segments') = count
    BY <1>6
  <2>2. ASSUME NEW q \in SegmentsOf(root)
        PROVE  FALSE
    <3>1. document[q].segment \in 1 .. count
      BY <1>1, <1>4, SegmentNumber DEF count
    <3> QED
      BY <1>6, <3>1
  <2> QED
    BY <2>1, <2>2
<1>10. stage' \in {"in logical volume", "collected"}
  BY <1>6
<1>11. PhysicalVolumeInv' /\ FoundInv' /\ SegmentsInv'
  BY <1>1, <1>2, <1>8, <1>10, PartsPrimed
<1>12. PhysicalVolumeAsWritten'
  BY <1>1, <1>7, WrittenPrimed
<1>13. SegmentsAsWritten' /\ VolumeCollected'
  BY <1>1, <1>9, <1>10, PropertiesPrimed
<1>14. WritesStayInArrays'
  BY <1>10 DEF WritesStayInArrays
<1> QED
  BY <1>1, <1>11, <1>12, <1>13, <1>14 DEF IInv

LEMMA OutOfMemoryPreserves == IInv /\ OutOfMemory => IInv'
<1> SUFFICES ASSUME IInv, OutOfMemory
             PROVE  IInv'
  OBVIOUS
<1>1. TextInv' /\ document' = document /\ lvName' = lvName /\ document \in Documents
  BY TextNext DEF IInv, Next
<1>2. stage' = "exhausted"
  BY DEF OutOfMemory
<1>3. PhysicalVolumeInv' /\ FoundInv' /\ SegmentsInv'
  BY <1>1, <1>2, PartsPrimed
<1>4. PhysicalVolumeAsWritten' /\ SegmentsAsWritten' /\ VolumeCollected'
  BY <1>1, <1>2, PropertiesPrimed, WrittenPrimed
<1>5. WritesStayInArrays'
  BY <1>2 DEF WritesStayInArrays
<1> QED
  BY <1>1, <1>3, <1>4, <1>5 DEF IInv

LEMMA StutterPreserves == IInv /\ UNCHANGED vars => IInv'
<1> SUFFICES ASSUME IInv, UNCHANGED vars
             PROVE  IInv'
  OBVIOUS
<1>1. TextInv' /\ document' = document /\ lvName' = lvName /\ document \in Documents
  BY TextNext DEF IInv
<1>2. UNCHANGED <<stage, root, position, seg, stripeCount, pv, segments>>
  BY DEF vars
<1>3. PhysicalVolumeInv' /\ FoundInv' /\ SegmentsInv'
  BY <1>1, <1>2, PartsPrimed DEF IInv, PhysicalVolumeInv, FoundInv, SegmentsInv
<1>4. PhysicalVolumeAsWritten'
  BY <1>1, <1>2, WrittenPrimed, WrittenIsTaken DEF IInv
<1>5. SegmentsAsWritten'
  BY <1>1, <1>2, PropertiesPrimed DEF IInv, SegmentsAsWritten
<1>6. VolumeCollected'
  BY <1>1, <1>2, PropertiesPrimed DEF IInv, VolumeCollected, Here
<1>7. WritesStayInArrays'
  BY <1>2 DEF IInv, WritesStayInArrays
<1> QED
  BY <1>1, <1>3, <1>4, <1>5, <1>6, <1>7 DEF IInv

-----------------------------------------------------------------------------
(* The walk over the logical volume.                                       *)

LEMMA NotEmpty ==
  ASSUME NEW S, NEW s \in Seq(S), NEW t \in Seq(S), s # <<>>, Len(t) = Len(s)
  PROVE  t # <<>>
OBVIOUS

LEMMA DepthBelow ==
  ASSUME NEW a \in Nat, NEW b \in Nat
  PROVE  /\ a - b = 1 => a = b + 1
         /\ a - b = 2 => a = b + 2 /\ a # b + 1
         /\ a - b = 3 => a = b + 3 /\ a # b + 1 /\ a # b + 2
         /\ a - b > 3 => a # b + 1 /\ a # b + 2 /\ a # b + 3
         /\ b + 1 # b + 2 /\ b + 1 # b + 3 /\ b + 2 # b + 3
OBVIOUS

LEMMA InTheWalk ==
  ASSUME IInv, stage = "in logical volume", ~ Walked
  PROVE  /\ document \in Documents /\ TypeOK /\ WellFormed
         /\ root \in DOMAIN document /\ root \in Volume /\ VolumeComplete(root)
         /\ position \in DOMAIN document /\ position \in Nodes(root)
         /\ position \in Nat /\ root \in Nat /\ root < position
         /\ Depth = D(position) - D(root) /\ D(position) \in Nat /\ D(root) \in Nat
         /\ segments \in Seq(Segment) /\ segments # <<>>
         /\ Len(segments) = IntegerAt(Child(root, "segment_count"))
         /\ StaticsFit(seg, stripeCount, root, position)
         /\ AllTaken(segments, root, position)
<1>1. /\ TypeOK /\ WellFormed /\ root \in Volume /\ Walking(root, position)
      /\ segments # <<>>
      /\ Len(segments) = IntegerAt(Child(root, "segment_count"))
      /\ StaticsFit(seg, stripeCount, root, position)
      /\ AllTaken(segments, root, position)
  BY DEF IInv, TextInv, FoundInv, SegmentsInv
<1>2. document \in Documents /\ root \in DOMAIN document /\ segments \in Seq(Segment)
  BY <1>1, TypeParts
<1>3. VolumeComplete(root)
  BY <1>1, <1>2, TheVolume
<1>4. /\ position \in DOMAIN document /\ position \in Nodes(root)
      /\ Depth = D(position) - D(root)
  BY <1>1, WalkFacts
<1>5. /\ position \in Nat /\ root \in Nat /\ D(position) \in Nat /\ D(root) \in Nat
  BY <1>2, <1>4, NodeFacts DEF D
<1>6. root < position
  BY <1>1 DEF Walking
<1> QED
  BY <1>1, <1>2, <1>3, <1>4, <1>5, <1>6

\* What a step has to keep to.
LEMMA WalkPreserves ==
  ASSUME IInv, [Next]_vars, stage = "in logical volume", ~ Walked,
         UNCHANGED <<root, pv>>, stage' = "in logical volume", position' = position + 1,
         Len(segments') = Len(segments),
         StaticsFit(seg', stripeCount', root, position + 1),
         AllTaken(segments', root, position + 1)
  PROVE  IInv'
<1>1. TextInv' /\ document' = document /\ lvName' = lvName /\ document \in Documents
  BY TextNext DEF IInv
<1>2. /\ TypeOK /\ root \in Volume /\ segments \in Seq(Segment) /\ segments # <<>>
      /\ Len(segments) = IntegerAt(Child(root, "segment_count"))
  BY InTheWalk
<1>3. Walking(root, position + 1)
  BY <1>2, WalkGoesOn
<1>4. segments' # <<>>
  <2>1. segments' \in Seq(Segment)
    BY <1>1 DEF TextInv, TypeOK, Segment, Stripe
  <2> QED
    BY <1>2, <2>1, NotEmpty
<1>5. VolumeTaken(pv', Len(document) + 1)
  <2>1. PhysicalVolumeAsWritten
    BY DEF IInv
  <2> QED
    BY <1>1, <2>1, WrittenIsTaken
<1>6. PhysicalVolumeInv' /\ FoundInv' /\ SegmentsInv'
  BY <1>1, <1>2, <1>3, <1>4, PartsPrimed
<1>7. PhysicalVolumeAsWritten'
  BY <1>1, <1>5, WrittenPrimed
<1>8. SegmentsAsWritten' /\ VolumeCollected'
  BY <1>1, PropertiesPrimed
<1>9. WritesStayInArrays'
  BY DEF WritesStayInArrays
<1> QED
  BY <1>1, <1>6, <1>7, <1>8, <1>9 DEF IInv

LEMMA BeforeOther ==
  ASSUME NEW ps, ps \subseteq Nat, NEW p \in Nat, p \notin ps
  PROVE  Before(ps, p + 1) = Before(ps, p)
BY BeforeNext

LEMMA ChildrenAreNumbers ==
  ASSUME document \in Documents, NEW p \in DOMAIN document
  PROVE  Children(p) \subseteq Nat /\ \A key : Child(p, key) \subseteq Nat
BY ChildrenAreNodes, NodesAreNumbers

\* A node that is no part of segment q leaves what was taken of it.
LEMMA Untouched ==
  ASSUME document \in Documents, NEW from \in DOMAIN document,
         NEW q \in Children(from), NEW p \in Nat, NEW s,
         \A key \in SegmentNumbers : p \notin Child(q, key),
         \A r \in Child(q, "stripes") : p \notin Children(r),
         SegmentTaken(s, q, p)
  PROVE  SegmentTaken(s, q, p + 1)
<1>1. q \in DOMAIN document
  BY ChildFacts
<1>2. \A key \in SegmentNumbers : Before(Child(q, key), p + 1) = Before(Child(q, key), p)
  BY <1>1, ChildrenAreNumbers, BeforeOther
<1>3. ASSUME NEW r \in Child(q, "stripes")
      PROVE  Before(Children(r), p + 1) = Before(Children(r), p)
  <2>1. r \in DOMAIN document
    BY <1>1, ChildrenAreNodes
  <2> QED
    BY <2>1, ChildrenAreNumbers, BeforeOther
<1> QED
  BY <1>2, <1>3 DEF SegmentTaken, StripesTaken, SegmentNumbers

\* The next node of a tree below the volume is in the same tree.
LEMMA SameTree ==
  ASSUME document \in Documents, NEW from \in DOMAIN document,
         NEW q \in Children(from), NEW p \in Nodes(q), D(p) # D(from) + 1
  PROVE  p \in Nat /\ q < p /\ p - 1 \in Nodes(q) /\ (p + 1) - 1 = p
<1>1. q \in DOMAIN document /\ D(q) = D(from) + 1
  BY ChildFacts
<1>2. p \in DOMAIN document /\ q <= p /\ \A r \in q .. p : r \in Nodes(q)
  BY <1>1, NodesFacts
<1>3. p \in Nat /\ q \in Nat /\ p # q
  BY <1>1, <1>2, NodeFacts
<1>4. q < p /\ p - 1 \in q .. p
  BY <1>2, <1>3
<1> QED
  BY <1>2, <1>3, <1>4, OneBack

LEMMA StaticsGoOn ==
  ASSUME document \in Documents, NEW from \in DOMAIN document, NEW p \in Nat,
         D(p) # D(from) + 1, NEW number, NEW count,
         StaticsFit(number, count, from, p),
         \A q \in Children(from) : p \notin Child(q, "stripe_count")
  PROVE  StaticsFit(number, count, from, p + 1)
<1>1. ASSUME NEW q \in Children(from), (p + 1) - 1 \in Nodes(q)
      PROVE  /\ number = Entered(q)
             /\ q \in SegmentsOf(from) =>
                  \A s \in Before(Child(q, "stripe_count"), p + 1) : count = document[s].integer
  <2>1. p \in Nodes(q)
    BY <1>1, OneBack
  <2>2. p - 1 \in Nodes(q)
    BY <2>1, SameTree
  <2>3. Before(Child(q, "stripe_count"), p + 1) = Before(Child(q, "stripe_count"), p)
    BY ChildFacts, ChildrenAreNumbers, BeforeOther
  <2> QED
    BY <2>2, <2>3 DEF StaticsFit
<1> QED
  BY <1>1 DEF StaticsFit

\* Only what is two or three below the volume is part of a segment.
LEMMA AllUntouched ==
  ASSUME document \in Documents, NEW from \in DOMAIN document, NEW p \in Nat,
         D(p) # D(from) + 2, D(p) # D(from) + 3,
         NEW ss, AllTaken(ss, from, p)
  PROVE  AllTaken(ss, from, p + 1)
<1>1. ASSUME NEW q \in SegmentsOf(from)
      PROVE  SegmentTaken(ss[document[q].segment], q, p + 1)
  <2>1. q \in Children(from)
    BY DEF SegmentsOf
  <2>2. \A r \in Children(q) : D(r) = D(from) + 2 /\ \A e \in Children(r) : D(e) = D(from) + 3
    BY <2>1, DeepFacts
  <2>3. \A key \in SegmentNumbers : p \notin Child(q, key)
    BY <2>2 DEF Child
  <2>4. \A r \in Child(q, "stripes") : p \notin Children(r)
    BY <2>2 DEF Child
  <2>5. SegmentTaken(ss[document[q].segment], q, p)
    BY DEF AllTaken
  <2> QED
    BY <2>1, <2>3, <2>4, <2>5, Untouched
<1> QED
  BY <1>1 DEF AllTaken

LEMMA EnterSegmentPreserves == IInv /\ EnterSegment => IInv'
<1> SUFFICES ASSUME IInv, EnterSegment
             PROVE  IInv'
  OBVIOUS
<1>1. /\ stage = "in logical volume" /\ ~ Walked /\ stage' = stage
      /\ UNCHANGED <<root, pv>> /\ position' = position + 1
      /\ segments' = segments /\ seg' = EnteredSegment /\ Depth = 1
  BY DEF EnterSegment, NextNode
<1>2. /\ document \in Documents /\ root \in DOMAIN document
      /\ position \in DOMAIN document /\ position \in Nodes(root) /\ position \in Nat
      /\ Depth = D(position) - D(root) /\ D(position) \in Nat /\ D(root) \in Nat
      /\ AllTaken(segments, root, position)
  BY <1>1, InTheWalk
<1>3. D(position) = D(root) + 1 /\ D(position) # D(root) + 2 /\ D(position) # D(root) + 3
  <2>1. D(position) - D(root) = 1
    BY <1>1, <1>2
  <2> QED
    BY <1>2, <2>1, DepthBelow
<1>4. position \in Children(root)
  BY <1>2, <1>3 DEF Children, D
<1>5. AllTaken(segments', root, position + 1)
  BY <1>1, <1>2, <1>3, AllUntouched
<1>6. StaticsFit(seg', stripeCount', root, position + 1)
  <2>1. ASSUME NEW q \in Children(root), (position + 1) - 1 \in Nodes(q)
        PROVE  /\ seg' = Entered(q)
               /\ \A s \in Before(Child(q, "stripe_count"), position + 1) :
                    stripeCount' = document[s].integer
    <3>1. position \in Nodes(q) /\ position \in Nodes(position)
      BY <1>2, <2>1, OneBack, NodesFacts
    <3>2. q = position
      BY <1>2, <1>4, <3>1, OneTree
    <3>3. seg' = Entered(q)
      BY <1>1, <3>2 DEF EnteredSegment, Entered, Here
    <3>4. Before(Child(q, "stripe_count"), position + 1) = {}
      <4>1. \A s \in Children(q) : s \in Nat /\ q < s /\ q \in Nat
        BY <1>2, DeepFacts
      <4>2. \A s \in Children(q) : ~ (s < position + 1)
        BY <1>2, <3>2, <4>1
      <4> QED
        BY <4>2 DEF Before, Child
    <3> QED
      BY <3>3, <3>4
  <2> QED
    BY <2>1 DEF StaticsFit
<1>7. [Next]_vars
  BY DEF Next
<1> QED
  BY <1>1, <1>5, <1>6, <1>7, WalkPreserves

LEMMA PassDeeperPreserves == IInv /\ PassDeeper => IInv'
<1> SUFFICES ASSUME IInv, PassDeeper
             PROVE  IInv'
  OBVIOUS
<1>1. /\ stage = "in logical volume" /\ ~ Walked /\ stage' = stage
      /\ UNCHANGED <<root, pv>> /\ position' = position + 1
      /\ UNCHANGED <<segments, seg, stripeCount>> /\ Depth > 3
  BY DEF PassDeeper, NextNode
<1>2. /\ document \in Documents /\ root \in DOMAIN document /\ position \in Nat
      /\ Depth = D(position) - D(root) /\ D(position) \in Nat /\ D(root) \in Nat
      /\ StaticsFit(seg, stripeCount, root, position)
      /\ AllTaken(segments, root, position)
  BY <1>1, InTheWalk
<1>3. /\ D(position) # D(root) + 1 /\ D(position) # D(root) + 2
      /\ D(position) # D(root) + 3
  <2>1. D(position) - D(root) > 3
    BY <1>1, <1>2
  <2> QED
    BY <1>2, <2>1, DepthBelow
<1>4. \A q \in Children(root) : \A r \in Children(q) : D(r) = D(root) + 2
  BY <1>2, DeepFacts
<1>5. \A q \in Children(root) : position \notin Child(q, "stripe_count")
  BY <1>3, <1>4 DEF Child
<1>6. StaticsFit(seg', stripeCount', root, position + 1)
  BY <1>1, <1>2, <1>3, <1>5, StaticsGoOn
<1>7. AllTaken(segments', root, position + 1)
  BY <1>1, <1>2, <1>3, AllUntouched
<1>8. [Next]_vars
  BY DEF Next
<1> QED
  BY <1>1, <1>6, <1>7, <1>8, WalkPreserves

\* The static variables name the segment the walk is in, and its place is in
\* the array.
LEMMA SegmentHere ==
  ASSUME document \in Documents, NEW from \in DOMAIN document, VolumeComplete(from),
         NEW q \in SegmentsOf(from), NEW p, p - 1 \in Nodes(q),
         NEW number, NEW count, StaticsFit(number, count, from, p),
         NEW ss \in Seq(Segment), Len(ss) = IntegerAt(Child(from, "segment_count"))
  PROVE  /\ number + 1 = document[q].segment /\ number >= 0
         /\ document[q].segment \in DOMAIN ss /\ ss[document[q].segment] \in Segment
<1>1. /\ q \in Children(from) /\ Entered(q) = document[q].segment - 1
      /\ document[q].segment \in 1 .. IntegerAt(Child(from, "segment_count"))
  BY SegmentNumber
<1>2. number = document[q].segment - 1
  BY <1>1 DEF StaticsFit
<1>3. document[q].segment \in 1 .. Len(ss)
  BY <1>1
<1>4. number + 1 = document[q].segment /\ number >= 0
  BY <1>2, <1>3
<1> QED
  BY <1>3, <1>4

\* In a tree that is no segment the walk writes nothing.
LEMMA NothingHere ==
  ASSUME document \in Documents, NEW from \in DOMAIN document, VolumeComplete(from),
         NEW q \in Children(from), q \notin SegmentsOf(from),
         NEW p, p - 1 \in Nodes(q),
         NEW number, NEW count, StaticsFit(number, count, from, p),
         NEW r \in Children(q)
  PROVE  /\ \A e \in Children(r) : document[e].type \notin {"string", "integer"}
         /\ ~ (number >= 0 /\ document[r].key \in SegmentNumbers /\ document[r].type = "integer")
<1>1. NothingCollected(q)
  BY DEF VolumeComplete
<1>2. number = Entered(q)
  BY DEF StaticsFit
<1>3. CASE document[q].type = "child" /\ document[q].segment = 0
  <2>1. number = -1
    BY <1>2, <1>3 DEF Entered, NotSegment
  <2>2. ~ (number >= 0)
    BY <2>1
  <2> QED
    BY <1>1, <2>2 DEF NothingCollected
<1>4. CASE \A key \in SegmentNumbers : \A x \in Child(q, key) : document[x].type # "integer"
  BY <1>1, <1>4 DEF NothingCollected, Child
<1> QED
  BY <1>1, <1>3, <1>4 DEF NothingCollected

LEMMA AttributeFields ==
  ASSUME NEW s \in Segment, NEW key \in SegmentKeys, NEW value \in Nat
  PROVE  LET t == Attribute(s, key, value)
         IN  /\ t.startExtent = IF key = "start_extent" THEN value ELSE s.startExtent
             /\ t.extentCount = IF key = "extent_count" THEN value ELSE s.extentCount
             /\ Len(t.stripes) = IF key = "stripe_count" THEN value ELSE Len(s.stripes)
             /\ key # "stripe_count" => t.stripes = s.stripes
<1>1. CASE key = "start_extent"
  BY <1>1 DEF Attribute, Segment
<1>2. CASE key = "extent_count"
  BY <1>2 DEF Attribute, Segment
<1>3. CASE key = "stripe_count"
  <2> DEFINE t == [s EXCEPT !.stripes = [n \in 1 .. value |-> NoStripe]]
  <2>1. Attribute(s, key, value) = t
    BY <1>3 DEF Attribute
  <2>2. Len([n \in 1 .. value |-> NoStripe]) = value
    BY LengthOfSpan
  <2>3. /\ t.startExtent = s.startExtent /\ t.extentCount = s.extentCount
        /\ t.stripes = [n \in 1 .. value |-> NoStripe]
    BY DEF Segment
  <2> HIDE DEF t
  <2> QED
    BY <1>3, <2>1, <2>2, <2>3
<1> QED
  BY <1>1, <1>2, <1>3 DEF SegmentKeys

\* An attribute of a segment is taken when the walk has passed it.
LEMMA AttributeTaken ==
  ASSUME document \in Documents, NEW from \in DOMAIN document,
         NEW q \in Children(from), SegmentComplete(q),
         NEW p \in Children(q), document[p].key \in SegmentNumbers,
         NEW s \in Segment, SegmentTaken(s, q, p)
  PROVE  SegmentTaken(Attribute(s, document[p].key, document[p].integer), q, p + 1)
<1> DEFINE key == document[p].key
           value == document[p].integer
           t == Attribute(s, key, value)
<1>1. /\ q \in DOMAIN document /\ p \in DOMAIN document /\ p \in Nat
      /\ D(p) = D(from) + 2 /\ D(from) \in Nat /\ p \in Child(q, key)
  BY DeepFacts DEF Child
<1>2. value \in Nat
  BY <1>1, NodeFacts
<1>3. IntegerAt(Before(Child(q, key), p + 1)) = value
  <2>1. Child(q, key) = {p}
    BY <1>1 DEF SegmentComplete, AtMostOne
  <2>2. p < p + 1
    BY <1>1
  <2>3. Before(Child(q, key), p + 1) = {p}
    BY <2>1, <2>2 DEF Before
  <2>4. Min({p}) = p
    BY <1>1, MinOfOne
  <2> QED
    BY <2>3, <2>4 DEF IntegerAt
<1>4. \A other \in SegmentNumbers : other # key =>
        Before(Child(q, other), p + 1) = Before(Child(q, other), p)
  <2>1. \A other : other # key => p \notin Child(q, other)
    BY DEF Child
  <2> QED
    BY <1>1, <2>1, ChildrenAreNumbers, BeforeOther
<1>5. /\ t.startExtent = IF key = "start_extent" THEN value ELSE s.startExtent
      /\ t.extentCount = IF key = "extent_count" THEN value ELSE s.extentCount
      /\ Len(t.stripes) = IF key = "stripe_count" THEN value ELSE Len(s.stripes)
      /\ key # "stripe_count" => t.stripes = s.stripes
  <2> HIDE DEF key, value
  <2>1. key \in SegmentKeys
    BY DEF SegmentKeys, SegmentNumbers, key
  <2> QED
    BY <1>2, <2>1, AttributeFields
<1>6. ASSUME NEW r \in Child(q, "stripes")
      PROVE  StripesTaken(t.stripes, r, p + 1)
  <2>1. r \in Children(q) /\ r \in DOMAIN document /\ document[r].key = "stripes"
    BY <1>1, ChildrenAreNodes DEF Child
  <2>2. CASE key = "stripe_count"
    <3>1. StripesListed(q, r)
      BY <2>1 DEF SegmentComplete
    <3>2. PICK c \in Child(q, "stripe_count") : c < r
      BY <3>1 DEF StripesListed
    <3>3. c = p
      BY <1>1, <2>2 DEF SegmentComplete, AtMostOne, SegmentNumbers
    <3>4. \A e \in Children(r) : e \in Nat /\ r < e /\ r \in Nat
      BY <2>1, DeepFacts
    <3>5. \A e \in Children(r) : ~ (e < p + 1)
      BY <1>1, <3>2, <3>3, <3>4
    <3>6. Before(Children(r), p + 1) = {}
      BY <3>5 DEF Before
    <3> QED
      BY <3>6 DEF StripesTaken
  <2>3. CASE key # "stripe_count"
    <3>1. p \notin Children(r)
      <4>1. \A e \in Children(r) : D(e) = D(from) + 3
        BY <2>1, DeepFacts
      <4> QED
        BY <1>1, <4>1
    <3>2. Before(Children(r), p + 1) = Before(Children(r), p)
      BY <1>1, <2>1, <3>1, ChildrenAreNumbers, BeforeOther
    <3> QED
      BY <1>5, <2>3, <3>2 DEF StripesTaken, SegmentTaken
  <2> QED
    BY <2>2, <2>3
<1>7. /\ t.startExtent = IntegerAt(Before(Child(q, "start_extent"), p + 1))
      /\ t.extentCount = IntegerAt(Before(Child(q, "extent_count"), p + 1))
      /\ Len(t.stripes) = IntegerAt(Before(Child(q, "stripe_count"), p + 1))
  <2> HIDE DEF key, value, t
  <2> QED
    BY <1>3, <1>4, <1>5 DEF SegmentTaken, SegmentNumbers
<1> QED
  BY <1>6, <1>7 DEF SegmentTaken

\* Writing one segment leaves the others.
LEMMA OthersKept ==
  ASSUME document \in Documents, NEW from \in DOMAIN document, VolumeComplete(from),
         NEW p \in Nat, NEW ss \in Seq(Segment), NEW tt \in Seq(Segment),
         Len(ss) = IntegerAt(Child(from, "segment_count")),
         AllTaken(ss, from, p),
         NEW q \in SegmentsOf(from), SegmentTaken(tt[document[q].segment], q, p + 1),
         \A n \in DOMAIN ss : n # document[q].segment => tt[n] = ss[n],
         \A r \in SegmentsOf(from) \ {q} :
           /\ \A key \in SegmentNumbers : p \notin Child(r, key)
           /\ \A e \in Child(r, "stripes") : p \notin Children(e)
  PROVE  AllTaken(tt, from, p + 1)
<1>1. ASSUME NEW r \in SegmentsOf(from), r # q
      PROVE  SegmentTaken(tt[document[r].segment], r, p + 1)
  <2>1. /\ r \in Children(from)
        /\ document[r].segment \in 1 .. IntegerAt(Child(from, "segment_count"))
        /\ document[r].segment # document[q].segment
    BY <1>1, SegmentNumber
  <2>2. tt[document[r].segment] = ss[document[r].segment]
    BY <2>1
  <2>3. SegmentTaken(ss[document[r].segment], r, p)
    BY DEF AllTaken
  <2> QED
    BY <1>1, <2>1, <2>2, <2>3, Untouched
<1> QED
  BY <1>1 DEF AllTaken

LEMMA NoneTouched ==
  ASSUME document \in Documents, NEW from \in DOMAIN document,
         NEW p \in Nat, NEW ss, AllTaken(ss, from, p),
         \A r \in SegmentsOf(from) :
           /\ \A key \in SegmentNumbers : p \notin Child(r, key)
           /\ \A e \in Child(r, "stripes") : p \notin Children(e)
  PROVE  AllTaken(ss, from, p + 1)
<1>1. ASSUME NEW r \in SegmentsOf(from)
      PROVE  SegmentTaken(ss[document[r].segment], r, p + 1)
  <2>1. r \in Children(from) /\ SegmentTaken(ss[document[r].segment], r, p)
    BY DEF AllTaken, SegmentsOf
  <2> QED
    BY <2>1, Untouched
<1> QED
  BY <1>1 DEF AllTaken

\* Of the trees below the volume, an attribute is part of its own only.
LEMMA AttributeOfOne ==
  ASSUME document \in Documents, NEW from \in DOMAIN document,
         NEW q \in Children(from), NEW p \in Children(q),
         NEW r \in Children(from), r # q
  PROVE  /\ \A key : p \notin Child(r, key)
         /\ \A e \in Child(r, "stripes") : p \notin Children(e)
         /\ p \notin Nodes(r)
<1>1. p \in Nodes(q) /\ D(p) = D(from) + 2 /\ D(from) \in Nat
  BY DeepFacts
<1>2. p \notin Nodes(r)
  BY <1>1, OneTree
<1>3. \A x \in Children(r) : x \in Nodes(r) /\ \A e \in Children(x) : e \in Nodes(r)
  BY DeepFacts
<1> QED
  BY <1>2, <1>3 DEF Child

LEMMA VisitAttributePreserves == IInv /\ VisitAttribute => IInv'
<1> SUFFICES ASSUME IInv, VisitAttribute
             PROVE  IInv'
  OBVIOUS
<1> DEFINE writes == seg >= 0 /\ Here.key \in SegmentNumbers /\ Here.type = "integer"
<1>1. /\ stage = "in logical volume" /\ ~ Walked /\ Depth = 2
      /\ UNCHANGED <<root, pv>> /\ seg' = seg
  BY DEF VisitAttribute
<1>2. /\ document \in Documents /\ TypeOK /\ root \in DOMAIN document
      /\ VolumeComplete(root)
      /\ position \in DOMAIN document /\ position \in Nodes(root) /\ position \in Nat
      /\ Depth = D(position) - D(root) /\ D(position) \in Nat /\ D(root) \in Nat
      /\ segments \in Seq(Segment)
      /\ Len(segments) = IntegerAt(Child(root, "segment_count"))
      /\ StaticsFit(seg, stripeCount, root, position)
      /\ AllTaken(segments, root, position)
  BY <1>1, InTheWalk
<1>3. D(position) = D(root) + 2 /\ D(position) # D(root) + 1
  <2>1. D(position) - D(root) = 2
    BY <1>1, <1>2
  <2> QED
    BY <1>2, <2>1, DepthBelow
<1>4. PICK q \in Children(root) : position \in Children(q)
  BY <1>2, <1>3, ChildOfChild
<1>5. position \in Nodes(q) /\ position - 1 \in Nodes(q) /\ (position + 1) - 1 = position
  BY <1>2, <1>3, <1>4, DeepFacts, SameTree
<1>6. \A r \in Children(root) : r # q =>
        /\ \A key : position \notin Child(r, key)
        /\ \A e \in Child(r, "stripes") : position \notin Children(e)
        /\ position \notin Nodes(r)
  BY <1>2, <1>4, AttributeOfOne
<1>7. [Next]_vars
  BY DEF Next
<1>8. /\ ~ writes => /\ segments' = segments /\ stripeCount' = stripeCount
                     /\ stage' = stage /\ position' = position + 1
      /\ writes /\ Slot \in DOMAIN segments =>
           /\ segments' = [segments EXCEPT ![Slot] = Attribute(@, Here.key, Here.integer)]
           /\ stripeCount' = IF Here.key = "stripe_count" THEN Here.integer ELSE stripeCount
           /\ stage' = stage /\ position' = position + 1
  BY DEF VisitAttribute, NextNode, SegmentKeys, SegmentNumbers
<1> HIDE DEF writes
<1>9. CASE q \notin SegmentsOf(root)
  <2>1. ~ writes
    BY <1>2, <1>4, <1>5, <1>9, NothingHere DEF writes, Here
  <2>2. AllTaken(segments', root, position + 1)
    <3>1. \A r \in SegmentsOf(root) : r \in Children(root) /\ r # q
      BY <1>9 DEF SegmentsOf
    <3> QED
      BY <1>2, <1>6, <1>8, <2>1, <3>1, NoneTouched
  <2>3. StaticsFit(seg', stripeCount', root, position + 1)
    <3>1. ASSUME NEW r \in Children(root), (position + 1) - 1 \in Nodes(r)
          PROVE  seg' = Entered(r) /\ r \notin SegmentsOf(root)
      <4>1. r = q
        BY <1>5, <1>6, <3>1
      <4> QED
        BY <1>1, <1>2, <1>5, <1>9, <4>1 DEF StaticsFit
    <3> QED
      BY <3>1 DEF StaticsFit
  <2> QED
    BY <1>1, <1>7, <1>8, <2>1, <2>2, <2>3, WalkPreserves
<1>10. CASE q \in SegmentsOf(root)
  <2>1. /\ seg + 1 = document[q].segment /\ seg >= 0
        /\ document[q].segment \in DOMAIN segments
        /\ segments[document[q].segment] \in Segment
    BY <1>2, <1>5, <1>10, SegmentHere
  <2>2. SegmentComplete(q) /\ SegmentTaken(segments[document[q].segment], q, position)
    BY <1>2, <1>10, SegmentNumber DEF AllTaken
  <2>3. CASE ~ writes
    <3>1. Here.key \notin SegmentNumbers
      <4>1. \A key \in SegmentNumbers : position \in Child(q, key) => Here.type = "integer"
        BY <2>2 DEF SegmentComplete, Integers, Here
      <4>2. Here.key \in SegmentNumbers => position \in Child(q, Here.key)
        BY <1>4 DEF Child, Here
      <4> QED
        BY <2>1, <2>3, <4>1, <4>2 DEF writes
    <3>2. /\ \A key \in SegmentNumbers : position \notin Child(q, key)
          /\ \A e \in Child(q, "stripes") : position \notin Children(e)
      <4>1. \A e \in Child(q, "stripes") : e \in Children(q) /\ \A x \in Children(e) : D(x) = D(root) + 3
        BY <1>2, <1>4, DeepFacts DEF Child
      <4>2. D(position) # D(root) + 3
        BY <1>2, <1>3, DepthBelow
      <4> QED
        BY <3>1, <4>1, <4>2 DEF Child, Here
    <3>3. AllTaken(segments', root, position + 1)
      <4>1. \A r \in SegmentsOf(root) : r \in Children(root)
        BY DEF SegmentsOf
      <4> QED
        BY <1>2, <1>6, <1>8, <2>3, <3>2, <4>1, NoneTouched
    <3>4. StaticsFit(seg', stripeCount', root, position + 1)
      <4>1. \A r \in Children(root) : position \notin Child(r, "stripe_count")
        BY <1>6, <3>2 DEF SegmentNumbers
      <4> QED
        BY <1>1, <1>2, <1>3, <1>8, <2>3, <4>1, StaticsGoOn
    <3> QED
      BY <1>1, <1>7, <1>8, <2>3, <3>3, <3>4, WalkPreserves
  <2>4. CASE writes
    <3> DEFINE n == document[q].segment
               new == Attribute(segments[n], document[position].key, document[position].integer)
    <3>1. Slot = n
      BY <2>1 DEF Slot
    <3>2. /\ document[position].key \in SegmentNumbers /\ document[position].integer \in Nat
      BY <1>2, <2>4, NodeFacts DEF writes, Here
    <3>3. /\ segments' = [segments EXCEPT ![n] = new] /\ stage' = stage
          /\ position' = position + 1
          /\ stripeCount' = IF document[position].key = "stripe_count"
                            THEN document[position].integer ELSE stripeCount
      BY <1>8, <2>1, <2>4, <3>1 DEF Here
    <3>4. new \in Segment
      <4>1. document[position].key \in SegmentKeys
        BY <3>2 DEF SegmentKeys, SegmentNumbers
      <4> QED
        BY <2>1, <3>2, <4>1, AttributeTyped
    <3>5. SegmentTaken(new, q, position + 1)
      BY <1>2, <1>4, <2>1, <2>2, <3>2, AttributeTaken
    <3> HIDE DEF new
    <3>6. /\ segments' \in Seq(Segment) /\ Len(segments') = Len(segments)
          /\ segments'[n] = new
          /\ \A m \in DOMAIN segments : m # n => segments'[m] = segments[m]
      BY <1>2, <2>1, <3>3, <3>4
    <3>7. AllTaken(segments', root, position + 1)
      <4>1. \A r \in SegmentsOf(root) \ {q} : r \in Children(root) /\ r # q
        BY DEF SegmentsOf
      <4>2. \A r \in SegmentsOf(root) \ {q} :
              /\ \A key \in SegmentNumbers : position \notin Child(r, key)
              /\ \A e \in Child(r, "stripes") : position \notin Children(e)
        BY <1>6, <4>1
      <4>3. SegmentTaken(segments'[document[q].segment], q, position + 1)
        BY <3>5, <3>6
      <4> QED
        BY <1>2, <1>10, <3>6, <4>2, <4>3, OthersKept
    <3>8. StaticsFit(seg', stripeCount', root, position + 1)
      <4>1. ASSUME NEW r \in Children(root), (position + 1) - 1 \in Nodes(r)
            PROVE  /\ seg' = Entered(r)
                   /\ \A s \in Before(Child(r, "stripe_count"), position + 1) :
                        stripeCount' = document[s].integer
        <5>1. r = q
          BY <1>5, <1>6, <4>1
        <5>2. seg' = Entered(r)
          BY <1>1, <1>2, <1>5, <5>1 DEF StaticsFit
        <5>3. CASE document[position].key = "stripe_count"
          <6>1. position \in Child(q, "stripe_count")
            BY <1>4, <5>3 DEF Child
          <6>2. Child(q, "stripe_count") = {position}
            BY <2>2, <6>1 DEF SegmentComplete, AtMostOne, SegmentNumbers
          <6> QED
            BY <3>3, <5>1, <5>2, <5>3, <6>2 DEF Before
        <5>4. CASE document[position].key # "stripe_count"
          <6>1. position \notin Child(q, "stripe_count") /\ q \in DOMAIN document
            BY <1>2, <1>4, <5>4, ChildFacts DEF Child
          <6>2. Before(Child(q, "stripe_count"), position + 1)
                  = Before(Child(q, "stripe_count"), position)
            BY <1>2, <6>1, ChildrenAreNumbers, BeforeOther
          <6> QED
            BY <1>2, <1>5, <1>10, <3>3, <5>1, <5>2, <5>4, <6>2 DEF StaticsFit
        <5> QED
          BY <5>3, <5>4
      <4> QED
        BY <4>1 DEF StaticsFit
    <3> QED
      BY <1>1, <1>7, <3>3, <3>6, <3>7, <3>8, WalkPreserves
  <2> QED
    BY <2>3, <2>4
<1> QED
  BY <1>9, <1>10

LEMMA Halves ==
  ASSUME NEW i \in Nat
  PROVE  /\ i \div 2 \in Nat /\ i \div 2 + 1 \in Nat
         /\ \A n \in Nat : i < 2 * n => i \div 2 < n /\ i \div 2 + 1 \in 1 .. n
         /\ i % 2 \in {0, 1}
OBVIOUS

LEMMA OtherHalf ==
  ASSUME NEW i \in Nat, NEW j \in Nat, i # j, i \div 2 + 1 = j \div 2 + 1
  PROVE  i % 2 = 0 <=> j % 2 # 0
OBVIOUS

\* An element of a list of stripes comes behind their count and has its place
\* among them.
LEMMA StripeAt ==
  ASSUME document \in Documents, NEW from \in DOMAIN document,
         NEW q \in Children(from), SegmentComplete(q),
         NEW r \in Child(q, "stripes"), NEW p \in Children(r)
  PROVE  LET count == IntegerAt(Child(q, "stripe_count"))
         IN  /\ Index(p) \in Nat /\ count \in Nat /\ Index(p) \div 2 < count
             /\ Index(p) \div 2 + 1 \in 1 .. count
             /\ document[p].type = IF Index(p) % 2 = 0 THEN "string" ELSE "integer"
             /\ Before(Child(q, "stripe_count"), p) = Child(q, "stripe_count")
             /\ \E s \in Child(q, "stripe_count") : document[s].integer = count
<1> DEFINE count == IntegerAt(Child(q, "stripe_count"))
<1>1. r \in Children(q) /\ document[r].key = "stripes"
  BY DEF Child
<1>2. q \in DOMAIN document /\ p \in Nat /\ r \in Nat /\ r < p
  BY <1>1, DeepFacts
<1>3. StripesListed(q, r)
  BY <1>1 DEF SegmentComplete
<1>4. PICK s \in Child(q, "stripe_count") : s < r
  BY <1>3 DEF StripesListed
<1>5. s \in Nat /\ Child(q, "stripe_count") = {s}
  BY <1>2, ChildrenAreNumbers DEF SegmentComplete, AtMostOne, SegmentNumbers
<1>6. count = document[s].integer /\ count \in Nat
  <2>1. Child(q, "stripe_count") \subseteq DOMAIN document
    BY <1>2, ChildrenAreNodes
  <2>2. AtMostOne(Child(q, "stripe_count"))
    BY DEF SegmentComplete, SegmentNumbers
  <2> QED
    BY <2>1, <2>2, IntegerAtOne, IntegerAtTyped
<1>7. s < p
  BY <1>2, <1>4, <1>5
<1>8. Before(Child(q, "stripe_count"), p) = Child(q, "stripe_count")
  BY <1>5, <1>7 DEF Before
<1>9. /\ Index(p) \in Nat /\ Index(p) < 2 * count
      /\ document[p].type = IF Index(p) % 2 = 0 THEN "string" ELSE "integer"
  BY <1>2, <1>3, IndexTyped DEF StripesListed
<1> HIDE DEF count
<1>10. Index(p) \div 2 < count /\ Index(p) \div 2 + 1 \in 1 .. count
  BY <1>6, <1>9, Halves
<1> QED
  BY <1>6, <1>8, <1>9, <1>10 DEF count

LEMMA OneMore ==
  ASSUME NEW ps, ps \subseteq Nat, NEW p \in Nat, NEW e \in Before(ps, p + 1)
  PROVE  e = p \/ e \in Before(ps, p)
<1>1. \A q \in Nat : q < p + 1 => q < p \/ q = p
  OBVIOUS
<1> QED
  BY <1>1 DEF Before

\* An element of a list of stripes is taken when the walk has passed it.
LEMMA StripeTaken ==
  ASSUME document \in Documents, NEW r \in DOMAIN document, NEW p \in Children(r),
         NEW stripes \in Seq(Stripe), NEW written,
         \A e \in Children(r) : Index(e) \div 2 + 1 \in DOMAIN stripes,
         \A m \in DOMAIN stripes : m # Index(p) \div 2 + 1 => written[m] = stripes[m],
         written[Index(p) \div 2 + 1] =
           IF Index(p) % 2 = 0
           THEN [stripes[Index(p) \div 2 + 1] EXCEPT !.pvName = document[p].string]
           ELSE [stripes[Index(p) \div 2 + 1] EXCEPT !.startExtent = document[p].integer],
         StripesTaken(stripes, r, p)
  PROVE  StripesTaken(written, r, p + 1)
<1>1. Children(r) \subseteq Nat /\ p \in Nat
  BY ChildrenAreNumbers
<1> DEFINE n == Index(p) \div 2 + 1
<1>2. stripes[n] \in Stripe
  <2>1. n \in DOMAIN stripes
    OBVIOUS
  <2> HIDE DEF n
  <2> QED
    BY <2>1
<1>3. /\ Index(p) % 2 = 0 => /\ written[n].pvName = document[p].string
                             /\ written[n].startExtent = stripes[n].startExtent
      /\ Index(p) % 2 # 0 => /\ written[n].startExtent = document[p].integer
                             /\ written[n].pvName = stripes[n].pvName
  <2> HIDE DEF n
  <2> QED
    BY <1>2 DEF Stripe, n
<1>4. ASSUME NEW e \in Before(Children(r), p + 1)
      PROVE  LET stripe == written[Index(e) \div 2 + 1]
             IN  IF Index(e) % 2 = 0 THEN stripe.pvName = document[e].string
                 ELSE stripe.startExtent = document[e].integer
  <2>1. e = p \/ e \in Before(Children(r), p)
    BY <1>1, OneMore
  <2>2. CASE e = p
    <3>1. IF Index(p) % 2 = 0 THEN written[n].pvName = document[p].string
          ELSE written[n].startExtent = document[p].integer
      <4> HIDE DEF n
      <4> QED
        BY <1>3
    <3> QED
      BY <2>2, <3>1
  <2>3. CASE e \in Before(Children(r), p)
    <3>1. e \in Children(r) /\ e # p /\ e \in Nat
      BY <1>1, <2>3 DEF Before
    <3>2. Index(e) # Index(p) /\ Index(e) \in Nat /\ Index(p) \in Nat
      BY <1>1, <3>1, IndexOfOne, IndexTyped
    <3>3. IF Index(e) % 2 = 0 THEN stripes[Index(e) \div 2 + 1].pvName = document[e].string
          ELSE stripes[Index(e) \div 2 + 1].startExtent = document[e].integer
      BY <2>3 DEF StripesTaken
    <3>4. CASE Index(e) \div 2 + 1 # n
      <4>1. written[Index(e) \div 2 + 1] = stripes[Index(e) \div 2 + 1]
        BY <3>1, <3>4
      <4> QED
        BY <3>3, <4>1
    <3>5. CASE Index(e) \div 2 + 1 = n
      <4>1. Index(e) % 2 = 0 <=> Index(p) % 2 # 0
        BY <3>2, <3>5, OtherHalf
      <4> HIDE DEF n
      <4> QED
        BY <1>3, <3>3, <3>5, <4>1
    <3> QED
      BY <3>4, <3>5
  <2> QED
    BY <2>1, <2>2, <2>3
<1> QED
  BY <1>4 DEF StripesTaken

\* Of the trees below the volume, a stripe is part of its own only, and of one
\* list of it.
LEMMA StripeOfOne ==
  ASSUME document \in Documents, NEW from \in DOMAIN document,
         NEW q \in Children(from), NEW r \in Children(q), NEW p \in Children(r)
  PROVE  /\ \A x \in Children(from) : \A key : p \notin Child(x, key)
         /\ \A x \in Children(from) : x # q =>
              p \notin Nodes(x) /\ \A e \in Child(x, "stripes") : p \notin Children(e)
         /\ \A e \in Children(q) : e # r => p \notin Children(e)
<1>1. /\ p \in Nodes(q) /\ p \in Nodes(r) /\ D(p) = D(from) + 3 /\ D(from) \in Nat
      /\ q \in DOMAIN document
  BY DeepFacts, ChildFacts
<1>2. \A x \in Children(from) : x # q => p \notin Nodes(x)
  BY <1>1, OneTree
<1>3. \A x \in Children(from) : \A y \in Children(x) :
        D(y) = D(from) + 2 /\ \A e \in Children(y) : e \in Nodes(x)
  BY DeepFacts
<1>4. D(from) + 2 # D(from) + 3
  BY <1>1, DepthBelow
<1>5. \A e \in Children(q) : \A x \in Children(e) : x \in Nodes(e)
  BY DEF Children
<1>6. \A e \in Children(q) : e # r => p \notin Children(e)
  BY <1>1, <1>5, OneTree
<1> QED
  BY <1>1, <1>2, <1>3, <1>4, <1>6 DEF Child

LEMMA CrashPreserves ==
  ASSUME IInv, [Next]_vars, stage' = "crashed",
         document[position'].type = "string", document[position'].string = NoName
  PROVE  IInv'
<1>1. TextInv' /\ document' = document /\ lvName' = lvName /\ document \in Documents
  BY TextNext DEF IInv
<1>2. PhysicalVolumeInv' /\ FoundInv' /\ SegmentsInv'
  BY <1>1, PartsPrimed
<1>3. PhysicalVolumeAsWritten' /\ SegmentsAsWritten' /\ VolumeCollected'
  BY <1>1, PropertiesPrimed, WrittenPrimed
<1>4. WritesStayInArrays'
  BY DEF WritesStayInArrays
<1> QED
  BY <1>1, <1>2, <1>3, <1>4 DEF IInv

\* What the step at an element of a list of stripes does.
LEMMA StripeStep ==
  ASSUME VisitStripe, position \in Nat, Here.type = IF Index(position) % 2 = 0 THEN "string" ELSE "integer",
         Index(position) % 2 = 0 \/ Index(position) \div 2 < stripeCount,
         Slot \in DOMAIN segments, StripeHere \in DOMAIN segments[Slot].stripes
  PROVE  \/ /\ stage' = "crashed" /\ position' = position
            /\ Here.type = "string" /\ Here.string = NoName
         \/ /\ stage' = stage /\ position' = position + 1
            /\ segments' = [segments EXCEPT ![Slot].stripes[StripeHere] = StripeWith(@)]
            /\ IsName <=> Index(position) % 2 = 0
<1>1. IsName <=> Index(position) % 2 = 0
  BY DEF IsName
<1>2. IsName \/ IsExtent
  <2>1. CASE Index(position) % 2 = 0
    BY <1>1, <2>1
  <2>2. CASE Index(position) % 2 # 0
    <3>1. Index(position) % 2 = 1
      BY <2>2, Halves, IndexTyped
    <3> QED
      BY <2>2, <3>1 DEF IsExtent
  <2> QED
    BY <2>1, <2>2
<1> QED
  BY <1>1, <1>2 DEF VisitStripe, NextNode, StripeWith, IsName

LEMMA VisitStripePreserves == IInv /\ VisitStripe => IInv'
<1> SUFFICES ASSUME IInv, VisitStripe
             PROVE  IInv'
  OBVIOUS
<1>1. /\ stage = "in logical volume" /\ ~ Walked /\ Depth = 3
      /\ UNCHANGED <<root, pv>> /\ seg' = seg /\ stripeCount' = stripeCount
  BY DEF VisitStripe
<1>2. /\ document \in Documents /\ TypeOK /\ root \in DOMAIN document
      /\ VolumeComplete(root)
      /\ position \in DOMAIN document /\ position \in Nodes(root) /\ position \in Nat
      /\ Depth = D(position) - D(root) /\ D(position) \in Nat /\ D(root) \in Nat
      /\ segments \in Seq(Segment)
      /\ Len(segments) = IntegerAt(Child(root, "segment_count"))
      /\ StaticsFit(seg, stripeCount, root, position)
      /\ AllTaken(segments, root, position)
  BY <1>1, InTheWalk
<1>3. D(position) = D(root) + 3 /\ D(position) # D(root) + 1 /\ D(position) # D(root) + 2
  <2>1. D(position) - D(root) = 3
    BY <1>1, <1>2
  <2> QED
    BY <1>2, <2>1, DepthBelow
<1>4. PICK q \in Children(root) : \E r \in Children(q) : position \in Children(r)
  BY <1>2, <1>3, ChildOfChildOfChild
<1>5. PICK r \in Children(q) : position \in Children(r)
  BY <1>4
<1>6. /\ q \in DOMAIN document /\ r \in DOMAIN document
      /\ position \in Nodes(q) /\ position - 1 \in Nodes(q)
  BY <1>2, <1>3, <1>5, DeepFacts, SameTree
<1>7. /\ \A x \in Children(root) : \A key : position \notin Child(x, key)
      /\ \A x \in Children(root) : x # q =>
           \A e \in Child(x, "stripes") : position \notin Children(e)
      /\ \A e \in Children(q) : e # r => position \notin Children(e)
  BY <1>2, <1>5, StripeOfOne
<1>8. StaticsFit(seg', stripeCount', root, position + 1)
  BY <1>1, <1>2, <1>3, <1>7, StaticsGoOn
<1>9. \A x \in SegmentsOf(root) : x \in Children(root)
  BY DEF SegmentsOf
<1>10. [Next]_vars
  BY DEF Next
<1>11. CASE q \notin SegmentsOf(root) \/ document[r].key # "stripes"
  <2>1. document[position].type \notin {"string", "integer"}
    <3>1. CASE q \notin SegmentsOf(root)
      BY <1>2, <1>5, <1>6, <3>1, NothingHere
    <3>2. CASE q \in SegmentsOf(root) /\ document[r].key # "stripes"
      <4>1. SegmentComplete(q)
        BY <1>2, <3>2, SegmentNumber
      <4> QED
        BY <1>5, <3>2, <4>1 DEF SegmentComplete
    <3> QED
      BY <1>11, <3>1, <3>2
  <2>2. ~ IsName /\ ~ IsExtent
    BY <2>1 DEF IsName, IsExtent, Here
  <2>3. segments' = segments /\ stage' = stage /\ position' = position + 1
    BY <2>2 DEF VisitStripe, NextNode
  <2>4. AllTaken(segments', root, position + 1)
    <3>1. \A x \in SegmentsOf(root) : \A e \in Child(x, "stripes") : position \notin Children(e)
      <4>1. CASE q \notin SegmentsOf(root)
        BY <1>7, <1>9, <4>1
      <4>2. CASE document[r].key # "stripes"
        <5>1. \A e \in Child(q, "stripes") : e \in Children(q) /\ e # r
          BY <4>2 DEF Child
        <5> QED
          BY <1>7, <1>9, <5>1
      <4> QED
        BY <1>11, <4>1, <4>2
    <3> QED
      BY <1>2, <1>7, <1>9, <2>3, <3>1, NoneTouched
  <2> QED
    BY <1>1, <1>8, <1>10, <2>3, <2>4, WalkPreserves
<1>12. CASE q \in SegmentsOf(root) /\ document[r].key = "stripes"
  <2> DEFINE n == document[q].segment
             k == Index(position) \div 2 + 1
             stripes == segments[n].stripes
             count == IntegerAt(Child(q, "stripe_count"))
  <2>1. /\ seg + 1 = n /\ n \in DOMAIN segments /\ segments[n] \in Segment
    BY <1>2, <1>6, <1>12, SegmentHere
  <2>2. SegmentComplete(q) /\ SegmentTaken(segments[n], q, position)
    BY <1>2, <1>12, SegmentNumber DEF AllTaken
  <2>3. r \in Child(q, "stripes")
    BY <1>12 DEF Child
  <2>4. \A e \in Children(r) :
          /\ Index(e) \in Nat /\ Index(e) \div 2 < count /\ Index(e) \div 2 + 1 \in 1 .. count
          /\ document[e].type = IF Index(e) % 2 = 0 THEN "string" ELSE "integer"
          /\ Before(Child(q, "stripe_count"), e) = Child(q, "stripe_count")
          /\ \E s \in Child(q, "stripe_count") : document[s].integer = count
    BY <1>2, <2>2, <2>3, StripeAt
  <2>5. stripes \in Seq(Stripe) /\ Len(stripes) = count
    BY <1>5, <2>1, <2>2, <2>4 DEF Segment, SegmentTaken
  <2>6. stripeCount = count
    <3>1. \A s \in Before(Child(q, "stripe_count"), position) : stripeCount = document[s].integer
      BY <1>2, <1>6, <1>12 DEF StaticsFit
    <3> QED
      BY <1>5, <2>4, <3>1
  <2> HIDE DEF count
  <2>7. DOMAIN stripes = 1 .. count
    BY <2>5
  <2> HIDE DEF stripes, n, k
  <2>8. Slot = n /\ StripeHere = k
    BY <2>1 DEF Slot, StripeHere, k
  <2>9. k \in DOMAIN stripes /\ \A e \in Children(r) : Index(e) \div 2 + 1 \in DOMAIN stripes
    BY <1>5, <2>4, <2>7 DEF k
  <2>10. \/ /\ stage' = "crashed" /\ position' = position
            /\ Here.type = "string" /\ Here.string = NoName
         \/ /\ stage' = stage /\ position' = position + 1
            /\ segments' = [segments EXCEPT ![n].stripes[k] = StripeWith(@)]
            /\ IsName <=> Index(position) % 2 = 0
    <3>1. Here.type = IF Index(position) % 2 = 0 THEN "string" ELSE "integer"
      BY <1>5, <2>4 DEF Here
    <3>2. Index(position) \div 2 < stripeCount
      BY <1>5, <2>4, <2>6
    <3>3. Slot \in DOMAIN segments /\ StripeHere \in DOMAIN segments[Slot].stripes
      BY <2>1, <2>8, <2>9 DEF stripes
    <3> QED
      BY <1>2, <2>8, <3>1, <3>2, <3>3, StripeStep
  <2>11. CASE /\ stage' = "crashed" /\ position' = position
              /\ Here.type = "string" /\ Here.string = NoName
    BY <1>10, <2>11, CrashPreserves DEF Here
  <2>12. CASE /\ stage' = stage /\ position' = position + 1
              /\ segments' = [segments EXCEPT ![n].stripes[k] = StripeWith(@)]
              /\ IsName <=> Index(position) % 2 = 0
    <3> DEFINE written == [stripes EXCEPT ![k] = StripeWith(@)]
               new == [segments[n] EXCEPT !.stripes = written]
    <3>1. segments' = [segments EXCEPT ![n] = new]
      BY <2>12 DEF stripes
    <3>2. /\ written[k] = StripeWith(stripes[k]) /\ Len(written) = Len(stripes)
          /\ \A m \in DOMAIN stripes : m # k => written[m] = stripes[m]
      BY <2>5, <2>9
    <3> HIDE DEF written
    <3>3. /\ new.startExtent = segments[n].startExtent
          /\ new.extentCount = segments[n].extentCount /\ new.stripes = written
      BY <2>1 DEF Segment
    <3> HIDE DEF new
    <3>4. /\ Len(segments') = Len(segments) /\ segments'[n] = new
          /\ \A m \in DOMAIN segments : m # n => segments'[m] = segments[m]
      BY <1>2, <2>1, <3>1
    <3>5. StripesTaken(written, r, position + 1)
      <4>1. written[k] = IF Index(position) % 2 = 0
                         THEN [stripes[k] EXCEPT !.pvName = document[position].string]
                         ELSE [stripes[k] EXCEPT !.startExtent = document[position].integer]
        BY <2>12, <3>2 DEF StripeWith, Here
      <4>2. StripesTaken(stripes, r, position)
        BY <2>2, <2>3 DEF SegmentTaken, stripes
      <4> QED
        BY <1>2, <1>5, <1>6, <2>5, <2>9, <3>2, <4>1, <4>2, StripeTaken DEF k
    <3>6. SegmentTaken(new, q, position + 1)
      <4>1. \A key : Before(Child(q, key), position + 1) = Before(Child(q, key), position)
        BY <1>2, <1>6, <1>7, ChildrenAreNumbers, BeforeOther
      <4>2. \A e \in Child(q, "stripes") : e = r
        BY <2>2, <2>3 DEF SegmentComplete, AtMostOne
      <4> QED
        BY <2>2, <3>2, <3>3, <3>5, <4>1, <4>2 DEF SegmentTaken, stripes
    <3>7. AllTaken(segments', root, position + 1)
      <4>1. segments' \in Seq(Segment)
        BY <1>2, <1>10, TextNext DEF IInv, TextInv, TypeOK, Segment, Stripe
      <4>2. \A x \in SegmentsOf(root) \ {q} :
              /\ \A key \in SegmentNumbers : position \notin Child(x, key)
              /\ \A e \in Child(x, "stripes") : position \notin Children(e)
        BY <1>7, <1>9
      <4>3. SegmentTaken(segments'[document[q].segment], q, position + 1)
        BY <3>4, <3>6 DEF n
      <4>4. \A m \in DOMAIN segments : m # document[q].segment => segments'[m] = segments[m]
        BY <3>4 DEF n
      <4> QED
        BY <1>2, <1>12, <4>1, <4>2, <4>3, <4>4, OthersKept
    <3> QED
      BY <1>1, <1>8, <1>10, <2>12, <3>4, <3>7, WalkPreserves
  <2> QED
    BY <2>10, <2>11, <2>12
<1> QED
  BY <1>11, <1>12

LEMMA EvenAndOdd ==
  ASSUME NEW n \in Nat, NEW k \in 1 .. n
  PROVE  /\ 2 * k - 2 \in 0 .. 2 * n - 1 /\ 2 * k - 1 \in 0 .. 2 * n - 1
         /\ (2 * k - 2) \div 2 + 1 = k /\ (2 * k - 2) % 2 = 0
         /\ (2 * k - 1) \div 2 + 1 = k /\ (2 * k - 1) % 2 = 1
         /\ (2 * k - 1) - 1 = 2 * k - 2
OBVIOUS

\* The element of a list with a place is the one the text has there.
LEMMA ElementIs ==
  ASSUME document \in Documents, NEW r \in DOMAIN document,
         NEW n, \E e \in Children(r) : Index(e) = n - 1
  PROVE  \E e \in Children(r) : Index(e) = n - 1 /\ Element(r, n) = document[e]
<1>1. PICK e \in Children(r) : Index(e) = n - 1
  OBVIOUS
<1>2. (CHOOSE x \in Children(r) : Index(x) = n - 1) = e
  BY <1>1, IndexOfOne
<1> QED
  BY <1>1, <1>2 DEF Element

\* The stripes of a list of which everything is taken.
LEMMA StripesAreWritten ==
  ASSUME document \in Documents, NEW r \in DOMAIN document,
         NEW count \in Nat, NEW stripes \in Seq(Stripe), Len(stripes) = count,
         \A n \in 0 .. 2 * count - 1 : \E e \in Children(r) : Index(e) = n,
         NEW p, Before(Children(r), p) = Children(r), StripesTaken(stripes, r, p),
         NEW k \in 1 .. count
  PROVE  stripes[k] = [pvName |-> Element(r, 2 * k - 1).string,
                       startExtent |-> Element(r, 2 * k).integer]
<1>1. /\ 2 * k - 2 \in 0 .. 2 * count - 1 /\ 2 * k - 1 \in 0 .. 2 * count - 1
      /\ (2 * k - 2) \div 2 + 1 = k /\ (2 * k - 2) % 2 = 0
      /\ (2 * k - 1) \div 2 + 1 = k /\ (2 * k - 1) % 2 = 1
      /\ (2 * k - 1) - 1 = 2 * k - 2
  BY EvenAndOdd
<1>2. \A e \in Children(r) :
        IF Index(e) % 2 = 0 THEN stripes[Index(e) \div 2 + 1].pvName = document[e].string
        ELSE stripes[Index(e) \div 2 + 1].startExtent = document[e].integer
  BY DEF StripesTaken
<1>3. stripes[k].pvName = Element(r, 2 * k - 1).string
  <2>1. \E e \in Children(r) : Index(e) = (2 * k - 1) - 1
    BY <1>1
  <2>2. PICK e \in Children(r) :
          Index(e) = (2 * k - 1) - 1 /\ Element(r, 2 * k - 1) = document[e]
    BY <2>1, ElementIs
  <2>3. Index(e) % 2 = 0 /\ Index(e) \div 2 + 1 = k
    BY <1>1, <2>2
  <2> QED
    BY <1>2, <2>2, <2>3
<1>4. stripes[k].startExtent = Element(r, 2 * k).integer
  <2>1. \E e \in Children(r) : Index(e) = 2 * k - 1
    BY <1>1
  <2>2. PICK e \in Children(r) : Index(e) = 2 * k - 1 /\ Element(r, 2 * k) = document[e]
    BY <2>1, ElementIs
  <2>3. ~ (Index(e) % 2 = 0) /\ Index(e) \div 2 + 1 = k
    BY <1>1, <2>2
  <2>4. stripes[Index(e) \div 2 + 1].startExtent = document[e].integer
    BY <1>2, <2>3
  <2> QED
    BY <2>2, <2>3, <2>4
<1>5. stripes[k] \in Stripe
  OBVIOUS
<1> QED
  BY <1>3, <1>4, <1>5 DEF Stripe

\* A segment of which everything is taken.
LEMMA SegmentIsWritten ==
  ASSUME document \in Documents, NEW from \in DOMAIN document,
         NEW q \in Children(from), SegmentComplete(q),
         NEW s \in Segment, NEW p, \A x \in Nodes(from) : x < p, SegmentTaken(s, q, p)
  PROVE  s = SegmentAt(q)
<1> DEFINE count == IntegerAt(Child(q, "stripe_count"))
           lists == Child(q, "stripes")
<1>1. q \in DOMAIN document
  BY ChildFacts
<1>2. \A x \in Children(q) : x < p /\ x \in DOMAIN document /\ \A e \in Children(x) : e < p
  BY DeepFacts
<1>3. \A key : Before(Child(q, key), p) = Child(q, key)
  BY <1>2 DEF Before, Child
<1>4. /\ s.startExtent = IntegerAt(Child(q, "start_extent"))
      /\ s.extentCount = IntegerAt(Child(q, "extent_count"))
      /\ Len(s.stripes) = count
  BY <1>3 DEF SegmentTaken
<1>5. s.stripes \in Seq(Stripe) /\ count \in Nat
  <2>1. Child(q, "stripe_count") \subseteq DOMAIN document
    BY <1>1, ChildrenAreNodes
  <2> QED
    BY <2>1, IntegerAtTyped DEF Segment
<1>6. ASSUME NEW k \in 1 .. count
      PROVE  s.stripes[k] = [pvName |-> Element(Min(lists), 2 * k - 1).string,
                             startExtent |-> Element(Min(lists), 2 * k).integer]
  <2>1. count > 0
    BY <1>5, <1>6
  <2>2. lists # {} /\ AtMostOne(lists)
    BY <2>1 DEF SegmentComplete
  <2>3. PICK r \in Children(q) : r \in lists /\ document[r].key = "stripes"
    BY <2>2 DEF Child
  <2>4. r \in DOMAIN document /\ r \in Nat
    BY <1>2, <2>3, NodeFacts
  <2>5. Min(lists) = r
    <3>1. lists = {r}
      BY <2>2, <2>3 DEF AtMostOne
    <3> QED
      BY <2>4, <3>1, MinOfOne
  <2>6. StripesListed(q, r)
    BY <2>3 DEF SegmentComplete
  <2>7. \A n \in 0 .. 2 * count - 1 : \E e \in Children(r) : Index(e) = n
    BY <2>6 DEF StripesListed
  <2>8. Before(Children(r), p) = Children(r) /\ StripesTaken(s.stripes, r, p)
    BY <1>2, <2>3 DEF Before, SegmentTaken
  <2> HIDE DEF count, lists
  <2> QED
    BY <1>4, <1>5, <1>6, <2>4, <2>5, <2>7, <2>8, StripesAreWritten
<1>7. s.stripes = StripesAt(lists, count)
  <2> HIDE DEF count, lists
  <2>1. s.stripes = [k \in 1 .. count |-> s.stripes[k]]
    BY <1>4, <1>5
  <2> QED
    BY <1>6, <2>1 DEF StripesAt
<1> QED
  BY <1>4, <1>7 DEF SegmentAt, Segment

LEMMA LogicalVolumeWalkedPreserves == IInv /\ LogicalVolumeWalked => IInv'
<1> SUFFICES ASSUME IInv, LogicalVolumeWalked
             PROVE  IInv'
  OBVIOUS
<1>1. TextInv' /\ document' = document /\ lvName' = lvName /\ document \in Documents
  BY TextNext DEF IInv, Next
<1>2. /\ stage = "in logical volume" /\ Walked /\ stage' = "collected"
      /\ pv' = pv /\ segments' = segments
  BY DEF LogicalVolumeWalked
<1>3. /\ TypeOK /\ WellFormed /\ root \in Volume /\ Walking(root, position)
      /\ Len(segments) = IntegerAt(Child(root, "segment_count"))
      /\ AllTaken(segments, root, position) /\ PhysicalVolumeAsWritten
  BY <1>2 DEF IInv, TextInv, FoundInv, SegmentsInv
<1>4. /\ segments \in Seq(Segment) /\ root \in DOMAIN document
      /\ Volume = {root} /\ VolumeComplete(root)
  BY <1>1, <1>3, TheVolume, TypeParts
<1>5. \A q \in Nodes(root) : q < position
  BY <1>2, <1>3, AllPassed
<1>6. ASSUME NEW q \in SegmentsOf(root)
      PROVE  segments[document[q].segment] = SegmentAt(q)
  <2>1. /\ q \in Children(root) /\ SegmentComplete(q)
        /\ document[q].segment \in 1 .. Len(segments)
    BY <1>1, <1>3, <1>4, SegmentNumber
  <2>2. segments[document[q].segment] \in Segment
    BY <1>4, <2>1
  <2>3. SegmentTaken(segments[document[q].segment], q, position)
    BY <1>3 DEF AllTaken
  <2> QED
    BY <1>1, <1>4, <1>5, <2>1, <2>2, <2>3, SegmentIsWritten
<1>7. VolumeTaken(pv', Len(document) + 1)
  BY <1>1, <1>2, <1>3, WrittenIsTaken
<1>8. PhysicalVolumeInv' /\ FoundInv' /\ SegmentsInv'
  BY <1>1, <1>2, PartsPrimed
<1>9. PhysicalVolumeAsWritten'
  BY <1>1, <1>7, WrittenPrimed
<1>10. VolumeCollected'
  BY <1>1, <1>2, PropertiesPrimed
<1>11. SegmentsAsWritten'
  <2>1. \A p \in Volume :
          /\ Len(segments') = IntegerAt(Child(p, "segment_count"))
          /\ \A q \in Children(p) :
               document[q].segment > 0 /\ document[q].type = "child" =>
                 segments'[document[q].segment] = SegmentAt(q)
    BY <1>2, <1>3, <1>4, <1>6 DEF SegmentsOf
  <2> QED
    BY <1>1, <2>1, PropertiesPrimed
<1>12. WritesStayInArrays'
  BY <1>2 DEF WritesStayInArrays
<1> QED
  BY <1>1, <1>8, <1>9, <1>10, <1>11, <1>12 DEF IInv

-----------------------------------------------------------------------------
(* The theorems.                                                           *)

LEMMA StepPreserves == IInv /\ [Next]_vars => IInv'
<1> SUFFICES ASSUME IInv, [Next]_vars
             PROVE  IInv'
  OBVIOUS
<1>1. CASE ReadExtentSize
  BY <1>1, ReadExtentSizePreserves
<1>2. CASE FindPhysicalVolumes
  BY <1>2, FindPhysicalVolumesPreserves
<1>3. CASE VisitPhysicalVolumes
  BY <1>3, VisitPhysicalVolumesPreserves
<1>4. CASE PhysicalVolumesWalked
  BY <1>4, PhysicalVolumesWalkedPreserves
<1>5. CASE FindLogicalVolume
  BY <1>5, FindLogicalVolumePreserves
<1>6. CASE CountSegments
  BY <1>6, CountSegmentsPreserves
<1>7. CASE EnterSegment
  BY <1>7, EnterSegmentPreserves
<1>8. CASE VisitAttribute
  BY <1>8, VisitAttributePreserves
<1>9. CASE VisitStripe
  BY <1>9, VisitStripePreserves
<1>10. CASE PassDeeper
  BY <1>10, PassDeeperPreserves
<1>11. CASE LogicalVolumeWalked
  BY <1>11, LogicalVolumeWalkedPreserves
<1>12. CASE OutOfMemory
  BY <1>12, OutOfMemoryPreserves
<1>13. CASE Over \/ UNCHANGED vars
  BY <1>13, StutterPreserves DEF Over
<1> QED
  BY <1>1, <1>2, <1>3, <1>4, <1>5, <1>6, <1>7, <1>8, <1>9, <1>10, <1>11, <1>12, <1>13
     DEF Next

\* At every step of the walks over a well-formed tree, all that stands before
\* the place they have come to is collected, and the static variables belong
\* to the tree that place is in (parseMetadata.c:690-898).
THEOREM Invariant == Spec /\ WellFormed => []IInv
<1>1. Init /\ WellFormed => IInv
  BY InitEstablishes
<1>2. IInv /\ [Next]_vars => IInv'
  BY StepPreserves
<1> QED
  BY <1>1, <1>2, PTL DEF Spec

\* Of every well-formed text, of however many segments and stripes, in
\* whatever order and with whatever else between them, the segments collected
\* are the ones it writes, each in the place of its number
\* (parseMetadata.c:777-847, 877-898).
THEOREM SegmentsCollected == Spec /\ WellFormed => []SegmentsAsWritten
<1>1. IInv => SegmentsAsWritten
  BY DEF IInv
<1> QED
  BY <1>1, Invariant, PTL

\* Of every well-formed text with any number of physical volumes, the one
\* collected has the name of the first and of each number the last value
\* written (parseMetadata.c:696-747).
THEOREM PhysicalVolumeCollected == Spec /\ WellFormed => []PhysicalVolumeAsWritten
<1>1. IInv => PhysicalVolumeAsWritten
  BY DEF IInv
<1> QED
  BY <1>1, Invariant, PTL

\* The callback, which compares neither the segment's number nor a name's
\* place with the arrays, writes outside no array on a well-formed text
\* (parseMetadata.c:789, 799-820, 825-844).
THEOREM NoWriteOutside == Spec /\ WellFormed => []WritesStayInArrays
<1>1. IInv => WritesStayInArrays
  BY DEF IInv
<1> QED
  BY <1>1, Invariant, PTL

\* On a well-formed text NULL is followed only if the volume asked for is not
\* there, or at an empty string (parseMetadata.c:220-223, 377, 717, 724, 830).
THEOREM NullFollowedForCause == Spec /\ WellFormed => []VolumeCollected
<1>1. IInv => VolumeCollected
  BY DEF IInv
<1> QED
  BY <1>1, Invariant, PTL
=============================================================================
