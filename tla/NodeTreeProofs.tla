--------------------------- MODULE NodeTreeProofs ---------------------------
(***************************************************************************)
(* Proofs about the recursion of forEachNode for trees of any size and     *)
(* depth, walked from any node with any callback that looks for a hash;    *)
(* and about the keys and paths of getKeyPath, for names whose hashes      *)
(* differ.                                                                 *)
(***************************************************************************)
EXTENDS NodeTree, FiniteSetTheorems, NaturalsInduction, SequenceTheorems,
        WellFoundedInduction, TLAPS

-----------------------------------------------------------------------------
(* The sequence of nodes.                                                  *)

D(p) == document[p].depth

LEMMA DocumentFacts ==
  ASSUME document \in Documents
  PROVE  /\ DOMAIN document = 1 .. Len(document) /\ Len(document) \in Nat
         /\ \A p \in DOMAIN document : D(p) \in Nat
         /\ \A p \in Nat : p \in DOMAIN document /\ p + 1 \in DOMAIN document =>
              /\ D(p + 1) <= D(p) + 1
              /\ D(p + 1) > D(p) => document[p].type \in {"child", "list"}
<1>1. document \in Seq(Node) /\ Len(document) \in Nat
  BY DocumentsAssumption
<1>2. DOMAIN document = 1 .. Len(document)
  BY <1>1
<1>3. ASSUME NEW p \in DOMAIN document
      PROVE  D(p) \in Nat
  <2>1. document[p] \in Node
    BY <1>1, <1>2, <1>3
  <2> QED
    BY <2>1 DEF D, Node
<1>4. ASSUME NEW p \in Nat, p \in DOMAIN document, p + 1 \in DOMAIN document
      PROVE  /\ D(p + 1) <= D(p) + 1
             /\ D(p + 1) > D(p) => document[p].type \in {"child", "list"}
  <2>1. p + 1 \in 2 .. Len(document) /\ (p + 1) - 1 = p
    BY <1>1, <1>2, <1>4
  <2>2. /\ D(p + 1) \in 1 .. D(p) + 1
        /\ D(p + 1) > D(p) => document[p].type \in {"child", "list"}
    BY <2>1, DocumentsAssumption DEF D
  <2> QED
    BY <1>3, <1>4, <2>2
<1> QED
  BY <1>1, <1>2, <1>3, <1>4

\* q comes after node p and all the nodes below it.
Follows(p, q) ==
  /\ p \in DOMAIN document /\ q \in Nat /\ p < q /\ q - 1 \in DOMAIN document
  /\ \A r \in p + 1 .. q - 1 : D(r) > D(p)
  /\ q \in DOMAIN document => D(q) <= D(p)

LEMMA NodesUpTo ==
  ASSUME document \in Documents, NEW p, NEW q, Follows(p, q)
  PROVE  Nodes(p) = p .. q - 1 /\ Max(Nodes(p)) + 1 = q
<1>1. /\ DOMAIN document = 1 .. Len(document) /\ Len(document) \in Nat
      /\ \A r \in DOMAIN document : D(r) \in Nat
  BY DocumentFacts
<1>2. p \in 1 .. Len(document) /\ q \in Nat /\ p < q /\ q - 1 \in 1 .. Len(document)
  BY <1>1 DEF Follows
<1>3. ASSUME NEW r \in Nodes(p)
      PROVE  r \in p .. q - 1
  <2> SUFFICES ASSUME r >= q
               PROVE  FALSE
    BY <1>1, <1>2, <1>3 DEF Nodes
  <2>1. r \in p .. Len(document) /\ \A s \in p + 1 .. r : D(s) > D(p)
    BY <1>3 DEF Nodes, D
  <2>2. q \in p + 1 .. r /\ q \in DOMAIN document
    BY <1>1, <1>2, <2>1
  <2>3. D(q) > D(p) /\ D(q) <= D(p) /\ D(q) \in Nat /\ D(p) \in Nat
    BY <1>1, <1>2, <2>1, <2>2 DEF Follows
  <2> QED
    BY <2>3
<1>4. ASSUME NEW r \in p .. q - 1
      PROVE  r \in Nodes(p)
  <2>1. r \in p .. Len(document)
    BY <1>1, <1>2, <1>4
  <2>2. \A s \in p + 1 .. r : s \in p + 1 .. q - 1
    BY <1>2, <1>4
  <2>3. \A s \in p + 1 .. r : D(s) > D(p)
    BY <2>2 DEF Follows
  <2> QED
    BY <2>1, <2>3 DEF Nodes, D
<1>5. Nodes(p) = p .. q - 1
  BY <1>3, <1>4
<1>6. Max(p .. q - 1) = q - 1
  <2>1. q - 1 \in p .. q - 1 /\ \A r \in p .. q - 1 : q - 1 >= r
    BY <1>2
  <2>2. \A m \in p .. q - 1 : (\A r \in p .. q - 1 : m >= r) => m = q - 1
    BY <1>2, <2>1
  <2> QED
    BY <2>1, <2>2 DEF Max
<1> QED
  BY <1>2, <1>5, <1>6

\* The nodes Index counts.
Siblings(q) ==
  {r \in 1 .. q - 1 :
     /\ document[r].depth = document[q].depth
     /\ \A s \in r .. q : document[s].depth >= document[q].depth}

LEMMA SiblingsFinite ==
  ASSUME NEW q \in Nat
  PROVE  IsFiniteSet(Siblings(q)) /\ Index(q) \in Nat
<1>1. IsFiniteSet(1 .. q - 1)
  BY FS_Interval
<1>2. IsFiniteSet(Siblings(q))
  BY <1>1, FS_Subset DEF Siblings
<1> QED
  BY <1>2, FS_CardinalityType DEF Index, Siblings

\* A first child has the index 0.
LEMMA IndexOfFirst ==
  ASSUME document \in Documents, NEW p \in Nat, p \in DOMAIN document,
         p + 1 \in DOMAIN document, D(p + 1) > D(p)
  PROVE  Index(p + 1) = 0
<1>1. ASSUME NEW r \in Siblings(p + 1)
      PROVE  FALSE
  <2>1. r \in 1 .. p /\ \A s \in r .. p + 1 : D(s) >= D(p + 1)
    BY <1>1 DEF Siblings, D
  <2>2. p \in r .. p + 1
    BY <2>1
  <2>3. D(p) >= D(p + 1) /\ D(p) \in Nat /\ D(p + 1) \in Nat
    BY <2>1, <2>2, DocumentFacts
  <2> QED
    BY <2>3
<1>2. Siblings(p + 1) = {}
  BY <1>1
<1> QED
  BY <1>2, FS_EmptySet DEF Index, Siblings

\* The index of a node is one more than that of the sibling before it.
LEMMA IndexOfNext ==
  ASSUME document \in Documents, NEW p, NEW q, Follows(p, q),
         q \in DOMAIN document, D(q) = D(p)
  PROVE  Index(q) = Index(p) + 1
<1>1. /\ DOMAIN document = 1 .. Len(document) /\ Len(document) \in Nat
      /\ \A r \in DOMAIN document : D(r) \in Nat
  BY DocumentFacts
<1>2. /\ p \in 1 .. Len(document) /\ q \in 1 .. Len(document) /\ p < q
      /\ \A r \in p + 1 .. q - 1 : D(r) > D(p)
      /\ D(p) \in Nat
  BY <1>1 DEF Follows
<1>3. ASSUME NEW r \in Siblings(q), r # p
      PROVE  r \in Siblings(p)
  <2>1. /\ r \in 1 .. q - 1 /\ D(r) = D(p)
        /\ \A s \in r .. q : D(s) >= D(p)
    BY <1>3 DEF Siblings, D
  <2>2. r \notin p + 1 .. q - 1
    BY <1>2, <2>1
  <2>3. r \in 1 .. p - 1
    BY <1>2, <1>3, <2>1, <2>2
  <2>4. \A s \in r .. p : s \in r .. q
    BY <1>2, <2>3
  <2> QED
    BY <2>1, <2>3, <2>4 DEF Siblings, D
<1>4. ASSUME NEW r \in Siblings(p)
      PROVE  r \in Siblings(q)
  <2>1. /\ r \in 1 .. p - 1 /\ D(r) = D(p)
        /\ \A s \in r .. p : D(s) >= D(p)
    BY DEF Siblings, D
  <2>2. ASSUME NEW s \in r .. q
        PROVE  D(s) >= D(p)
    <3>1. s \in r .. p \/ s \in p + 1 .. q - 1 \/ s = q
      BY <1>2, <2>1, <2>2
    <3>2. CASE s \in p + 1 .. q - 1
      <4>1. s \in DOMAIN document
        BY <1>1, <1>2, <3>2
      <4> QED
        BY <1>1, <1>2, <3>2, <4>1
    <3> QED
      BY <1>2, <2>1, <3>1, <3>2
  <2>3. r \in 1 .. q - 1
    BY <1>2, <2>1
  <2> QED
    BY <2>1, <2>2, <2>3 DEF Siblings, D
<1>5. p \in Siblings(q)
  <2>1. ASSUME NEW s \in p .. q
        PROVE  D(s) >= D(p)
    <3>1. s = p \/ s \in p + 1 .. q - 1 \/ s = q
      BY <1>2, <2>1
    <3>2. CASE s \in p + 1 .. q - 1
      <4>1. s \in DOMAIN document
        BY <1>1, <1>2, <3>2
      <4> QED
        BY <1>1, <1>2, <3>2, <4>1
    <3> QED
      BY <1>2, <3>1, <3>2
  <2>2. p \in 1 .. q - 1
    BY <1>2
  <2> QED
    BY <2>1, <2>2 DEF Siblings, D
<1>6. Siblings(q) = Siblings(p) \cup {p}
  BY <1>3, <1>4, <1>5
<1>7. p \notin Siblings(p)
  BY <1>2 DEF Siblings
<1>8. IsFiniteSet(Siblings(p)) /\ Cardinality(Siblings(p)) \in Nat
  BY <1>2, SiblingsFinite, FS_CardinalityType
<1>9. Cardinality(Siblings(q)) = Cardinality(Siblings(p)) + 1
  BY <1>6, <1>7, <1>8, FS_AddElement
<1> QED
  BY <1>9 DEF Index, Siblings

\* The node an activation's loop goes on to.
LEMMA NextOfFacts ==
  ASSUME document \in Documents, NEW p, NEW q, Follows(p, q)
  PROVE  /\ NextOf(p) = IF q \in DOMAIN document /\ D(q) = D(p) THEN q ELSE NULL
         /\ NextOf(p) # NULL => Index(q) = Index(p) + 1
<1>1. Max(Nodes(p)) + 1 = q
  BY NodesUpTo
<1>2. NextOf(p) = IF q \in DOMAIN document /\ D(q) = D(p) THEN q ELSE NULL
  BY <1>1 DEF NextOf, D
<1> QED
  BY <1>2, IndexOfNext

-----------------------------------------------------------------------------
(* Sequences.                                                              *)

LEMMA FrontFacts ==
  ASSUME NEW S, NEW s \in Seq(S), s # <<>>
  PROVE  /\ Front(s) \in Seq(S) /\ Len(Front(s)) = Len(s) - 1
         /\ \A i \in 1 .. Len(s) - 1 : Front(s)[i] = s[i]
         /\ Last(s) = s[Len(s)] /\ Last(s) \in S
         /\ Len(s) \in Nat \ {0}
<1>1. Len(s) \in Nat \ {0}
  BY EmptySeq
<1>2. \A i \in 1 .. Len(s) - 1 : s[i] \in S
  BY <1>1
<1>3. /\ SubSeq(s, 1, Len(s) - 1) \in Seq(S)
      /\ Len(SubSeq(s, 1, Len(s) - 1)) =
           IF 1 <= Len(s) - 1 THEN Len(s) - 1 - 1 + 1 ELSE 0
      /\ \A i \in 1 .. Len(s) - 1 - 1 + 1 :
           SubSeq(s, 1, Len(s) - 1)[i] = s[1 + i - 1]
  BY <1>1, <1>2, SubSeqProperties
<1>4. \A i \in 1 .. Len(s) - 1 : i \in 1 .. Len(s) - 1 - 1 + 1 /\ 1 + i - 1 = i
  BY <1>1
<1>5. \A i \in 1 .. Len(s) - 1 : Front(s)[i] = s[i]
  BY <1>3, <1>4 DEF Front
<1>6. Len(Front(s)) = Len(s) - 1 /\ Front(s) \in Seq(S)
  <2>1. (IF 1 <= Len(s) - 1 THEN Len(s) - 1 - 1 + 1 ELSE 0) = Len(s) - 1
    <3>1. CASE Len(s) = 1
      BY <3>1
    <3>2. CASE Len(s) > 1
      <4>1. 1 <= Len(s) - 1 /\ Len(s) - 1 - 1 + 1 = Len(s) - 1
        BY <1>1, <3>2
      <4> QED
        BY <4>1, Zenon
    <3> QED
      BY <1>1, <3>1, <3>2
  <2>2. Front(s) = SubSeq(s, 1, Len(s) - 1)
    BY DEF Front
  <2> HIDE DEF Front
  <2> QED
    BY <1>3, <2>1, <2>2, Zenon
<1>7. Last(s) = s[Len(s)] /\ Last(s) \in S
  BY <1>1 DEF Last
<1> QED
  BY <1>1, <1>5, <1>6, <1>7

-----------------------------------------------------------------------------
(* The inductive invariant.                                                *)

Activation == [node : Nat, index : Nat]

Call3 == Nat \X Nat \X Nat

ShapeInv ==
  /\ stage \in {"path", "hash", "root", "below", "returned"}
  /\ document \in Documents
  /\ root \in DOMAIN document
  /\ result \in DOMAIN document \cup {NULL}
  /\ frames \in Seq(Activation)
  /\ calls \in Seq(Call3)

\* The node behind those that were called back for, if there is one.
Ahead == root + Len(calls)

\* The activation at node p waits for the nodes below it.
Waits(p, q) ==
  /\ p # NULL /\ p < q
  /\ \A r \in p + 1 .. q - 1 : D(r) > D(p)

\* Each activation that is at a node is at one of its level, with the index of
\* that node.
AtNodes(fs) ==
  \A f \in DOMAIN fs :
    fs[f].node # NULL => /\ fs[f].node \in DOMAIN document
                         /\ D(fs[f].node) = D(root) + f
                         /\ fs[f].index = Index(fs[f].node)

AllWait(fs, q) == \A f \in 1 .. Len(fs) - 1 : Waits(fs[f].node, q)

\* The innermost activation is at q, or at the end of its list.
Innermost(fs, q) ==
  IF fs[Len(fs)].node = NULL
  THEN q \in DOMAIN document => D(q) < D(root) + Len(fs)
  ELSE fs[Len(fs)].node = q

FramesInv ==
  stage = "below" =>
    /\ frames # <<>> /\ calls # <<>>
    /\ AtNodes(frames) /\ AllWait(frames, Ahead) /\ Innermost(frames, Ahead)

\* The nodes called back for so far do not have the hash.
SearchInv ==
  stage = "below" => \A n \in DOMAIN calls : hashes[calls[n][1]] # hash

IInv ==
  /\ ShapeInv
  /\ FramesInv
  /\ SearchInv
  /\ CallsInOrder
  /\ WalkComplete

LEMMA FramesPrimed ==
  ASSUME UNCHANGED <<document, root>>, frames' # <<>>, calls' # <<>>,
         AtNodes(frames'), AllWait(frames', Ahead'), Innermost(frames', Ahead')
  PROVE  FramesInv'
<1>1. AtNodes(frames)'
  BY DEF AtNodes, D, Index
<1>2. AllWait(frames, Ahead)'
  BY DEF AllWait, Waits, D
<1>3. Innermost(frames, Ahead)'
  BY DEF Innermost, D
<1> QED
  BY <1>1, <1>2, <1>3 DEF FramesInv

LEMMA InitEstablishes == Init => IInv
<1> SUFFICES ASSUME Init
             PROVE  IInv
  OBVIOUS
<1>1. document \in Documents /\ DOMAIN document = 1 .. Len(document)
      /\ Len(document) \in Nat
  BY DocumentFacts DEF Init
<1>2. 1 \in DOMAIN document
  BY <1>1, DocumentsAssumption, EmptySeq
<1>3. /\ frames = <<>> /\ calls = <<>> /\ stage \in {"path", "root"}
      /\ root \in DOMAIN document /\ result = root
  BY <1>2 DEF Init
<1>4. ShapeInv
  BY <1>1, <1>3 DEF ShapeInv
<1>5. DOMAIN calls = {}
  BY <1>3
<1> QED
  BY <1>3, <1>4, <1>5 DEF IInv, FramesInv, SearchInv, CallsInOrder, WalkComplete

\* What is in front of the node ahead are the root and nodes below it.
LEMMA CalledFacts ==
  ASSUME IInv, stage = "below"
  PROVE  /\ Len(calls) \in Nat \ {0} /\ DOMAIN calls = 1 .. Len(calls)
         /\ Ahead \in Nat /\ root < Ahead /\ Ahead - 1 \in DOMAIN document
         /\ \A q \in root + 1 .. Ahead - 1 : D(q) > D(root)
<1>1. /\ calls \in Seq(Call3) /\ calls # <<>> /\ root \in DOMAIN document
      /\ document \in Documents
  BY DEF IInv, ShapeInv, FramesInv
<1>2. /\ Len(calls) \in Nat \ {0} /\ DOMAIN calls = 1 .. Len(calls)
  BY <1>1, EmptySeq
<1>3. root \in 1 .. Len(document) /\ Len(document) \in Nat
      /\ DOMAIN document = 1 .. Len(document)
  BY <1>1, DocumentFacts
<1>4. Ahead \in Nat /\ root < Ahead /\ Ahead - 1 = root + Len(calls) - 1
  BY <1>2, <1>3 DEF Ahead
<1>5. Ahead - 1 \in Nodes(root)
  <2>1. Len(calls) \in DOMAIN calls
    BY <1>2
  <2>2. root + Len(calls) - 1 \in Nodes(root)
    BY <2>1 DEF IInv, CallsInOrder
  <2> QED
    BY <1>4, <2>2
<1> QED
  BY <1>2, <1>3, <1>4, <1>5 DEF Nodes, D

-----------------------------------------------------------------------------
(* The steps of getKeyPath.                                                *)

LEMMA TakeKeyPreserves == IInv /\ TakeKey => IInv'
<1> SUFFICES ASSUME IInv, TakeKey
             PROVE  IInv'
  OBVIOUS
<1>1. /\ stage' = "hash" /\ calls' = <<>> /\ root' = result /\ result # NULL
      /\ UNCHANGED <<document, result, frames>>
  BY DEF TakeKey, tree
<1>2. ShapeInv'
  BY <1>1 DEF IInv, ShapeInv
<1>3. DOMAIN calls' = {}
  BY <1>1
<1> QED
  BY <1>1, <1>2, <1>3 DEF IInv, FramesInv, SearchInv, CallsInOrder, WalkComplete

\* What is not called back for stays in order.
LEMMA OrderKept ==
  ASSUME CallsInOrder, UNCHANGED <<document, root, calls>>
  PROVE  CallsInOrder'
BY DEF CallsInOrder, Nodes, Index

LEMMA OtherStepsPreserve ==
  IInv /\ (HashByte \/ Search \/ PathReturns) => IInv'
<1> SUFFICES ASSUME IInv, HashByte \/ Search \/ PathReturns
             PROVE  IInv'
  OBVIOUS
<1>1. /\ stage' \in {"hash", "root", "returned"}
      /\ UNCHANGED <<document, root, result, frames, calls>>
  BY DEF HashByte, Search, PathReturns, tree, search
<1>2. ShapeInv'
  BY <1>1 DEF IInv, ShapeInv
<1>3. CallsInOrder'
  BY <1>1, OrderKept DEF IInv
<1> QED
  BY <1>1, <1>2, <1>3 DEF IInv, FramesInv, SearchInv, WalkComplete

-----------------------------------------------------------------------------
(* The steps of forEachNode.                                               *)

\* What has been called back for is in Nat; the tree stays as it is.
LEMMA TreeKept ==
  ASSUME UNCHANGED <<document, hashes>>
  PROVE  /\ \A p : D(p)' = D(p)
         /\ \A p : Index(p)' = Index(p)
         /\ \A p : Nodes(p)' = Nodes(p)
         /\ \A p, q : Follows(p, q)' = Follows(p, q)
BY DEF D, Index, Nodes, Follows

LEMMA WaitsBelow ==
  ASSUME NEW p \in Nat, p # NULL
  PROVE  Waits(p, p + 1)
<1>1. p < p + 1 /\ \A r \in p + 1 .. p + 1 - 1 : FALSE
  OBVIOUS
<1> QED
  BY <1>1 DEF Waits

LEMMA WaitsOn ==
  ASSUME NEW p \in Nat, NEW q \in Nat, Waits(p, q), D(q) > D(p)
  PROVE  Waits(p, q + 1)
<1>1. p < q + 1
  BY DEF Waits
<1>2. \A r \in p + 1 .. q + 1 - 1 : r \in p + 1 .. q - 1 \/ r = q
  OBVIOUS
<1> QED
  BY <1>1, <1>2 DEF Waits

LEMMA FollowsNext ==
  ASSUME NEW p \in Nat, p \in DOMAIN document,
         p + 1 \in DOMAIN document => D(p + 1) <= D(p)
  PROVE  Follows(p, p + 1)
<1>1. /\ p + 1 \in Nat /\ p < p + 1 /\ p + 1 - 1 = p
      /\ \A r \in p + 1 .. p + 1 - 1 : FALSE
  OBVIOUS
<1> QED
  BY <1>1 DEF Follows

LEMMA RootFacts ==
  ASSUME document \in Documents, root \in DOMAIN document
  PROVE  /\ root \in 1 .. Len(document) /\ Len(document) \in Nat
         /\ root \in Nodes(root)
         /\ D(root) \in Nat
<1>1. root \in 1 .. Len(document) /\ Len(document) \in Nat /\ D(root) \in Nat
  BY DocumentFacts
<1>2. \A s \in root + 1 .. root : FALSE
  BY <1>1
<1> QED
  BY <1>1, <1>2 DEF Nodes

\* A walk that ends with the first call has seen the only node there is, or
\* has found the root.
LEMMA CallRootPreserves == IInv /\ CallRoot => IInv'
<1> SUFFICES ASSUME IInv, CallRoot
             PROVE  IInv'
  OBVIOUS
<1>1. /\ stage = "root" /\ calls' = <<<<root, 0, 0>>>>
      /\ UNCHANGED <<document, hashes, path, end, key, hash, hashed, root>>
  BY DEF CallRoot, tree, search
<1>2. /\ document \in Documents /\ root \in DOMAIN document
      /\ result \in DOMAIN document \cup {NULL}
      /\ frames \in Seq(Activation)
  BY DEF IInv, ShapeInv
<1>3. /\ root \in 1 .. Len(document) /\ Len(document) \in Nat
      /\ root \in Nodes(root) /\ D(root) \in Nat
      /\ DOMAIN document = 1 .. Len(document)
  BY <1>2, RootFacts, DocumentFacts
<1>4. /\ calls' \in Seq(Call3) /\ Len(calls') = 1 /\ DOMAIN calls' = {1}
      /\ calls'[1] = <<root, 0, 0>> /\ calls' # <<>> /\ calls'[1][1] = root
  BY <1>1, <1>3 DEF Call3
<1>5. CallsInOrder'
  <2>1. root + 1 - 1 = root /\ D(root) - D(root) = 0
    BY <1>3
  <2>2. \A n \in DOMAIN calls' : n = 1
    BY <1>4
  <2> QED
    BY <1>1, <1>3, <1>4, <2>1, <2>2, TreeKept DEF CallsInOrder, D
<1>6. CASE Matches(root)
  <2>1. result' = root /\ frames' = <<>> /\ stage' = "path"
    BY <1>6 DEF CallRoot, Returns
  <2>2. ShapeInv'
    BY <1>1, <1>2, <1>4, <2>1 DEF ShapeInv
  <2>3. WalkComplete'
    <3>1. result' # NULL
      BY <1>3, <2>1 DEF NULL
    <3>2. \A n \in DOMAIN calls' : n = 1 /\ n = Len(calls') /\ hashes'[calls'[n][1]] = hash'
      BY <1>1, <1>4, <1>6 DEF Matches
    <3> QED
      BY <1>4, <2>1, <3>1, <3>2 DEF WalkComplete
  <2> QED
    BY <1>5, <2>1, <2>2, <2>3 DEF IInv, FramesInv, SearchInv
<1>7. CASE ~ Matches(root) /\ document[root].type \in {"child", "list"}
  <2>1. /\ frames' = <<[node |-> Below(root), index |-> 0]>>
        /\ stage' = "below" /\ result' = result
    BY <1>7 DEF CallRoot
  <2>2. Below(root) = IF root + 1 \in DOMAIN document /\ D(root + 1) > D(root)
                      THEN root + 1 ELSE NULL
    BY DEF Below, D
  <2>3. [node |-> Below(root), index |-> 0] \in Activation
    BY <1>3, <2>2 DEF Activation, NULL
  <2>4. /\ frames' \in Seq(Activation) /\ Len(frames') = 1 /\ DOMAIN frames' = {1}
        /\ frames'[1] = [node |-> Below(root), index |-> 0] /\ frames' # <<>>
        /\ frames'[1].node = Below(root) /\ frames'[1].index = 0
    BY <2>1, <2>3
  <2>5. ShapeInv'
    BY <1>1, <1>2, <1>4, <2>1, <2>4 DEF ShapeInv
  <2>6. Ahead' = root + 1 /\ D(root)' = D(root) /\ D(root + 1)' = D(root + 1)
        /\ Index(root + 1)' = Index(root + 1)
    BY <1>1, <1>4, TreeKept DEF Ahead, D, Index
  <2>7. Below(root) # NULL => /\ Below(root) = root + 1
                              /\ root + 1 \in DOMAIN document
                              /\ D(root + 1) = D(root) + 1
                              /\ Index(root + 1) = 0
    <3>1. ASSUME Below(root) # NULL
          PROVE  /\ Below(root) = root + 1
                 /\ root + 1 \in DOMAIN document
                 /\ D(root + 1) > D(root)
      BY <2>2, <3>1
    <3>2. ASSUME Below(root) # NULL
          PROVE  D(root + 1) = D(root) + 1 /\ Index(root + 1) = 0
      <4>1. D(root + 1) \in Nat /\ D(root + 1) <= D(root) + 1
        BY <1>2, <1>3, <3>1, <3>2, DocumentFacts
      <4> QED
        BY <1>2, <1>3, <3>1, <3>2, <4>1, IndexOfFirst
    <3> QED
      BY <3>1, <3>2
  <2>8. Below(root) = NULL => (root + 1 \in DOMAIN document => D(root + 1) < D(root) + 1)
    <3>1. ASSUME Below(root) = NULL, root + 1 \in DOMAIN document
          PROVE  D(root + 1) < D(root) + 1
      <4>1. ~ (D(root + 1) > D(root))
        BY <1>3, <2>2, <3>1 DEF NULL
      <4>2. D(root + 1) \in Nat
        BY <1>2, <3>1, DocumentFacts
      <4> QED
        BY <1>3, <4>1, <4>2
    <3> QED
      BY <3>1
  <2>9. FramesInv'
    <3>1. AtNodes(frames')
      BY <2>4, <2>7 DEF AtNodes
    <3>2. AllWait(frames', Ahead')
      BY <2>4 DEF AllWait
    <3>3. Innermost(frames', Ahead')
      BY <2>4, <2>6, <2>7, <2>8 DEF Innermost
    <3> QED
      BY <1>1, <1>4, <2>4, <3>1, <3>2, <3>3, FramesPrimed
  <2>10. SearchInv'
    BY <1>1, <1>4, <1>7 DEF SearchInv, Matches
  <2>11. WalkComplete'
    BY <2>1 DEF WalkComplete
  <2> QED
    BY <1>5, <2>5, <2>9, <2>10, <2>11 DEF IInv
<1>8. CASE ~ Matches(root) /\ document[root].type \notin {"child", "list"}
  <2>1. result' = NULL /\ frames' = <<>> /\ stage' = "path"
    BY <1>8 DEF CallRoot, Returns
  <2>2. ShapeInv'
    BY <1>1, <1>2, <1>4, <2>1 DEF ShapeInv
  <2>3. Follows(root, root + 1)
    <3>1. root + 1 \in DOMAIN document => D(root + 1) <= D(root)
      <4> SUFFICES ASSUME root + 1 \in DOMAIN document
                   PROVE  D(root + 1) <= D(root)
        OBVIOUS
      <4>1. D(root + 1) \in Nat /\ ~ (D(root + 1) > D(root))
        BY <1>2, <1>3, <1>8, DocumentFacts
      <4> QED
        BY <1>3, <4>1
    <3> QED
      BY <1>2, <1>3, <3>1, FollowsNext
  <2>4. Nodes(root) = {root}
    <3>1. Nodes(root) = root .. root + 1 - 1
      BY <1>2, <2>3, NodesUpTo
    <3> QED
      BY <1>3, <3>1
  <2>5. Cardinality(Nodes(root)') = 1
    BY <1>1, <2>4, TreeKept, FS_Singleton
  <2>6. WalkComplete'
    <3>1. \A n \in DOMAIN calls' : hashes'[calls'[n][1]] # hash'
      BY <1>1, <1>4, <1>8 DEF Matches
    <3>2. (Nodes(root))' = Nodes(root)'
      BY <1>1
    <3> QED
      BY <1>1, <1>4, <2>1, <2>5, <3>1 DEF WalkComplete, Nodes
  <2> QED
    BY <1>5, <2>1, <2>2, <2>6 DEF IInv, FramesInv, SearchInv
<1> QED
  BY <1>6, <1>7, <1>8

\* An activation goes on behind the node it was at, whatever was below that.
LEMMA GoOnStacked ==
  ASSUME document \in Documents, root \in DOMAIN document,
         NEW fs \in Seq(Activation), fs # <<>>, NEW q,
         AtNodes(fs), \A f \in 1 .. Len(fs) - 1 : Waits(fs[f].node, q),
         Last(fs).node # NULL, Follows(Last(fs).node, q)
  PROVE  /\ GoOn(fs) \in Seq(Activation) /\ GoOn(fs) # <<>>
         /\ AtNodes(GoOn(fs)) /\ AllWait(GoOn(fs), q) /\ Innermost(GoOn(fs), q)
<1> DEFINE L == Len(fs)
           p == Last(fs).node
           next == Turned(Last(fs))
<1>1. /\ Front(fs) \in Seq(Activation) /\ Len(Front(fs)) = L - 1
      /\ \A i \in 1 .. L - 1 : Front(fs)[i] = fs[i]
      /\ Last(fs) = fs[L] /\ Last(fs) \in Activation /\ L \in Nat \ {0}
  BY FrontFacts
<1>2. /\ q \in Nat
      /\ NextOf(p) = IF q \in DOMAIN document /\ D(q) = D(p) THEN q ELSE NULL
      /\ NextOf(p) # NULL => Index(q) = Index(p) + 1
  BY NextOfFacts DEF Follows
<1>3. /\ next.node = NextOf(p) /\ next.index = Last(fs).index + 1
      /\ next \in Activation
  BY <1>1, <1>2 DEF Turned, Activation, NULL
<1>4. /\ GoOn(fs) = Append(Front(fs), next)
      /\ GoOn(fs) \in Seq(Activation) /\ Len(GoOn(fs)) = L /\ GoOn(fs) # <<>>
      /\ DOMAIN GoOn(fs) = 1 .. L
      /\ GoOn(fs)[L] = next /\ \A i \in 1 .. L - 1 : GoOn(fs)[i] = fs[i]
  <2> HIDE DEF next
  <2>1. GoOn(fs) = Append(Front(fs), next)
    BY DEF GoOn, next
  <2> QED
    BY <1>1, <1>3, <2>1
<1> HIDE DEF next
<1>5. /\ p \in DOMAIN document /\ D(p) = D(root) + L /\ Last(fs).index = Index(p)
      /\ D(p) \in Nat /\ D(root) \in Nat
      /\ q \in DOMAIN document => D(q) <= D(p) /\ D(q) \in Nat
  BY <1>1, DocumentFacts, SMTT(40) DEF AtNodes, Follows
<1>6. NextOf(p) # NULL => /\ NextOf(p) = q /\ q \in DOMAIN document
                          /\ D(q) = D(root) + L /\ next.index = Index(q)
  BY <1>2, <1>3, <1>5
<1>7. AtNodes(GoOn(fs))
  <2> SUFFICES ASSUME NEW f \in 1 .. L, GoOn(fs)[f].node # NULL
               PROVE  /\ GoOn(fs)[f].node \in DOMAIN document
                      /\ D(GoOn(fs)[f].node) = D(root) + f
                      /\ GoOn(fs)[f].index = Index(GoOn(fs)[f].node)
    BY <1>4 DEF AtNodes
  <2>1. CASE f = L
    BY <1>3, <1>4, <1>6, <2>1
  <2>2. CASE f \in 1 .. L - 1
    <3>1. GoOn(fs)[f] = fs[f] /\ f \in DOMAIN fs
      BY <1>1, <1>4, <2>2
    <3> QED
      BY <3>1 DEF AtNodes
  <2> QED
    BY <1>1, <2>1, <2>2
<1>8. AllWait(GoOn(fs), q)
  BY <1>4 DEF AllWait
<1>9. Innermost(GoOn(fs), q)
  <2>1. GoOn(fs)[Len(GoOn(fs))].node = NextOf(p)
    BY <1>3, <1>4
  <2>2. CASE NextOf(p) = NULL
    <3>1. q \in DOMAIN document => q \in Nat \ {NULL}
      BY DocumentFacts DEF NULL
    <3>2. q \in DOMAIN document => D(q) < D(root) + L
      BY <1>2, <1>5, <2>2, <3>1
    <3> QED
      BY <1>4, <2>1, <2>2, <3>2 DEF Innermost
  <2> QED
    BY <1>6, <2>1, <2>2 DEF Innermost
<1> QED
  BY <1>4, <1>7, <1>8, <1>9

\* What the innermost activation is at is the node ahead.
LEMMA TopFacts ==
  ASSUME IInv, stage = "below", Top.node # NULL
  PROVE  /\ Top.node = Ahead /\ Ahead \in DOMAIN document
         /\ D(Ahead) = D(root) + Len(frames) /\ Top.index = Index(Ahead)
         /\ Index(Ahead) \in Nat /\ Top = frames[Len(frames)]
         /\ Len(frames) \in Nat \ {0}
<1>1. frames \in Seq(Activation) /\ frames # <<>>
  BY DEF IInv, ShapeInv, FramesInv
<1>2. Top = frames[Len(frames)] /\ Len(frames) \in Nat \ {0}
  BY <1>1, FrontFacts DEF Top
<1>3. Len(frames) \in DOMAIN frames
  BY <1>1, <1>2
<1>4. AtNodes(frames) /\ Innermost(frames, Ahead)
  BY DEF IInv, FramesInv
<1>5. Top.node = Ahead
  BY <1>2, <1>4 DEF Innermost
<1>6. Ahead \in Nat
  BY CalledFacts
<1> QED
  BY <1>2, <1>3, <1>4, <1>5, <1>6, SiblingsFinite DEF AtNodes

\* CallsInOrder of any calls.
InOrder(cs) ==
  \A n \in DOMAIN cs :
    /\ root + n - 1 \in Nodes(root)
    /\ cs[n] = <<root + n - 1, D(root + n - 1) - D(root),
                 IF n = 1 THEN 0 ELSE Index(root + n - 1)>>

LEMMA OrderPrimed ==
  ASSUME UNCHANGED <<document, root>>, InOrder(calls')
  PROVE  CallsInOrder'
<1>1. document' = document /\ root' = root
  OBVIOUS
<1>2. Nodes(root)' = Nodes(root)
  BY <1>1 DEF Nodes
<1>3. \A p : Index(p)' = Index(p)
  BY <1>1 DEF Index
<1> QED
  BY <1>1, <1>2, <1>3 DEF InOrder, CallsInOrder, D

LEMMA CallKeepsOrder ==
  ASSUME IInv, Call
  PROVE  /\ calls' = Append(calls, <<Ahead, Len(frames), Index(Ahead)>>)
         /\ calls' \in Seq(Call3) /\ calls' # <<>>
         /\ Len(calls') = Len(calls) + 1 /\ DOMAIN calls' = 1 .. Len(calls) + 1
         /\ calls'[Len(calls) + 1] = <<Ahead, Len(frames), Index(Ahead)>>
         /\ \A n \in 1 .. Len(calls) : calls'[n] = calls[n]
         /\ Ahead' = Ahead + 1
         /\ CallsInOrder'
<1>1. /\ stage = "below" /\ Top.node # NULL
      /\ UNCHANGED <<document, hashes, path, end, key, hash, hashed, root>>
      /\ calls' = Append(calls, <<Top.node, Len(frames), Top.index>>)
  BY DEF Call, tree, search
<1>2. /\ Top.node = Ahead /\ Ahead \in DOMAIN document
      /\ D(Ahead) = D(root) + Len(frames) /\ Top.index = Index(Ahead)
      /\ Index(Ahead) \in Nat /\ Len(frames) \in Nat \ {0}
  BY <1>1, TopFacts
<1>3. /\ Len(calls) \in Nat \ {0} /\ DOMAIN calls = 1 .. Len(calls)
      /\ Ahead \in Nat /\ root < Ahead
      /\ \A q \in root + 1 .. Ahead - 1 : D(q) > D(root)
  BY <1>1, CalledFacts
<1>4. /\ calls \in Seq(Call3) /\ document \in Documents /\ root \in DOMAIN document
  BY DEF IInv, ShapeInv
<1>5. <<Ahead, Len(frames), Index(Ahead)>> \in Call3
  BY <1>2, <1>3 DEF Call3
<1>6. calls' = Append(calls, <<Ahead, Len(frames), Index(Ahead)>>)
  BY <1>1, <1>2
<1>7. /\ calls' \in Seq(Call3) /\ calls' # <<>>
      /\ Len(calls') = Len(calls) + 1 /\ DOMAIN calls' = 1 .. Len(calls) + 1
      /\ calls'[Len(calls) + 1] = <<Ahead, Len(frames), Index(Ahead)>>
      /\ \A n \in 1 .. Len(calls) : calls'[n] = calls[n]
  BY <1>3, <1>4, <1>5, <1>6
<1>8. root \in 1 .. Len(document) /\ Len(document) \in Nat /\ D(root) \in Nat
  BY <1>4, RootFacts
<1>9. Ahead' = Ahead + 1
  BY <1>1, <1>3, <1>7, <1>8 DEF Ahead
<1>10. Ahead \in Nodes(root)
  <2>1. \A q \in root + 1 .. Ahead : D(q) > D(root)
    BY <1>2, <1>3, <1>8
  <2>2. Ahead \in root .. Len(document)
    BY <1>2, <1>3, <1>4, <1>8, DocumentFacts
  <2> QED
    BY <2>1, <2>2 DEF Nodes, D
<1>11. CallsInOrder'
  <2> SUFFICES ASSUME NEW n \in 1 .. Len(calls) + 1
               PROVE  /\ root + n - 1 \in Nodes(root)
                      /\ calls'[n] = <<root + n - 1, D(root + n - 1) - D(root),
                                       IF n = 1 THEN 0 ELSE Index(root + n - 1)>>
    BY <1>1, <1>7, OrderPrimed DEF InOrder
  <2>1. CASE n \in 1 .. Len(calls)
    BY <1>3, <1>7, <2>1 DEF IInv, CallsInOrder, D
  <2>2. CASE n = Len(calls) + 1
    <3>1. root + n - 1 = Ahead /\ n # 1
      BY <1>3, <1>8, <2>2 DEF Ahead
    <3>2. D(Ahead) - D(root) = Len(frames)
      BY <1>2, <1>8
    <3> QED
      BY <1>7, <1>10, <2>2, <3>1, <3>2
  <2> QED
    BY <1>3, <2>1, <2>2
<1> QED
  BY <1>6, <1>7, <1>9, <1>11

LEMMA CallPreserves == IInv /\ Call => IInv'
<1> SUFFICES ASSUME IInv, Call
             PROVE  IInv'
  OBVIOUS
<1> DEFINE L == Len(frames)
<1>1. /\ stage = "below" /\ Top.node # NULL
      /\ UNCHANGED <<document, hashes, path, end, key, hash, hashed, root>>
  BY DEF Call, tree, search
<1>2. /\ document \in Documents /\ root \in DOMAIN document
      /\ result \in DOMAIN document \cup {NULL}
      /\ frames \in Seq(Activation) /\ frames # <<>>
      /\ AtNodes(frames) /\ AllWait(frames, Ahead)
  BY <1>1 DEF IInv, ShapeInv, FramesInv
<1>3. /\ Top.node = Ahead /\ Ahead \in DOMAIN document
      /\ D(Ahead) = D(root) + L /\ Top = frames[L]
      /\ L \in Nat \ {0}
  BY <1>1, TopFacts
<1>4. /\ Len(calls) \in Nat \ {0} /\ DOMAIN calls = 1 .. Len(calls)
      /\ Ahead \in Nat
  BY <1>1, CalledFacts
<1>5. /\ calls' \in Seq(Call3) /\ calls' # <<>>
      /\ Len(calls') = Len(calls) + 1 /\ DOMAIN calls' = 1 .. Len(calls) + 1
      /\ calls'[Len(calls) + 1][1] = Ahead
      /\ \A n \in 1 .. Len(calls) : calls'[n] = calls[n]
      /\ Ahead' = Ahead + 1
      /\ CallsInOrder'
  BY CallKeepsOrder
<1>6. \A n \in 1 .. Len(calls) : hashes[calls[n][1]] # hash
  BY <1>1, <1>4 DEF IInv, SearchInv
<1>7. D(root) \in Nat /\ D(Ahead) \in Nat
  BY <1>2, <1>3, DocumentFacts
<1>8. CASE Matches(Ahead)
  <2>1. result' = Ahead /\ frames' = <<>> /\ stage' = "path"
    BY <1>3, <1>8 DEF Call, Returns
  <2>2. ShapeInv'
    BY <1>1, <1>2, <1>3, <1>5, <2>1 DEF ShapeInv
  <2>3. WalkComplete'
    <3>1. result' # NULL
      <4>1. Ahead \in 1 .. Len(document)
        BY <1>2, <1>3, DocumentFacts
      <4> QED
        BY <2>1, <4>1 DEF NULL
    <3>2. \A n \in DOMAIN calls' :
            hashes'[calls'[n][1]] = hash' <=> n = Len(calls')
      <4> SUFFICES ASSUME NEW n \in 1 .. Len(calls) + 1
                   PROVE  hashes[calls'[n][1]] = hash <=> n = Len(calls) + 1
        BY <1>1, <1>5
      <4>1. CASE n = Len(calls) + 1
        BY <1>5, <1>8, <4>1 DEF Matches
      <4>2. CASE n \in 1 .. Len(calls) /\ n # Len(calls) + 1
        BY <1>5, <1>6, <4>2
      <4> QED
        BY <1>4, <4>1, <4>2
    <3>3. result' = calls'[Len(calls')][1]
      BY <1>5, <2>1
    <3> QED
      BY <3>1, <3>2, <3>3 DEF WalkComplete
  <2> QED
    BY <1>5, <2>1, <2>2, <2>3 DEF IInv, FramesInv, SearchInv
<1>9. CASE ~ Matches(Ahead)
  <2>1. /\ stage' = "below" /\ result' = result
        /\ frames' = IF Below(Ahead) # NULL
                     THEN Append(frames, [node |-> Below(Ahead), index |-> 0])
                     ELSE GoOn(frames)
    BY <1>1, <1>3, <1>9 DEF Call, InTop, GoOn, Top
  <2>2. SearchInv'
    <3> SUFFICES ASSUME NEW n \in 1 .. Len(calls) + 1
                 PROVE  hashes[calls'[n][1]] # hash
      BY <1>1, <1>5 DEF SearchInv
    <3>1. CASE n = Len(calls) + 1
      BY <1>5, <1>9, <3>1 DEF Matches
    <3>2. CASE n \in 1 .. Len(calls)
      BY <1>5, <1>6, <3>2
    <3> QED
      BY <1>4, <3>1, <3>2
  <2>3. Below(Ahead) = IF Ahead + 1 \in DOMAIN document /\ D(Ahead + 1) > D(Ahead)
                       THEN Ahead + 1 ELSE NULL
    BY DEF Below, D
  <2>4. \A f \in 1 .. L - 1 : Waits(frames[f].node, Ahead + 1)
    <3> SUFFICES ASSUME NEW f \in 1 .. L - 1
                 PROVE  Waits(frames[f].node, Ahead + 1)
      OBVIOUS
    <3> DEFINE p == frames[f].node
    <3>1. Waits(p, Ahead)
      BY <1>2 DEF AllWait
    <3>2. f \in DOMAIN frames /\ f < L
      BY <1>2, <1>3
    <3>3. p \in DOMAIN document /\ D(p) = D(root) + f
      BY <1>2, <3>1, <3>2 DEF AtNodes, Waits
    <3>4. p \in Nat
      BY <1>2, <3>3, DocumentFacts
    <3>5. D(Ahead) > D(p)
      BY <1>3, <1>7, <3>2, <3>3
    <3> QED
      BY <1>4, <3>1, <3>4, <3>5, WaitsOn
  <2>5. /\ frames' \in Seq(Activation) /\ frames' # <<>>
        /\ AtNodes(frames') /\ AllWait(frames', Ahead + 1)
        /\ Innermost(frames', Ahead + 1)
    <3>1. CASE Below(Ahead) # NULL
      <4> DEFINE below == [node |-> Ahead + 1, index |-> 0]
      <4>1. /\ Below(Ahead) = Ahead + 1 /\ Ahead + 1 \in DOMAIN document
            /\ D(Ahead + 1) > D(Ahead)
        BY <2>3, <3>1
      <4>2. D(Ahead + 1) = D(root) + (L + 1) /\ Index(Ahead + 1) = 0
        <5>1. D(Ahead + 1) \in Nat /\ D(Ahead + 1) <= D(Ahead) + 1
          BY <1>2, <1>3, <1>4, <4>1, DocumentFacts
        <5>2. D(Ahead + 1) = D(root) + (L + 1)
          BY <1>3, <1>7, <4>1, <5>1
        <5> QED
          BY <1>2, <1>3, <1>4, <4>1, <5>2, IndexOfFirst
      <4>3. /\ below \in Activation /\ below.node = Ahead + 1 /\ below.index = 0
            /\ frames' = Append(frames, below)
        BY <1>4, <2>1, <4>1, <3>1 DEF Activation
      <4> HIDE DEF below
      <4>4. /\ frames' \in Seq(Activation) /\ frames' # <<>> /\ Len(frames') = L + 1
            /\ DOMAIN frames' = 1 .. L + 1 /\ frames'[L + 1] = below
            /\ \A f \in 1 .. L : frames'[f] = frames[f]
        BY <1>2, <1>3, <4>3
      <4>5. AtNodes(frames')
        <5> SUFFICES ASSUME NEW f \in 1 .. L + 1, frames'[f].node # NULL
                     PROVE  /\ frames'[f].node \in DOMAIN document
                            /\ D(frames'[f].node) = D(root) + f
                            /\ frames'[f].index = Index(frames'[f].node)
          BY <4>4 DEF AtNodes
        <5>1. CASE f = L + 1
          BY <4>1, <4>2, <4>3, <4>4, <5>1
        <5>2. CASE f \in 1 .. L
          <6>1. frames'[f] = frames[f] /\ f \in DOMAIN frames
            BY <1>2, <4>4, <5>2
          <6> QED
            BY <1>2, <6>1 DEF AtNodes
        <5> QED
          BY <1>3, <5>1, <5>2
      <4>6. AllWait(frames', Ahead + 1)
        <5> SUFFICES ASSUME NEW f \in 1 .. L
                     PROVE  Waits(frames'[f].node, Ahead + 1)
          BY <1>3, <4>4 DEF AllWait
        <5>1. CASE f = L
          <6>1. frames'[f].node = Ahead
            BY <1>3, <4>4, <5>1
          <6> QED
            BY <1>1, <1>3, <1>4, <6>1, WaitsBelow
        <5>2. CASE f \in 1 .. L - 1
          BY <2>4, <4>4, <5>2
        <5> QED
          BY <1>3, <5>1, <5>2
      <4>7. Innermost(frames', Ahead + 1)
        <5>1. Ahead + 1 # NULL
          BY <1>4 DEF NULL
        <5> QED
          BY <4>3, <4>4, <5>1 DEF Innermost
      <4> QED
        BY <4>4, <4>5, <4>6, <4>7
    <3>2. CASE Below(Ahead) = NULL
      <4>1. Ahead + 1 \in DOMAIN document => D(Ahead + 1) <= D(Ahead)
        <5> SUFFICES ASSUME Ahead + 1 \in DOMAIN document
                     PROVE  D(Ahead + 1) <= D(Ahead)
          OBVIOUS
        <5>1. D(Ahead + 1) \in Nat
          BY <1>2, DocumentFacts
        <5>2. ~ (D(Ahead + 1) > D(Ahead))
          BY <1>4, <2>3, <3>2 DEF NULL
        <5> QED
          BY <1>7, <5>1, <5>2
      <4>2. Follows(Ahead, Ahead + 1)
        BY <1>3, <1>4, <4>1, FollowsNext
      <4>3. Last(frames).node = Ahead /\ Last(frames).node # NULL
        BY <1>1, <1>3 DEF Top
      <4>4. /\ GoOn(frames) \in Seq(Activation) /\ GoOn(frames) # <<>>
            /\ AtNodes(GoOn(frames)) /\ AllWait(GoOn(frames), Ahead + 1)
            /\ Innermost(GoOn(frames), Ahead + 1)
        BY <1>2, <2>4, <4>2, <4>3, GoOnStacked
      <4> QED
        BY <2>1, <3>2, <4>4, Zenon
    <3> QED
      BY <3>1, <3>2
  <2>6. FramesInv'
    BY <1>1, <1>5, <2>5, FramesPrimed
  <2>7. ShapeInv'
    BY <1>1, <1>2, <1>5, <2>1, <2>5 DEF ShapeInv
  <2>8. WalkComplete'
    BY <2>1 DEF WalkComplete
  <2> QED
    BY <1>5, <2>2, <2>6, <2>7, <2>8 DEF IInv
<1> QED
  BY <1>8, <1>9

LEMMA OneLess ==
  ASSUME NEW n \in Nat \ {0}, n # 1
  PROVE  n - 1 \in Nat \ {0} /\ n - 1 \in 1 .. n - 1
OBVIOUS

LEMMA LengthOfSpan ==
  ASSUME NEW n \in Nat, NEW m \in Nat \ {0}, NEW k, k = n + m
  PROVE  n \in Int /\ k - 1 \in Int /\ k - 1 - n + 1 = m /\ n <= k - 1
OBVIOUS

LEMMA ReturnPreserves == IInv /\ Return => IInv'
<1> SUFFICES ASSUME IInv, Return
             PROVE  IInv'
  OBVIOUS
<1> DEFINE L == Len(frames)
<1>1. /\ stage = "below" /\ Top.node = NULL
      /\ UNCHANGED <<document, hashes, path, end, key, hash, hashed, root, calls>>
  BY DEF Return, tree, search
<1>2. /\ document \in Documents /\ root \in DOMAIN document
      /\ result \in DOMAIN document \cup {NULL}
      /\ frames \in Seq(Activation) /\ frames # <<>>
      /\ calls \in Seq(Call3) /\ calls # <<>>
      /\ AtNodes(frames) /\ AllWait(frames, Ahead) /\ Innermost(frames, Ahead)
  BY <1>1 DEF IInv, ShapeInv, FramesInv
<1>3. Top = frames[L] /\ L \in Nat \ {0}
  BY <1>2, FrontFacts DEF Top
<1>4. /\ Len(calls) \in Nat \ {0} /\ DOMAIN calls = 1 .. Len(calls)
      /\ Ahead \in Nat /\ root < Ahead /\ Ahead - 1 \in DOMAIN document
      /\ \A q \in root + 1 .. Ahead - 1 : D(q) > D(root)
  BY <1>1, CalledFacts
<1>5. D(root) \in Nat /\ (Ahead \in DOMAIN document => D(Ahead) \in Nat)
  BY <1>2, DocumentFacts
<1>6. Ahead \in DOMAIN document => D(Ahead) < D(root) + L
  BY <1>1, <1>2, <1>3 DEF Innermost
<1>7. CallsInOrder'
  BY <1>1, OrderKept DEF IInv
<1>8. \A n \in DOMAIN calls : hashes[calls[n][1]] # hash
  BY <1>1 DEF IInv, SearchInv
<1>9. CASE L = 1
  <2>1. result' = NULL /\ frames' = <<>> /\ stage' = "path"
    BY <1>9 DEF Return, Returns
  <2>2. ShapeInv'
    BY <1>1, <1>2, <2>1 DEF ShapeInv
  <2>3. Follows(root, Ahead)
    BY <1>2, <1>4, <1>5, <1>6, <1>9 DEF Follows
  <2>4. Nodes(root) = root .. Ahead - 1
    BY <1>2, <2>3, NodesUpTo
  <2>5. root \in Nat /\ root \in Int /\ Ahead - 1 \in Int
        /\ Ahead - 1 - root + 1 = Len(calls) /\ root <= Ahead - 1
    <3>1. root \in Nat /\ Len(calls) \in Nat \ {0} /\ Ahead = root + Len(calls)
      BY <1>2, <1>4, RootFacts DEF Ahead
    <3> QED
      BY <3>1, LengthOfSpan
  <2>6. Cardinality(root .. Ahead - 1) = Ahead - 1 - root + 1
    BY <2>5, FS_Interval
  <2>7. Cardinality(Nodes(root)) = Len(calls)
    BY <2>4, <2>5, <2>6
  <2>8. WalkComplete'
    <3>1. Nodes(root)' = Nodes(root)
      BY <1>1 DEF Nodes
    <3> QED
      BY <1>1, <1>8, <2>1, <2>7, <3>1 DEF WalkComplete
  <2> QED
    BY <1>7, <2>1, <2>2, <2>8 DEF IInv, FramesInv, SearchInv
<1>10. CASE L # 1
  <2> DEFINE fs == Front(frames)
             p == Last(fs).node
  <2>1. frames' = GoOn(fs) /\ stage' = "below" /\ result' = result
    BY <1>1, <1>10 DEF Return
  <2>2. /\ fs \in Seq(Activation) /\ Len(fs) = L - 1
        /\ \A i \in 1 .. L - 1 : fs[i] = frames[i]
    BY <1>2, FrontFacts
  <2>3. L - 1 \in Nat \ {0} /\ L - 1 \in 1 .. L - 1
    BY <1>3, <1>10, OneLess
  <2>4. fs # <<>>
    BY <2>2, <2>3
  <2> HIDE DEF fs
  <2>5. Last(fs) = frames[L - 1]
    BY <2>2, <2>3, <2>4, FrontFacts
  <2>6. AtNodes(fs)
    <3>1. \A f \in DOMAIN fs : f \in DOMAIN frames /\ fs[f] = frames[f]
      BY <1>2, <1>3, <2>2
    <3> QED
      BY <1>2, <3>1 DEF AtNodes
  <2>7. \A f \in 1 .. Len(fs) - 1 : Waits(fs[f].node, Ahead)
    <3>1. \A f \in 1 .. Len(fs) - 1 : f \in 1 .. L - 1 /\ fs[f] = frames[f]
      BY <1>3, <2>2
    <3> QED
      BY <1>2, <3>1 DEF AllWait
  <2>8. Waits(p, Ahead)
    BY <1>2, <2>3, <2>5 DEF AllWait
  <2>9. p # NULL /\ p \in DOMAIN document /\ D(p) = D(root) + (L - 1)
    <3>1. L - 1 \in DOMAIN frames
      BY <1>2, <1>3, <2>3
    <3> QED
      BY <1>2, <2>5, <2>8, <3>1 DEF AtNodes, Waits
  <2>10. Follows(p, Ahead)
    <3>1. Ahead \in DOMAIN document => D(Ahead) <= D(p)
      BY <1>3, <1>5, <1>6, <2>9
    <3> QED
      BY <1>4, <2>8, <2>9, <3>1 DEF Follows, Waits
  <2>11. /\ GoOn(fs) \in Seq(Activation) /\ GoOn(fs) # <<>>
         /\ AtNodes(GoOn(fs)) /\ AllWait(GoOn(fs), Ahead)
         /\ Innermost(GoOn(fs), Ahead)
    BY <1>2, <2>2, <2>4, <2>6, <2>7, <2>9, <2>10, GoOnStacked
  <2>12. Ahead' = Ahead
    BY <1>1 DEF Ahead
  <2>13. FramesInv'
    BY <1>1, <1>2, <2>1, <2>11, <2>12, FramesPrimed
  <2>14. ShapeInv'
    BY <1>1, <1>2, <2>1, <2>11 DEF ShapeInv
  <2>15. SearchInv' /\ WalkComplete'
    BY <1>1, <1>8, <2>1 DEF SearchInv, WalkComplete
  <2> QED
    BY <1>7, <2>13, <2>14, <2>15 DEF IInv
<1> QED
  BY <1>9, <1>10

-----------------------------------------------------------------------------
(* The theorems.                                                           *)

LEMMA StutterPreserves == IInv /\ UNCHANGED vars => IInv'
<1> SUFFICES ASSUME IInv, UNCHANGED vars
             PROVE  IInv'
  OBVIOUS
<1>1. UNCHANGED <<stage, document, hashes, path, end, key, hash, hashed, root,
                  result, frames, calls>>
  BY DEF vars, tree, search
<1>2. ShapeInv'
  BY <1>1 DEF IInv, ShapeInv
<1>3. FramesInv'
  BY <1>1 DEF IInv, FramesInv, AtNodes, AllWait, Waits, Innermost, Ahead, D, Index
<1>4. CallsInOrder'
  BY <1>1, OrderKept DEF IInv
<1>5. SearchInv' /\ WalkComplete'
  BY <1>1 DEF IInv, SearchInv, WalkComplete, Nodes
<1> QED
  BY <1>2, <1>3, <1>4, <1>5 DEF IInv

\* While forEachNode is at work, every activation is at a node of its level
\* with the index of that node, and has only nodes below its own between that
\* node and the one ahead (parseMetadata.c:155-212).
THEOREM Invariant == Spec => []IInv
<1>1. Init => IInv
  BY InitEstablishes
<1>2. IInv /\ [Next]_vars => IInv'
  <2> SUFFICES ASSUME IInv, [Next]_vars
               PROVE  IInv'
    OBVIOUS
  <2>1. CASE UNCHANGED vars
    BY <2>1, StutterPreserves
  <2>2. CASE TakeKey
    BY <2>2, TakeKeyPreserves
  <2>3. CASE HashByte \/ Search \/ PathReturns
    BY <2>3, OtherStepsPreserve
  <2>4. CASE CallRoot
    BY <2>4, CallRootPreserves
  <2>5. CASE Call
    BY <2>5, CallPreserves
  <2>6. CASE Return
    BY <2>6, ReturnPreserves
  <2>7. CASE Over
    BY <2>7, StutterPreserves DEF Over
  <2> QED
    BY <2>1, <2>2, <2>3, <2>4, <2>5, <2>6, <2>7 DEF Next
<1> QED
  BY <1>1, <1>2, PTL DEF Spec

\* In a tree of any size, the n-th call of the callback is for the n-th node
\* from the root on, with the depth of that node under the root and its index
\* among its siblings (parseMetadata.c:155-212).
THEOREM CallsInPreorder == Spec => []CallsInOrder
<1>1. IInv => CallsInOrder
  BY DEF IInv
<1> QED
  BY <1>1, Invariant, PTL

\* A walk that ends has called back for every node of the tree, or for all up
\* to the first with the hash that is searched for, which it then returns
\* (parseMetadata.c:155-252).
THEOREM WalksComplete == Spec => []WalkComplete
<1>1. IInv => WalkComplete
  BY DEF IInv
<1> QED
  BY <1>1, Invariant, PTL

-----------------------------------------------------------------------------
(* Recursion over the numbers.                                             *)

\* Some number of a set is the least: induction by a least counterexample.
LEMMA LeastNumber ==
  ASSUME NEW S, S \subseteq Nat, S # {}
  PROVE  \E x \in S : \A y \in S : x <= y
<1> DEFINE below == OpToRel(<, Nat)
<1>1. IsWellFoundedOn(below, Nat)
  BY NatLessThanWellFounded
<1>2. \E x \in S : \A y \in S : ~ (<<y, x>> \in below)
  <2> HIDE DEF below
  <2> QED
    BY <1>1, WFMin
<1>3. PICK x \in S : \A y \in S : ~ (<<y, x>> \in below)
  BY <1>2
<1>4. \A y \in S : ~ (y < x)
  BY <1>3 DEF OpToRel
<1>5. \A y \in S : x <= y
  BY <1>4
<1> QED
  BY <1>5

LEMMA MinIsLeast ==
  ASSUME NEW S, S \subseteq Nat, S # {}
  PROVE  Min(S) \in S /\ \A y \in S : Min(S) <= y
<1>1. \E x \in S : \A y \in S : x <= y
  BY LeastNumber
<1> QED
  BY <1>1 DEF Min

\* f begins with first and goes on from each place to the next by step.
Iterates(f, n, first, step) ==
  /\ f = [k \in 0 .. n |-> f[k]]
  /\ \A k \in 0 .. n : f[k] = IF k = 0 THEN first ELSE step[<<k, f[k - 1]>>]

LEMMA IterationExists ==
  ASSUME NEW n \in Nat, NEW first, NEW step
  PROVE  \E f : Iterates(f, n, first, step)
<1> DEFINE without == {k \in 0 .. n : ~ \E f : Iterates(f, k, first, step)}
<1>1. SUFFICES ASSUME without # {}
               PROVE  FALSE
  <2>1. without = {} => n \notin without
    OBVIOUS
  <2> QED
    BY <2>1
<1>2. PICK k \in without : \A j \in without : k <= j
  <2>1. without \subseteq Nat
    OBVIOUS
  <2> QED
    BY <1>1, <2>1, LeastNumber
<1>3. CASE k = 0
  <2>1. Iterates([i \in 0 .. 0 |-> first], 0, first, step)
    BY DEF Iterates
  <2> QED
    BY <1>2, <1>3, <2>1
<1>4. CASE k # 0
  <2>1. k - 1 \in 0 .. n /\ k - 1 \notin without /\ k \in 1 .. n
    BY <1>2, <1>4
  <2>2. PICK f : Iterates(f, k - 1, first, step)
    BY <2>1
  <2> DEFINE g == [i \in 0 .. k |-> IF i < k THEN f[i] ELSE step[<<k, f[k - 1]>>]]
  <2>3. ASSUME NEW i \in 0 .. k
        PROVE  g[i] = IF i = 0 THEN first ELSE step[<<i, g[i - 1]>>]
    <3>1. CASE i < k
      <4>1. i \in 0 .. k - 1 /\ (i # 0 => i - 1 \in 0 .. k /\ i - 1 < k)
        BY <2>1, <3>1
      <4>2. f[i] = IF i = 0 THEN first ELSE step[<<i, f[i - 1]>>]
        BY <2>2, <4>1 DEF Iterates
      <4> QED
        BY <3>1, <4>1, <4>2
    <3>2. CASE i = k
      BY <2>1, <3>2
    <3> QED
      BY <2>1, <3>1, <3>2
  <2>4. g = [i \in 0 .. k |-> g[i]]
    OBVIOUS
  <2>5. Iterates(g, k, first, step)
    <3> HIDE DEF g
    <3> QED
      BY <2>3, <2>4 DEF Iterates
  <2> QED
    BY <1>2, <2>5
<1> QED
  BY <1>3, <1>4

LEMMA IterationInSet ==
  ASSUME NEW n \in Nat, NEW S, NEW first \in S, NEW step \in [(1 .. n) \X S -> S],
         NEW f, Iterates(f, n, first, step)
  PROVE  \A k \in 0 .. n : f[k] \in S
<1> DEFINE outside == {k \in 0 .. n : f[k] \notin S}
<1>1. SUFFICES ASSUME outside # {}
               PROVE  FALSE
  OBVIOUS
<1>2. PICK k \in outside : \A j \in outside : k <= j
  <2>1. outside \subseteq Nat
    OBVIOUS
  <2> QED
    BY <1>1, <2>1, LeastNumber
<1>3. f[k] = IF k = 0 THEN first ELSE step[<<k, f[k - 1]>>]
  BY <1>2 DEF Iterates
<1>4. k # 0
  BY <1>2, <1>3
<1>5. k - 1 \in 0 .. n /\ k \in 1 .. n /\ k - 1 \notin outside
  BY <1>2, <1>4
<1>6. f[k - 1] \in S
  BY <1>5
<1>7. step[<<k, f[k - 1]>>] \in S
  BY <1>5, <1>6
<1> QED
  BY <1>2, <1>3, <1>4, <1>7

-----------------------------------------------------------------------------
(* Hashes.                                                                 *)

LEMMA QuotientAndRest ==
  ASSUME NEW x \in Int, NEW m \in Nat \ {0}
  PROVE  x \div m \in Int /\ x % m \in 0 .. m - 1
OBVIOUS

LEMMA LimbOfSum ==
  ASSUME NEW x \in Int
  PROVE  x \div Limb \in Int /\ x % Limb \in 0 .. Limb - 1
<1>1. Limb \in Nat \ {0}
  BY DEF Limb
<1> QED
  BY <1>1, QuotientAndRest

LEMMA AddedIsHash ==
  ASSUME NEW h \in Hash, NEW c \in Int
  PROVE  Added(h, c) \in Hash
<1>1. /\ h[1] \in Int /\ h[2] \in Int /\ h[3] \in Int /\ h[4] \in Int
  <2>1. h[1] \in Limbs /\ h[2] \in Limbs /\ h[3] \in Limbs /\ h[4] \in Limbs
    BY DEF Hash
  <2>2. \A x \in Limbs : x \in Int
    BY DEF Limbs
  <2> QED
    BY <2>1, <2>2
<1> DEFINE sum1 == h[1] * 33 + c
           sum2 == h[2] * 33 + sum1 \div Limb
           sum3 == h[3] * 33 + sum2 \div Limb
           sum4 == h[4] * 33 + sum3 \div Limb
<1>2. \A x \in Int : x \div Limb \in Int /\ x % Limb \in 0 .. Limb - 1
  BY LimbOfSum
<1>3. sum1 \in Int
  BY <1>1
<1>4. sum2 \in Int
  <2> HIDE DEF sum1
  <2> QED
    BY <1>1, <1>2, <1>3
<1>5. sum3 \in Int
  <2> HIDE DEF sum2
  <2> QED
    BY <1>1, <1>2, <1>4
<1>6. sum4 \in Int
  <2> HIDE DEF sum3
  <2> QED
    BY <1>1, <1>2, <1>5
<1>7. Added(h, c) = <<sum1 % Limb, sum2 % Limb, sum3 % Limb, sum4 % Limb>>
  BY DEF Added, Sums
<1> HIDE DEF sum1, sum2, sum3, sum4
<1>8. /\ sum1 % Limb \in Limbs /\ sum2 % Limb \in Limbs
      /\ sum3 % Limb \in Limbs /\ sum4 % Limb \in Limbs
  BY <1>2, <1>3, <1>4, <1>5, <1>6 DEF Limbs
<1> QED
  BY <1>7, <1>8 DEF Hash

LEMMA SeedIsHash == Seed \in Hash /\ <<0, 0, 0, 0>> \in Hash
<1>1. 3391 \in Limbs /\ 3 \in Limbs /\ 0 \in Limbs
  BY DEF Limbs, Limb
<1> QED
  BY <1>1 DEF Seed, Hash

\* The recurrence has a value after each of a key's characters.
LEMMA HashedFacts ==
  ASSUME NEW k \in DOMAIN Codes
  PROVE  /\ Len(Codes[k]) \in Nat
         /\ \A n \in 0 .. Len(Codes[k]) : HashedUpTo(k)[n] \in Hash
         /\ HashedUpTo(k)[0] = Seed
         /\ \A n \in 0 .. Len(Codes[k]) - 1 :
              HashedUpTo(k)[n + 1] = Added(HashedUpTo(k)[n], Codes[k][n + 1])
<1> DEFINE size == Len(Codes[k])
           step == [x \in (1 .. size) \X Hash |-> Added(x[2], Codes[k][x[1]])]
           Step(f) == [n \in 0 .. size |->
                         IF n = 0 THEN Seed ELSE Added(f[n - 1], Codes[k][n])]
           hashed0 == CHOOSE f : f = Step(f)
<1>1. size \in Nat /\ \A n \in 1 .. size : Codes[k][n] \in Int
  <2> DEFINE char == (-128 .. 127) \ {0}
  <2>1. \A c \in char : c \in Int
    OBVIOUS
  <2> HIDE DEF char
  <2>2. Codes[k] \in Seq(char)
    BY CodesAssumption DEF char
  <2>3. \A n \in 1 .. size : Codes[k][n] \in char
    BY <2>2
  <2> QED
    BY <2>1, <2>2, <2>3
<1>2. ASSUME NEW x \in (1 .. size) \X Hash
      PROVE  Added(x[2], Codes[k][x[1]]) \in Hash
  <2>1. x[1] \in 1 .. size /\ x[2] \in Hash
    OBVIOUS
  <2> QED
    BY <1>1, <2>1, AddedIsHash
<1>3. step \in [(1 .. size) \X Hash -> Hash]
  BY <1>2
<1>4. \A n \in 1 .. size, h \in Hash : step[<<n, h>>] = Added(h, Codes[k][n])
  OBVIOUS
<1> HIDE DEF step, size
<1>5. PICK f : Iterates(f, size, Seed, step)
  BY <1>1, IterationExists
<1>6. \A n \in 0 .. size : f[n] \in Hash
  BY <1>1, <1>3, <1>5, SeedIsHash, IterationInSet
<1>7. f = Step(f)
  <2>1. ASSUME NEW n \in 0 .. size
        PROVE  f[n] = IF n = 0 THEN Seed ELSE Added(f[n - 1], Codes[k][n])
    <3>1. f[n] = IF n = 0 THEN Seed ELSE step[<<n, f[n - 1]>>]
      BY <1>5 DEF Iterates
    <3>2. n # 0 => n \in 1 .. size /\ n - 1 \in 0 .. size
      BY <1>1
    <3> QED
      BY <1>4, <1>6, <3>1, <3>2
  <2>2. f = [n \in 0 .. size |-> f[n]]
    BY <1>5 DEF Iterates
  <2>3. [n \in 0 .. size |-> f[n]] = Step(f)
    BY <2>1, Zenon
  <2> QED
    BY <2>2, <2>3, Zenon
<1>8. hashed0 = Step(hashed0)
  <2> HIDE DEF Step
  <2> QED
    BY <1>7
<1>9. HashedUpTo(k) = hashed0
  BY Zenon DEF HashedUpTo, size
<1> DEFINE g == HashedUpTo(k)
<1>10. \A n \in 0 .. size : g[n] = IF n = 0 THEN Seed ELSE Added(g[n - 1], Codes[k][n])
  <2>1. g = Step(g)
    BY <1>8, <1>9, Zenon
  <2> HIDE DEF g
  <2> QED
    BY <2>1, Zenon
<1> HIDE DEF g, hashed0, Step
<1>11. g[0] = Seed
  BY <1>1, <1>10
<1>12. \A n \in 0 .. size - 1 : g[n + 1] = Added(g[n], Codes[k][n + 1])
  <2> TAKE n \in 0 .. size - 1
  <2>1. n + 1 \in 0 .. size /\ n + 1 # 0 /\ n + 1 - 1 = n
    BY <1>1
  <2> QED
    BY <1>10, <2>1
<1>13. \A n \in 0 .. size : g[n] \in Hash
  <2> DEFINE outside == {n \in 0 .. size : g[n] \notin Hash}
  <2>1. SUFFICES ASSUME outside # {}
                 PROVE  FALSE
    OBVIOUS
  <2>2. PICK n \in outside : \A m \in outside : n <= m
    <3>1. outside \subseteq Nat
      BY <1>1
    <3> QED
      BY <2>1, <3>1, LeastNumber
  <2>3. n # 0
    BY <1>11, <2>2, SeedIsHash
  <2>4. n - 1 \in 0 .. size - 1 /\ n - 1 \notin outside /\ n - 1 + 1 = n /\ n \in 1 .. size
    BY <1>1, <2>2, <2>3
  <2>5. g[n - 1] \in Hash
    BY <1>1, <2>4
  <2>6. g[n] = Added(g[n - 1], Codes[k][n])
    BY <1>12, <2>4
  <2> QED
    BY <1>1, <2>2, <2>4, <2>5, <2>6, AddedIsHash
<1> QED
  BY <1>1, <1>11, <1>12, <1>13 DEF g, size


-----------------------------------------------------------------------------
(* The keys of a path.                                                     *)

FirstFound(k, p) ==
  IF FoundByHash(k, p) = {} THEN NULL ELSE Min(FoundByHash(k, p))

LEMMA FirstFoundIsNode ==
  ASSUME document \in Documents, NEW k, NEW p \in DOMAIN document
  PROVE  FirstFound(k, p) \in DOMAIN document \cup {NULL}
<1>1. FoundByHash(k, p) \subseteq DOMAIN document /\ DOMAIN document \subseteq Nat
  <2>1. DOMAIN document = 1 .. Len(document) /\ Len(document) \in Nat
    BY DocumentFacts
  <2>2. Nodes(p) \subseteq DOMAIN document
    BY <2>1 DEF Nodes
  <2> QED
    BY <2>1, <2>2 DEF FoundByHash, Found
<1> HIDE DEF FoundByHash
<1> QED
  BY <1>1, MinIsLeast DEF FirstFound

\* The nodes the keys lead to, one after the other.
LEMMA ResolvedFacts ==
  ASSUME document \in Documents, path \in Paths
  PROVE  /\ Len(path.keys) \in Nat
         /\ ResolvedUpTo[0] = 1
         /\ \A n \in 0 .. Len(path.keys) - 1 :
              ResolvedUpTo[n + 1] =
                IF ResolvedUpTo[n] = NULL THEN NULL
                ELSE FirstFound(path.keys[n + 1], ResolvedUpTo[n])
<1> DEFINE size == Len(path.keys)
           nodes == DOMAIN document \cup {NULL}
           Then(n, p) == IF p = NULL THEN NULL ELSE FirstFound(path.keys[n], p)
           step == [x \in (1 .. size) \X nodes |-> Then(x[1], x[2])]
           Step(f) == [n \in 0 .. size |->
                         IF n = 0 THEN 1
                         ELSE IF f[n - 1] = NULL THEN NULL
                         ELSE LET found == FoundByHash(path.keys[n], f[n - 1])
                              IN  IF found = {} THEN NULL ELSE Min(found)]
           resolved0 == CHOOSE f : f = Step(f)
<1>1. size \in Nat
  BY PathsAssumption
<1>2. 1 \in nodes
  BY DocumentFacts, DocumentsAssumption, EmptySeq
<1>3. ASSUME NEW x \in (1 .. size) \X nodes
      PROVE  Then(x[1], x[2]) \in nodes
  BY FirstFoundIsNode
<1>4. step \in [(1 .. size) \X nodes -> nodes]
  <2> HIDE DEF Then, nodes, size
  <2> QED
    BY <1>3
<1>5. \A n \in 1 .. size, p \in nodes : step[<<n, p>>] = Then(n, p)
  <2> HIDE DEF Then, nodes, size
  <2> QED
    OBVIOUS
<1> HIDE DEF step, size, nodes
<1>6. PICK f : Iterates(f, size, 1, step)
  BY <1>1, IterationExists
<1>7. \A n \in 0 .. size : f[n] \in nodes
  BY <1>1, <1>2, <1>4, <1>6, IterationInSet
<1>8. f = Step(f)
  <2>1. ASSUME NEW n \in 0 .. size
        PROVE  f[n] = IF n = 0 THEN 1 ELSE Then(n, f[n - 1])
    <3>1. f[n] = IF n = 0 THEN 1 ELSE step[<<n, f[n - 1]>>]
      BY <1>6 DEF Iterates
    <3>2. n # 0 => n \in 1 .. size /\ n - 1 \in 0 .. size
      BY <1>1
    <3> HIDE DEF Then
    <3> QED
      BY <1>5, <1>7, <3>1, <3>2
  <2>2. f = [n \in 0 .. size |-> f[n]]
    BY <1>6 DEF Iterates
  <2>3. [n \in 0 .. size |-> f[n]] = Step(f)
    BY <2>1, Zenon DEF FirstFound
  <2> QED
    BY <2>2, <2>3, Zenon
<1>9. resolved0 = Step(resolved0)
  <2> HIDE DEF Step
  <2> QED
    BY <1>8
<1>10. ResolvedUpTo = resolved0
  BY Zenon DEF ResolvedUpTo, size
<1> DEFINE g == ResolvedUpTo
<1>11. \A n \in 0 .. size : g[n] = IF n = 0 THEN 1 ELSE Then(n, g[n - 1])
  <2>1. g = Step(g)
    BY <1>9, <1>10, Zenon
  <2> HIDE DEF g
  <2> QED
    BY <2>1, Zenon DEF FirstFound
<1> HIDE DEF g, resolved0, Step
<1>12. g[0] = 1
  BY <1>1, <1>11
<1>13. \A n \in 0 .. size - 1 : g[n + 1] = Then(n + 1, g[n])
  <2> TAKE n \in 0 .. size - 1
  <2>1. n + 1 \in 0 .. size /\ n + 1 # 0 /\ n + 1 - 1 = n
    BY <1>1
  <2> HIDE DEF Then
  <2> QED
    BY <1>11, <2>1
<1> QED
  BY <1>1, <1>12, <1>13 DEF g, size

LEMMA ResolvedKept ==
  ASSUME UNCHANGED <<document, path>>
  PROVE  ResolvedUpTo' = ResolvedUpTo
BY DEF ResolvedUpTo, FoundByHash, Found, Nodes


LEMMA PathFacts ==
  ASSUME path \in Paths
  PROVE  /\ Len(path.text) \in Nat /\ (Len(path.text) = 0 <=> path.text = NoString)
         /\ path.keys \in Seq(DOMAIN Codes) /\ Len(path.keys) \in Nat
         /\ IsFiniteSet(Starts(path.text))
         /\ Len(path.keys) = Cardinality(Starts(path.text))
<1>1. IsFiniteSet(1 .. Len(path.text))
  BY PathsAssumption, FS_Interval
<1>2. Starts(path.text) \subseteq 1 .. Len(path.text)
  BY DEF Starts
<1>3. IsFiniteSet(Starts(path.text))
  BY <1>1, <1>2, FS_Subset
<1> QED
  BY <1>3, PathsAssumption

\* How many keys begin before p.
Before(p) == {q \in Starts(path.text) : q < p}

LEMMA BeforeFacts ==
  ASSUME path \in Paths, NEW p
  PROVE  /\ IsFiniteSet(Before(p)) /\ Cardinality(Before(p)) \in 0 .. Len(path.keys)
<1>1. Before(p) \subseteq Starts(path.text)
  BY DEF Before
<1>2. IsFiniteSet(Before(p)) /\ Cardinality(Before(p)) <= Cardinality(Starts(path.text))
  BY <1>1, PathFacts, FS_Subset
<1> QED
  BY <1>2, PathFacts, FS_CardinalityType

LEMMA SlashFromFacts ==
  ASSUME path \in Paths, NEW p \in 1 .. Len(path.text) + 1
  PROVE  /\ SlashFrom(p) \in p .. Len(path.text) + 1
         /\ \A q \in p .. SlashFrom(p) - 1 : Char(q) # "/"
         /\ SlashFrom(p) <= Len(path.text) => Char(SlashFrom(p)) = "/"
<1> DEFINE found == {q \in p .. Len(path.text) : Char(q) = "/"} \cup {Len(path.text) + 1}
<1>1. Len(path.text) \in Nat
  BY PathFacts
<1>2. found \subseteq Nat /\ found # {}
  BY <1>1
<1>3. SlashFrom(p) \in found /\ \A q \in found : SlashFrom(p) <= q
  BY <1>2, MinIsLeast DEF SlashFrom
<1>4. SlashFrom(p) \in p .. Len(path.text) + 1
  BY <1>1, <1>3
<1>5. ASSUME NEW q \in p .. SlashFrom(p) - 1
      PROVE  Char(q) # "/"
  BY <1>1, <1>3, <1>4
<1> QED
  BY <1>1, <1>3, <1>4, <1>5

\* TakeKey at the start of a key takes that one, and goes on to the start of
\* the next.
LEMMA KeyTaken ==
  ASSUME path \in Paths, NEW p \in Starts(path.text),
         NEW taken, taken = Cardinality(Before(p))
  PROVE  LET next == Behind(SlashFrom(p))
         IN  /\ taken + 1 \in 1 .. Len(path.keys)
             /\ SubSeq(path.text, p, SlashFrom(p) - 1) = path.keys[taken + 1]
             /\ next \in Starts(path.text) \cup {Len(path.text) + 1}
             /\ Cardinality(Before(next)) = taken + 1
<1> DEFINE size == Len(path.text)
           slash == SlashFrom(p)
           next == Behind(slash)
<1>1. size \in Nat /\ p \in 1 .. size
  BY PathFacts DEF Starts
<1>2. /\ slash \in p .. size + 1
      /\ \A q \in p .. slash - 1 : CharOf(path.text, q) # "/"
      /\ slash <= size => CharOf(path.text, slash) = "/"
  BY <1>1, SlashFromFacts DEF Char
<1> HIDE DEF slash
<1>3. next = IF slash <= size THEN slash + 1 ELSE slash
  BY DEF Behind
<1> HIDE DEF next
<1>4. next \in p + 1 .. size + 1
  BY <1>1, <1>2, <1>3
<1>5. next \in Starts(path.text) \cup {size + 1}
  <2> SUFFICES ASSUME next # size + 1
               PROVE  next \in Starts(path.text)
    OBVIOUS
  <2>1. slash <= size /\ next = slash + 1 /\ next - 1 = slash /\ next # 1
    BY <1>1, <1>2, <1>3
  <2>2. next \in 1 .. size
    BY <1>1, <1>4
  <2> QED
    BY <1>2, <2>1, <2>2 DEF Starts
<1>6. Before(next) = Before(p) \cup {p}
  <2>1. ASSUME NEW q \in Before(next), q # p
        PROVE  q \in Before(p)
    <3>1. q \in Starts(path.text) /\ q < next /\ q \in 1 .. size
      BY DEF Before, Starts
    <3> SUFFICES ASSUME p < q
                 PROVE  FALSE
      BY <1>1, <2>1, <3>1 DEF Before
    <3>2. q # 1 /\ CharOf(path.text, q - 1) = "/"
      BY <1>1, <3>1 DEF Starts
    <3>3. q - 1 \in p .. slash - 1
      BY <1>1, <1>2, <1>3, <3>1
    <3> QED
      BY <1>2, <3>2, <3>3
  <2>2. p \in Before(next) /\ \A q \in Before(p) : q \in Before(next)
    <3>1. \A q \in Starts(path.text) : q \in 1 .. size
      BY DEF Starts
    <3>2. \A q \in Starts(path.text) : q < p => q < next
      BY <1>1, <1>4, <3>1
    <3>3. p < next
      BY <1>1, <1>4
    <3> QED
      BY <3>2, <3>3 DEF Before
  <2> QED
    BY <2>1, <2>2
<1>7. p \notin Before(p)
  BY <1>1 DEF Before
<1>8. Cardinality(Before(next)) = taken + 1
  BY <1>6, <1>7, BeforeFacts, FS_AddElement
<1>9. taken + 1 \in 1 .. Len(path.keys)
  BY <1>8, BeforeFacts, PathFacts
<1>10. {r \in Starts(path.text) : r <= p} = Before(next)
  <2>1. \A r \in Starts(path.text) : r \in 1 .. size
    BY DEF Starts
  <2>2. \A r \in Starts(path.text) : r <= p <=> r < p \/ r = p
    BY <1>1, <2>1
  <2> QED
    BY <1>6, <2>2 DEF Before
<1>11. IsKeyAt(path.keys[taken + 1], path.text, p)
  BY <1>8, <1>10, PathsAssumption
<1>12. PICK q \in p - 1 .. size :
          /\ path.keys[taken + 1] = SubSeq(path.text, p, q)
          /\ \A r \in p .. q : CharOf(path.text, r) # "/"
          /\ q < size => CharOf(path.text, q + 1) = "/"
  BY <1>11 DEF IsKeyAt
<1>13. q = slash - 1
  <2>1. ~ (q < slash - 1)
    <3> SUFFICES ASSUME q < slash - 1
                 PROVE  FALSE
      OBVIOUS
    <3>1. q + 1 \in p .. slash - 1 /\ q < size
      BY <1>1, <1>2, <1>12
    <3> QED
      BY <1>2, <1>12, <3>1
  <2>2. ~ (slash - 1 < q)
    <3> SUFFICES ASSUME slash - 1 < q
                 PROVE  FALSE
      OBVIOUS
    <3>1. slash \in p .. q /\ slash <= size
      BY <1>1, <1>2, <1>12
    <3> QED
      BY <1>2, <1>12, <3>1
  <2> QED
    BY <1>1, <1>2, <1>12, <2>1, <2>2
<1> QED
  BY <1>5, <1>8, <1>9, <1>12, <1>13 DEF next, slash

-----------------------------------------------------------------------------
(* The invariants of the search.                                           *)

\* The nodes have the hashes the parser gave them, and hash is that of the
\* bytes of the key so far; before the first key there is none.
KeyInv ==
  /\ hashes = [p \in DOMAIN document |-> HashString(document[p].key)]
  /\ key \in DOMAIN Codes /\ hashed \in 0 .. Len(Codes[key])
  /\ \/ hash = NoHash /\ stage # "hash"
     \/ /\ hash = HashedUpTo(key)[hashed]
        /\ stage # "hash" => hashed = Len(Codes[key])

IsHashOf(h, k) == h \in Hash /\ h = HashedUpTo(k)[Len(Codes[k])]

\* What a path was called for.
ForPath == path.text # NoString \/ calls = <<>>

Taken == Cardinality(Before(end))

\* end is where a key begins, or behind the text.
PlaceInv ==
  /\ path \in Paths
  /\ end \in Starts(path.text) \cup {Len(path.text) + 1}

\* The keys before end have been taken, and result is where they lead.
PathInv ==
  /\ stage = "path" /\ ForPath => result = ResolvedUpTo[Taken]
  /\ stage = "returned" /\ ForPath => result = Resolved
  /\ stage \in {"hash", "root", "below"} /\ path.text # NoString =>
       /\ Taken \in 1 .. Len(path.keys) /\ key = path.keys[Taken]
       /\ hash \in Hash
       /\ root = ResolvedUpTo[Taken - 1]

IdleInv == stage # "below" => frames = <<>>

\* What holds whatever the hashes are.
TInv == IInv /\ KeyInv /\ PlaceInv /\ IdleInv

PInv == TInv /\ PathInv

LEMMA HashStringIsHash ==
  ASSUME NEW k \in DOMAIN Codes
  PROVE  HashString(k) \in Hash
<1>1. Len(Codes[k]) \in 0 .. Len(Codes[k])
  BY HashedFacts
<1> QED
  BY <1>1, HashedFacts, SeedIsHash DEF HashString

LEMMA HashIsNoNoHash == NoHash \notin Hash
<1>1. NoHash \in Hash => NoHash = <<NoHash[1], NoHash[2], NoHash[3], NoHash[4]>>
  BY DEF Hash
<1>2. \A a, b, c, d : <<>> # <<a, b, c, d>>
  OBVIOUS
<1> QED
  BY <1>1, <1>2 DEF NoHash

LEMMA NoStringHashed ==
  /\ NoString \in DOMAIN Codes /\ Len(Codes[NoString]) = 0
  /\ HashedUpTo(NoString)[0] = Seed /\ HashString(NoString) = <<0, 0, 0, 0>>
<1>1. NoString \in DOMAIN Codes /\ Codes[NoString] = <<>>
  BY CodesAssumption
<1>2. HashString(NoString) = <<0, 0, 0, 0>>
  BY DEF HashString
<1> QED
  BY <1>1, <1>2, HashedFacts

\* Only nodes with the key have its hash.
LEMMA MatchesKey ==
  ASSUME HashesDistinct, document \in Documents, KeyInv, IsHashOf(hash, key),
         NEW p \in DOMAIN document
  PROVE  hashes[p] = hash <=> key # NoString /\ document[p].key = key
<1> DEFINE k == document[p].key
<1>1. k \in DOMAIN Codes /\ hashes[p] = HashString(k) /\ key \in DOMAIN Codes
  BY PathsAssumption DEF KeyInv
<1>2. hash = HashedUpTo(key)[Len(Codes[key])]
  BY DEF IsHashOf
<1>3. Seed # <<0, 0, 0, 0>>
  BY DEF Seed
<1> HIDE DEF k
<1>4. CASE key = NoString
  <2>1. hash = Seed
    BY <1>2, <1>4, NoStringHashed
  <2>2. CASE k = NoString
    BY <1>1, <1>3, <1>4, <2>1, <2>2, NoStringHashed
  <2>3. CASE k # NoString
    <3>1. HashString(k) # Seed
      BY <1>1, <2>3 DEF HashesDistinct
    <3> QED
      BY <1>1, <1>4, <2>1, <3>1
  <2> QED
    BY <2>2, <2>3
<1>5. CASE key # NoString
  <2>1. hash = HashString(key)
    BY <1>2, <1>5 DEF HashString
  <2>2. CASE k = NoString
    <3>1. HashString(key) # <<0, 0, 0, 0>>
      BY <1>1, <1>5 DEF HashesDistinct
    <3> QED
      BY <1>1, <1>5, <2>1, <2>2, <3>1, NoStringHashed DEF k
  <2>3. CASE k # NoString
    <3>1. HashString(k) = HashString(key) => k = key
      BY <1>1, <1>5, <2>3 DEF HashesDistinct
    <3> QED
      BY <1>1, <1>5, <2>1, <3>1 DEF k
  <2> QED
    BY <2>2, <2>3
<1> QED
  BY <1>4, <1>5

\* The nodes called back for are those from the root on.
LEMMA CalledNodes ==
  ASSUME IInv, calls # <<>>
  PROVE  /\ Len(calls) \in Nat \ {0} /\ DOMAIN calls = 1 .. Len(calls)
         /\ root \in Nat \ {0}
         /\ root .. root + Len(calls) - 1 \subseteq Nodes(root)
         /\ \A n \in 1 .. Len(calls) : calls[n][1] = root + n - 1
         /\ Nodes(root) \subseteq DOMAIN document \cap (root .. Len(document))
         /\ IsFiniteSet(Nodes(root))
<1>1. calls \in Seq(Call3) /\ document \in Documents /\ root \in DOMAIN document
      /\ CallsInOrder
  BY DEF IInv, ShapeInv
<1>2. Len(calls) \in Nat \ {0} /\ DOMAIN calls = 1 .. Len(calls)
  BY <1>1, EmptySeq
<1>3. root \in 1 .. Len(document) /\ Len(document) \in Nat
      /\ DOMAIN document = 1 .. Len(document)
  BY <1>1, DocumentFacts
<1>4. ASSUME NEW n \in 1 .. Len(calls)
      PROVE  calls[n][1] = root + n - 1 /\ root + n - 1 \in Nodes(root)
  <2>1. n \in DOMAIN calls
    BY <1>2
  <2> QED
    BY <1>1, <2>1 DEF CallsInOrder
<1>5. ASSUME NEW q \in root .. root + Len(calls) - 1
      PROVE  q \in Nodes(root)
  <2>1. q - root + 1 \in 1 .. Len(calls) /\ root + (q - root + 1) - 1 = q
    BY <1>2, <1>3
  <2> QED
    BY <1>4, <2>1
<1>6. Nodes(root) \subseteq DOMAIN document \cap (root .. Len(document))
  BY <1>3 DEF Nodes
<1>7. IsFiniteSet(Nodes(root))
  <2>1. IsFiniteSet(root .. Len(document))
    BY <1>3, FS_Interval
  <2>2. Nodes(root) \in SUBSET (root .. Len(document))
    BY <1>6
  <2> QED
    BY <2>1, <2>2, FS_Subset
<1> QED
  BY <1>2, <1>3, <1>4, <1>5, <1>6, <1>7

\* A walk that is over has found the first node with the key.
LEMMA SearchEnds ==
  ASSUME HashesDistinct, IInv, KeyInv, stage = "path", calls # <<>>,
         IsHashOf(hash, key)
  PROVE  result = FirstFound(key, root)
<1> DEFINE N == Len(calls)
<1>1. document \in Documents
  BY DEF IInv, ShapeInv
<1>2. /\ N \in Nat \ {0} /\ DOMAIN calls = 1 .. N /\ root \in Nat \ {0}
      /\ root .. root + N - 1 \subseteq Nodes(root)
      /\ \A n \in 1 .. N : calls[n][1] = root + n - 1
      /\ Nodes(root) \subseteq DOMAIN document \cap (root .. Len(document))
      /\ IsFiniteSet(Nodes(root)) /\ Len(document) \in Nat
  BY <1>1, CalledNodes, DocumentFacts
<1>3. /\ \A n \in DOMAIN calls :
           hashes[calls[n][1]] = hash <=> result # NULL /\ n = N
      /\ result = NULL => N = Cardinality(Nodes(root))
      /\ result # NULL => result = calls[N][1]
  BY DEF IInv, WalkComplete
<1>4. \A p \in DOMAIN document : hashes[p] = hash <=> key # NoString /\ document[p].key = key
  BY <1>1, MatchesKey
<1>5. \A p : p \in FoundByHash(key, root) <=> p \in Nodes(root) /\ hashes[p] = hash
  <2>1. \A p \in Nodes(root) : hashes[p] = hash <=> key # NoString /\ document[p].key = key
    BY <1>2, <1>4
  <2> QED
    BY <2>1 DEF FoundByHash, Found
<1>6. ASSUME NEW q \in root .. root + N - 1
      PROVE  q - root + 1 \in DOMAIN calls /\ calls[q - root + 1][1] = q
  <2>1. q - root + 1 \in 1 .. N /\ root + (q - root + 1) - 1 = q
    BY <1>2
  <2> QED
    BY <1>2, <2>1
<1>7. CASE result = NULL
  <2>1. Cardinality(root .. root + N - 1) = N
    <3>1. root \in Int /\ root + N - 1 \in Int /\ root <= root + N - 1
          /\ root + N - 1 - root + 1 = N
      BY <1>2
    <3> QED
      BY <3>1, FS_Interval, SMTT(40)
  <2>2. Nodes(root) = root .. root + N - 1
    BY <1>2, <1>3, <1>7, <2>1, FS_Subset
  <2>3. \A q \in Nodes(root) : hashes[q] # hash
    BY <1>3, <1>6, <1>7, <2>2
  <2>4. FoundByHash(key, root) = {}
    BY <1>5, <2>3
  <2> QED
    BY <1>7, <2>4 DEF FirstFound
<1>8. CASE result # NULL
  <2>1. result = root + N - 1 /\ hashes[result] = hash /\ N \in DOMAIN calls
    BY <1>2, <1>3, <1>8
  <2>2. result \in Nodes(root)
    BY <1>2, <2>1
  <2>3. result \in FoundByHash(key, root)
    BY <1>5, <2>1, <2>2
  <2>4. ASSUME NEW q \in FoundByHash(key, root)
        PROVE  result <= q
    <3> SUFFICES ASSUME q < result
                 PROVE  FALSE
      BY <1>2, <1>5, <2>1
    <3>1. q \in root .. Len(document) /\ hashes[q] = hash
      BY <1>2, <1>5, <2>4
    <3>2. q \in root .. root + N - 1 /\ q - root + 1 # N
      BY <1>2, <2>1, <3>1
    <3> QED
      BY <1>3, <1>6, <3>1, <3>2
  <2>5. FoundByHash(key, root) \subseteq Nat
    BY <1>2, <1>5
  <2>6. /\ Min(FoundByHash(key, root)) \in FoundByHash(key, root)
        /\ \A q \in FoundByHash(key, root) : Min(FoundByHash(key, root)) <= q
    BY <2>3, <2>5, MinIsLeast
  <2>7. Min(FoundByHash(key, root)) = result
    BY <2>3, <2>4, <2>5, <2>6
  <2> QED
    BY <2>3, <2>7 DEF FirstFound
<1> QED
  BY <1>7, <1>8


\* The same of the state a step leads to.
LEMMA SearchEndsNext ==
  (HashesDistinct /\ IInv /\ KeyInv /\ stage = "path" /\ calls # <<>>
     /\ IsHashOf(hash, key) => result = FirstFound(key, root))'
<1>1. HashesDistinct /\ IInv /\ KeyInv /\ stage = "path" /\ calls # <<>>
        /\ IsHashOf(hash, key) => result = FirstFound(key, root)
  BY SearchEnds
<1> QED
  BY <1>1, PTL

-----------------------------------------------------------------------------
(* The steps of getKeyPath again.                                          *)

\* A step that leaves the path and the tree alone, and where the keys are.
LEMMA PathKept ==
  ASSUME UNCHANGED <<document, path>>
  PROVE  /\ Starts(path.text)' = Starts(path.text)
         /\ ResolvedUpTo' = ResolvedUpTo /\ Resolved' = Resolved
         /\ end' = end => Taken' = Taken
<1>1. ResolvedUpTo' = ResolvedUpTo
  BY ResolvedKept
<1>2. Resolved' = Resolved
  BY <1>1 DEF Resolved
<1>3. end' = end => Taken' = Taken
  BY DEF Taken, Before
<1> QED
  BY <1>1, <1>2, <1>3

LEMMA InitEstablishesPath == Init => PInv
<1> SUFFICES ASSUME Init
             PROVE  PInv
  OBVIOUS
<1>1. IInv
  BY InitEstablishes
<1>2. /\ document \in Documents /\ path \in Paths /\ key = NoString /\ hash = NoHash
      /\ hashed = 0 /\ frames = <<>> /\ calls = <<>> /\ stage \in {"path", "root"}
      /\ hashes = [p \in DOMAIN document |-> HashString(document[p].key)]
      /\ result = root
  BY DEF Init
<1>3. KeyInv
  BY <1>2, NoStringHashed DEF KeyInv
<1>4. /\ Len(path.text) \in Nat /\ (Len(path.text) = 0 <=> path.text = NoString)
  BY <1>2, PathFacts
<1>5. CASE stage = "path"
  <2>1. root = 1 /\ end = IF path.text # NoString /\ Char(1) = "/" THEN 2 ELSE 1
    BY <1>5 DEF Init
  <2>2. end \in Starts(path.text) \cup {Len(path.text) + 1}
    <3>1. CASE path.text # NoString /\ Char(1) = "/"
      <4>1. 2 <= Len(path.text) => 2 \in Starts(path.text)
        BY <1>4, <3>1 DEF Starts, Char
      <4>2. Len(path.text) >= 1
        BY <1>4, <3>1
      <4> QED
        BY <1>4, <2>1, <3>1, <4>1, <4>2
    <3>2. CASE ~ (path.text # NoString /\ Char(1) = "/")
      <4>1. 1 <= Len(path.text) => 1 \in Starts(path.text)
        BY <1>4, <3>2 DEF Starts, Char
      <4> QED
        BY <1>4, <2>1, <3>2, <4>1
    <3> QED
      BY <3>1, <3>2
  <2>3. Before(end) = {}
    <3>1. ASSUME NEW q \in Before(end)
          PROVE  FALSE
      <4>1. q \in 1 .. Len(path.text) /\ q < end
            /\ (q = 1 => Char(1) # "/")
        BY DEF Before, Starts, Char
      <4>2. CASE path.text # NoString /\ Char(1) = "/"
        BY <2>1, <4>1, <4>2
      <4>3. CASE ~ (path.text # NoString /\ Char(1) = "/")
        BY <2>1, <4>1, <4>3
      <4> QED
        BY <4>2, <4>3
    <3> QED
      BY <3>1
  <2>4. Taken = 0
    BY <2>3, FS_EmptySet DEF Taken
  <2>5. result = ResolvedUpTo[Taken]
    BY <1>2, <2>1, <2>4, ResolvedFacts
  <2>6. PlaceInv /\ PathInv
    BY <1>2, <1>5, <2>2, <2>5 DEF PlaceInv, PathInv
  <2> QED
    BY <1>1, <1>2, <1>3, <2>6 DEF PInv, TInv, IdleInv
<1>6. CASE stage = "root"
  <2>1. path.text = NoString /\ end = 1
    BY <1>6 DEF Init
  <2>2. PlaceInv /\ PathInv
    BY <1>2, <1>4, <1>6, <2>1 DEF PlaceInv, PathInv
  <2> QED
    BY <1>1, <1>2, <1>3, <1>6, <2>2 DEF PInv, TInv, IdleInv
<1> QED
  BY <1>2, <1>5, <1>6

LEMMA OneBack ==
  ASSUME NEW n \in Nat, NEW m, m = n + 1
  PROVE  m - 1 = n
OBVIOUS

LEMMA TakeKeyTaken ==
  ASSUME TInv, TakeKey
  PROVE  /\ stage = "path" /\ result # NULL /\ stage' = "hash"
         /\ root' = result /\ calls' = <<>> /\ hash' = Seed /\ hashed' = 0
         /\ UNCHANGED <<document, hashes, path, result, frames>>
         /\ path \in Paths /\ path.text # NoString
         /\ Taken' = Taken + 1 /\ Taken' - 1 = Taken
         /\ Taken' \in 1 .. Len(path.keys) /\ key' = path.keys[Taken']
         /\ end' \in Starts(path.text) \cup {Len(path.text) + 1}
<1>1. /\ stage = "path" /\ result # NULL /\ end <= Len(path.text)
      /\ key' = SubSeq(path.text, end, SlashFrom(end) - 1)
      /\ end' = Behind(SlashFrom(end))
      /\ root' = result /\ calls' = <<>> /\ hash' = Seed /\ hashed' = 0
      /\ stage' = "hash"
      /\ UNCHANGED <<document, hashes, path, result, frames>>
  BY DEF TakeKey, tree
<1>2. path \in Paths /\ end \in Starts(path.text)
  BY <1>1, PathFacts DEF TInv, PlaceInv
<1>3. path.text # NoString
  BY <1>2, PathFacts DEF Starts
<1>4. /\ Taken + 1 \in 1 .. Len(path.keys) /\ key' = path.keys[Taken + 1]
      /\ end' \in Starts(path.text) \cup {Len(path.text) + 1}
      /\ Cardinality(Before(end')) = Taken + 1
  BY <1>1, <1>2, KeyTaken DEF Taken
<1>5. Taken' = Taken + 1
  BY <1>1, <1>4 DEF Taken, Before
<1>6. Taken' - 1 = Taken
  <2>1. Taken \in Nat
    BY <1>2, BeforeFacts DEF Taken
  <2> HIDE DEF Taken
  <2> QED
    BY <1>5, <2>1, OneBack
<1> QED
  BY <1>1, <1>2, <1>3, <1>4, <1>5, <1>6

LEMMA TakeKeyKeepsTypes == TInv /\ TakeKey => KeyInv' /\ PlaceInv' /\ IdleInv'
<1> SUFFICES ASSUME TInv, TakeKey
             PROVE  KeyInv' /\ PlaceInv' /\ IdleInv'
  OBVIOUS
<1>1. key' \in DOMAIN Codes
  BY TakeKeyTaken, PathFacts
<1>2. KeyInv'
  <2>1. 0 \in 0 .. Len(Codes[key']) /\ HashedUpTo(key')[0] = Seed
    BY <1>1, HashedFacts
  <2>2. hashes' = [p \in DOMAIN document' |-> HashString(document'[p].key)]
    BY TakeKeyTaken DEF TInv, KeyInv
  <2>3. hash' = HashedUpTo(key')[hashed']
    BY TakeKeyTaken, <2>1
  <2>4. hash' = HashedUpTo(key)[hashed]'
    BY <2>3 DEF HashedUpTo
  <2> QED
    BY TakeKeyTaken, <1>1, <2>1, <2>2, <2>4 DEF KeyInv
<1>3. Starts(path.text)' = Starts(path.text)
  BY TakeKeyTaken, PathKept
<1>4. PlaceInv'
  BY TakeKeyTaken, <1>3 DEF PlaceInv
<1>5. IdleInv'
  BY TakeKeyTaken DEF TInv, IdleInv
<1> QED
  BY <1>2, <1>4, <1>5

LEMMA TakeKeyKeepsPath == PInv /\ TakeKey => PathInv'
<1> SUFFICES ASSUME PInv, TakeKey
             PROVE  PathInv'
  OBVIOUS
<1>1. TInv
  BY DEF PInv
<1>2. result = ResolvedUpTo[Taken]
  BY <1>1, TakeKeyTaken DEF PInv, PathInv, ForPath
<1>3. ResolvedUpTo' = ResolvedUpTo
  BY <1>1, TakeKeyTaken, PathKept
<1>4. root' = ResolvedUpTo'[Taken' - 1]
  <2>1. root' = result /\ Taken' - 1 = Taken
    BY <1>1, TakeKeyTaken
  <2> QED
    BY <1>2, <1>3, <2>1, Zenon
<1>5. Taken' \in 1 .. Len(path'.keys) /\ key' = path'.keys[Taken'] /\ hash' \in Hash
      /\ stage' = "hash"
  BY <1>1, TakeKeyTaken, SeedIsHash
<1> QED
  BY <1>4, <1>5 DEF PathInv

\* The key stays.
LEMMA KeyKept ==
  ASSUME KeyInv, UNCHANGED <<document, hashes, key, hash, hashed>>,
         stage' = "hash" => stage = "hash",
         stage = "hash" /\ stage' # "hash" => hashed = Len(Codes[key])
  PROVE  KeyInv'
<1>1. HashedUpTo(key)' = HashedUpTo(key)
  BY DEF HashedUpTo
<1> QED
  BY <1>1 DEF KeyInv

LEMMA HashByteKeepsTypes ==
  TInv /\ HashByte => KeyInv' /\ PlaceInv' /\ IdleInv' /\ hash' \in Hash
<1> SUFFICES ASSUME TInv, HashByte
             PROVE  KeyInv' /\ PlaceInv' /\ IdleInv' /\ hash' \in Hash
  OBVIOUS
<1>1. /\ stage = "hash" /\ stage' = "hash" /\ hashed # Len(Codes[key])
      /\ hash' = Added(hash, Codes[key][hashed + 1]) /\ hashed' = hashed + 1
      /\ UNCHANGED <<document, hashes, path, end, key, root, result, frames, calls>>
  BY DEF HashByte, AllHashed, tree
<1>2. /\ key \in DOMAIN Codes /\ hashed \in 0 .. Len(Codes[key])
      /\ hash = HashedUpTo(key)[hashed]
      /\ hashes = [p \in DOMAIN document |-> HashString(document[p].key)]
  BY <1>1 DEF TInv, KeyInv
<1>3. hashed \in 0 .. Len(Codes[key]) - 1 /\ hashed + 1 \in 0 .. Len(Codes[key])
  BY <1>1, <1>2, HashedFacts
<1>4. hash' = HashedUpTo(key)[hashed + 1] /\ hash' \in Hash
  BY <1>1, <1>2, <1>3, HashedFacts
<1>5. HashedUpTo(key)' = HashedUpTo(key)
  BY <1>1 DEF HashedUpTo
<1>6. hashes' = [p \in DOMAIN document' |-> HashString(document'[p].key)]
  BY <1>1, <1>2
<1>7. KeyInv'
  BY <1>1, <1>2, <1>3, <1>4, <1>5, <1>6 DEF KeyInv
<1>8. Starts(path.text)' = Starts(path.text)
  BY <1>1, PathKept
<1>9. PlaceInv'
  BY <1>1, <1>8 DEF TInv, PlaceInv
<1>10. IdleInv'
  BY <1>1 DEF TInv, IdleInv
<1> QED
  BY <1>4, <1>7, <1>9, <1>10

LEMMA HashByteKeepsPath == PInv /\ HashByte => PathInv'
<1> SUFFICES ASSUME PInv, HashByte
             PROVE  PathInv'
  OBVIOUS
<1>1. /\ stage = "hash" /\ stage' = "hash"
      /\ UNCHANGED <<document, path, end, key, root, calls>>
  BY DEF HashByte, tree
<1>2. hash' \in Hash
  BY HashByteKeepsTypes DEF PInv
<1>3. Taken' = Taken /\ ResolvedUpTo' = ResolvedUpTo
  BY <1>1, PathKept
<1>4. path.text # NoString =>
        /\ Taken \in 1 .. Len(path.keys) /\ key = path.keys[Taken]
        /\ root = ResolvedUpTo[Taken - 1]
  BY <1>1 DEF PInv, PathInv
<1> QED
  BY <1>1, <1>2, <1>3, <1>4 DEF PathInv

LEMMA SearchKeepsTypes == TInv /\ Search => KeyInv' /\ PlaceInv' /\ IdleInv'
<1> SUFFICES ASSUME TInv, Search
             PROVE  KeyInv' /\ PlaceInv' /\ IdleInv'
  OBVIOUS
<1>1. /\ stage = "hash" /\ stage' = "root" /\ hashed = Len(Codes[key])
      /\ UNCHANGED <<document, hashes, path, end, key, hash, hashed, frames>>
  BY DEF Search, AllHashed, tree, search
<1>2. KeyInv'
  BY <1>1, KeyKept DEF TInv
<1>3. PlaceInv'
  BY <1>1, PathKept DEF TInv, PlaceInv
<1>4. IdleInv'
  BY <1>1 DEF TInv, IdleInv
<1> QED
  BY <1>2, <1>3, <1>4

LEMMA SearchKeepsPath == PInv /\ Search => PathInv'
<1> SUFFICES ASSUME PInv, Search
             PROVE  PathInv'
  OBVIOUS
<1>1. /\ stage = "hash" /\ stage' = "root"
      /\ UNCHANGED <<document, path, end, key, hash, root, calls>>
  BY DEF Search, tree, search
<1>2. Taken' = Taken /\ ResolvedUpTo' = ResolvedUpTo
  BY <1>1, PathKept
<1> QED
  BY <1>1, <1>2 DEF PInv, PathInv

\* Where nothing is found, nothing is found for the keys behind.
LEMMA NothingBehind ==
  ASSUME document \in Documents, path \in Paths, NEW n \in 0 .. Len(path.keys),
         ResolvedUpTo[n] = NULL
  PROVE  Resolved = NULL
<1> DEFINE found == {m \in n .. Len(path.keys) : ResolvedUpTo[m] # NULL}
<1>1. Len(path.keys) \in Nat
      /\ \A m \in 0 .. Len(path.keys) - 1 :
            ResolvedUpTo[m] = NULL => ResolvedUpTo[m + 1] = NULL
  BY ResolvedFacts
<1>2. SUFFICES ASSUME found # {}
               PROVE  FALSE
  BY <1>1 DEF Resolved
<1>3. PICK m \in found : \A l \in found : m <= l
  <2>1. found \subseteq Nat
    BY <1>1
  <2> QED
    BY <1>2, <2>1, LeastNumber
<1>4. m # n /\ m - 1 \in n .. Len(path.keys) /\ m - 1 \notin found
  BY <1>1, <1>3
<1>5. m - 1 \in 0 .. Len(path.keys) - 1 /\ ResolvedUpTo[m - 1] = NULL /\ m - 1 + 1 = m
  BY <1>1, <1>3, <1>4
<1> QED
  BY <1>1, <1>3, <1>5

LEMMA PathReturnsKeepsTypes == TInv /\ PathReturns => KeyInv' /\ PlaceInv' /\ IdleInv'
<1> SUFFICES ASSUME TInv, PathReturns
             PROVE  KeyInv' /\ PlaceInv' /\ IdleInv'
  OBVIOUS
<1>1. /\ stage = "path" /\ stage' = "returned"
      /\ UNCHANGED <<document, hashes, path, end, key, hash, hashed, frames>>
  BY DEF PathReturns, tree, search
<1>2. KeyInv'
  BY <1>1, KeyKept DEF TInv
<1>3. PlaceInv'
  BY <1>1, PathKept DEF TInv, PlaceInv
<1>4. IdleInv'
  BY <1>1 DEF TInv, IdleInv
<1> QED
  BY <1>2, <1>3, <1>4

LEMMA PathReturnsKeepsPath == PInv /\ PathReturns => PathInv'
<1> SUFFICES ASSUME PInv, PathReturns
             PROVE  PathInv'
  OBVIOUS
<1>1. /\ stage = "path" /\ stage' = "returned"
      /\ result = NULL \/ end > Len(path.text)
      /\ UNCHANGED <<document, path, end, result, calls>>
  BY DEF PathReturns, tree, search
<1>2. Resolved' = Resolved
  BY <1>1, PathKept
<1>3. /\ path \in Paths /\ end \in Starts(path.text) \cup {Len(path.text) + 1}
      /\ document \in Documents
  BY DEF PInv, TInv, PlaceInv, IInv, ShapeInv
<1>4. ForPath => result = Resolved
  <2> SUFFICES ASSUME ForPath
               PROVE  result = Resolved
    OBVIOUS
  <2>1. result = ResolvedUpTo[Taken]
    BY <1>1 DEF PInv, PathInv
  <2>2. Taken \in 0 .. Len(path.keys)
    BY <1>3, BeforeFacts DEF Taken
  <2>3. CASE result = NULL
    BY <1>3, <2>1, <2>2, <2>3, NothingBehind
  <2>4. CASE end > Len(path.text)
    <3>1. \A q \in Starts(path.text) : q < end
      BY <1>3, <2>4, PathFacts DEF Starts
    <3>2. Before(end) = Starts(path.text)
      BY <3>1 DEF Before
    <3> QED
      BY <1>3, <2>1, <3>2, PathFacts DEF Taken, Resolved
  <2> QED
    BY <1>1, <2>3, <2>4
<1> QED
  BY <1>1, <1>2, <1>4 DEF PathInv, ForPath

\* The steps of a walk leave the path alone.
LEMMA WalkKeepsTypes ==
  ASSUME TInv, CallRoot \/ Call \/ Return
  PROVE  /\ stage \in {"root", "below"} /\ stage' \in {"path", "below"}
         /\ UNCHANGED <<document, hashes, path, end, key, hash, hashed, root>>
         /\ KeyInv' /\ PlaceInv' /\ IdleInv'
<1>1. /\ stage \in {"root", "below"} /\ stage' \in {"path", "below"}
      /\ stage' = "path" => frames' = <<>>
      /\ UNCHANGED <<document, hashes, path, end, key, hash, hashed, root>>
  BY DEF CallRoot, Call, Return, Returns, tree, search
<1>2. KeyInv'
  BY <1>1, KeyKept DEF TInv
<1>3. PlaceInv'
  BY <1>1, PathKept DEF TInv, PlaceInv
<1>4. IdleInv'
  BY <1>1 DEF IdleInv
<1> QED
  BY <1>1, <1>2, <1>3, <1>4

\* When the walk is over, its result is where the key leads.
LEMMA WalkKeepsPath ==
  ASSUME HashesDistinct, PInv, IInv', CallRoot \/ Call \/ Return
  PROVE  PathInv'
<1>1. TInv /\ IInv
  BY DEF PInv, TInv
<1>2. /\ stage \in {"root", "below"} /\ stage' \in {"path", "below"}
      /\ UNCHANGED <<document, path, end, key, hash, hashed, root>>
      /\ KeyInv'
  BY <1>1, WalkKeepsTypes
<1>3. calls' # <<>>
  <2>1. CASE CallRoot
    <3>1. calls' = <<<<root, 0, 0>>>>
      BY <2>1 DEF CallRoot
    <3> QED
      BY <3>1
  <2>2. CASE Call
    BY <1>1, <2>2, CallKeepsOrder
  <2>3. CASE Return
    <3>1. stage = "below" /\ calls' = calls
      BY <2>3 DEF Return
    <3> QED
      BY <1>1, <3>1 DEF IInv, FramesInv
  <2> QED
    BY <2>1, <2>2, <2>3
<1>4. Taken' = Taken /\ ResolvedUpTo' = ResolvedUpTo
  BY <1>2, PathKept
<1>5. /\ path \in Paths /\ document \in Documents
      /\ path.text # NoString =>
           /\ Taken \in 1 .. Len(path.keys) /\ key = path.keys[Taken]
           /\ hash \in Hash /\ root = ResolvedUpTo[Taken - 1] /\ root \in DOMAIN document
  BY <1>2 DEF PInv, TInv, PlaceInv, PathInv, IInv, ShapeInv
<1>6. ASSUME stage' = "path", path.text # NoString
      PROVE  result' = ResolvedUpTo[Taken]
  <2>1. hash # NoHash
    BY <1>5, <1>6, HashIsNoNoHash
  <2>2. hash' = HashedUpTo(key)[Len(Codes[key])]'
    BY <1>2, <1>6, <2>1 DEF KeyInv, HashedUpTo
  <2>3. IsHashOf(hash, key)'
    BY <1>2, <1>5, <1>6, <2>2 DEF IsHashOf
  <2>4. result' = FirstFound(key, root)'
    BY <1>2, <1>3, <1>6, <2>3, SearchEndsNext
  <2>5. FirstFound(key, root)' = FirstFound(key, root)
    BY <1>2 DEF FirstFound, FoundByHash, Found, Nodes
  <2>6. root # NULL
    BY <1>5, <1>6, DocumentFacts DEF NULL
  <2>7. Taken - 1 \in 0 .. Len(path.keys) - 1 /\ Taken - 1 + 1 = Taken
    BY <1>5, <1>6, ResolvedFacts
  <2>8. ResolvedUpTo[Taken] = FirstFound(path.keys[Taken], ResolvedUpTo[Taken - 1])
    <3>1. ResolvedUpTo[Taken - 1 + 1] =
            IF ResolvedUpTo[Taken - 1] = NULL THEN NULL
            ELSE FirstFound(path.keys[Taken - 1 + 1], ResolvedUpTo[Taken - 1])
      BY <1>5, <2>7, ResolvedFacts
    <3> QED
      BY <1>5, <1>6, <2>6, <2>7, <3>1
  <2> QED
    BY <1>5, <1>6, <2>4, <2>5, <2>8
<1> QED
  BY <1>2, <1>3, <1>4, <1>5, <1>6 DEF PathInv, ForPath

LEMMA TypesStutter == TInv /\ UNCHANGED vars => TInv'
<1> SUFFICES ASSUME TInv, UNCHANGED vars
             PROVE  TInv'
  OBVIOUS
<1>1. UNCHANGED <<stage, document, hashes, path, end, key, hash, hashed, frames>>
  BY DEF vars, tree, search
<1>2. IInv'
  BY StutterPreserves DEF TInv
<1>3. KeyInv'
  BY <1>1, KeyKept DEF TInv, KeyInv
<1>4. PlaceInv'
  BY <1>1, PathKept DEF TInv, PlaceInv
<1>5. IdleInv'
  BY <1>1 DEF TInv, IdleInv
<1> QED
  BY <1>2, <1>3, <1>4, <1>5 DEF TInv

LEMMA PathStutters == PInv /\ UNCHANGED vars => PathInv'
<1> SUFFICES ASSUME PInv, UNCHANGED vars
             PROVE  PathInv'
  OBVIOUS
<1>1. UNCHANGED <<stage, document, path, end, key, hash, root, result, calls>>
  BY DEF vars, tree, search
<1>2. Taken' = Taken /\ ResolvedUpTo' = ResolvedUpTo /\ Resolved' = Resolved
  BY <1>1, PathKept
<1> QED
  BY <1>1, <1>2 DEF PInv, PathInv, ForPath

-----------------------------------------------------------------------------
(* The theorems about keys and paths.                                      *)

\* The hash compared with is at any time that of the bytes of the key hashed
\* so far, and a key of a path is taken from where one begins
\* (parseMetadata.c:240-281, stringHash.c:113-142).
THEOREM KeyInvariant == Spec => []TInv
<1>1. Init => TInv
  BY InitEstablishesPath DEF PInv
<1>2. TInv /\ [Next]_vars => TInv'
  <2> SUFFICES ASSUME TInv, [Next]_vars
               PROVE  TInv'
    OBVIOUS
  <2>1. IInv
    BY DEF TInv
  <2>2. CASE UNCHANGED vars
    BY <2>2, TypesStutter
  <2>3. CASE TakeKey
    BY <2>1, <2>3, TakeKeyPreserves, TakeKeyKeepsTypes DEF TInv
  <2>4. CASE HashByte
    BY <2>1, <2>4, OtherStepsPreserve, HashByteKeepsTypes DEF TInv
  <2>5. CASE Search
    BY <2>1, <2>5, OtherStepsPreserve, SearchKeepsTypes DEF TInv
  <2>6. CASE PathReturns
    BY <2>1, <2>6, OtherStepsPreserve, PathReturnsKeepsTypes DEF TInv
  <2>7. CASE CallRoot \/ Call \/ Return
    <3>1. IInv'
      BY <2>1, <2>7, CallRootPreserves, CallPreserves, ReturnPreserves
    <3> QED
      BY <2>7, <3>1, WalkKeepsTypes DEF TInv
  <2>8. CASE Over
    BY <2>8, TypesStutter DEF Over
  <2> QED
    BY <2>2, <2>3, <2>4, <2>5, <2>6, <2>7, <2>8 DEF Next
<1> QED
  BY <1>1, <1>2, PTL DEF Spec

LEMMA ElementsIn ==
  ASSUME NEW S, NEW T, NEW s \in Seq(S), \A i \in 1 .. Len(s) : s[i] \in T
  PROVE  s \in Seq(T)
OBVIOUS

\* The variables of the walks and of getKeyPath have their types: the path's
\* cursor stays in its text, a hash has four limbs, an activation is at a node.
THEOREM TypeCorrect == Spec => []TypeOK
<1>1. TInv => TypeOK
  <2> SUFFICES ASSUME TInv
               PROVE  TypeOK
    OBVIOUS
  <2>1. /\ document \in Documents /\ root \in DOMAIN document
        /\ stage \in {"path", "hash", "root", "below", "returned"}
        /\ result \in DOMAIN document \cup {NULL}
        /\ frames \in Seq(Activation)
    BY DEF TInv, IInv, ShapeInv
  <2>2. /\ path \in Paths /\ end \in 1 .. Len(path.text) + 1
    BY PathFacts DEF TInv, PlaceInv, Starts
  <2>3. key \in DOMAIN Codes /\ hashed \in 0 .. Len(Codes[key])
    BY DEF TInv, KeyInv
  <2>4. hash \in Hash \cup {NoHash}
    BY <2>3, HashedFacts DEF TInv, KeyInv
  <2>5. hashes \in [DOMAIN document -> Hash]
    <3>1. \A p \in DOMAIN document : HashString(document[p].key) \in Hash
      BY <2>1, PathsAssumption, HashStringIsHash
    <3> QED
      BY <3>1 DEF TInv, KeyInv
  <2>6. frames \in Seq([node : DOMAIN document \cup {NULL}, index : Nat])
    <3> DEFINE AtNode == [node : DOMAIN document \cup {NULL}, index : Nat]
    <3>1. \A f \in DOMAIN frames : frames[f].node \in DOMAIN document \cup {NULL}
      <4>1. CASE stage = "below"
        BY <4>1 DEF TInv, IInv, FramesInv, AtNodes
      <4>2. CASE stage # "below"
        BY <4>2 DEF TInv, IdleInv
      <4> QED
        BY <4>1, <4>2
    <3>2. ASSUME NEW f \in 1 .. Len(frames)
          PROVE  frames[f] \in AtNode
      <4>1. frames[f] \in Activation /\ f \in DOMAIN frames
        BY <2>1
      <4> QED
        BY <3>1, <4>1 DEF Activation
    <3> HIDE DEF AtNode
    <3>3. frames \in Seq(AtNode)
      BY <2>1, <3>2, ElementsIn
    <3> QED
      BY <3>3 DEF AtNode
  <2>7. calls \in Seq((DOMAIN document) \X Nat \X Nat)
    <3> DEFINE AtCall == (DOMAIN document) \X Nat \X Nat
    <3>1. calls \in Seq(Call3) /\ CallsInOrder
      BY DEF TInv, IInv, ShapeInv
    <3>2. ASSUME NEW n \in 1 .. Len(calls)
          PROVE  calls[n] \in AtCall
      <4>1. calls[n] \in Call3 /\ calls # <<>> /\ n \in DOMAIN calls
        BY <3>1, <3>2
      <4>2. calls[n][1] = root + n - 1 /\ root + n - 1 \in Nodes(root)
            /\ Nodes(root) \subseteq DOMAIN document
        BY <3>2, <4>1, CalledNodes DEF TInv, CallsInOrder, IInv
      <4> QED
        BY <4>1, <4>2 DEF Call3
    <3> HIDE DEF AtCall
    <3>3. calls \in Seq(AtCall)
      BY <3>1, <3>2, ElementsIn
    <3> QED
      BY <3>3 DEF AtCall
  <2> QED
    BY <2>1, <2>2, <2>3, <2>4, <2>5, <2>6, <2>7 DEF TypeOK
<1> QED
  BY <1>1, KeyInvariant, PTL

\* If no two keys in use have the same hash, the result is at any time where
\* the keys taken so far lead (parseMetadata.c:215-281).
THEOREM PathInvariant == HashesDistinct => (Spec => []PInv)
<1> SUFFICES ASSUME HashesDistinct
             PROVE  Spec => []PInv
  OBVIOUS
<1>1. Init => PInv
  BY InitEstablishesPath
<1>2. PInv /\ TInv' /\ [Next]_vars => PInv'
  <2> SUFFICES ASSUME PInv, TInv', [Next]_vars
               PROVE  PathInv'
    BY DEF PInv
  <2>1. IInv'
    BY DEF TInv
  <2>2. CASE UNCHANGED vars
    BY <2>2, PathStutters
  <2>3. CASE TakeKey
    BY <2>3, TakeKeyKeepsPath
  <2>4. CASE HashByte
    BY <2>4, HashByteKeepsPath
  <2>5. CASE Search
    BY <2>5, SearchKeepsPath
  <2>6. CASE PathReturns
    BY <2>6, PathReturnsKeepsPath
  <2>7. CASE CallRoot \/ Call \/ Return
    BY <2>1, <2>7, WalkKeepsPath
  <2>8. CASE Over
    BY <2>8, PathStutters DEF Over
  <2> QED
    BY <2>2, <2>3, <2>4, <2>5, <2>6, <2>7, <2>8 DEF Next
<1> QED
  BY <1>1, <1>2, KeyInvariant, PTL DEF Spec

\* The recursion calls back in the order of the tree, ends when it should, and
\* a search by hash finds the first node with the key
\* (parseMetadata.c:155-252).
THEOREM SearchByKey == HashesDistinct => (Spec => []CallsFollowSequence)
<1> SUFFICES ASSUME HashesDistinct
             PROVE  Spec => []CallsFollowSequence
  OBVIOUS
<1>1. PInv => CallsFollowSequence
  <2> SUFFICES ASSUME PInv
               PROVE  CallsFollowSequence
    OBVIOUS
  <2>1. CallsInOrder /\ WalkComplete
    BY DEF PInv, TInv, IInv
  <2>2. HashStandsForKey
    <3> SUFFICES ASSUME stage = "path", calls # <<>>, hash # NoHash
                 PROVE  result = FirstFound(key, root)
      BY DEF HashStandsForKey, FirstFound
    <3>1. key \in DOMAIN Codes /\ hash = HashedUpTo(key)[Len(Codes[key])]
      BY DEF PInv, TInv, KeyInv
    <3>2. Len(Codes[key]) \in 0 .. Len(Codes[key])
      BY <3>1, HashedFacts
    <3>3. IsHashOf(hash, key)
      BY <3>1, <3>2, HashedFacts DEF IsHashOf
    <3> QED
      BY <3>3, SearchEnds DEF PInv, TInv
  <2> QED
    BY <2>1, <2>2 DEF CallsFollowSequence
<1> QED
  BY <1>1, PathInvariant, PTL

\* A path of any number of keys leads where its keys lead one after the other,
\* each searched below the one before, however the slashes stand
\* (parseMetadata.c:240-281).
THEOREM PathsResolved == HashesDistinct => (Spec => []PathResolved)
<1> SUFFICES ASSUME HashesDistinct
             PROVE  Spec => []PathResolved
  OBVIOUS
<1>1. PInv => PathResolved
  BY DEF PInv, PathInv, PathResolved, ForPath
<1> QED
  BY <1>1, PathInvariant, PTL
=============================================================================
