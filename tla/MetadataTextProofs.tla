------------------------- MODULE MetadataTextProofs -------------------------
(***************************************************************************)
(* The parser's types and the shape of what it builds, for every text; and *)
(* for the texts of LVM's format, whole or cut off, what it builds.        *)
(*                                                                         *)
(* While a list of nodes is read it hangs behind its owner by the next     *)
(* pointer, and only when it is complete it is put below; in between, the  *)
(* lists of all the activations of parseChild that have not returned hang  *)
(* behind one another.  So the invariant follows the whole stack: which    *)
(* node each activation will put below which, and that nothing else leads  *)
(* there.                                                                  *)
(*                                                                         *)
(* For a written text the invariant says where in it the parser is, and    *)
(* compares the nodes with the text's by the order they are allocated in:  *)
(* what a node's pointers must be follows from the depths of the nodes     *)
(* behind it, so no induction over the nesting is needed.                  *)
(***************************************************************************)
EXTENDS MetadataFormat, SequenceTheorems, WellFoundedInduction, TLAPS

-----------------------------------------------------------------------------
(* The inductive invariant.                                                *)

Types == {"none", "child", "list", "string", "integer"}

\* The strings the parser makes are pieces of the text.
Strings ==
  {"", "root_node", "integer"}
    \cup {SubSeq(cut[1], cut[2], cut[3]) : cut \in Texts \X Int \X Int}

Values == [to : Nat, string : Strings, integer : Nat]

ListNodes == [next : Nat, key : Strings, type : Types, value : Values]

\* The nodes that can be a heap: no pointer leads out of it.
Heaps ==
  {h \in Seq(ListNodes) :
     \A n \in 1 .. Len(h) :
       h[n].next \in 0 .. Len(h) /\ h[n].value.to \in 0 .. Len(h)}

Activation == [owner : Nat, node : Nat, result : Nat]

\* Activations whose nodes are among the first so many.
Within(fs, size) ==
  \A f \in 1 .. Len(fs) :
    fs[f].owner \in 1 .. size /\ fs[f].node \in 1 .. size /\ fs[f].result \in 0 .. size

TextInv ==
  /\ text \in Texts
  /\ ptr \in 1 .. Size + 1

HeapInv ==
  /\ heap \in Heaps
  /\ failures \in 0 .. MaxFailures

FramesInv ==
  /\ stage \in {"start", "child", "list", "parsed", "failed"}
  /\ frames \in Seq(Activation)
  /\ Within(frames, Len(heap))
  /\ stage \in {"child", "list"} => Len(frames) > 0
  /\ stage = "start" => heap = <<>>

ListInv ==
  /\ last \in 0 .. Len(heap) /\ first \in 0 .. Len(heap)
  /\ stage = "list" => last # NULL
  /\ element \in [type : {"none", "string", "integer"}, value : Values, key : Strings]
  /\ element.value.to = NULL

\* Pointers lead to nodes allocated later, and no two to the same one.
Forest(h) ==
  /\ \A n \in 1 .. Len(h) :
       /\ h[n].next = NULL \/ h[n].next > n
       /\ h[n].value.to = NULL \/ h[n].value.to > n
  /\ \A m, n \in 1 .. Len(h) :
       /\ h[m].next = h[n].next => h[m].next = NULL \/ m = n
       /\ h[m].value.to = h[n].value.to => h[m].value.to = NULL \/ m = n
       /\ h[m].next = h[n].value.to => h[m].next = NULL

\* Each activation was called for the node the one below it was at; its list
\* begins behind its owner.
Nested(fs) ==
  /\ \A f \in 1 .. Len(fs) :
       /\ fs[f].result = NULL => fs[f].node = fs[f].owner
       /\ fs[f].result # NULL => fs[f].node > fs[f].owner
       /\ f > 1 => fs[f].owner = fs[f - 1].node
  /\ \A f, g \in 1 .. Len(fs) : f < g => fs[f].node <= fs[g].owner

\* What an activation will put below its owner hangs behind it.
Hanging(h, fs) ==
  \A f \in 1 .. Len(fs) :
    fs[f].result # NULL => h[fs[f].owner].next = fs[f].result

\* A node is read that nothing hangs behind yet.
ChildAtEnd(h, fs) == h[fs[Len(fs)].node].next = NULL

\* The elements of a list that is read hang behind the node it will be put
\* below, and nothing behind the last of them.
ListAtEnd(h, fs, begin, end) ==
  LET node == fs[Len(fs)].node
  IN  /\ begin = NULL => end = node
      /\ begin # NULL => end > node /\ h[node].next = begin
      /\ h[end].next = NULL

TreeInv ==
  failures = 0 =>
    /\ Forest(heap)
    /\ Nested(frames)
    /\ Hanging(heap, frames)
    /\ stage = "child" => ChildAtEnd(heap, frames)
    /\ stage = "list" => ListAtEnd(heap, frames, first, last)

TypeInv == TextInv /\ HeapInv /\ FramesInv /\ ListInv

IInv == TypeInv /\ TreeInv

-----------------------------------------------------------------------------
(* The buffer.                                                             *)

\* A set of numbers that is not empty has a least one.
LEMMA LeastNumber ==
  ASSUME NEW S, S \subseteq Nat, S # {}
  PROVE  \E x \in S : \A y \in S : x <= y
PROOF
  <1> DEFINE below == OpToRel(<, Nat)
  <1>1. IsWellFoundedOn(below, Nat)
        BY NatLessThanWellFounded
  <1>2. \E x \in S : \A y \in S : ~ (<<y, x>> \in below)
    <2> HIDE DEF below
    <2> QED
        BY <1>1, WFMin
  <1>3. PICK x \in S : \A y \in S : ~ (<<y, x>> \in below)
        BY <1>2
  <1>4. \A y \in S : ~ (y < x)
        BY <1>3 DEF OpToRel
  <1>5. \A y \in S : x <= y
        BY <1>4
  <1> QED
        BY <1>5

\* The length of the block is a number.
LEMMA SizeIsNat ==
  ASSUME text \in Texts
  PROVE  Size \in Nat
PROOF
  BY TextAssumption DEF TextAssumption, Size

\* Min is the least element of a set of numbers that is not empty.
LEMMA MinIsLeast ==
  ASSUME NEW S, S \subseteq Nat, S # {}
  PROVE  Min(S) \in S /\ \A y \in S : Min(S) <= y
PROOF
  <1>1. \E x \in S : \A y \in S : x <= y
        BY LeastNumber
  <1> QED
        BY <1>1 DEF Min

\* A search ends inside the buffer or right behind it, at the first character
\* that is looked for.
LEMMA ToInBuffer ==
  ASSUME text \in Texts, NEW p \in 1 .. Size + 1, NEW chars
  PROVE  /\ To(p, chars) \in p .. Size + 1
         /\ To(p, chars) <= Size => Char(To(p, chars)) \in chars
PROOF
  <1> DEFINE found == {q \in p .. Size : Char(q) \in chars} \cup {Size + 1}
  <1>1. Size \in Nat
        BY SizeIsNat
  <1>2. found \subseteq Nat /\ found # {}
        BY <1>1
  <1>3. To(p, chars) = Min(found)
        BY DEF To
  <1>4. Min(found) \in found
        BY <1>2, MinIsLeast
  <1> QED
        BY <1>1, <1>3, <1>4

\* A run of characters ends in the buffer, or right behind it.
LEMMA PastInBuffer ==
  ASSUME text \in Texts, NEW p \in 1 .. Size + 1, NEW chars
  PROVE  /\ Past(p, chars) \in p .. Size + 1
         /\ \A q \in p .. Past(p, chars) - 1 : Char(q) \in chars
PROOF
  <1> DEFINE found == {q \in p .. Size : Char(q) \notin chars} \cup {Size + 1}
  <1>1. Size \in Nat
        BY SizeIsNat
  <1>2. found \subseteq Nat /\ found # {}
        BY <1>1
  <1>3. Past(p, chars) = Min(found)
        BY DEF Past
  <1>4. Min(found) \in found /\ \A q \in found : Min(found) <= q
        BY <1>2, MinIsLeast
  <1>5. \A q \in p .. Past(p, chars) - 1 : q \in p .. Size /\ q \notin found
        BY <1>1, <1>3, <1>4
  <1> QED
        BY <1>1, <1>3, <1>4, <1>5

\* Reading a character and putting it back stays in the buffer; behind its
\* end neither moves.
LEMMA CursorInBuffer ==
  ASSUME text \in Texts, NEW p \in 1 .. Size + 1
  PROVE  /\ NextChar(p) \in p .. Size + 1
         /\ NextChar(p) \in {p, p + 1}
         /\ PreviousChar(NextChar(p)) \in p .. Size + 1
         /\ p <= Size => PreviousChar(p + 1) \in {p, p + 1}
PROOF
  BY SizeIsNat DEF NextChar, PreviousChar

\* A function that obeys parseInteger's recurrence for the first so many of
\* these digits.
SumsUpTo(f, size, digit) ==
  /\ f = [n \in 0 .. size |-> f[n]]
  /\ \A n \in 0 .. size : f[n] = IF n = 0 THEN 0 ELSE f[n - 1] * 10 + digit[n]

\* What such a function gives are numbers.
LEMMA SumIsNat ==
  ASSUME NEW size \in Nat, NEW digit \in [1 .. size -> Nat], NEW k \in 0 .. size,
         NEW f, SumsUpTo(f, k, digit)
  PROVE  f[k] \in Nat
PROOF
  <1> DEFINE wrong == {n \in 0 .. k : f[n] \notin Nat}
  <1>1. SUFFICES ASSUME wrong # {} PROVE FALSE
        OBVIOUS
  <1>2. wrong \subseteq Nat
        OBVIOUS
  <1>3. PICK n \in wrong : \A m \in wrong : n <= m
        BY <1>1, <1>2, LeastNumber
  <1>4. n # 0
        BY <1>3, SMTT(40) DEF SumsUpTo
  <1>5. n - 1 \in 0 .. k /\ n - 1 \notin wrong
        BY <1>3, <1>4
  <1>6. f[n - 1] \in Nat /\ digit[n] \in Nat
        BY <1>3, <1>4, <1>5
  <1>7. f[n] = f[n - 1] * 10 + digit[n]
        BY <1>3, <1>4 DEF SumsUpTo
  <1> QED
        BY <1>3, <1>6, <1>7, SMTT(40)

\* There is such a function: one for fewer digits can be extended.
LEMMA SumExists ==
  ASSUME NEW size \in Nat, NEW digit \in [1 .. size -> Nat]
  PROVE  \E f : SumsUpTo(f, size, digit)
PROOF
  <1> DEFINE without == {k \in 0 .. size : ~ \E f : SumsUpTo(f, k, digit)}
  <1>1. SUFFICES ASSUME without # {} PROVE FALSE
    <2>1. without = {} => size \notin without
          OBVIOUS
    <2> QED
        BY <2>1
  <1>2. without \subseteq Nat
        OBVIOUS
  <1>3. PICK k \in without : \A j \in without : k <= j
        BY <1>1, <1>2, LeastNumber
  <1>4. CASE k = 0
    <2>1. SumsUpTo([n \in 0 .. 0 |-> 0], 0, digit)
          BY DEF SumsUpTo
    <2> QED
        BY <1>3, <1>4, <2>1
  <1>5. CASE k # 0
    <2>1. k - 1 \in 0 .. size /\ k - 1 \notin without
          BY <1>3, <1>5
    <2>2. PICK f : SumsUpTo(f, k - 1, digit)
          BY <2>1
    <2> DEFINE g == [n \in 0 .. k |-> IF n < k THEN f[n] ELSE f[k - 1] * 10 + digit[k]]
    <2>3. k \in 1 .. size
          BY <1>3, <1>5
    <2>4. ASSUME NEW n \in 0 .. k
          PROVE  g[n] = IF n = 0 THEN 0 ELSE g[n - 1] * 10 + digit[n]
      <3>1. CASE n < k
        <4>1. n \in 0 .. k - 1 /\ (n # 0 => n - 1 \in 0 .. k /\ n - 1 < k)
              BY <2>3, <3>1
        <4>2. f[n] = IF n = 0 THEN 0 ELSE f[n - 1] * 10 + digit[n]
              BY <2>2, <4>1 DEF SumsUpTo
        <4> QED
            BY <3>1, <4>1, <4>2
      <3>2. CASE n = k
            BY <2>3, <3>2
      <3> QED
          BY <2>3, <3>1, <3>2
    <2>5. g = [n \in 0 .. k |-> g[n]]
          OBVIOUS
    <2>6. SumsUpTo(g, k, digit)
      <3> HIDE DEF g
      <3> QED
          BY <2>4, <2>5 DEF SumsUpTo
    <2> QED
        BY <1>3, <2>6
  <1> QED
      BY <1>4, <1>5

\* parseInteger's value of digits is a number.
LEMMA IntegerIsNat ==
  ASSUME NEW p \in Nat, NEW q \in Nat, p <= q,
         \A r \in p .. q - 1 : Char(r) \in Digits
  PROVE  IntegerFrom(p, q) \in Nat
PROOF
  <1> DEFINE size == q - p
             digit == [n \in 1 .. size |-> DigitValue[Char(p + n - 1)]]
             Step(f) == [n \in 0 .. size |->
                           IF n = 0 THEN 0
                           ELSE f[n - 1] * 10 + DigitValue[Char(p + n - 1)]]
             integer == CHOOSE f : f = Step(f)
  <1>1. size \in Nat
        OBVIOUS
  <1>2. DigitValue \in [Digits -> Nat]
        BY DEF DigitValue, Digits
  <1>3. ASSUME NEW n \in 1 .. size
        PROVE  DigitValue[Char(p + n - 1)] \in Nat
    <2>1. p + n - 1 \in p .. q - 1
          BY <1>1
    <2> QED
        BY <1>2, <2>1
  <1>4. digit \in [1 .. size -> Nat]
        BY <1>3
  <1>5. ASSUME NEW f, SumsUpTo(f, size, digit)
        PROVE  f = Step(f)
    <2>1. \A n \in 1 .. size : digit[n] = DigitValue[Char(p + n - 1)]
          OBVIOUS
    <2>2. f = [n \in 0 .. size |-> f[n]]
          BY <1>5 DEF SumsUpTo
    <2>3. ASSUME NEW n \in 0 .. size
          PROVE  f[n] = IF n = 0 THEN 0
                        ELSE f[n - 1] * 10 + DigitValue[Char(p + n - 1)]
      <3>1. f[n] = IF n = 0 THEN 0 ELSE f[n - 1] * 10 + digit[n]
            BY <1>5 DEF SumsUpTo
      <3>2. n # 0 => n \in 1 .. size
            BY <1>1
      <3> HIDE DEF size, digit
      <3> QED
          BY <2>1, <3>1, <3>2
    <2>4. [n \in 0 .. size |-> f[n]] = Step(f)
      <3> HIDE DEF size
      <3> QED
          BY <2>3, Zenon
    <2> QED
        BY <2>2, <2>4, Zenon
  <1>6. ASSUME NEW f, f = Step(f)
        PROVE  SumsUpTo(f, size, digit)
    <2>1. \A n \in 1 .. size : digit[n] = DigitValue[Char(p + n - 1)]
          OBVIOUS
    <2>2. f = [n \in 0 .. size |-> f[n]]
          BY <1>6
    <2>3. \A n \in 0 .. size : f[n] = IF n = 0 THEN 0
                                      ELSE f[n - 1] * 10 + DigitValue[Char(p + n - 1)]
          BY <1>6, Zenon
    <2>4. ASSUME NEW n \in 0 .. size
          PROVE  f[n] = IF n = 0 THEN 0 ELSE f[n - 1] * 10 + digit[n]
      <3>1. n # 0 => n \in 1 .. size
            BY <1>1
      <3> HIDE DEF size, digit
      <3> QED
          BY <2>1, <2>3, <3>1
    <2> HIDE DEF digit, size
    <2> QED
        BY <2>2, <2>4 DEF SumsUpTo
  <1>7. \E f : f = Step(f)
    <2>1. PICK f : SumsUpTo(f, size, digit)
          BY <1>1, <1>4, SumExists
    <2>2. f = Step(f)
          BY <1>5, <2>1
    <2> HIDE DEF Step
    <2> QED
        BY <2>2
  <1>8. integer = Step(integer)
    <2> HIDE DEF Step
    <2> QED
        BY <1>7
  <1>9. SumsUpTo(integer, size, digit)
        BY <1>6, <1>8
  <1>10. integer[size] \in Nat
    <2> HIDE DEF integer, digit
    <2> QED
        BY <1>1, <1>4, <1>9, SumIsNat
  <1>11. IntegerFrom(p, q) = integer[size]
        BY Zenon DEF IntegerFrom
  <1> QED
      BY <1>10, <1>11

-----------------------------------------------------------------------------
(* The operations on the nodes.                                            *)

\* The pointers of two heaps are the same.
SameLinks(h, k) ==
  /\ Len(k) = Len(h)
  /\ \A n \in 1 .. Len(h) : k[n].next = h[n].next /\ k[n].value.to = h[n].value.to

\* A heap has one node more, behind this one.
Extended(h, k, node) ==
  /\ Len(k) = Len(h) + 1
  /\ k[node].next = Len(k)
  /\ k[Len(k)].next = NULL /\ k[Len(k)].value.to = NULL
  /\ \A n \in 1 .. Len(h) :
       /\ k[n].value.to = h[n].value.to
       /\ n # node => k[n].next = h[n].next

\* A heap's nodes are a function of their numbers.
LEMMA HeapIsSequence ==
  ASSUME NEW h \in Heaps
  PROVE  /\ h \in Seq(ListNodes) /\ Len(h) \in Nat
         /\ \A n \in 1 .. Len(h) :
              /\ h[n] \in ListNodes /\ h[n].value \in Values
              /\ h[n].next \in 0 .. Len(h) /\ h[n].value.to \in 0 .. Len(h)
PROOF
  <1>1. h \in Seq(ListNodes) /\ Len(h) \in Nat
        BY DEF Heaps
  <1>2. ASSUME NEW n \in 1 .. Len(h)
        PROVE  /\ h[n] \in ListNodes /\ h[n].value \in Values
               /\ h[n].next \in 0 .. Len(h) /\ h[n].value.to \in 0 .. Len(h)
    <2>1. h[n] \in ListNodes
          BY <1>1
    <2> QED
        BY <2>1 DEF Heaps, ListNodes
  <1> QED
      BY <1>1, <1>2

\* A node can be replaced by any that points into the heap.
LEMMA NodeReplaced ==
  ASSUME NEW h \in Heaps, NEW n \in 1 .. Len(h), NEW x \in ListNodes,
         x.next \in 0 .. Len(h), x.value.to \in 0 .. Len(h)
  PROVE  LET k == [h EXCEPT ![n] = x]
         IN  /\ k \in Heaps /\ Len(k) = Len(h) /\ k[n] = x
             /\ \A m \in 1 .. Len(h) : m # n => k[m] = h[m]
PROOF
  <1> DEFINE k == [h EXCEPT ![n] = x]
  <1>1. h \in Seq(ListNodes) /\ Len(h) \in Nat
        BY HeapIsSequence
  <1>2. k \in Seq(ListNodes) /\ Len(k) = Len(h) /\ k[n] = x
        BY <1>1
  <1>3. \A m \in 1 .. Len(h) : m # n => k[m] = h[m]
        BY <1>1
  <1> HIDE DEF k
  <1>4. ASSUME NEW m \in 1 .. Len(k)
        PROVE  k[m].next \in 0 .. Len(k) /\ k[m].value.to \in 0 .. Len(k)
    <2>1. CASE m = n
          BY <1>2, <2>1
    <2>2. CASE m # n
          BY <1>2, <1>3, <2>2, HeapIsSequence
    <2> QED
        BY <2>1, <2>2
  <1>5. k \in Heaps
        BY <1>2, <1>4 DEF Heaps
  <1> QED
      BY <1>2, <1>3, <1>5 DEF k

\* A key or a type can be written; a value that is no pointer takes the place
\* of what was there.
LEMMA KeyWritten ==
  ASSUME NEW h \in Heaps, NEW n \in 1 .. Len(h), NEW key \in Strings
  PROVE  LET k == [h EXCEPT ![n].key = key] IN k \in Heaps /\ SameLinks(h, k)
PROOF
  <1> DEFINE x == [h[n] EXCEPT !.key = key]
             k == [h EXCEPT ![n] = x]
  <1>1. h[n] \in ListNodes
        BY HeapIsSequence
  <1>2. x \in ListNodes /\ x.next = h[n].next /\ x.value = h[n].value
        BY <1>1 DEF ListNodes
  <1>3. x.next \in 0 .. Len(h) /\ x.value.to \in 0 .. Len(h)
        BY <1>2, HeapIsSequence
  <1>4. [h EXCEPT ![n].key = key] = k
        OBVIOUS
  <1> HIDE DEF x
  <1>5. /\ k \in Heaps /\ Len(k) = Len(h) /\ k[n] = x
        /\ \A m \in 1 .. Len(h) : m # n => k[m] = h[m]
        BY <1>2, <1>3, NodeReplaced
  <1> HIDE DEF k
  <1>6. SameLinks(h, k)
        BY <1>2, <1>5 DEF SameLinks
  <1> QED
      BY <1>4, <1>5, <1>6

\* A node's type is written.
LEMMA TypeWritten ==
  ASSUME NEW h \in Heaps, NEW n \in 1 .. Len(h), NEW type \in Types
  PROVE  LET k == [h EXCEPT ![n].type = type] IN k \in Heaps /\ SameLinks(h, k)
PROOF
  <1> DEFINE x == [h[n] EXCEPT !.type = type]
             k == [h EXCEPT ![n] = x]
  <1>1. h[n] \in ListNodes
        BY HeapIsSequence
  <1>2. x \in ListNodes /\ x.next = h[n].next /\ x.value = h[n].value
        BY <1>1 DEF ListNodes
  <1>3. x.next \in 0 .. Len(h) /\ x.value.to \in 0 .. Len(h)
        BY <1>2, HeapIsSequence
  <1>4. [h EXCEPT ![n].type = type] = k
        OBVIOUS
  <1> HIDE DEF x
  <1>5. /\ k \in Heaps /\ Len(k) = Len(h) /\ k[n] = x
        /\ \A m \in 1 .. Len(h) : m # n => k[m] = h[m]
        BY <1>2, <1>3, NodeReplaced
  <1> HIDE DEF k
  <1>6. SameLinks(h, k)
        BY <1>2, <1>5 DEF SameLinks
  <1> QED
      BY <1>4, <1>5, <1>6

\* The pointers of a heap but for one node's value, which points elsewhere.
Repointed(h, k, n, to) ==
  /\ Len(k) = Len(h)
  /\ k[n].value.to = to
  /\ \A m \in 1 .. Len(h) :
       k[m].next = h[m].next /\ (m # n => k[m].value.to = h[m].value.to)

\* A node's type and a value that is no pointer are written.
LEMMA ValueWritten ==
  ASSUME NEW h \in Heaps, NEW n \in 1 .. Len(h), NEW type \in Types,
         NEW value \in Values, value.to = NULL
  PROVE  LET k == [h EXCEPT ![n].type = type, ![n].value = value]
         IN  k \in Heaps /\ Repointed(h, k, n, NULL)
PROOF
  <1> DEFINE x == [h[n] EXCEPT !.type = type, !.value = value]
             k == [h EXCEPT ![n] = x]
  <1>1. h[n] \in ListNodes /\ Len(h) \in Nat
        BY HeapIsSequence
  <1>2. x \in ListNodes /\ x.next = h[n].next /\ x.value = value
        BY <1>1 DEF ListNodes
  <1>3. x.next \in 0 .. Len(h) /\ x.value.to \in 0 .. Len(h)
        BY <1>1, <1>2, HeapIsSequence DEF NULL
  <1>4. [h EXCEPT ![n].type = type, ![n].value = value] = k
        BY <1>1, HeapIsSequence
  <1> HIDE DEF x
  <1>5. /\ k \in Heaps /\ Len(k) = Len(h) /\ k[n] = x
        /\ \A m \in 1 .. Len(h) : m # n => k[m] = h[m]
        BY <1>2, <1>3, NodeReplaced
  <1> HIDE DEF k
  <1>6. Repointed(h, k, n, NULL)
        BY <1>2, <1>5 DEF Repointed
  <1> QED
      BY <1>4, <1>5, <1>6

\* What calloc gives is a node.
LEMMA BlankIsNode ==
  Blank \in ListNodes /\ Blank.next = NULL /\ Blank.value.to = NULL
PROOF
  <1>1. "" \in Strings
        BY DEF Strings
  <1>2. Pointer(NULL) \in Values /\ Pointer(NULL).to = NULL
        BY <1>1 DEF Pointer, Values, NULL
  <1> QED
      BY <1>1, <1>2 DEF Blank, ListNodes, Types, NULL

\* The next pointer of a node can be written.
LEMMA NextWritten ==
  ASSUME NEW node \in ListNodes, NEW next \in Nat
  PROVE  LET x == [node EXCEPT !.next = next]
         IN  x \in ListNodes /\ x.next = next /\ x.value = node.value
PROOF
  BY DEF ListNodes

\* A node more, behind the others.
LEMMA NodeAppended ==
  ASSUME NEW h \in Seq(ListNodes), NEW x \in ListNodes
  PROVE  LET k == Append(h, x)
         IN  /\ k \in Seq(ListNodes) /\ Len(k) = Len(h) + 1 /\ k[Len(h) + 1] = x
             /\ \A n \in 1 .. Len(h) : k[n] = h[n]
PROOF
  OBVIOUS

\* newNode gives a heap again, with a node more or with a failure more.
LEMMA NewNodeEffect ==
  ASSUME heap \in Heaps, failures \in 0 .. MaxFailures,
         NEW node \in 1 .. Len(heap), NEW new \in NewNode(node)
  PROVE  /\ new.heap \in Heaps
         /\ Len(heap) <= Len(new.heap)
         /\ new.node \in 1 .. Len(new.heap)
         /\ new.failures \in 0 .. MaxFailures
         /\ new.failures = 0 =>
              /\ failures = 0
              /\ new.node = Len(new.heap)
              /\ Extended(heap, new.heap, node)
PROOF
  <1> USE DEF NULL
  <1>1. /\ Len(heap) \in Nat /\ heap \in Seq(ListNodes) /\ heap[node] \in ListNodes
        /\ \A n \in 1 .. Len(heap) :
             heap[n].next \in 0 .. Len(heap) /\ heap[n].value.to \in 0 .. Len(heap)
        /\ MaxFailures \in Nat
        BY HeapIsSequence, TextAssumption DEF TextAssumption
  <1>2. CASE new = [heap |-> Append([heap EXCEPT ![node].next = Len(heap) + 1], Blank),
                    node |-> Len(heap) + 1, failures |-> failures]
    <2> DEFINE x == [heap[node] EXCEPT !.next = Len(heap) + 1]
               linked == [heap EXCEPT ![node] = x]
               k == Append(linked, Blank)
    <2>1. x \in ListNodes /\ x.next = Len(heap) + 1 /\ x.value = heap[node].value
      <3>1. Len(heap) + 1 \in Nat
            BY <1>1
      <3> QED
          BY <1>1, <3>1, NextWritten, Zenon
    <2>2. /\ new.heap = k
          /\ new.node = Len(heap) + 1 /\ new.failures = failures
          BY <1>2
    <2> HIDE DEF x
    <2>3. /\ linked \in Seq(ListNodes) /\ Len(linked) = Len(heap) /\ linked[node] = x
          /\ \A n \in 1 .. Len(heap) : n # node => linked[n] = heap[n]
          BY <1>1, <2>1
    <2> HIDE DEF linked
    <2>4. /\ k \in Seq(ListNodes) /\ Len(k) = Len(heap) + 1
          /\ k[Len(heap) + 1] = Blank
          /\ \A n \in 1 .. Len(heap) : k[n] = linked[n]
          BY <2>3, BlankIsNode, NodeAppended
    <2> HIDE DEF k
    <2>5. Extended(heap, k, node)
          BY <1>1, <2>1, <2>3, <2>4, BlankIsNode DEF Extended
    <2>6. ASSUME NEW n \in 1 .. Len(k)
          PROVE  k[n].next \in 0 .. Len(k) /\ k[n].value.to \in 0 .. Len(k)
      <3>1. CASE n = Len(heap) + 1
            BY <1>1, <2>4, <3>1, BlankIsNode
      <3>2. CASE n = node
            BY <1>1, <2>1, <2>3, <2>4, <3>2
      <3>3. CASE n # node /\ n # Len(heap) + 1
        <4>1. n \in 1 .. Len(heap) /\ k[n] = heap[n]
              BY <1>1, <2>3, <2>4, <3>3, SMTT(40)
        <4> QED
            BY <1>1, <2>4, <4>1
      <3> QED
          BY <3>1, <3>2, <3>3
    <2>7. k \in Heaps
          BY <2>4, <2>6 DEF Heaps
    <2> QED
        BY <1>1, <2>2, <2>4, <2>5, <2>7
  <1>3. CASE /\ failures < MaxFailures
             /\ new = [heap |-> [heap EXCEPT ![node].next = NULL],
                       node |-> node, failures |-> failures + 1]
    <2> DEFINE x == [heap[node] EXCEPT !.next = 0]
    <2>1. x \in ListNodes /\ x.next = 0 /\ x.value = heap[node].value
          BY <1>1 DEF ListNodes
    <2>2. /\ new.heap = [heap EXCEPT ![node] = x]
          /\ new.node = node /\ new.failures = failures + 1
          BY <1>3
    <2> HIDE DEF x
    <2>3. new.heap \in Heaps /\ Len(new.heap) = Len(heap)
          BY <1>1, <2>1, <2>2, NodeReplaced
    <2> QED
        BY <1>1, <1>3, <2>2, <2>3
  <1> QED
      BY <1>2, <1>3 DEF NewNode

\* What is put below its owner is no more behind it.
LEMMA AdoptedEffect ==
  ASSUME NEW h \in Heaps, NEW owner \in 1 .. Len(h), NEW result \in 0 .. Len(h)
  PROVE  LET k == Adopted(h, owner, result)
         IN  /\ k \in Heaps /\ Len(k) = Len(h)
             /\ k[owner].next = NULL /\ k[owner].value.to = result
             /\ \A n \in 1 .. Len(h) : n # owner => k[n] = h[n]
PROOF
  <1> DEFINE x == [h[owner] EXCEPT !.value = Pointer(result), !.next = NULL]
             k == [h EXCEPT ![owner] = x]
  <1>1. h[owner] \in ListNodes /\ Len(h) \in Nat
        BY HeapIsSequence
  <1>2. Pointer(result) \in Values /\ Pointer(result).to = result
        BY <1>1 DEF Pointer, Values, Strings
  <1>3. x \in ListNodes /\ x.next = NULL /\ x.value = Pointer(result)
        BY <1>1, <1>2 DEF ListNodes, NULL
  <1>4. Adopted(h, owner, result) = k
        BY <1>1, HeapIsSequence DEF Adopted
  <1> HIDE DEF x
  <1>5. /\ k \in Heaps /\ Len(k) = Len(h) /\ k[owner] = x
        /\ \A m \in 1 .. Len(h) : m # owner => k[m] = h[m]
        BY <1>1, <1>2, <1>3, NodeReplaced DEF NULL
  <1> HIDE DEF k
  <1> QED
      BY <1>2, <1>3, <1>4, <1>5

-----------------------------------------------------------------------------
(* The forest and the activations.                                         *)

\* Dropping what a node's value points to leaves a forest.
LEMMA ForestRepointed ==
  ASSUME NEW h \in Heaps, NEW k \in Heaps, Forest(h), NEW n \in 1 .. Len(h),
         Repointed(h, k, n, NULL) \/ SameLinks(h, k)
  PROVE  Forest(k)
PROOF
  <1>1. /\ Len(k) = Len(h)
        /\ \A m \in 1 .. Len(h) :
             /\ k[m].next = h[m].next
             /\ k[m].value.to = h[m].value.to \/ k[m].value.to = NULL
        BY DEF Repointed, SameLinks
  <1> QED
      BY <1>1, HeapIsSequence, ZenonT(40) DEF Forest

\* Nothing pointed to the node that was allocated last.
LEMMA ForestExtended ==
  ASSUME NEW h \in Heaps, NEW k \in Heaps, NEW node \in 1 .. Len(h),
         Forest(h), Extended(h, k, node)
  PROVE  Forest(k)
PROOF
  <1> USE DEF NULL
  <1>1. /\ Len(h) \in Nat /\ Len(k) = Len(h) + 1
        /\ \A n \in 1 .. Len(h) :
             h[n].next \in 0 .. Len(h) /\ h[n].value.to \in 0 .. Len(h)
        BY HeapIsSequence DEF Extended
  <1>2. \A i \in 1 .. Len(k) : i \in 1 .. Len(h) \/ i = Len(k)
    <2>1. Len(h) \in Nat /\ Len(k) = Len(h) + 1
          BY <1>1
    <2> QED
        BY <2>1
  <1>3. ASSUME NEW n \in 1 .. Len(k)
        PROVE  /\ k[n].next = NULL \/ k[n].next > n
               /\ k[n].value.to = NULL \/ k[n].value.to > n
    <2>1. CASE n = Len(k)
          BY <2>1 DEF Extended
    <2>2. CASE n # Len(k)
          BY <1>1, <2>2 DEF Extended, Forest
    <2> QED
        BY <2>1, <2>2
  <1>4. ASSUME NEW m \in 1 .. Len(k), NEW n \in 1 .. Len(k)
        PROVE  /\ k[m].next = k[n].next => k[m].next = NULL \/ m = n
               /\ k[m].value.to = k[n].value.to => k[m].value.to = NULL \/ m = n
               /\ k[m].next = k[n].value.to => k[m].next = NULL
    <2>1. CASE m = Len(k)
          BY <1>1, <2>1 DEF Extended
    <2>2. CASE n = Len(k)
          BY <1>1, <2>2 DEF Extended
    <2>3. CASE m \in 1 .. Len(h) /\ n \in 1 .. Len(h)
      <3>1. /\ k[m].value.to = h[m].value.to /\ k[n].value.to = h[n].value.to
            /\ k[m].next = IF m = node THEN Len(h) + 1 ELSE h[m].next
            /\ k[n].next = IF n = node THEN Len(h) + 1 ELSE h[n].next
            BY <1>1, <2>3 DEF Extended
      <3> QED
          BY <1>1, <2>3, <3>1, SMTT(40) DEF Forest
    <2> QED
        BY <1>2, <2>1, <2>2, <2>3, Zenon
  <1> QED
      BY <1>3, <1>4 DEF Forest

\* What hung behind a node hangs below it, and from nowhere else.
LEMMA ForestAdopted ==
  ASSUME NEW h \in Heaps, Forest(h), NEW owner \in 1 .. Len(h),
         NEW result \in 0 .. Len(h),
         result # NULL => h[owner].next = result
  PROVE  Forest(Adopted(h, owner, result))
PROOF
  <1> DEFINE k == Adopted(h, owner, result)
  <1>1. /\ Len(h) \in Nat
        /\ Len(k) = Len(h)
        /\ k[owner].next = NULL /\ k[owner].value.to = result
        /\ \A n \in 1 .. Len(h) : n # owner => k[n] = h[n]
        BY AdoptedEffect, HeapIsSequence
  <1> HIDE DEF k
  <1>2. ASSUME NEW n \in 1 .. Len(h)
        PROVE  /\ k[n].next = NULL \/ k[n].next > n
               /\ k[n].value.to = NULL \/ k[n].value.to > n
    <2>1. CASE n = owner
          BY <1>1, <2>1 DEF Forest
    <2>2. CASE n # owner
          BY <1>1, <2>2 DEF Forest
    <2> QED
        BY <2>1, <2>2
  <1>3. ASSUME NEW m \in 1 .. Len(h), NEW n \in 1 .. Len(h)
        PROVE  /\ k[m].next = k[n].next => k[m].next = NULL \/ m = n
               /\ k[m].value.to = k[n].value.to => k[m].value.to = NULL \/ m = n
               /\ k[m].next = k[n].value.to => k[m].next = NULL
    <2>1. CASE m = owner /\ n = owner
          BY <1>1, <2>1
    <2>2. CASE m = owner /\ n # owner
          BY <1>1, <2>2 DEF Forest
    <2>3. CASE m # owner /\ n = owner
          BY <1>1, <2>3 DEF Forest
    <2>4. CASE m # owner /\ n # owner
          BY <1>1, <2>4 DEF Forest
    <2> QED
        BY <2>1, <2>2, <2>3, <2>4
  <1>4. Forest(k)
        BY <1>1, <1>2, <1>3 DEF Forest
  <1> QED
      BY <1>4 DEF k

\* An activation is a record of the stack.
LEMMA ActivationOfStack ==
  ASSUME NEW fs \in Seq(Activation), NEW size \in Nat, Within(fs, size),
         NEW f \in 1 .. Len(fs)
  PROVE  /\ fs[f] \in Activation /\ Len(fs) \in Nat
         /\ fs[f].owner \in 1 .. size /\ fs[f].node \in 1 .. size
         /\ fs[f].result \in 0 .. size
PROOF
  BY DEF Within

\* A list that has begun belongs to a node before the one that is read.
LEMMA OwnerBeforeNode ==
  ASSUME NEW fs \in Seq(Activation), NEW size \in Nat, Within(fs, size),
         Nested(fs), Len(fs) > 0, NEW f \in 1 .. Len(fs), fs[f].result # NULL
  PROVE  fs[f].owner < fs[Len(fs)].node
PROOF
  <1> DEFINE top == Len(fs)
  <1>1. top \in 1 .. Len(fs)
        OBVIOUS
  <1>2. /\ fs[f].owner \in Nat /\ fs[f].node \in Nat
        /\ fs[top].owner \in Nat /\ fs[top].node \in Nat
        BY <1>1, ActivationOfStack
  <1>3. fs[f].owner < fs[f].node
        BY <1>2 DEF Nested
  <1>4. fs[top].owner <= fs[top].node
        BY <1>1, <1>2 DEF Nested
  <1>5. f # top => fs[f].node <= fs[top].owner
        BY <1>1 DEF Nested
  <1> QED
      BY <1>2, <1>3, <1>4, <1>5

\* The stack with the activation on top at another node.
Advanced(fs, node) ==
  [fs EXCEPT ![Len(fs)].node = node,
             ![Len(fs)].result = IF @ = NULL THEN node ELSE @]

\* The activation on top goes on to a node, the others stay.
LEMMA AdvancedEffect ==
  ASSUME NEW fs \in Seq(Activation), NEW size \in Nat, NEW more \in Nat,
         size <= more, Within(fs, size), Len(fs) > 0, NEW node \in 1 .. more
  PROVE  LET gs  == Advanced(fs, node)
             top == Len(fs)
         IN  /\ gs \in Seq(Activation) /\ Within(gs, more) /\ Len(gs) = Len(fs)
             /\ \A f \in 1 .. Len(fs) : f # top => gs[f] = fs[f]
             /\ gs[top].owner = fs[top].owner /\ gs[top].node = node
             /\ gs[top].result = IF fs[top].result = NULL THEN node ELSE fs[top].result
PROOF
  <1> DEFINE top == Len(fs)
             x == [fs[top] EXCEPT !.node = node,
                                  !.result = IF @ = NULL THEN node ELSE @]
             gs == [fs EXCEPT ![top] = x]
  <1>1. top \in 1 .. Len(fs) /\ fs[top] \in Activation
        BY ActivationOfStack
  <1>2. /\ x \in Activation /\ x.owner = fs[top].owner /\ x.node = node
        /\ x.result = IF fs[top].result = NULL THEN node ELSE fs[top].result
    <2>1. node \in Nat
          OBVIOUS
    <2> DEFINE act == fs[top]
    <2> HIDE DEF act
    <2>2. act \in Activation
          BY <1>1 DEF act
    <2>3. CASE act.result = NULL
          BY <2>1, <2>2, <2>3 DEF Activation, act
    <2>4. CASE act.result # NULL
          BY <2>1, <2>2, <2>4 DEF Activation, act
    <2> QED
        BY <2>3, <2>4
  <1>3. Advanced(fs, node) = gs
        BY <1>1 DEF Advanced
  <1> HIDE DEF x
  <1>4. /\ gs \in Seq(Activation) /\ Len(gs) = Len(fs) /\ gs[top] = x
        /\ \A f \in 1 .. Len(fs) : f # top => gs[f] = fs[f]
        BY <1>1, <1>2
  <1> HIDE DEF gs
  <1>5. ASSUME NEW f \in 1 .. Len(gs)
        PROVE  gs[f].owner \in 1 .. more /\ gs[f].node \in 1 .. more
                 /\ gs[f].result \in 0 .. more
    <2>1. /\ fs[f].owner \in 1 .. size /\ fs[f].node \in 1 .. size
          /\ fs[f].result \in 0 .. size
          BY <1>4, ActivationOfStack
    <2>2. CASE f = top
          BY <1>2, <1>4, <2>1, <2>2, SMTT(40)
    <2>3. CASE f # top
          BY <1>4, <2>1, <2>3
    <2> QED
        BY <2>2, <2>3
  <1>6. Within(gs, more)
        BY <1>5 DEF Within
  <1> QED
      BY <1>2, <1>3, <1>4, <1>6

\* A node behind all others becomes the one that is read.
LEMMA NestedAdvanced ==
  ASSUME NEW fs \in Seq(Activation), NEW size \in Nat, Within(fs, size),
         Nested(fs), Len(fs) > 0
  PROVE  Nested(Advanced(fs, size + 1))
PROOF
  <1> DEFINE gs == Advanced(fs, size + 1)
             top == Len(fs)
  <1>1. /\ Len(gs) = Len(fs)
        /\ \A f \in 1 .. Len(fs) : f # top => gs[f] = fs[f]
        /\ gs[top].owner = fs[top].owner /\ gs[top].node = size + 1
        /\ gs[top].result = IF fs[top].result = NULL THEN size + 1 ELSE fs[top].result
        BY AdvancedEffect
  <1>2. /\ \A f \in 1 .. Len(fs) : /\ fs[f].owner \in 1 .. size
                                   /\ fs[f].result \in 0 .. size
        /\ top \in 1 .. Len(fs)
        BY ActivationOfStack
  <1> HIDE DEF gs
  <1>3. ASSUME NEW f \in 1 .. Len(gs)
        PROVE  /\ gs[f].result = NULL => gs[f].node = gs[f].owner
               /\ gs[f].result # NULL => gs[f].node > gs[f].owner
               /\ f > 1 => gs[f].owner = gs[f - 1].node
    <2>1. f > 1 => fs[f].owner = fs[f - 1].node
          BY <1>1 DEF Nested
    <2>2. f > 1 => gs[f - 1] = fs[f - 1]
          BY <1>1, <1>2
    <2>3. CASE f = top
      <3>1. /\ gs[f].owner = fs[f].owner /\ gs[f].node = size + 1
            /\ gs[f].result = IF fs[f].result = NULL THEN size + 1 ELSE fs[f].result
            BY <1>1, <2>3
      <3>2. fs[f].owner \in 1 .. size
            BY <1>1, <1>2
      <3> QED
          BY <2>1, <2>2, <3>1, <3>2 DEF NULL
    <2>4. CASE f # top
      <3>1. gs[f] = fs[f]
            BY <1>1, <2>4
      <3>2. /\ fs[f].result = NULL => fs[f].node = fs[f].owner
            /\ fs[f].result # NULL => fs[f].node > fs[f].owner
            BY <1>1 DEF Nested
      <3> QED
          BY <2>1, <2>2, <3>1, <3>2
    <2> QED
        BY <2>3, <2>4
  <1>4. ASSUME NEW f \in 1 .. Len(gs), NEW g \in 1 .. Len(gs), f < g
        PROVE  gs[f].node <= gs[g].owner
    <2>1. gs[f] = fs[f] /\ gs[g].owner = fs[g].owner
          BY <1>1, <1>4
    <2> QED
        BY <1>1, <1>4, <2>1 DEF Nested
  <1>5. Nested(gs)
        BY <1>3, <1>4 DEF Nested
  <1> QED
      BY <1>5 DEF gs

-----------------------------------------------------------------------------
(* The steps of the parser.                                                *)

\* What is cut out of the text is one of the strings.
LEMMA DuplicateIsString ==
  ASSUME text \in Texts, NEW start \in Int, NEW p \in Int
  PROVE  Duplicate(start, p) \in Strings
PROOF
  <1>1. p - 2 \in Int
        OBVIOUS
  <1> DEFINE cut == <<text, start, p - 2>>
  <1>2. cut \in Texts \X Int \X Int /\ Duplicate(start, p) = SubSeq(cut[1], cut[2], cut[3])
        BY <1>1 DEF Duplicate
  <1> HIDE DEF cut
  <1> QED
      BY <1>2 DEF Strings

\* What parseValue looks for is in the buffer, or its end is found.
LEMMA ValueStartInBuffer ==
  ASSUME TextInv, ~ AtEnd
  PROVE  /\ ptr \in 1 .. Size /\ Size \in Nat
         /\ ValueStart \in ptr + 1 .. Size + 1
         /\ Char(ValueStart) # "" => ValueStart \in ptr + 1 .. Size
PROOF
  <1>1. Size \in Nat /\ ptr \in 1 .. Size
        BY SizeIsNat DEF TextInv, AtEnd
  <1>2. ptr + 1 \in 1 .. Size + 1
        BY <1>1
  <1>3. ValueStart \in ptr + 1 .. Size + 1
        BY <1>2, ToInBuffer DEF ValueStart, TextInv
  <1>4. Size + 1 \notin 1 .. Size
        BY <1>1
  <1>5. Char(Size + 1) = ""
        BY <1>4, Zenon DEF Char
  <1>6. ValueStart # Size + 1 => ValueStart \in ptr + 1 .. Size
    <2> DEFINE start == ValueStart
    <2> HIDE DEF start
    <2>1. start \in ptr + 1 .. Size + 1
          BY <1>3 DEF start
    <2>2. start # Size + 1 => start \in ptr + 1 .. Size
          BY <1>1, <2>1
    <2> QED
        BY <2>2 DEF start
  <1>7. Char(ValueStart) # "" => ValueStart # Size + 1
        BY <1>5, Zenon
  <1> QED
      BY <1>1, <1>3, <1>6, <1>7, Zenon

\* No character of the buffer is the empty string's.
LEMMA CharsAreNotEmpty ==
  "" \notin Digits \cup {"\n", "[", "\"", ",", "]", "#", "=", "{", "}"}
PROOF
  BY DEF Digits

\* The cursor stays in the buffer, or is right behind it.
LEMMA TextPreserved ==
  ASSUME TextInv, [Next]_vars
  PROVE  TextInv'
PROOF
  <1>1. text \in Texts /\ Size \in Nat /\ ptr \in 1 .. Size + 1
        BY SizeIsNat DEF TextInv
  <1>2. text' = text
        BY DEF Next, AllocateRoot, NoRoot, Comment, Newline, Key, Child,
               ChildReturns, NoValue, ListValue, StringValue, IntegerValue,
               ListString, ListInteger, Comma, Bracket, PassInList, ListCut,
               Over, input, vars
  <1>3. Size' = Size
        BY <1>2 DEF Size
  <1>4. SUFFICES ptr' \in 1 .. Size + 1
        BY <1>1, <1>2, <1>3 DEF TextInv
  <1>5. \A p \in 1 .. Size + 1 : \A chars :
          To(p, chars) \in 1 .. Size + 1 /\ Past(p, chars) \in 1 .. Size + 1
    <2> TAKE p \in 1 .. Size + 1
    <2> TAKE chars
    <2> QED
        BY <1>1, ToInBuffer, PastInBuffer
  <1>6. \A p \in 1 .. Size + 1 :
          NextChar(p) \in 1 .. Size + 1 /\ PreviousChar(NextChar(p)) \in 1 .. Size + 1
    <2> TAKE p \in 1 .. Size + 1
    <2> QED
        BY <1>1, CursorInBuffer
  <1>7. ~ AtEnd => /\ ptr + 1 \in 1 .. Size + 1
                   /\ PreviousChar(ptr + 1) \in 1 .. Size + 1
        BY <1>1 DEF AtEnd, PreviousChar
  <1>8. ~ AtEnd => /\ ValueStart \in 1 .. Size + 1
                   /\ Char(ValueStart) # "" =>
                        /\ ValueStart + 1 \in 1 .. Size + 1
                        /\ PreviousChar(ValueStart + 1) \in 1 .. Size + 1
    <2>1. SUFFICES ASSUME ~ AtEnd
                   PROVE  /\ ValueStart \in 1 .. Size + 1
                          /\ Char(ValueStart) # "" =>
                               /\ ValueStart + 1 \in 1 .. Size + 1
                               /\ PreviousChar(ValueStart + 1) \in 1 .. Size + 1
          OBVIOUS
    <2>2. /\ ptr \in 1 .. Size
          /\ ValueStart \in ptr + 1 .. Size + 1
          /\ Char(ValueStart) # "" => ValueStart \in ptr + 1 .. Size
          BY <2>1, ValueStartInBuffer
    <2>3. \A v \in ptr + 1 .. Size + 1 : v \in 1 .. Size + 1
          BY <1>1
    <2>4. \A v \in ptr + 1 .. Size :
            v + 1 \in 1 .. Size + 1 /\ PreviousChar(v + 1) \in 1 .. Size + 1
          BY <1>1 DEF PreviousChar
    <2> QED
        BY <2>2, <2>3, <2>4, Zenon
  <1>9. CASE AllocateRoot \/ NoRoot \/ ListCut \/ Over \/ UNCHANGED vars
        BY <1>1, <1>9 DEF AllocateRoot, NoRoot, ListCut, Over, input, vars
  <1>10. CASE Comment \/ Newline
         BY <1>5, <1>6, <1>7, <1>10 DEF Comment, Newline, InChild
  <1>11. CASE Key
         BY <1>5, <1>6, <1>7, <1>11 DEF Key, KeyStart, InChild
  <1>12. CASE Child \/ Comma \/ Bracket \/ PassInList
         BY <1>7, <1>12 DEF Child, Comma, Bracket, PassInList, InChild, InList
  <1>13. CASE ChildReturns
         BY <1>1, <1>6, <1>13 DEF ChildReturns
  <1>14. CASE NoValue
         BY <1>6, <1>8, <1>14 DEF NoValue, InValue, InChild
  <1>15. CASE ListValue
         BY <1>8, <1>15 DEF ListValue, InValue, InChild
  <1>16. CASE StringValue
         BY <1>5, <1>6, <1>8, <1>16 DEF StringValue, InValue, InChild
  <1>17. CASE IntegerValue
         BY <1>5, <1>6, <1>8, <1>17, CharsAreNotEmpty DEF IntegerValue, InValue, InChild
  <1>18. CASE ListString
         BY <1>5, <1>6, <1>7, <1>18 DEF ListString, InList
  <1>19. CASE ListInteger
         BY <1>1, <1>5, <1>6, <1>19 DEF ListInteger, InList
  <1> QED
      BY <1>9, <1>10, <1>11, <1>12, <1>13, <1>14, <1>15, <1>16, <1>17, <1>18,
         <1>19 DEF Next

\* What no step changes stays as it is.
LEMMA QuietPreserves ==
  ASSUME IInv, TextInv',
         UNCHANGED <<stage, heap, frames, last, first, element, failures>>
  PROVE  IInv'
PROOF
  <1>1. HeapInv' /\ FramesInv' /\ ListInv'
        BY DEF IInv, TypeInv, HeapInv, FramesInv, ListInv
  <1>2. TreeInv'
        BY DEF IInv, TreeInv
  <1> QED
      BY <1>1, <1>2 DEF IInv, TypeInv

\* The invariant holds before the root is allocated.
LEMMA InitIInv ==
  ASSUME Init
  PROVE  IInv
PROOF
  <1> USE DEF NULL
  <1>1. "" \in Strings
        BY DEF Strings
  <1>2. <<>> \in Heaps /\ <<>> \in Seq(Activation) /\ Within(<<>>, 0)
        BY DEF Heaps, Within
  <1>3. MaxFailures \in Nat
        BY TextAssumption DEF TextAssumption
  <1>4. TextInv
        BY SizeIsNat DEF Init, TextInv
  <1>5. HeapInv /\ FramesInv
        BY <1>2, <1>3 DEF Init, HeapInv, FramesInv
  <1>6. /\ NoElement \in [type : {"none", "string", "integer"}, value : Values,
                          key : Strings]
        /\ NoElement.value.to = NULL
    <2>1. Pointer(NULL) \in Values /\ Pointer(NULL).to = NULL
          BY <1>1 DEF Pointer, Values
    <2> QED
        BY <1>1, <2>1 DEF NoElement
  <1>7. ListInv
        BY <1>6 DEF Init, ListInv
  <1>8. TreeInv
        BY DEF Init, TreeInv, Forest, Nested, Hanging
  <1> QED
      BY <1>4, <1>5, <1>7, <1>8 DEF IInv, TypeInv

\* The root is allocated, and parseChild is called for it.
LEMMA AllocateRootPreserves ==
  ASSUME IInv, AllocateRoot, TextInv'
  PROVE  IInv'
PROOF
  <1> USE DEF NULL
  <1> DEFINE root == [Blank EXCEPT !.key = "root_node", !.type = "child"]
             act == Frame(1)
  <1>1. /\ root \in ListNodes /\ root.next = 0 /\ root.value.to = 0
    <2>1. Blank \in ListNodes /\ Blank.next = 0 /\ Blank.value.to = 0
          BY BlankIsNode
    <2>2. "root_node" \in Strings /\ "child" \in Types
          BY DEF Strings, Types
    <2> QED
        BY <2>1, <2>2 DEF ListNodes
  <1>2. act \in Activation /\ act.owner = 1 /\ act.node = 1 /\ act.result = 0
        BY DEF Frame, Activation
  <1>3. /\ stage' = "child" /\ heap' = <<root>> /\ frames' = <<act>>
        /\ UNCHANGED <<last, first, element, failures>>
        BY DEF AllocateRoot, list
  <1> HIDE DEF root, act
  <1>4. Len(heap') = 1 /\ heap'[1] = root /\ heap' \in Seq(ListNodes)
        BY <1>1, <1>3
  <1>5. Len(frames') = 1 /\ frames'[1] = act /\ frames' \in Seq(Activation)
        BY <1>2, <1>3
  <1>6. heap' \in Heaps
    <2>1. \A n \in 1 .. Len(heap') : heap'[n].next = 0 /\ heap'[n].value.to = 0
          BY <1>1, <1>4
    <2>2. 0 \in 0 .. Len(heap')
          BY <1>4
    <2> QED
        BY <1>4, <2>1, <2>2 DEF Heaps
  <1>7. HeapInv'
        BY <1>3, <1>6 DEF HeapInv, IInv, TypeInv
  <1>8. FramesInv'
        BY <1>2, <1>3, <1>4, <1>5 DEF FramesInv, Within
  <1>9. ListInv'
    <2>1. last = 0 /\ first = 0
      <3>1. heap = <<>>
            BY DEF AllocateRoot, IInv, TypeInv, FramesInv
      <3> QED
          BY <3>1 DEF IInv, TypeInv, ListInv
    <2> QED
        BY <1>3, <1>4, <2>1 DEF ListInv, IInv, TypeInv
  <1>10. TreeInv'
    <2>1. Forest(heap')
          BY <1>1, <1>4 DEF Forest
    <2>2. Nested(frames')
          BY <1>2, <1>5 DEF Nested
    <2>3. Hanging(heap', frames')
          BY <1>2, <1>5 DEF Hanging
    <2>4. ChildAtEnd(heap', frames')
          BY <1>1, <1>2, <1>4, <1>5 DEF ChildAtEnd
    <2> QED
        BY <1>3, <2>1, <2>2, <2>3, <2>4 DEF TreeInv
  <1> QED
      BY <1>7, <1>8, <1>9, <1>10 DEF IInv, TypeInv

\* Without memory for the root the parser is over.
LEMMA NoRootPreserves ==
  ASSUME IInv, NoRoot, TextInv'
  PROVE  IInv'
PROOF
  <1>1. /\ stage' = "failed" /\ failures' = failures + 1 /\ failures < MaxFailures
        /\ UNCHANGED <<heap, frames, last, first, element>>
        BY DEF NoRoot, list
  <1>2. failures \in 0 .. MaxFailures /\ MaxFailures \in Nat
        BY TextAssumption DEF TextAssumption, IInv, TypeInv, HeapInv
  <1>3. failures' \in 0 .. MaxFailures /\ failures' # 0
        BY <1>1, <1>2
  <1>4. HeapInv' /\ FramesInv' /\ ListInv'
        BY <1>1, <1>3 DEF IInv, TypeInv, HeapInv, FramesInv, ListInv
  <1>5. TreeInv'
        BY <1>3 DEF TreeInv
  <1> QED
      BY <1>4, <1>5 DEF IInv, TypeInv

\* Where the functions that read are: at the node of the activation on top.
LEMMA TopOfStack ==
  ASSUME IInv, stage \in {"child", "list"}
  PROVE  /\ heap \in Heaps /\ Len(heap) \in Nat /\ failures \in 0 .. MaxFailures
         /\ frames \in Seq(Activation) /\ Within(frames, Len(heap))
         /\ Len(frames) \in Nat /\ Len(frames) > 0 /\ Len(frames) \in 1 .. Len(frames)
         /\ Top = frames[Len(frames)]
         /\ Top.owner \in 1 .. Len(heap) /\ Top.result \in 0 .. Len(heap)
         /\ Node = Top.node /\ Node \in 1 .. Len(heap)
PROOF
  <1>1. /\ heap \in Heaps /\ Len(heap) \in Nat /\ failures \in 0 .. MaxFailures
        /\ frames \in Seq(Activation) /\ Within(frames, Len(heap))
        /\ Len(frames) > 0
        BY HeapIsSequence DEF IInv, TypeInv, HeapInv, FramesInv
  <1>2. Len(frames) \in Nat /\ Len(frames) \in 1 .. Len(frames)
        BY <1>1
  <1>3. Top = frames[Len(frames)] /\ Node = Top.node
        BY DEF Top, Node, Last
  <1> QED
      BY <1>1, <1>2, <1>3, ActivationOfStack

\* A node more leaves what the activations will put below their owners where
\* it hangs, when it is put behind the node that is read or after.
LEMMA HangingExtended ==
  ASSUME NEW h \in Heaps, NEW k, NEW fs \in Seq(Activation), Within(fs, Len(h)),
         Nested(fs), Hanging(h, fs), Len(fs) > 0,
         NEW node \in 1 .. Len(h), fs[Len(fs)].node <= node, Extended(h, k, node)
  PROVE  Hanging(k, fs)
PROOF
  <1>1. Len(h) \in Nat
        BY HeapIsSequence
  <1>2. ASSUME NEW f \in 1 .. Len(fs), fs[f].result # NULL
        PROVE  k[fs[f].owner].next = fs[f].result
    <2>1. fs[f].owner \in 1 .. Len(h) /\ fs[Len(fs)].node \in 1 .. Len(h)
          BY <1>1, ActivationOfStack
    <2>2. fs[f].owner < fs[Len(fs)].node
          BY <1>1, <1>2, OwnerBeforeNode
    <2>3. fs[f].owner # node
          BY <2>1, <2>2
    <2>4. h[fs[f].owner].next = fs[f].result
          BY <1>2 DEF Hanging
    <2> QED
        BY <2>1, <2>3, <2>4 DEF Extended
  <1> QED
      BY <1>2 DEF Hanging

\* A key begins a node behind the one that is read.
LEMMA KeyPreserves ==
  ASSUME IInv, Key, TextInv'
  PROVE  IInv'
PROOF
  <1> DEFINE key == Duplicate(KeyStart, ptr')
  <1>1. /\ stage = "child" /\ stage' = "child"
        /\ UNCHANGED <<last, first, element>>
        BY DEF Key, InChild, list
  <1>2. CASE key = ""
    <2>1. UNCHANGED <<stage, heap, frames, last, first, element, failures>>
          BY <1>1, <1>2 DEF Key
    <2> QED
        BY <2>1, QuietPreserves
  <1>3. CASE key # ""
    <2>1. PICK new \in NewNode(Node) :
            /\ heap' = [new.heap EXCEPT ![new.node].key = key]
            /\ frames' = Advanced(frames, new.node)
            /\ failures' = new.failures
          BY <1>3 DEF Key, Advanced
    <2>2. key \in Strings
      <3>1. /\ text \in Texts /\ Size \in Nat /\ ptr \in 1 .. Size + 1
            /\ ptr' \in Int
        <4>1. text' = text
              BY DEF Key
        <4> QED
            BY <4>1, SizeIsNat DEF IInv, TypeInv, TextInv, Size
      <3>2. KeyStart \in Int
            BY <3>1 DEF KeyStart, PreviousChar
      <3> QED
          BY <3>1, <3>2, DuplicateIsString
    <2> HIDE DEF key
    <2>3. /\ heap \in Heaps /\ Len(heap) \in Nat /\ failures \in 0 .. MaxFailures
          /\ frames \in Seq(Activation) /\ Within(frames, Len(heap))
          /\ Len(frames) > 0
          /\ Node = frames[Len(frames)].node /\ Node \in 1 .. Len(heap)
          BY <1>1, TopOfStack
    <2>4. /\ new.heap \in Heaps /\ Len(heap) <= Len(new.heap)
          /\ new.node \in 1 .. Len(new.heap) /\ new.failures \in 0 .. MaxFailures
          /\ new.failures = 0 =>
               /\ failures = 0 /\ new.node = Len(new.heap)
               /\ Extended(heap, new.heap, Node)
          BY <2>3, NewNodeEffect
    <2>5. heap' \in Heaps /\ SameLinks(new.heap, heap')
          BY <2>1, <2>2, <2>4, KeyWritten
    <2>6. Len(new.heap) \in Nat /\ Len(heap') = Len(new.heap)
          BY <2>4, <2>5, HeapIsSequence DEF SameLinks
    <2> DEFINE top == Len(frames)
    <2>7. /\ frames' \in Seq(Activation) /\ Within(frames', Len(heap'))
          /\ Len(frames') = top
          /\ \A f \in 1 .. top : f # top => frames'[f] = frames[f]
          /\ frames'[top].owner = frames[top].owner
          /\ frames'[top].node = new.node
          /\ frames'[top].result =
               IF frames[top].result = NULL THEN new.node ELSE frames[top].result
      <3>1. /\ Len(heap') \in Nat /\ Len(heap) <= Len(heap')
            /\ new.node \in 1 .. Len(heap')
            BY <2>4, <2>6
      <3> DEFINE gs == Advanced(frames, new.node)
      <3>2. /\ gs \in Seq(Activation) /\ Within(gs, Len(heap')) /\ Len(gs) = top
            /\ \A f \in 1 .. top : f # top => gs[f] = frames[f]
            /\ gs[top].owner = frames[top].owner /\ gs[top].node = new.node
            /\ gs[top].result =
                 IF frames[top].result = NULL THEN new.node ELSE frames[top].result
            BY <2>3, <3>1, AdvancedEffect
      <3>3. frames' = gs
            BY <2>1
      <3> HIDE DEF gs
      <3> QED
          BY <3>2, <3>3
    <2>8. HeapInv'
          BY <2>1, <2>4, <2>5 DEF HeapInv
    <2>9. FramesInv'
          BY <1>1, <2>3, <2>7 DEF FramesInv
    <2>10. ListInv'
           BY <1>1, <2>4, <2>6, <2>3 DEF ListInv, IInv, TypeInv
    <2>11. ASSUME failures' = 0
           PROVE  /\ Forest(heap') /\ Nested(frames') /\ Hanging(heap', frames')
                  /\ ChildAtEnd(heap', frames')
      <3>1. /\ Forest(heap) /\ Nested(frames) /\ Hanging(heap, frames)
            /\ new.node = Len(new.heap) /\ Extended(heap, new.heap, Node)
            BY <1>1, <2>1, <2>4, <2>11 DEF IInv, TreeInv
      <3>2. Extended(heap, heap', Node)
        <4>1. Len(heap) + 1 = Len(new.heap)
              BY <3>1 DEF Extended
        <4>2. \A n \in 1 .. Len(heap) : n \in 1 .. Len(new.heap)
              BY <2>3, <4>1
        <4>3. Len(new.heap) \in 1 .. Len(new.heap)
              BY <2>3, <4>1
        <4> QED
            BY <2>3, <2>5, <3>1, <4>1, <4>2, <4>3 DEF Extended, SameLinks
      <3>3. new.node = Len(heap) + 1
            BY <3>1 DEF Extended
      <3>4. Forest(heap')
            BY <2>3, <2>5, <3>1, <3>2, ForestExtended
      <3>5. Nested(frames')
            BY <2>1, <2>3, <3>1, <3>3, NestedAdvanced
      <3>6. Hanging(heap', frames)
            BY <2>3, <3>1, <3>2, HangingExtended
      <3>7. ASSUME NEW f \in 1 .. top, frames'[f].result # NULL
            PROVE  heap'[frames'[f].owner].next = frames'[f].result
        <4>1. CASE f # top
              BY <2>7, <3>6, <3>7, <4>1 DEF Hanging
        <4>2. CASE f = top /\ frames[top].result # NULL
              BY <2>7, <3>6, <4>2 DEF Hanging
        <4>3. CASE f = top /\ frames[top].result = NULL
          <5>1. frames[top].node = frames[top].owner
                BY <3>1, <4>3 DEF Nested
          <5>2. heap'[Node].next = Len(heap')
                BY <3>2 DEF Extended
          <5> QED
              BY <2>3, <2>6, <2>7, <3>1, <4>3, <5>1, <5>2
        <4> QED
            BY <4>1, <4>2, <4>3
      <3>8. Hanging(heap', frames')
            BY <2>7, <3>7 DEF Hanging
      <3>9. heap'[Len(heap')].next = NULL
            BY <3>2 DEF Extended
      <3>10. ChildAtEnd(heap', frames')
             BY <2>6, <2>7, <3>1, <3>9 DEF ChildAtEnd
      <3> QED
          BY <3>4, <3>5, <3>8, <3>10
    <2>12. TreeInv'
           BY <1>1, <2>11 DEF TreeInv
    <2> QED
        BY <2>8, <2>9, <2>10, <2>12 DEF IInv, TypeInv
  <1> QED
      BY <1>2, <1>3

\* A brace opens an activation for the node that is read.
LEMMA ChildPreserves ==
  ASSUME IInv, Child, TextInv'
  PROVE  IInv'
PROOF
  <1> DEFINE act == Frame(Node)
             top == Len(frames)
  <1>1. /\ stage = "child" /\ stage' = "child"
        /\ heap' = [heap EXCEPT ![Node].type = "child"]
        /\ frames' = Append(frames, act)
        /\ UNCHANGED <<last, first, element, failures>>
        BY DEF Child, InChild, list
  <1>2. /\ heap \in Heaps /\ Len(heap) \in Nat /\ failures \in 0 .. MaxFailures
        /\ frames \in Seq(Activation) /\ Within(frames, Len(heap))
        /\ top \in Nat /\ top > 0 /\ top \in 1 .. top
        /\ Node = frames[top].node /\ Node \in 1 .. Len(heap)
        BY <1>1, TopOfStack
  <1>3. "child" \in Types
        BY DEF Types
  <1>4. heap' \in Heaps /\ SameLinks(heap, heap')
        BY <1>1, <1>2, <1>3, TypeWritten
  <1>5. /\ Len(heap') = Len(heap)
        /\ \A n \in 1 .. Len(heap) : heap'[n].next = heap[n].next
        BY <1>4 DEF SameLinks
  <1>6. act \in Activation /\ act.owner = Node /\ act.node = Node /\ act.result = NULL
        BY <1>2 DEF Frame, Activation, NULL
  <1> HIDE DEF act
  <1>7. /\ frames' \in Seq(Activation) /\ Len(frames') = top + 1
        /\ frames'[top + 1] = act
        /\ \A f \in 1 .. top : frames'[f] = frames[f]
        BY <1>1, <1>2, <1>6
  <1>8. \A f \in 1 .. Len(frames') : f = top + 1 \/ f \in 1 .. top
        BY <1>2, <1>7
  <1>9. HeapInv'
        BY <1>1, <1>2, <1>4 DEF HeapInv
  <1>10. FramesInv'
    <2>1. ASSUME NEW f \in 1 .. Len(frames')
          PROVE  /\ frames'[f].owner \in 1 .. Len(heap')
                 /\ frames'[f].node \in 1 .. Len(heap')
                 /\ frames'[f].result \in 0 .. Len(heap')
      <3>1. CASE f = top + 1
            BY <1>2, <1>5, <1>6, <1>7, <3>1 DEF NULL
      <3>2. CASE f \in 1 .. top
            BY <1>2, <1>5, <1>7, <3>2, ActivationOfStack
      <3> QED
          BY <1>8, <3>1, <3>2
    <2>2. Within(frames', Len(heap'))
          BY <2>1 DEF Within
    <2> QED
        BY <1>1, <1>2, <1>7, <2>2 DEF FramesInv
  <1>11. ListInv'
         BY <1>1, <1>5 DEF ListInv, IInv, TypeInv
  <1>12. ASSUME failures' = 0
         PROVE  /\ Forest(heap') /\ Nested(frames') /\ Hanging(heap', frames')
                /\ ChildAtEnd(heap', frames')
    <2>1. /\ Forest(heap) /\ Nested(frames) /\ Hanging(heap, frames)
          /\ ChildAtEnd(heap, frames)
          BY <1>1, <1>12 DEF IInv, TreeInv
    <2>2. Forest(heap')
          BY <1>2, <1>4, <2>1, ForestRepointed
    <2>3. ASSUME NEW f \in 1 .. Len(frames')
          PROVE  /\ frames'[f].result = NULL => frames'[f].node = frames'[f].owner
                 /\ frames'[f].result # NULL => frames'[f].node > frames'[f].owner
                 /\ f > 1 => frames'[f].owner = frames'[f - 1].node
      <3>1. CASE f = top + 1
            BY <1>2, <1>6, <1>7, <3>1
      <3>2. CASE f \in 1 .. top
        <4>1. f > 1 => f - 1 \in 1 .. top
              BY <1>2, <3>2
        <4> QED
            BY <1>7, <2>1, <3>2, <4>1 DEF Nested
      <3> QED
          BY <1>8, <3>1, <3>2
    <2>4. ASSUME NEW f \in 1 .. Len(frames'), NEW g \in 1 .. Len(frames'), f < g
          PROVE  frames'[f].node <= frames'[g].owner
      <3>1. f \in 1 .. top
            BY <1>2, <1>7, <2>4
      <3>2. CASE g = top + 1
        <4>1. /\ frames[f].node \in Nat /\ frames[top].node \in Nat
              /\ frames[top].owner \in Nat
              BY <1>2, <3>1, ActivationOfStack, SMTT(40)
        <4>2. f # top => frames[f].node <= frames[top].owner
              BY <1>2, <2>1, <3>1, SMTT(40) DEF Nested
        <4>3. frames[top].owner <= frames[top].node
              BY <1>2, <2>1, <4>1, SMTT(40) DEF Nested
        <4>4. frames'[f] = frames[f] /\ frames'[g].owner = frames[top].node
              BY <1>2, <1>6, <1>7, <3>1, <3>2
        <4> QED
            BY <4>1, <4>2, <4>3, <4>4
      <3>3. CASE g \in 1 .. top
            BY <1>7, <2>1, <2>4, <3>1, <3>3 DEF Nested
      <3> QED
          BY <1>8, <3>2, <3>3
    <2>5. Nested(frames')
          BY <2>3, <2>4 DEF Nested
    <2>6. ASSUME NEW f \in 1 .. Len(frames'), frames'[f].result # NULL
          PROVE  heap'[frames'[f].owner].next = frames'[f].result
      <3>1. f \in 1 .. top
            BY <1>6, <1>7, <1>8, <2>6
      <3>2. frames'[f] = frames[f] /\ frames[f].owner \in 1 .. Len(heap)
            BY <1>2, <1>7, <3>1, ActivationOfStack
      <3> QED
          BY <1>5, <2>1, <2>6, <3>1, <3>2 DEF Hanging
    <2>7. Hanging(heap', frames')
          BY <2>6 DEF Hanging
    <2>8. ChildAtEnd(heap', frames')
          BY <1>2, <1>5, <1>6, <1>7, <2>1 DEF ChildAtEnd
    <2> QED
        BY <2>2, <2>5, <2>7, <2>8
  <1>13. TreeInv'
         BY <1>1, <1>12 DEF TreeInv
  <1> QED
      BY <1>9, <1>10, <1>11, <1>13 DEF IInv, TypeInv

\* What was adopted hangs behind no owner whose list has begun.
LEMMA HangingAdopted ==
  ASSUME NEW h \in Heaps, NEW fs \in Seq(Activation), Within(fs, Len(h)),
         Hanging(h, fs), NEW node \in 1 .. Len(h), NEW result \in 0 .. Len(h),
         \A f \in 1 .. Len(fs) : fs[f].result # NULL => fs[f].owner # node
  PROVE  Hanging(Adopted(h, node, result), fs)
PROOF
  <1> DEFINE k == Adopted(h, node, result)
  <1>1. \A n \in 1 .. Len(h) : n # node => k[n] = h[n]
        BY AdoptedEffect
  <1> HIDE DEF k
  <1>2. ASSUME NEW f \in 1 .. Len(fs), fs[f].result # NULL
        PROVE  k[fs[f].owner].next = fs[f].result
    <2>1. fs[f].owner \in 1 .. Len(h) /\ fs[f].owner # node
          BY <1>2 DEF Within
    <2> QED
        BY <1>1, <1>2, <2>1 DEF Hanging
  <1>3. Hanging(k, fs)
        BY <1>2 DEF Hanging
  <1> QED
      BY <1>3 DEF k

\* Without the activation on top, the others are as they were.
LEMMA FrontOfStack ==
  ASSUME NEW fs \in Seq(Activation), Len(fs) > 0
  PROVE  /\ Front(fs) \in Seq(Activation) /\ Len(Front(fs)) = Len(fs) - 1
         /\ \A f \in 1 .. Len(fs) - 1 : Front(fs)[f] = fs[f]
PROOF
  <1> DEFINE size == Len(fs) - 1
             front == SubSeq(fs, 1, size)
  <1>1. size \in Nat /\ size <= Len(fs)
        OBVIOUS
  <1>2. front = [f \in 1 .. size |-> fs[f]]
        BY <1>1
  <1>3. \A f \in 1 .. size : fs[f] \in Activation
        BY <1>1
  <1> HIDE DEF size
  <1>4. /\ front \in Seq(Activation) /\ Len(front) = size
        /\ \A f \in 1 .. size : front[f] = fs[f]
        BY <1>1, <1>2, <1>3
  <1> QED
      BY <1>4 DEF Front, size

\* parseChild returns to the node it was called for.
LEMMA ChildReturnsPreserves ==
  ASSUME IInv, ChildReturns, TextInv'
  PROVE  IInv'
PROOF
  <1> DEFINE top == Len(frames)
             owner == frames[top].owner
             result == frames[top].result
  <1>1. /\ stage = "child" /\ stage' = IF top = 1 THEN "parsed" ELSE "child"
        /\ heap' = Adopted(heap, Top.owner, Top.result)
        /\ frames' = Front(frames)
        /\ UNCHANGED <<last, first, element, failures>>
        BY DEF ChildReturns, list
  <1>2. /\ heap \in Heaps /\ Len(heap) \in Nat /\ failures \in 0 .. MaxFailures
        /\ frames \in Seq(Activation) /\ Within(frames, Len(heap))
        /\ top \in Nat /\ top > 0 /\ top \in 1 .. top
        /\ Top = frames[top]
        /\ owner \in 1 .. Len(heap) /\ result \in 0 .. Len(heap)
        BY <1>1, TopOfStack
  <1>3. heap' = Adopted(heap, owner, result)
        BY <1>1, <1>2
  <1>4. /\ heap' \in Heaps /\ Len(heap') = Len(heap)
        /\ heap'[owner].next = NULL
        BY <1>2, <1>3, AdoptedEffect, ZenonT(40)
  <1>5. /\ frames' \in Seq(Activation) /\ Len(frames') = top - 1
        /\ \A f \in 1 .. top - 1 : frames'[f] = frames[f]
    <2>1. /\ Front(frames) \in Seq(Activation) /\ Len(Front(frames)) = top - 1
          /\ \A f \in 1 .. top - 1 : Front(frames)[f] = frames[f]
          BY <1>2, FrontOfStack
    <2>2. frames' = Front(frames)
          BY <1>1
    <2> QED
        BY <2>1, <2>2, Zenon
  <1> HIDE DEF owner, result
  <1>6. \A f \in 1 .. top - 1 : f \in 1 .. top
        BY <1>2
  <1>7. HeapInv'
        BY <1>1, <1>2, <1>4 DEF HeapInv
  <1>8. FramesInv'
    <2>1. Within(frames', Len(heap'))
          BY <1>2, <1>4, <1>5, <1>6 DEF Within
    <2>2. stage' \in {"child", "list"} => Len(frames') > 0
          BY <1>1, <1>2, <1>5
    <2> QED
        BY <1>1, <1>5, <2>1, <2>2 DEF FramesInv
  <1>9. ListInv'
        BY <1>1, <1>4 DEF ListInv, IInv, TypeInv
  <1>10. ASSUME failures' = 0
         PROVE  /\ Forest(heap') /\ Nested(frames') /\ Hanging(heap', frames')
                /\ stage' = "child" => ChildAtEnd(heap', frames')
    <2>1. /\ Forest(heap) /\ Nested(frames) /\ Hanging(heap, frames)
          BY <1>1, <1>10 DEF IInv, TreeInv
    <2>2. result # NULL => heap[owner].next = result
          BY <1>2, <2>1 DEF Hanging, owner, result
    <2>3. Forest(heap')
          BY <1>2, <1>3, <2>1, <2>2, ForestAdopted
    <2>4. Nested(frames')
      <3>1. \A f \in 1 .. top - 1 : f > 1 => f - 1 \in 1 .. top - 1
            BY <1>2
      <3> QED
          BY <1>5, <1>6, <2>1, <3>1 DEF Nested
    <2>5. ASSUME NEW f \in 1 .. top - 1
          PROVE  /\ frames[f].result # NULL => frames[f].owner # owner
                 /\ f < top
      <3>1. f < top /\ f \in 1 .. top
            BY <1>2
      <3>2. frames[f].node <= owner
            BY <1>2, <2>1, <3>1 DEF Nested, owner
      <3>3. frames[f].result # NULL => frames[f].owner < frames[f].node
            BY <2>1, <3>1 DEF Nested
      <3>4. frames[f].owner \in Nat /\ frames[f].node \in Nat /\ owner \in Nat
            BY <1>2, <3>1, ActivationOfStack DEF owner
      <3> QED
          BY <3>1, <3>2, <3>3, <3>4
    <2>6. Hanging(heap, frames')
          BY <1>5, <1>6, <2>1 DEF Hanging
    <2>7. Within(frames', Len(heap))
          BY <1>2, <1>5, <1>6 DEF Within
    <2>8. Hanging(heap', frames')
          BY <1>2, <1>3, <1>5, <2>5, <2>6, <2>7, HangingAdopted, SMTT(40)
    <2>9. ASSUME stage' = "child"
          PROVE  ChildAtEnd(heap', frames')
      <3>1. top > 1 /\ top - 1 \in 1 .. top - 1
        <4>1. top # 1
              BY <1>1, <2>9
        <4>2. top \in Nat /\ top > 0
              BY <1>2
        <4> HIDE DEF top
        <4>3. top > 1 /\ top - 1 \in Nat /\ top - 1 >= 1
              BY <4>1, <4>2
        <4> QED
            BY <4>3
      <3>2. frames[top - 1].node = owner
            BY <1>2, <2>1, <3>1 DEF Nested, owner
      <3>3. frames'[Len(frames')].node = owner
            BY <1>5, <3>1, <3>2
      <3> QED
          BY <1>4, <3>3 DEF ChildAtEnd
    <2> QED
        BY <2>3, <2>4, <2>8, <2>9
  <1>11. stage' # "list"
         BY <1>1
  <1>12. TreeInv'
         BY <1>10, <1>11 DEF TreeInv
  <1> QED
      BY <1>7, <1>8, <1>9, <1>12 DEF IInv, TypeInv

\* A bracket begins a list behind the node that is read.
LEMMA ListValuePreserves ==
  ASSUME IInv, ListValue, TextInv'
  PROVE  IInv'
PROOF
  <1> USE DEF NULL
  <1>1. /\ stage = "child" /\ stage' = "list"
        /\ heap' = [heap EXCEPT ![Node].type = "list"]
        /\ last' = Node /\ first' = 0 /\ element' = NoElement
        /\ UNCHANGED <<frames, failures>>
        BY DEF ListValue, InValue, InChild
  <1>2. /\ heap \in Heaps /\ Len(heap) \in Nat /\ failures \in 0 .. MaxFailures
        /\ frames \in Seq(Activation) /\ Within(frames, Len(heap))
        /\ Len(frames) > 0
        /\ Node = frames[Len(frames)].node /\ Node \in 1 .. Len(heap)
        BY <1>1, TopOfStack
  <1>3. "list" \in Types
        BY DEF Types
  <1>4. heap' \in Heaps /\ SameLinks(heap, heap')
        BY <1>1, <1>2, <1>3, TypeWritten
  <1>5. /\ Len(heap') = Len(heap)
        /\ \A n \in 1 .. Len(heap) : heap'[n].next = heap[n].next
        BY <1>4 DEF SameLinks
  <1>6. HeapInv'
        BY <1>1, <1>2, <1>4 DEF HeapInv
  <1>7. FramesInv'
        BY <1>1, <1>2, <1>5 DEF FramesInv
  <1>8. ListInv'
    <2>1. "" \in Strings
          BY DEF Strings
    <2>2. Pointer(0) \in Values /\ Pointer(0).to = 0
          BY <2>1 DEF Pointer, Values
    <2>3. /\ NoElement \in [type : {"none", "string", "integer"}, value : Values,
                            key : Strings]
          /\ NoElement.value.to = 0
          BY <2>1, <2>2 DEF NoElement
    <2>4. last' \in 0 .. Len(heap') /\ first' \in 0 .. Len(heap') /\ last' # 0
          BY <1>1, <1>2, <1>5
    <2> QED
        BY <1>1, <2>3, <2>4 DEF ListInv
  <1>9. ASSUME failures' = 0
        PROVE  /\ Forest(heap') /\ Nested(frames') /\ Hanging(heap', frames')
               /\ ListAtEnd(heap', frames', first', last')
    <2>1. /\ Forest(heap) /\ Nested(frames) /\ Hanging(heap, frames)
          /\ ChildAtEnd(heap, frames)
          BY <1>1, <1>9 DEF IInv, TreeInv
    <2>2. Forest(heap')
          BY <1>2, <1>4, <2>1, ForestRepointed
    <2>3. Hanging(heap', frames')
          BY <1>1, <1>2, <1>5, <2>1 DEF Hanging, Within
    <2>4. ListAtEnd(heap', frames', first', last')
          BY <1>1, <1>2, <1>5, <2>1 DEF ListAtEnd, ChildAtEnd
    <2> QED
        BY <1>1, <2>1, <2>2, <2>3, <2>4
  <1>10. TreeInv'
         BY <1>1, <1>9 DEF TreeInv
  <1> QED
      BY <1>6, <1>7, <1>8, <1>10 DEF IInv, TypeInv

\* What a string and a number are as values.
LEMMA ValuesAreNoPointers ==
  /\ \A string \in Strings : Chars(string) \in Values /\ Chars(string).to = NULL
  /\ \A n \in Nat : Number(n) \in Values /\ Number(n).to = NULL
PROOF
  <1>1. "" \in Strings
        BY DEF Strings
  <1> QED
      BY <1>1 DEF Chars, Number, Values, NULL

\* A value is written to the node that is read.
LEMMA ValueKeepsIInv ==
  ASSUME IInv, stage = "child", NEW type \in Types, NEW value \in Values,
         value.to = NULL,
         heap' = [heap EXCEPT ![Node].type = type, ![Node].value = value],
         UNCHANGED <<stage, frames, last, first, element, failures>>, TextInv'
  PROVE  IInv'
PROOF
  <1>1. /\ heap \in Heaps /\ Len(heap) \in Nat /\ failures \in 0 .. MaxFailures
        /\ frames \in Seq(Activation) /\ Within(frames, Len(heap))
        /\ Len(frames) > 0
        /\ Node = frames[Len(frames)].node /\ Node \in 1 .. Len(heap)
        BY TopOfStack
  <1>2. heap' \in Heaps /\ Repointed(heap, heap', Node, NULL)
        BY <1>1, ValueWritten
  <1>3. /\ Len(heap') = Len(heap)
        /\ \A n \in 1 .. Len(heap) : heap'[n].next = heap[n].next
        BY <1>2 DEF Repointed
  <1>4. HeapInv' /\ FramesInv' /\ ListInv'
        BY <1>1, <1>2, <1>3 DEF HeapInv, FramesInv, ListInv, IInv, TypeInv
  <1>5. ASSUME failures' = 0
        PROVE  /\ Forest(heap') /\ Nested(frames') /\ Hanging(heap', frames')
               /\ ChildAtEnd(heap', frames')
    <2>1. /\ Forest(heap) /\ Nested(frames) /\ Hanging(heap, frames)
          /\ ChildAtEnd(heap, frames)
          BY <1>5 DEF IInv, TreeInv
    <2>2. Forest(heap')
          BY <1>1, <1>2, <2>1, ForestRepointed
    <2>3. Hanging(heap', frames')
          BY <1>1, <1>3, <2>1 DEF Hanging, Within
    <2>4. ChildAtEnd(heap', frames')
          BY <1>1, <1>3, <2>1 DEF ChildAtEnd
    <2> QED
        BY <2>1, <2>2, <2>3, <2>4
  <1>6. TreeInv'
        BY <1>5 DEF TreeInv
  <1> QED
      BY <1>4, <1>6 DEF IInv, TypeInv

\* A string is the value of the node that is read.
LEMMA StringValuePreserves ==
  ASSUME IInv, StringValue, TextInv'
  PROVE  IInv'
PROOF
  <1> DEFINE string == Duplicate(ValueStart + 1, ptr')
  <1>1. /\ stage = "child" /\ ~ AtEnd
        /\ heap' = [heap EXCEPT ![Node].type = "string", ![Node].value = Chars(string)]
        /\ UNCHANGED <<stage, text, frames, last, first, element, failures>>
        BY DEF StringValue, InValue, InChild, list
  <1>2. text \in Texts /\ Size \in Nat /\ ptr' \in Int /\ ValueStart + 1 \in Int
    <2>1. TextInv /\ Size \in Nat
          BY SizeIsNat DEF IInv, TypeInv, TextInv
    <2>2. ValueStart + 1 \in Int
      <3>1. ValueStart \in ptr + 1 .. Size + 1 /\ ptr \in 1 .. Size
            BY <1>1, <2>1, ValueStartInBuffer
      <3>2. \A v \in ptr + 1 .. Size + 1 : v + 1 \in Int
            BY <2>1, <3>1
      <3> QED
          BY <3>1, <3>2, Zenon
    <2>3. ptr' \in Int
          BY <1>1, <2>1 DEF TextInv, Size
    <2> QED
        BY <2>1, <2>2, <2>3 DEF TextInv
  <1>3. string \in Strings
        BY <1>2, DuplicateIsString
  <1> HIDE DEF string
  <1>4. Chars(string) \in Values /\ Chars(string).to = NULL /\ "string" \in Types
        BY <1>3, ValuesAreNoPointers DEF Types
  <1> QED
      BY <1>1, <1>4, ValueKeepsIInv

\* The digits from one character to the first that is none are a number.
LEMMA DigitsAreNat ==
  ASSUME text \in Texts, NEW p \in 1 .. Size + 1
  PROVE  IntegerFrom(p, Past(p, Digits)) \in Nat
PROOF
  <1>1. Size \in Nat /\ p \in Nat
        BY SizeIsNat
  <1>2. /\ Past(p, Digits) \in p .. Size + 1
        /\ \A q \in p .. Past(p, Digits) - 1 : Char(q) \in Digits
        BY PastInBuffer
  <1>3. Past(p, Digits) \in Nat /\ p <= Past(p, Digits)
        BY <1>1, <1>2
  <1> QED
      BY <1>1, <1>2, <1>3, IntegerIsNat

\* So is an integer.
LEMMA IntegerValuePreserves ==
  ASSUME IInv, IntegerValue, TextInv'
  PROVE  IInv'
PROOF
  <1> DEFINE start == PreviousChar(ValueStart + 1)
             n == IntegerFrom(start, Past(start, Digits))
  <1>1. /\ stage = "child" /\ ~ AtEnd
        /\ Char(ValueStart) # ""
        /\ heap' = [heap EXCEPT ![Node].type = "integer", ![Node].value = Number(n)]
        /\ UNCHANGED <<stage, frames, last, first, element, failures>>
        BY CharsAreNotEmpty DEF IntegerValue, InValue, InChild, list
  <1>2. text \in Texts /\ start \in 1 .. Size + 1
    <2>1. TextInv
          BY DEF IInv, TypeInv
    <2>2. ptr \in 1 .. Size /\ Size \in Nat /\ ValueStart \in ptr + 1 .. Size
          BY <1>1, <2>1, ValueStartInBuffer
    <2>3. \A v \in ptr + 1 .. Size : PreviousChar(v + 1) \in 1 .. Size + 1
          BY <2>2 DEF PreviousChar
    <2> QED
        BY <2>1, <2>2, <2>3, Zenon DEF TextInv
  <1> HIDE DEF start
  <1>3. n \in Nat
        BY <1>2, DigitsAreNat
  <1> HIDE DEF n
  <1>4. Number(n) \in Values /\ Number(n).to = NULL /\ "integer" \in Types
        BY <1>3, ValuesAreNoPointers DEF Types
  <1> QED
      BY <1>1, <1>4, ValueKeepsIInv

\* An element that was read waits for its comma.
LEMMA ElementKeepsIInv ==
  ASSUME IInv, TextInv', UNCHANGED <<stage, heap, frames, last, first, failures>>,
         element' \in [type : {"none", "string", "integer"}, value : Values,
                       key : Strings],
         element'.value.to = NULL
  PROVE  IInv'
PROOF
  <1>1. HeapInv' /\ FramesInv' /\ ListInv'
        BY DEF IInv, TypeInv, HeapInv, FramesInv, ListInv
  <1>2. TreeInv'
        BY DEF IInv, TreeInv
  <1> QED
      BY <1>1, <1>2 DEF IInv, TypeInv

\* A string of a list waits for a comma or a bracket.
LEMMA ListStringPreserves ==
  ASSUME IInv, ListString, TextInv'
  PROVE  IInv'
PROOF
  <1> DEFINE string == Duplicate(ptr + 1, ptr')
  <1>1. /\ element' = [type |-> "string", value |-> Chars(string), key |-> string]
        /\ UNCHANGED <<stage, text, heap, frames, last, first, failures>>
        BY DEF ListString
  <1>2. text \in Texts /\ ptr + 1 \in Int /\ ptr' \in Int
    <2>1. text \in Texts /\ Size \in Nat /\ ptr \in 1 .. Size + 1
          BY SizeIsNat DEF IInv, TypeInv, TextInv
    <2>2. ptr' \in Int
          BY <1>1, <2>1 DEF TextInv, Size
    <2> QED
        BY <2>1, <2>2
  <1>3. string \in Strings
        BY <1>2, DuplicateIsString
  <1> HIDE DEF string
  <1>4. Chars(string) \in Values /\ Chars(string).to = NULL
        BY <1>3, ValuesAreNoPointers
  <1> QED
      BY <1>1, <1>3, <1>4, ElementKeepsIInv

\* So does an integer.
LEMMA ListIntegerPreserves ==
  ASSUME IInv, ListInteger, TextInv'
  PROVE  IInv'
PROOF
  <1> DEFINE n == IntegerFrom(ptr, Past(ptr, Digits))
  <1>1. /\ element' = [type |-> "integer", key |-> "integer", value |-> Number(n)]
        /\ UNCHANGED <<stage, heap, frames, last, first, failures>>
        BY DEF ListInteger
  <1>2. n \in Nat
    <2>1. text \in Texts /\ ptr \in 1 .. Size + 1
          BY DEF IInv, TypeInv, TextInv
    <2> QED
        BY <2>1, DigitsAreNat
  <1> HIDE DEF n
  <1>3. /\ Number(n) \in Values /\ Number(n).to = NULL
        /\ "integer" \in Strings
        BY <1>2, ValuesAreNoPointers DEF Strings
  <1> QED
      BY <1>1, <1>3, ElementKeepsIInv

\* The element that waits is appended to the list, or was lost: the list is
\* the same.
LEMMA AppendedEffect ==
  ASSUME IInv, stage = "list", NEW appended \in Appended
  PROVE  /\ appended.heap \in Heaps /\ Len(heap) <= Len(appended.heap)
         /\ Len(appended.heap) \in Nat
         /\ appended.node \in 1 .. Len(appended.heap)
         /\ appended.first \in 0 .. Len(appended.heap)
         /\ appended.failures \in 0 .. MaxFailures
         /\ appended.failures = 0 =>
              /\ failures = 0
              /\ Forest(appended.heap)
              /\ Hanging(appended.heap, frames)
              /\ ListAtEnd(appended.heap, frames, appended.first, appended.node)
PROOF
  <1> USE DEF NULL
  <1>1. /\ heap \in Heaps /\ Len(heap) \in Nat /\ failures \in 0 .. MaxFailures
        /\ frames \in Seq(Activation) /\ Within(frames, Len(heap))
        /\ Len(frames) > 0
        /\ Node = frames[Len(frames)].node /\ Node \in 1 .. Len(heap)
        BY TopOfStack
  <1>2. /\ last \in 1 .. Len(heap) /\ first \in 0 .. Len(heap)
        BY <1>1 DEF IInv, TypeInv, ListInv
  <1>3. /\ element \in [type : {"none", "string", "integer"}, value : Values,
                        key : Strings]
        /\ element.value.to = 0
        BY DEF IInv, TypeInv, ListInv
  <1>4. failures = 0 => /\ Forest(heap) /\ Nested(frames) /\ Hanging(heap, frames)
                        /\ ListAtEnd(heap, frames, first, last)
        BY DEF IInv, TreeInv
  <1>5. CASE element.type = "none"
    <2>1. appended = [heap |-> heap, node |-> last, failures |-> failures, first |-> first]
          BY <1>5 DEF Appended
    <2> QED
        BY <1>1, <1>2, <1>4, <2>1
  <1>6. CASE element.type # "none"
    <2>1. PICK new \in NewNode(last) :
            /\ appended.heap = [new.heap EXCEPT ![new.node].type = element.type,
                                                ![new.node].value = element.value,
                                                ![new.node].key = element.key]
            /\ appended.node = new.node /\ appended.failures = new.failures
            /\ appended.first = IF first = 0 THEN new.node ELSE first
      <3> DEFINE WithElement(new) ==
            [heap |-> [new.heap EXCEPT ![new.node].type = element.type,
                                       ![new.node].value = element.value,
                                       ![new.node].key = element.key],
             node |-> new.node, failures |-> new.failures,
             first |-> IF first = 0 THEN new.node ELSE first]
      <3>1. appended \in {WithElement(new) : new \in NewNode(last)}
            BY <1>6, Zenon DEF Appended
      <3>2. PICK new \in NewNode(last) : appended = WithElement(new)
            BY <3>1, Zenon
      <3> QED
          BY <3>2
    <2>2. /\ new.heap \in Heaps /\ Len(heap) <= Len(new.heap)
          /\ new.node \in 1 .. Len(new.heap) /\ new.failures \in 0 .. MaxFailures
          /\ new.failures = 0 =>
               /\ failures = 0 /\ new.node = Len(new.heap)
               /\ Extended(heap, new.heap, last)
          BY <1>1, <1>2, NewNodeEffect
    <2>3. Len(new.heap) \in Nat
          BY <2>2, HeapIsSequence
    <2>4. element.type \in Types /\ element.value \in Values /\ element.key \in Strings
          BY <1>3 DEF Types
    <2> DEFINE valued == [new.heap EXCEPT ![new.node].type = element.type,
                                          ![new.node].value = element.value]
    <2>5. valued \in Heaps /\ Repointed(new.heap, valued, new.node, 0)
          BY <1>3, <2>2, <2>4, ValueWritten
    <2>6. appended.heap = [valued EXCEPT ![new.node].key = element.key]
          BY <2>1, <2>2, HeapIsSequence
    <2>7. Len(valued) = Len(new.heap)
          BY <2>5 DEF Repointed
    <2> HIDE DEF valued
    <2>8. appended.heap \in Heaps /\ SameLinks(valued, appended.heap)
          BY <2>2, <2>4, <2>5, <2>6, <2>7, KeyWritten
    <2>9. Repointed(new.heap, appended.heap, new.node, 0)
          BY <2>2, <2>5, <2>7, <2>8 DEF Repointed, SameLinks
    <2>10. Len(appended.heap) = Len(new.heap)
           BY <2>9 DEF Repointed
    <2>11. /\ appended.node \in 1 .. Len(appended.heap)
           /\ appended.first \in 0 .. Len(appended.heap)
           BY <1>1, <1>2, <2>1, <2>2, <2>3, <2>10
    <2>12. ASSUME appended.failures = 0
           PROVE  /\ failures = 0
                  /\ Forest(appended.heap)
                  /\ Hanging(appended.heap, frames)
                  /\ ListAtEnd(appended.heap, frames, appended.first, appended.node)
      <3>1. /\ failures = 0 /\ new.node = Len(new.heap)
            /\ Extended(heap, new.heap, last)
            BY <2>1, <2>2, <2>12
      <3>2. /\ Forest(heap) /\ Nested(frames) /\ Hanging(heap, frames)
            /\ ListAtEnd(heap, frames, first, last)
            BY <1>4, <3>1
      <3>3. Extended(heap, appended.heap, last)
        <4>1. Len(new.heap) = Len(heap) + 1
              BY <3>1 DEF Extended
        <4>2. \A n \in 1 .. Len(heap) : n \in 1 .. Len(new.heap) /\ n # new.node
              BY <1>1, <3>1, <4>1
        <4>3. Len(new.heap) \in 1 .. Len(new.heap)
              BY <1>1, <4>1
        <4> QED
            BY <1>2, <2>9, <3>1, <4>1, <4>2, <4>3 DEF Extended, Repointed
      <3>4. Forest(appended.heap)
            BY <1>1, <1>2, <2>8, <3>2, <3>3, ForestExtended
      <3>5. Node <= last
            BY <1>1, <1>2, <3>2 DEF ListAtEnd
      <3>6. Hanging(appended.heap, frames)
            BY <1>1, <1>2, <3>2, <3>3, <3>5, HangingExtended
      <3>7. new.node = Len(heap) + 1
            BY <3>1 DEF Extended
      <3>8. /\ appended.heap[new.node].next = 0
            /\ appended.heap[last].next = new.node
            /\ Node # last => appended.heap[Node].next = heap[Node].next
            BY <1>1, <1>2, <3>3, <3>7 DEF Extended
      <3>9. ListAtEnd(appended.heap, frames, appended.first, appended.node)
        <4>1. CASE first = 0
          <5>1. last = Node
                BY <1>1, <3>2, <4>1 DEF ListAtEnd
          <5>2. appended.first = new.node /\ new.node > Node
                BY <1>1, <2>1, <3>7, <4>1
          <5> QED
              BY <1>1, <2>1, <3>7, <3>8, <5>1, <5>2 DEF ListAtEnd
        <4>2. CASE first # 0
          <5>1. last > Node /\ heap[Node].next = first
                BY <1>1, <3>2, <4>2 DEF ListAtEnd
          <5>2. appended.first = first /\ new.node > Node /\ Node # last
                BY <1>1, <1>2, <2>1, <3>7, <4>2, <5>1
          <5> QED
              BY <1>1, <2>1, <3>8, <4>2, <5>1, <5>2 DEF ListAtEnd
        <4> QED
            BY <4>1, <4>2
      <3> QED
          BY <3>1, <3>4, <3>6, <3>9
    <2> QED
        BY <2>1, <2>2, <2>3, <2>8, <2>10, <2>11, <2>12
  <1> QED
      BY <1>5, <1>6

\* A comma makes the element that waits the list's next node.
LEMMA CommaPreserves ==
  ASSUME IInv, Comma, TextInv'
  PROVE  IInv'
PROOF
  <1> USE DEF NULL
  <1>1. PICK appended \in Appended :
          /\ heap' = appended.heap /\ last' = appended.node
          /\ first' = appended.first /\ failures' = appended.failures
        BY DEF Comma
  <1>2. /\ stage = "list" /\ stage' = "list" /\ frames' = frames
        /\ element' = NoElement
        BY DEF Comma, InList
  <1>3. /\ heap' \in Heaps /\ Len(heap) <= Len(heap') /\ Len(heap') \in Nat
        /\ last' \in 1 .. Len(heap') /\ first' \in 0 .. Len(heap')
        /\ failures' \in 0 .. MaxFailures
        /\ failures' = 0 =>
             /\ failures = 0 /\ Forest(heap') /\ Hanging(heap', frames)
             /\ ListAtEnd(heap', frames, first', last')
        BY <1>1, <1>2, AppendedEffect
  <1>4. HeapInv'
        BY <1>3 DEF HeapInv
  <1>5. FramesInv'
    <2>1. /\ frames \in Seq(Activation) /\ Within(frames, Len(heap))
          /\ Len(frames) > 0 /\ Len(heap) \in Nat
          BY <1>2, TopOfStack
    <2>2. Within(frames, Len(heap'))
          BY <1>3, <2>1 DEF Within
    <2> QED
        BY <1>2, <2>1, <2>2 DEF FramesInv
  <1>6. ListInv'
    <2>1. "" \in Strings
          BY DEF Strings
    <2>2. Pointer(0) \in Values /\ Pointer(0).to = 0
          BY <2>1 DEF Pointer, Values
    <2>3. /\ NoElement \in [type : {"none", "string", "integer"}, value : Values,
                            key : Strings]
          /\ NoElement.value.to = 0
          BY <2>1, <2>2 DEF NoElement
    <2> QED
        BY <1>2, <1>3, <2>3 DEF ListInv
  <1>7. TreeInv'
    <2>1. failures = 0 => Nested(frames)
          BY DEF IInv, TreeInv
    <2> QED
        BY <1>2, <1>3, <2>1 DEF TreeInv
  <1> QED
      BY <1>4, <1>5, <1>6, <1>7 DEF IInv, TypeInv

\* The list is put below the node it was read for.
LEMMA ListAdopted ==
  ASSUME IInv, stage = "list", stage' = "child", TextInv',
         UNCHANGED <<frames, last, first, element>>,
         NEW h \in Heaps, Len(h) \in Nat, Len(heap) <= Len(h),
         NEW begin \in 0 .. Len(h), NEW end,
         heap' = Adopted(h, Node, begin), failures' \in 0 .. MaxFailures,
         failures' = 0 => /\ failures = 0 /\ Forest(h) /\ Hanging(h, frames)
                          /\ ListAtEnd(h, frames, begin, end)
  PROVE  IInv'
PROOF
  <1>1. /\ heap \in Heaps /\ Len(heap) \in Nat
        /\ frames \in Seq(Activation) /\ Within(frames, Len(heap))
        /\ Len(frames) > 0
        /\ Node = frames[Len(frames)].node /\ Node \in 1 .. Len(heap)
        BY TopOfStack
  <1>2. Node \in 1 .. Len(h)
        BY <1>1
  <1>3. /\ heap' \in Heaps /\ Len(heap') = Len(h) /\ heap'[Node].next = NULL
        BY <1>2, AdoptedEffect
  <1>4. Within(frames, Len(h))
        BY <1>1 DEF Within
  <1>5. HeapInv'
        BY <1>3 DEF HeapInv
  <1>6. FramesInv'
        BY <1>1, <1>3, <1>4 DEF FramesInv
  <1>7. ListInv'
        BY <1>1, <1>3 DEF ListInv, IInv, TypeInv
  <1>8. ASSUME failures' = 0
        PROVE  /\ Forest(heap') /\ Nested(frames') /\ Hanging(heap', frames')
               /\ ChildAtEnd(heap', frames')
    <2>1. /\ Forest(h) /\ Nested(frames) /\ Hanging(h, frames)
          /\ ListAtEnd(h, frames, begin, end)
          BY <1>8 DEF IInv, TreeInv
    <2>2. begin # NULL => h[Node].next = begin
          BY <1>1, <2>1 DEF ListAtEnd
    <2>3. Forest(heap')
          BY <1>2, <2>1, <2>2, ForestAdopted
    <2>4. ASSUME NEW f \in 1 .. Len(frames), frames[f].result # NULL
          PROVE  frames[f].owner # Node
      <3>1. frames[f].owner < Node
            BY <1>1, <2>1, <2>4, OwnerBeforeNode
      <3>2. frames[f].owner \in Nat /\ Node \in Nat
            BY <1>1, ActivationOfStack
      <3> QED
          BY <3>1, <3>2
    <2>5. Hanging(heap', frames)
          BY <1>1, <1>2, <1>4, <2>1, <2>4, HangingAdopted
    <2>6. ChildAtEnd(heap', frames')
          BY <1>1, <1>3 DEF ChildAtEnd
    <2> QED
        BY <2>1, <2>3, <2>5, <2>6
  <1>9. TreeInv'
        BY <1>8 DEF TreeInv
  <1> QED
      BY <1>5, <1>6, <1>7, <1>9 DEF IInv, TypeInv

\* A bracket does so too, and puts the list below its node.
LEMMA BracketPreserves ==
  ASSUME IInv, Bracket, TextInv'
  PROVE  IInv'
PROOF
  <1>1. PICK appended \in Appended :
          /\ heap' = Adopted(appended.heap, Node, appended.first)
          /\ failures' = appended.failures
        BY DEF Bracket
  <1>2. /\ stage = "list" /\ stage' = "child"
        /\ UNCHANGED <<frames, last, first, element>>
        BY DEF Bracket, InList, list
  <1> QED
      BY <1>1, <1>2, AppendedEffect, ListAdopted

\* At the buffer's end the list so far is put below its node.
LEMMA ListCutPreserves ==
  ASSUME IInv, ListCut, TextInv'
  PROVE  IInv'
PROOF
  <1>1. /\ stage = "list" /\ stage' = "child"
        /\ heap' = Adopted(heap, Node, first)
        /\ UNCHANGED <<frames, last, first, element, failures>>
        BY DEF ListCut, list
  <1>2. /\ heap \in Heaps /\ Len(heap) \in Nat /\ failures \in 0 .. MaxFailures
        BY <1>1, TopOfStack
  <1>3. first \in 0 .. Len(heap)
        BY DEF IInv, TypeInv, ListInv
  <1>4. failures = 0 => /\ Forest(heap) /\ Hanging(heap, frames)
                        /\ ListAtEnd(heap, frames, first, last)
        BY <1>1 DEF IInv, TreeInv
  <1>5. Len(heap) <= Len(heap)
        BY <1>2
  <1> QED
      BY <1>1, <1>2, <1>3, <1>4, <1>5, ListAdopted

-----------------------------------------------------------------------------
(* The theorems.                                                           *)

LEMMA StepPreserves ==
  ASSUME IInv, [Next]_vars
  PROVE  IInv'
PROOF
  <1>1. TextInv'
        BY TextPreserved DEF IInv, TypeInv
  <1>2. CASE AllocateRoot
        BY <1>1, <1>2, AllocateRootPreserves
  <1>3. CASE NoRoot
        BY <1>1, <1>3, NoRootPreserves
  <1>4. CASE Comment \/ Newline \/ NoValue \/ PassInList \/ Over \/ UNCHANGED vars
    <2>1. UNCHANGED <<stage, heap, frames, last, first, element, failures>>
          BY <1>4 DEF Comment, Newline, NoValue, PassInList, Over, vars, list
    <2> QED
        BY <1>1, <2>1, QuietPreserves
  <1>5. CASE Key
        BY <1>1, <1>5, KeyPreserves
  <1>6. CASE Child
        BY <1>1, <1>6, ChildPreserves
  <1>7. CASE ChildReturns
        BY <1>1, <1>7, ChildReturnsPreserves
  <1>8. CASE ListValue
        BY <1>1, <1>8, ListValuePreserves
  <1>9. CASE StringValue
        BY <1>1, <1>9, StringValuePreserves
  <1>10. CASE IntegerValue
         BY <1>1, <1>10, IntegerValuePreserves
  <1>11. CASE ListString
         BY <1>1, <1>11, ListStringPreserves
  <1>12. CASE ListInteger
         BY <1>1, <1>12, ListIntegerPreserves
  <1>13. CASE Comma
         BY <1>1, <1>13, CommaPreserves
  <1>14. CASE Bracket
         BY <1>1, <1>14, BracketPreserves
  <1>15. CASE ListCut
         BY <1>1, <1>15, ListCutPreserves
  <1> QED
      BY <1>2, <1>3, <1>4, <1>5, <1>6, <1>7, <1>8, <1>9, <1>10, <1>11, <1>12,
         <1>13, <1>14, <1>15 DEF Next

\* The inductive invariant: on the way through any text, the nodes are a
\* forest, each list that is read hangs behind the node it will be put below,
\* and behind the node that is read there is nothing yet.
THEOREM Invariant == Spec => []IInv
PROOF
  <1>1. Init => IInv
        BY InitIInv
  <1>2. IInv /\ [Next]_vars => IInv'
        BY StepPreserves
  <1> QED
      BY <1>1, <1>2, PTL DEF Spec

\* The invariant says of all that it has its type.
LEMMA IInvTypes ==
  ASSUME IInv
  PROVE  TypeOK
PROOF
  <1>1. text \in STRING
        BY TextAssumption DEF TextAssumption, IInv, TypeInv, TextInv
  <1>2. heap \in Heaps /\ DOMAIN heap = 1 .. Len(heap) /\ Len(heap) \in Nat
        BY HeapIsSequence DEF IInv, TypeInv, HeapInv
  <1>3. ASSUME NEW n \in DOMAIN heap
        PROVE  /\ heap[n].next \in 0 .. Len(heap)
               /\ heap[n].value.to \in 0 .. Len(heap)
               /\ heap[n].value.integer \in Nat
               /\ heap[n].type \in {"none", "child", "list", "string", "integer"}
    <2>1. /\ heap[n] \in ListNodes /\ heap[n].value \in Values
          /\ heap[n].next \in 0 .. Len(heap) /\ heap[n].value.to \in 0 .. Len(heap)
          BY <1>2, HeapIsSequence
    <2> QED
        BY <2>1 DEF ListNodes, Values, Types
  <1>4. ASSUME NEW f \in DOMAIN frames
        PROVE  /\ {frames[f].owner, frames[f].node} \subseteq DOMAIN heap
               /\ frames[f].result \in 0 .. Len(heap)
    <2>1. frames \in Seq(Activation) /\ Within(frames, Len(heap))
          BY DEF IInv, TypeInv, FramesInv
    <2>2. f \in 1 .. Len(frames)
          BY <2>1
    <2> QED
        BY <1>2, <2>1, <2>2 DEF Within
  <1> QED
      BY <1>1, <1>3, <1>4
      DEF TypeOK, IInv, TypeInv, TextInv, HeapInv, FramesInv, ListInv

\* The types hold for every text and any number of failed allocations: the
\* cursor stays in the buffer and pointers in the heap.
THEOREM TypeCorrect == Spec => []TypeOK
PROOF
  <1>1. IInv => TypeOK
        BY IInvTypes
  <1> QED
      BY <1>1, Invariant, PTL

\* Whatever bytes the text block holds, no node is led to by two pointers and
\* none leads to the root (parseMetadata.c:434-437, 561-564, 612-616).
THEOREM TreeBuilt == Spec => []NodesFormTree
PROOF
  <1>1. ASSUME IInv PROVE NodesFormTree
    <2>1. SUFFICES ASSUME failures = 0 PROVE TreeShaped
          BY DEF NodesFormTree
    <2>2. Forest(heap) /\ heap \in Heaps /\ DOMAIN heap = 1 .. Len(heap)
          BY <1>1, <2>1, HeapIsSequence DEF IInv, TypeInv, HeapInv, TreeInv
    <2>3. \A n \in DOMAIN heap : Below(n) # NULL => Below(n) = heap[n].value.to
          BY DEF Below
    <2>4. ASSUME NEW p \in Pointers
          PROVE  /\ p = <<p[1], p[2]>> /\ p[1] \in 1 .. Len(heap)
                 /\ \/ /\ p[2] = "next" /\ Target(p) = heap[p[1]].next
                       /\ Target(p) # NULL
                    \/ /\ p[2] = "below" /\ Target(p) = heap[p[1]].value.to
                       /\ Target(p) # NULL
      <3>1. CASE p \in {n \in DOMAIN heap : heap[n].next # NULL} \X {"next"}
            BY <2>2, <3>1 DEF Target
      <3>2. CASE p \in {n \in DOMAIN heap : Below(n) # NULL} \X {"below"}
            BY <2>2, <2>3, <3>2 DEF Target
      <3> QED
          BY <3>1, <3>2 DEF Pointers
    <2>5. ASSUME NEW p \in Pointers PROVE Target(p) # 1
      <3>1. Target(p) > p[1] /\ p[1] \in 1 .. Len(heap) /\ Len(heap) \in Nat
            BY <2>2, <2>4, HeapIsSequence DEF Forest
      <3> QED
          BY <3>1
    <2>6. ASSUME NEW p \in Pointers, NEW q \in Pointers, Target(p) = Target(q)
          PROVE  p = q
      <3>1. p[1] = q[1] /\ p[2] = q[2]
            BY <2>2, <2>4, <2>6 DEF Forest
      <3> QED
          BY <2>4, <3>1
    <2> QED
        BY <2>5, <2>6 DEF TreeShaped
  <1> QED
      BY <1>1, Invariant, PTL

-----------------------------------------------------------------------------
(* The nodes of a written text.                                            *)

\* The tree under construction, for a text that begins as w says: its nodes
\* are w's first, in the order they were allocated in.
Level(w, n) == w.nodes[n].depth

\* q is the next sibling of n.
Follows(w, n, q) ==
  /\ n < q /\ Level(w, q) = Level(w, n)
  /\ \A r \in n + 1 .. q - 1 : Level(w, r) > Level(w, n)

BelowIn(h, n) == IF h[n].type \in {"child", "list"} THEN h[n].value.to ELSE NULL

\* Node n of a heap is complete: its pointers are what the depths say.
Settled(w, h, n) ==
  /\ BelowIn(h, n) = IF n < Len(h) /\ Level(w, n + 1) > Level(w, n) THEN n + 1 ELSE NULL
  /\ \/ h[n].next \in 1 .. Len(h) /\ Follows(w, n, h[n].next)
     \/ h[n].next = NULL /\ \A q \in 1 .. Len(h) : ~ Follows(w, n, q)

\* What is read is below it, and hangs behind it.
Unsettled(w, h, n) ==
  /\ h[n].type \in {"child", "list"}
  /\ h[n].next = IF n < Len(h) THEN n + 1 ELSE NULL
  /\ \A q \in n + 1 .. Len(h) : Level(w, q) > Level(w, n)
  /\ Bare(w.nodes[n])

\* The pointers of a heap of which these nodes are still open.
Linked(w, h, open) ==
  \A n \in 1 .. Len(h) : IF n \in open THEN Unsettled(w, h, n) ELSE Settled(w, h, n)

\* The last node of a list that is read below owner is at, and the first begin.
ListFits(w, size, owner, begin, at) ==
  IF owner = size
  THEN at = owner /\ begin = NULL
  ELSE /\ begin = owner + 1 /\ at \in owner + 1 .. size
       /\ Level(w, at) = Level(w, owner) + 1
       /\ \A q \in at + 1 .. size : Level(w, q) > Level(w, at)

FramesFit(w, fs, size) ==
  \A f \in 1 .. Len(fs) :
    /\ Level(w, fs[f].owner) = f - 1
    /\ ListFits(w, size, fs[f].owner, fs[f].result, fs[f].node)
    /\ f > 1 => fs[f].owner = fs[f - 1].node /\ fs[f].owner # fs[f - 1].owner

\* No node is more than a level deeper than the one before it.
Rising(w, size) == \A n \in 1 .. size - 1 : Level(w, n + 1) <= Level(w, n) + 1

Owners(fs) == {fs[f].owner : f \in 1 .. Len(fs)}

Open == Owners(frames) \cup (IF stage = "list" THEN {Node} ELSE {})

Shape(w) ==
  /\ Len(heap) \in 1 .. Len(w.nodes)
  /\ Rising(w, Len(heap))
  /\ Linked(w, heap, Open)
  /\ FramesFit(w, frames, Len(heap))
  /\ stage = "list" => /\ Node # Top.owner
                       /\ ListFits(w, Len(heap), Node, first, last)

\* A node's key, type and value are what the text says.
Holds(w, h, n) ==
  /\ h[n].key = w.nodes[n].key /\ h[n].type = w.nodes[n].type
  /\ h[n].value.integer = w.nodes[n].integer
  /\ h[n].value.string = w.nodes[n].string

\* A node whose value was not yet read.
Valueless(w, h, n) ==
  /\ h[n].key = w.nodes[n].key /\ h[n].type = "none"
  /\ h[n].value = Pointer(NULL)

ElementFits(w, s) ==
  IF s.in = "element"
  THEN LET x == w.nodes[s.nodes + 1]
       IN  /\ element.type = x.type /\ element.key = x.key
           /\ element.value.integer = x.integer /\ element.value.string = x.string
           /\ x.type \in {"string", "integer"}
           /\ s.nodes < Len(w.nodes) /\ x.depth = s.depth
  ELSE element.type = "none"

\* What is before a place is in the tree.
Read(w, s) ==
  /\ Len(heap) = s.nodes
  /\ IF s.in \in {"list", "element"}
     THEN /\ stage = "list" /\ Len(frames) = s.depth - 1
          /\ ElementFits(w, s)
     ELSE stage = "child" /\ Len(frames) = s.depth
  /\ \A n \in 1 .. Len(heap) - 1 : Holds(w, heap, n)
  /\ IF s.in = "key"
     THEN Valueless(w, heap, Len(heap)) /\ Node = Len(heap) /\ Top.owner # Node
     ELSE Holds(w, heap, Len(heap))

\* The parser has read what is before a place, and nothing else.
AtPlace(w, s) == ptr = s.at /\ Read(w, s)

\* The text is w's up to character n, and zero bytes behind.
Agrees(w, n) ==
  /\ n \in 1 .. Len(w.text) /\ n <= Size
  /\ SubSeq(text, 1, n) = SubSeq(w.text, 1, n)
  /\ \A p \in n + 1 .. Size : Char(p) = Zero
  /\ n = Len(w.text) => Size = n

Inside(w, n) ==
  /\ stage \in {"child", "list"} /\ ptr <= n
  /\ \E k \in 1 .. Len(w.places) : AtPlace(w, w.places[k])

\* Only the last node may be incomplete.
Behind(w, n) ==
  /\ stage \in {"child", "list", "parsed"} /\ ptr > n
  /\ stage = "parsed" => frames = <<>>
  /\ \A m \in 1 .. Len(heap) - 1 : Holds(w, heap, m)
  /\ n = Len(w.text) => Len(heap) = Len(w.nodes) /\ Holds(w, heap, Len(heap))

FormatInv(w, n) ==
  (Agrees(w, n) /\ failures = 0 /\ stage # "start") =>
     /\ Shape(w)
     /\ Inside(w, n) \/ Behind(w, n)

-----------------------------------------------------------------------------
(* Written texts.                                                          *)

\* What a written text is made of.
LEMMA WrittenFacts ==
  ASSUME NEW w \in Written
  PROVE  /\ Says(w)
         /\ Len(w.nodes) \in Nat \ {0}
         /\ w.nodes \in Seq(WrittenNode) /\ w.places \in Seq(Place)
         /\ \A n \in 1 .. Len(w.nodes) : w.nodes[n] \in WrittenNode /\ Level(w, n) \in Nat
         /\ w.nodes[1] = RootNode
PROOF
  <1>1. Says(w)
        BY FormatAssumption
  <1>2. w.nodes \in Seq(WrittenNode) /\ w.places \in Seq(Place) /\ w.nodes # <<>>
        /\ w.nodes[1] = RootNode
        BY <1>1 DEF Says
  <1>3. Len(w.nodes) \in Nat \ {0}
        BY <1>2
  <1>4. ASSUME NEW n \in 1 .. Len(w.nodes)
        PROVE  w.nodes[n] \in WrittenNode /\ Level(w, n) \in Nat
    <2>1. w.nodes[n] \in WrittenNode
          BY <1>2
    <2> QED
        BY <2>1 DEF WrittenNode, Level
  <1> QED
      BY <1>1, <1>2, <1>3, <1>4

-----------------------------------------------------------------------------
(* The pointers of a heap some of whose nodes are open.                    *)

\* A node at the end of the heap, behind this one.
Grown(h, k, node) ==
  /\ Len(k) = Len(h) + 1
  /\ k[node].next = Len(k)
  /\ k[Len(k)].next = NULL /\ BelowIn(k, Len(k)) = NULL
  /\ \A n \in 1 .. Len(h) :
       /\ k[n].type = h[n].type /\ k[n].value = h[n].value
       /\ n # node => k[n].next = h[n].next

\* Only the heap's last node is another, though still without a sibling.
LastChanged(h, k) ==
  /\ Len(k) = Len(h)
  /\ k[Len(h)].next = h[Len(h)].next
  /\ \A n \in 1 .. Len(h) - 1 : k[n] = h[n]

\* A new node is the sibling of the one it is put behind, or its first child.
LEMMA LinkedGrown ==
  ASSUME NEW w \in Written, NEW h, NEW k, NEW open, NEW size \in Nat,
         NEW node \in 1 .. size, Len(h) = size, size < Len(w.nodes),
         Linked(w, h, open), Grown(h, k, node), size + 1 \notin open,
         \A m \in 1 .. size : m \in open => Level(w, m) < Level(w, size + 1),
         \/ node \in open /\ node = size
         \/ /\ node \notin open /\ Level(w, node) = Level(w, size + 1)
            /\ \A q \in node + 1 .. size : Level(w, q) > Level(w, node)
  PROVE  Linked(w, k, open)
PROOF
  <1> USE DEF NULL
  <1> DEFINE new == size + 1
  <1>1. \A n \in 1 .. new : Level(w, n) \in Nat
        BY WrittenFacts
  <1>2. /\ Len(k) = new /\ new \in Nat
        /\ \A n \in 1 .. new : n \in 1 .. size \/ n = new
        BY DEF Grown
  <1>3. ASSUME NEW n \in 1 .. size
        PROVE  BelowIn(k, n) = BelowIn(h, n)
        BY <1>3 DEF BelowIn, Grown
  <1>4. ASSUME NEW n \in 1 .. size, n \in open
        PROVE  Unsettled(w, k, n)
    <2>1. Unsettled(w, h, n)
          BY <1>4 DEF Linked
    <2>2. k[n].type = h[n].type
          BY DEF Grown
    <2>3. Level(w, n) < Level(w, new)
          BY <1>4
    <2>4. \A q \in n + 1 .. new : q \in n + 1 .. size \/ q = new
          OBVIOUS
    <2>5. \A q \in n + 1 .. new : Level(w, q) > Level(w, n)
      <3>1. \A q \in n + 1 .. size : Level(w, q) > Level(w, n)
            BY <2>1 DEF Unsettled
      <3> QED
          BY <1>1, <2>3, <2>4, <3>1
    <2>6. CASE n = node
      <3>1. n = size
        <4>1. CASE node \notin open
              BY <1>4, <2>6, <4>1
        <4>2. CASE node = size
              BY <2>6, <4>2
        <4> QED
            BY <4>1, <4>2
      <3>2. k[n].next = n + 1
            BY <1>2, <2>6, <3>1 DEF Grown
      <3> QED
          BY <1>2, <2>1, <2>2, <2>5, <3>1, <3>2 DEF Unsettled
    <2>7. CASE n # node
      <3>1. n # size
        <4>1. SUFFICES ASSUME n = size
                       PROVE  FALSE
              OBVIOUS
        <4>2. /\ node \notin open /\ Level(w, node) = Level(w, new)
              /\ \A q \in node + 1 .. size : Level(w, q) > Level(w, node)
              BY <2>7, <4>1
        <4>3. size \in node + 1 .. size
              BY <2>7, <4>1
        <4>4. Level(w, size) > Level(w, new)
              BY <4>2, <4>3
        <4>5. Level(w, size) \in Nat /\ Level(w, new) \in Nat
              BY <1>1, <4>1
        <4> QED
            BY <2>3, <4>1, <4>4, <4>5
      <3>2. h[n].next = n + 1 /\ k[n].next = n + 1
            BY <2>1, <2>7, <3>1 DEF Grown, Unsettled
      <3> QED
          BY <1>2, <2>1, <2>2, <2>5, <3>2 DEF Unsettled
    <2> QED
        BY <2>6, <2>7
  <1>5. ASSUME NEW n \in 1 .. size, n \notin open
        PROVE  Settled(w, k, n)
    <2>1. Settled(w, h, n)
          BY <1>5 DEF Linked
    <2>2. n = size => Level(w, new) <= Level(w, n)
      <3>1. SUFFICES ASSUME n = size
                     PROVE  Level(w, new) <= Level(w, n)
            OBVIOUS
      <3>2. /\ Level(w, node) = Level(w, new)
            /\ \A q \in node + 1 .. size : Level(w, q) > Level(w, node)
            BY <1>5, <3>1
      <3>3. node = size \/ size \in node + 1 .. size
            OBVIOUS
      <3>4. Level(w, size) \in Nat /\ Level(w, new) \in Nat
            BY <1>1, <3>1
      <3> QED
          BY <3>1, <3>2, <3>3, <3>4
    <2>3. BelowIn(k, n) = IF n < new /\ Level(w, n + 1) > Level(w, n) THEN n + 1 ELSE 0
      <3>1. BelowIn(k, n) = IF n < size /\ Level(w, n + 1) > Level(w, n) THEN n + 1 ELSE 0
            BY <1>3, <2>1 DEF Settled
      <3>2. Level(w, n) \in Nat /\ Level(w, new) \in Nat
            BY <1>1
      <3>3. CASE n = size
            BY <2>2, <3>1, <3>2, <3>3
      <3>4. CASE n # size
            BY <3>1, <3>4
      <3> QED
          BY <3>3, <3>4
    <2>4. CASE n = node
      <3>1. /\ Level(w, node) = Level(w, new)
            /\ \A q \in node + 1 .. size : Level(w, q) > Level(w, node)
            BY <1>5, <2>4
      <3>2. Follows(w, n, new)
        <4>1. new - 1 = size
              OBVIOUS
        <4> QED
            BY <2>4, <3>1, <4>1 DEF Follows
      <3>3. k[n].next = new
            BY <1>2, <2>4 DEF Grown
      <3> QED
          BY <1>2, <2>3, <3>2, <3>3 DEF Settled
    <2>5. CASE n # node
      <3>1. k[n].next = h[n].next
            BY <2>5 DEF Grown
      <3>2. ~ Follows(w, n, new)
        <4>1. SUFFICES ASSUME Follows(w, n, new)
                       PROVE  FALSE
              OBVIOUS
        <4>2. /\ Level(w, new) = Level(w, n)
              /\ \A r \in n + 1 .. size : Level(w, r) > Level(w, n)
              BY <4>1 DEF Follows
        <4>3. CASE node \in open /\ node = size
          <5>1. Level(w, size) < Level(w, new) /\ size \in n + 1 .. size
                BY <2>5, <4>3
          <5>2. Level(w, size) > Level(w, n)
                BY <4>2, <5>1
          <5> QED
              BY <1>1, <4>2, <5>1, <5>2
        <4>4. CASE /\ Level(w, node) = Level(w, new)
                   /\ \A q \in node + 1 .. size : Level(w, q) > Level(w, node)
          <5>1. node \in n + 1 .. size \/ n \in node + 1 .. size
                BY <2>5
          <5>2. Level(w, node) \in Nat /\ Level(w, n) \in Nat
                BY <1>1
          <5> QED
              BY <4>2, <4>4, <5>1, <5>2
        <4> QED
            BY <4>3, <4>4
      <3>3. CASE h[n].next \in 1 .. size /\ Follows(w, n, h[n].next)
            BY <1>2, <2>3, <3>1, <3>3 DEF Settled
      <3>4. CASE h[n].next = 0 /\ \A q \in 1 .. size : ~ Follows(w, n, q)
        <4>1. \A q \in 1 .. new : ~ Follows(w, n, q)
              BY <1>2, <3>2, <3>4
        <4> QED
            BY <1>2, <2>3, <3>1, <3>4, <4>1 DEF Settled
      <3> QED
          BY <2>1, <3>3, <3>4 DEF Settled
    <2> QED
        BY <2>4, <2>5
  <1>6. Settled(w, k, new)
    <2>1. \A q \in 1 .. new : ~ (new < q)
          OBVIOUS
    <2>2. \A q \in 1 .. new : ~ Follows(w, new, q)
          BY <2>1 DEF Follows
    <2>3. k[new].next = 0 /\ BelowIn(k, new) = 0
          BY <1>2 DEF Grown
    <2> QED
        BY <1>2, <2>2, <2>3 DEF Settled
  <1> QED
      BY <1>2, <1>4, <1>5, <1>6 DEF Linked

\* A node without siblings and children becomes one that is open.
LEMMA LinkedOpened ==
  ASSUME NEW w \in Written, NEW h, NEW k, NEW open, NEW size \in Nat \ {0},
         Len(h) = size,
         Linked(w, h, open), LastChanged(h, k), size \notin open,
         k[size].type \in {"child", "list"},
         Bare(w.nodes[size])
  PROVE  Linked(w, k, open \cup {size})
PROOF
  <1> USE DEF NULL
  <1>1. Len(k) = size /\ \A n \in 1 .. size : n \in 1 .. size - 1 \/ n = size
        BY DEF LastChanged
  <1>2. ASSUME NEW n \in 1 .. size - 1
        PROVE  /\ Unsettled(w, h, n) <=> Unsettled(w, k, n)
               /\ Settled(w, h, n) <=> Settled(w, k, n)
    <2>1. k[n] = h[n]
          BY DEF LastChanged
    <2> QED
        BY <1>1, <2>1 DEF Settled, Unsettled, BelowIn
  <1>3. Unsettled(w, k, size)
    <2>1. Settled(w, h, size)
          BY DEF Linked
    <2>2. h[size].next = 0
      <3>1. \A q \in 1 .. size : ~ (size < q)
            OBVIOUS
      <3> QED
          BY <2>1, <3>1 DEF Settled, Follows
    <2>3. k[size].next = 0
          BY <2>2 DEF LastChanged
    <2> QED
        BY <1>1, <2>3 DEF Unsettled
  <1>4. \A n \in 1 .. size - 1 : n # size
        OBVIOUS
  <1>5. ASSUME NEW n \in 1 .. Len(k)
        PROVE  IF n \in open \cup {size} THEN Unsettled(w, k, n) ELSE Settled(w, k, n)
    <2>1. CASE n = size
          BY <1>3, <2>1
    <2>2. CASE n \in 1 .. size - 1
      <3>1. n \in 1 .. size
            BY <1>1
      <3> QED
          BY <1>2, <1>4, <2>2, <3>1 DEF Linked
    <2> QED
        BY <1>1, <2>1, <2>2
  <1> QED
      BY <1>5 DEF Linked

\* A value that is no pointer leaves the last node without children.
LEMMA LinkedValued ==
  ASSUME NEW w \in Written, NEW h, NEW k, NEW open, NEW size \in Nat \ {0},
         Len(h) = size,
         Linked(w, h, open), LastChanged(h, k), size \notin open,
         BelowIn(k, size) = NULL
  PROVE  Linked(w, k, open)
PROOF
  <1>1. Len(k) = size /\ \A n \in 1 .. size : n \in 1 .. size - 1 \/ n = size
        BY DEF LastChanged
  <1>2. ASSUME NEW n \in 1 .. size - 1
        PROVE  /\ Unsettled(w, h, n) <=> Unsettled(w, k, n)
               /\ Settled(w, h, n) <=> Settled(w, k, n)
    <2>1. k[n] = h[n]
          BY DEF LastChanged
    <2> QED
        BY <1>1, <2>1 DEF Settled, Unsettled, BelowIn
  <1>3. Settled(w, k, size)
    <2>1. Settled(w, h, size)
          BY DEF Linked
    <2> QED
        BY <1>1, <2>1 DEF Settled, LastChanged
  <1>5. ASSUME NEW n \in 1 .. Len(k)
        PROVE  IF n \in open THEN Unsettled(w, k, n) ELSE Settled(w, k, n)
    <2>1. CASE n = size
          BY <1>3, <2>1
    <2>2. CASE n \in 1 .. size - 1
      <3>1. n \in 1 .. size
            BY <1>1
      <3> QED
          BY <1>2, <2>2, <3>1 DEF Linked
    <2> QED
        BY <1>1, <2>1, <2>2
  <1> QED
      BY <1>5 DEF Linked

\* What hung behind an open node is its children.
LEMMA LinkedAdopted ==
  ASSUME NEW w \in Written, NEW h \in Heaps, NEW open, NEW owner \in 1 .. Len(h),
         Len(h) <= Len(w.nodes),
         owner \in open, Linked(w, h, open), NEW result,
         result = IF owner = Len(h) THEN NULL ELSE owner + 1
  PROVE  Linked(w, Adopted(h, owner, result), open \ {owner})
PROOF
  <1> USE DEF NULL
  <1> DEFINE size == Len(h)
             k == Adopted(h, owner, result)
  <1>1. size \in Nat /\ result \in 0 .. size
        BY HeapIsSequence
  <1>2. /\ Len(k) = size
        /\ k[owner].next = 0 /\ k[owner].value.to = result
        /\ \A n \in 1 .. size : n # owner => k[n] = h[n]
        BY <1>1, AdoptedEffect
  <1>3. k[owner].type = h[owner].type
        BY <1>1, HeapIsSequence DEF Adopted, ListNodes
  <1> HIDE DEF k
  <1>4. Unsettled(w, h, owner)
        BY DEF Linked
  <1>5. Settled(w, k, owner)
    <2>1. BelowIn(k, owner) = result
          BY <1>2, <1>3, <1>4 DEF BelowIn, Unsettled
    <2>2. owner < size => Level(w, owner + 1) > Level(w, owner)
      <3>1. owner < size => owner + 1 \in owner + 1 .. size
            BY <1>1
      <3> QED
          BY <1>4, <3>1 DEF Unsettled
    <2>3. \A q \in 1 .. size : ~ Follows(w, owner, q)
      <3>1. SUFFICES ASSUME NEW q \in 1 .. size, Follows(w, owner, q)
                     PROVE  FALSE
            OBVIOUS
      <3>2. q \in owner + 1 .. size /\ Level(w, q) = Level(w, owner)
            BY <3>1 DEF Follows
      <3>3. Level(w, q) > Level(w, owner) /\ Level(w, q) \in Nat
        <4>1. q \in 1 .. Len(w.nodes)
              BY WrittenFacts
        <4> QED
            BY <1>4, <3>2, <4>1, WrittenFacts DEF Unsettled
      <3> QED
          BY <3>2, <3>3
    <2>4. owner < size \/ owner = size
          BY <1>1
    <2> QED
        BY <1>1, <1>2, <2>1, <2>2, <2>3, <2>4 DEF Settled
  <1>6. ASSUME NEW n \in 1 .. size, n # owner
        PROVE  /\ Unsettled(w, h, n) <=> Unsettled(w, k, n)
               /\ Settled(w, h, n) <=> Settled(w, k, n)
    <2>1. k[n] = h[n]
          BY <1>2, <1>6
    <2> QED
        BY <1>2, <2>1 DEF Settled, Unsettled, BelowIn
  <1>7. ASSUME NEW n \in 1 .. Len(k)
        PROVE  IF n \in open \ {owner} THEN Unsettled(w, k, n) ELSE Settled(w, k, n)
    <2>1. CASE n = owner
          BY <1>5, <2>1
    <2>2. CASE n # owner
          BY <1>2, <1>6, <2>2 DEF Linked
    <2> QED
        BY <2>1, <2>2
  <1> QED
      BY <1>7 DEF Linked, k

-----------------------------------------------------------------------------
(* The lists that are read, and the activations that read them.            *)

\* A node more at the end of the list.
LEMMA ListGrown ==
  ASSUME NEW w \in Written, NEW size \in Nat, size < Len(w.nodes),
         NEW owner \in 1 .. size, NEW begin, NEW at,
         ListFits(w, size, owner, begin, at),
         Level(w, size + 1) = Level(w, owner) + 1
  PROVE  /\ ListFits(w, size + 1, owner, IF begin = NULL THEN size + 1 ELSE begin, size + 1)
         /\ owner # size + 1
PROOF
  <1>1. \A q \in size + 2 .. size + 1 : Level(w, q) > Level(w, size + 1)
        OBVIOUS
  <1>2. size + 1 \in owner + 1 .. size + 1 /\ owner # size + 1
        OBVIOUS
  <1>3. (IF begin = NULL THEN size + 1 ELSE begin) = owner + 1
    <2>1. CASE owner = size
      <3>1. begin = NULL
            BY <2>1 DEF ListFits
      <3> QED
          BY <2>1, <3>1
    <2>2. CASE owner # size
      <3>1. begin = owner + 1
            BY <2>2 DEF ListFits
      <3>2. begin # 0
            BY <3>1
      <3> QED
          BY <3>1, <3>2 DEF NULL
    <2> QED
        BY <2>1, <2>2
  <1> DEFINE first1 == IF begin = NULL THEN size + 1 ELSE begin
  <1> HIDE DEF first1
  <1>4. first1 = owner + 1
        BY <1>3 DEF first1
  <1>5. ListFits(w, size + 1, owner, first1, size + 1)
    <2>1. size + 1 + 1 = size + 2
          OBVIOUS
    <2> QED
        BY <1>1, <1>2, <1>4, <2>1, Zenon DEF ListFits
  <1> QED
      BY <1>2, <1>5 DEF first1

\* A node more further down.
LEMMA ListDeepened ==
  ASSUME NEW w \in Written, NEW size \in Nat, size < Len(w.nodes),
         NEW owner \in 1 .. size, NEW begin, NEW at,
         ListFits(w, size, owner, begin, at), owner # size,
         Level(w, size + 1) > Level(w, owner) + 1
  PROVE  ListFits(w, size + 1, owner, begin, at)
PROOF
  <1>1. /\ begin = owner + 1 /\ at \in owner + 1 .. size
        /\ Level(w, at) = Level(w, owner) + 1
        /\ \A q \in at + 1 .. size : Level(w, q) > Level(w, at)
        BY DEF ListFits
  <1>2. \A q \in at + 1 .. size + 1 : Level(w, q) > Level(w, at)
    <2>1. \A q \in at + 1 .. size + 1 : q \in at + 1 .. size \/ q = size + 1
          BY <1>1
    <2> QED
        BY <1>1, <2>1
  <1>3. at \in owner + 1 .. size + 1 /\ owner # size + 1
        BY <1>1
  <1> QED
      BY <1>1, <1>2, <1>3 DEF ListFits

\* What an activation of the stack is at.
LEMMA FrameFits ==
  ASSUME NEW w \in Written, NEW fs \in Seq(Activation), NEW size \in Nat,
         size <= Len(w.nodes), Within(fs, size), FramesFit(w, fs, size),
         NEW f \in 1 .. Len(fs)
  PROVE  /\ fs[f].owner \in 1 .. size /\ fs[f].node \in 1 .. size
         /\ Level(w, fs[f].owner) = f - 1
         /\ ListFits(w, size, fs[f].owner, fs[f].result, fs[f].node)
         /\ fs[f].node # fs[f].owner => fs[f].owner < fs[f].node
                                          /\ Level(w, fs[f].node) = f
         /\ fs[f].node = fs[f].owner => fs[f].owner = size
         /\ f < Len(fs) => /\ fs[f].owner < fs[f].node /\ fs[f].owner # size
                           /\ fs[f].node = fs[f + 1].owner
PROOF
  <1>1. fs[f].owner \in 1 .. size /\ fs[f].node \in 1 .. size
        BY ActivationOfStack
  <1>2. /\ Level(w, fs[f].owner) = f - 1
        /\ ListFits(w, size, fs[f].owner, fs[f].result, fs[f].node)
        BY DEF FramesFit
  <1>3. /\ fs[f].node # fs[f].owner => fs[f].owner < fs[f].node
                                          /\ Level(w, fs[f].node) = f
        /\ fs[f].node = fs[f].owner => fs[f].owner = size
    <2>1. f \in Nat
          OBVIOUS
    <2> QED
        BY <1>1, <1>2, <2>1 DEF ListFits
  <1>4. ASSUME f < Len(fs)
        PROVE  /\ fs[f].owner < fs[f].node /\ fs[f].owner # size
               /\ fs[f].node = fs[f + 1].owner
    <2>1. f + 1 \in 1 .. Len(fs) /\ f + 1 > 1 /\ f + 1 - 1 = f
          BY <1>4
    <2>2. fs[f + 1].owner = fs[f].node /\ fs[f + 1].owner # fs[f].owner
          BY <2>1 DEF FramesFit
    <2> QED
        BY <1>1, <1>3, <2>2
  <1> QED
      BY <1>1, <1>2, <1>3, <1>4

\* The owners are the nodes whose lists are read, one on each level.
LEMMA OwnersFacts ==
  ASSUME NEW w \in Written, NEW fs \in Seq(Activation), NEW size \in Nat,
         size <= Len(w.nodes), Within(fs, size), FramesFit(w, fs, size)
  PROVE  /\ \A n \in Owners(fs) : n \in 1 .. size /\ Level(w, n) < Len(fs)
         /\ \A f, g \in 1 .. Len(fs) : fs[f].owner = fs[g].owner => f = g
         /\ \A f \in 1 .. Len(fs) : fs[f].owner \in Owners(fs)
PROOF
  <1>1. \A n \in Owners(fs) : \E f \in 1 .. Len(fs) : n = fs[f].owner
        BY DEF Owners
  <1>2. \A f \in 1 .. Len(fs) : fs[f].owner \in 1 .. size /\ Level(w, fs[f].owner) = f - 1
        BY FrameFits
  <1>3. ASSUME NEW n \in Owners(fs)
        PROVE  n \in 1 .. size /\ Level(w, n) < Len(fs)
    <2>1. PICK f \in 1 .. Len(fs) : n = fs[f].owner
          BY <1>1
    <2>2. n \in 1 .. size /\ Level(w, n) = f - 1
          BY <1>2, <2>1
    <2>3. f - 1 < Len(fs)
          OBVIOUS
    <2> QED
        BY <2>2, <2>3
  <1>4. \A f \in 1 .. Len(fs) : fs[f].owner \in Owners(fs)
        BY DEF Owners
  <1>5. ASSUME NEW f \in 1 .. Len(fs), NEW g \in 1 .. Len(fs), fs[f].owner = fs[g].owner
        PROVE  f = g
    <2>1. f - 1 = g - 1
          BY <1>2, <1>5
    <2> QED
        BY <2>1
  <1> QED
      BY <1>3, <1>4, <1>5

\* A node more for the activation on top.
LEMMA FramesAdvanced ==
  ASSUME NEW w \in Written, NEW fs \in Seq(Activation), NEW size \in Nat,
         size < Len(w.nodes), Within(fs, size), FramesFit(w, fs, size),
         Len(fs) > 0, Level(w, size + 1) = Len(fs)
  PROVE  /\ FramesFit(w, Advanced(fs, size + 1), size + 1)
         /\ Owners(Advanced(fs, size + 1)) = Owners(fs)
PROOF
  <1> DEFINE gs == Advanced(fs, size + 1)
             top == Len(fs)
  <1>1. /\ Len(gs) = top /\ top \in 1 .. top
        /\ \A f \in 1 .. top : f # top => gs[f] = fs[f]
        /\ gs[top].owner = fs[top].owner /\ gs[top].node = size + 1
        /\ gs[top].result = IF fs[top].result = NULL THEN size + 1 ELSE fs[top].result
    <2>1. size + 1 \in 1 .. size + 1 /\ size <= size + 1 /\ size + 1 \in Nat
          OBVIOUS
    <2> QED
        BY <2>1, AdvancedEffect
  <1> HIDE DEF gs
  <1>2. size <= Len(w.nodes) /\ Len(w.nodes) \in Nat
        BY WrittenFacts
  <1>3. \A f \in 1 .. top : gs[f].owner = fs[f].owner
        BY <1>1
  <1>4. ASSUME NEW f \in 1 .. top
        PROVE  /\ Level(w, gs[f].owner) = f - 1
               /\ ListFits(w, size + 1, gs[f].owner, gs[f].result, gs[f].node)
               /\ f > 1 => gs[f].owner = gs[f - 1].node /\ gs[f].owner # gs[f - 1].owner
    <2>1. /\ fs[f].owner \in 1 .. size /\ Level(w, fs[f].owner) = f - 1
          /\ ListFits(w, size, fs[f].owner, fs[f].result, fs[f].node)
          /\ f < top => fs[f].owner # size
          BY <1>2, FrameFits
    <2>2. f > 1 => gs[f].owner = gs[f - 1].node /\ gs[f].owner # gs[f - 1].owner
      <3>1. f > 1 => f - 1 \in 1 .. top /\ f - 1 # top
            OBVIOUS
      <3>2. f > 1 => fs[f].owner = fs[f - 1].node /\ fs[f].owner # fs[f - 1].owner
            BY DEF FramesFit
      <3> QED
          BY <1>1, <1>3, <3>1, <3>2
    <2>3. ListFits(w, size + 1, gs[f].owner, gs[f].result, gs[f].node)
      <3>1. CASE f = top
        <4>1. Level(w, size + 1) = Level(w, fs[f].owner) + 1
              BY <2>1, <3>1
        <4>2. ListFits(w, size + 1, fs[f].owner,
                       IF fs[f].result = NULL THEN size + 1 ELSE fs[f].result, size + 1)
              BY <2>1, <4>1, ListGrown
        <4> QED
            BY <1>1, <3>1, <4>2
      <3>2. CASE f # top
        <4>1. Level(w, size + 1) > Level(w, fs[f].owner) + 1 /\ fs[f].owner # size
              BY <2>1, <3>2
        <4>2. ListFits(w, size + 1, fs[f].owner, fs[f].result, fs[f].node)
              BY <2>1, <4>1, ListDeepened
        <4> QED
            BY <1>1, <3>2, <4>2
      <3> QED
          BY <3>1, <3>2
    <2> QED
        BY <1>3, <2>1, <2>2, <2>3
  <1>5. FramesFit(w, gs, size + 1)
        BY <1>1, <1>4 DEF FramesFit
  <1>6. Owners(gs) = Owners(fs)
        BY <1>1, <1>3 DEF Owners
  <1> QED
      BY <1>5, <1>6 DEF gs

\* A node more in a list: below what the activation on top is at.
LEMMA FramesDeepened ==
  ASSUME NEW w \in Written, NEW fs \in Seq(Activation), NEW size \in Nat,
         size < Len(w.nodes), Within(fs, size), FramesFit(w, fs, size),
         Len(fs) > 0, fs[Len(fs)].node # fs[Len(fs)].owner,
         Level(w, size + 1) > Len(fs)
  PROVE  FramesFit(w, fs, size + 1)
PROOF
  <1>1. size <= Len(w.nodes) /\ Len(w.nodes) \in Nat
        BY WrittenFacts
  <1>2. ASSUME NEW f \in 1 .. Len(fs)
        PROVE  ListFits(w, size + 1, fs[f].owner, fs[f].result, fs[f].node)
    <2>1. /\ fs[f].owner \in 1 .. size /\ Level(w, fs[f].owner) = f - 1
          /\ ListFits(w, size, fs[f].owner, fs[f].result, fs[f].node)
          /\ f < Len(fs) => fs[f].owner # size
          /\ fs[f].node # fs[f].owner => fs[f].owner < fs[f].node
          /\ fs[f].node \in 1 .. size
          BY <1>1, FrameFits
    <2>2. fs[f].owner # size
      <3>1. CASE f = Len(fs)
            BY <2>1, <3>1
      <3>2. CASE f # Len(fs)
            BY <2>1, <3>2
      <3> QED
          BY <3>1, <3>2
    <2>3. Level(w, size + 1) > Level(w, fs[f].owner) + 1
      <3>1. Level(w, size + 1) \in Nat
        <4>1. size + 1 \in 1 .. Len(w.nodes)
              BY <1>1
        <4> QED
            BY <4>1, WrittenFacts
      <3> QED
          BY <2>1, <3>1
    <2> QED
        BY <2>1, <2>2, <2>3, ListDeepened
  <1> QED
      BY <1>2 DEF FramesFit

\* An activation more, for the last node.
LEMMA FramesPushed ==
  ASSUME NEW w \in Written, NEW fs \in Seq(Activation), NEW size \in Nat,
         size <= Len(w.nodes), Within(fs, size), FramesFit(w, fs, size),
         Len(fs) > 0, fs[Len(fs)].node = size, fs[Len(fs)].owner # size
  PROVE  /\ FramesFit(w, Append(fs, Frame(size)), size)
         /\ Owners(Append(fs, Frame(size))) = Owners(fs) \cup {size}
PROOF
  <1> DEFINE gs == Append(fs, Frame(size))
             top == Len(fs)
  <1>1. Frame(size) \in Activation
        BY DEF Frame, Activation, NULL
  <1>2. /\ Len(gs) = top + 1 /\ top \in Nat /\ top \in 1 .. top
        /\ gs[top + 1] = Frame(size)
        /\ \A f \in 1 .. top : gs[f] = fs[f]
        BY <1>1
  <1> HIDE DEF gs
  <1>3. Frame(size).owner = size /\ Frame(size).node = size /\ Frame(size).result = NULL
        BY DEF Frame
  <1>4. \A f \in 1 .. Len(gs) : f \in 1 .. top \/ f = top + 1
        BY <1>2
  <1>5. ASSUME NEW f \in 1 .. Len(gs)
        PROVE  /\ Level(w, gs[f].owner) = f - 1
               /\ ListFits(w, size, gs[f].owner, gs[f].result, gs[f].node)
               /\ f > 1 => gs[f].owner = gs[f - 1].node /\ gs[f].owner # gs[f - 1].owner
    <2>1. CASE f \in 1 .. top
      <3>1. f > 1 => f - 1 \in 1 .. top
            BY <2>1
      <3> QED
          BY <1>2, <2>1, <3>1 DEF FramesFit
    <2>2. CASE f = top + 1
      <3>1. gs[f] = Frame(size) /\ gs[f - 1] = fs[top]
            BY <1>2, <2>2
      <3>2. Level(w, size) = top
            BY <1>2, FrameFits
      <3>3. ListFits(w, size, size, NULL, size)
            BY DEF ListFits
      <3> QED
          BY <1>2, <1>3, <2>2, <3>1, <3>2, <3>3
    <2> QED
        BY <1>4, <2>1, <2>2
  <1>6. FramesFit(w, gs, size)
        BY <1>5 DEF FramesFit
  <1>7. Owners(gs) = Owners(fs) \cup {size}
    <2>1. \A f \in 1 .. top : f \in 1 .. Len(gs)
          BY <1>2
    <2>2. top + 1 \in 1 .. Len(gs)
          BY <1>2
    <2>3. \A n : n \in Owners(gs) <=> n \in Owners(fs) \cup {size}
          BY <1>2, <1>3, <1>4, <2>1, <2>2 DEF Owners
    <2> QED
        BY <2>3
  <1> QED
      BY <1>6, <1>7 DEF gs

\* The activation on top is over.
LEMMA FramesPopped ==
  ASSUME NEW w \in Written, NEW fs \in Seq(Activation), NEW size \in Nat,
         size <= Len(w.nodes), Within(fs, size), FramesFit(w, fs, size), Len(fs) > 0
  PROVE  /\ FramesFit(w, Front(fs), size)
         /\ Owners(Front(fs)) = Owners(fs) \ {fs[Len(fs)].owner}
PROOF
  <1> DEFINE gs == Front(fs)
             top == Len(fs)
  <1>1. /\ Len(gs) = top - 1 /\ top \in Nat /\ top \in 1 .. top
        /\ \A f \in 1 .. top - 1 : gs[f] = fs[f]
        BY FrontOfStack
  <1> HIDE DEF gs
  <1>2. \A f \in 1 .. top - 1 : f \in 1 .. top /\ (f > 1 => f - 1 \in 1 .. top - 1)
        BY <1>1
  <1>3. FramesFit(w, gs, size)
        BY <1>1, <1>2 DEF FramesFit
  <1>4. \A f \in 1 .. top : f # top <=> f \in 1 .. top - 1
        BY <1>1
  <1>5. \A f, g \in 1 .. top : fs[f].owner = fs[g].owner => f = g
        BY OwnersFacts
  <1>6. ASSUME NEW n \in Owners(gs)
        PROVE  n \in Owners(fs) \ {fs[top].owner}
    <2>1. PICK f \in 1 .. top - 1 : n = fs[f].owner
          BY <1>1 DEF Owners
    <2>2. f \in 1 .. top /\ f # top
          BY <1>4
    <2> QED
        BY <1>1, <1>5, <2>1, <2>2 DEF Owners
  <1>7. ASSUME NEW n \in Owners(fs) \ {fs[top].owner}
        PROVE  n \in Owners(gs)
    <2>1. PICK f \in 1 .. top : n = fs[f].owner
          BY DEF Owners
    <2>2. f \in 1 .. top - 1
          BY <1>4, <2>1
    <2> QED
        BY <1>1, <2>1, <2>2 DEF Owners
  <1> QED
      BY <1>3, <1>6, <1>7 DEF gs

-----------------------------------------------------------------------------
(* The buffer and the text that was written.                               *)

\* The characters that mean something.
Marks == {"#", "\n", "=", "{", "}", "[", "]", "\"", ",", " ", "\t"}

\* What is read where there is no text.
Void == {Zero, ""}

\* Neither is the other, nor a part of a word.
LEMMA MarksAreNoWords ==
  /\ \A c \in Marks : c \notin Word
  /\ \A c \in Digits : c \in Word
  /\ \A c \in Void : c \notin Word /\ c \notin Marks
PROOF
  <1>1. ASSUME NEW c \in Marks
        PROVE  c \notin Word
    <2>1. /\ "#" \notin Word /\ "\n" \notin Word /\ "=" \notin Word /\ "{" \notin Word
          /\ "}" \notin Word /\ "[" \notin Word
          BY Z3 DEF Word, Letters, Digits
    <2>2. /\ "]" \notin Word /\ "\"" \notin Word /\ "," \notin Word /\ " " \notin Word
          /\ "\t" \notin Word
          BY Z3 DEF Word, Letters, Digits
    <2> HIDE DEF Word
    <2> QED
        BY <2>1, <2>2, Zenon DEF Marks
  <1>2. Zero \notin Word /\ "" \notin Word
        BY Zenon DEF Zero, Word, Letters, Digits
  <1>3. Zero \notin Marks /\ "" \notin Marks
        BY DEF Zero, Marks
  <1>4. \A c \in Digits : c \in Word
        BY DEF Word
  <1> QED
      BY <1>1, <1>2, <1>3, <1>4 DEF Void

\* What the buffer has of a text.
LEMMA AgreesFacts ==
  ASSUME text \in Texts, NEW w \in Written, NEW n \in Nat, Agrees(w, n)
  PROVE  /\ n \in Nat \ {0} /\ Size \in Nat /\ n <= Size
         /\ Len(w.text) \in Nat /\ n <= Len(w.text)
         /\ n = Len(w.text) => Size = n
         /\ \A p \in 1 .. n : Char(p) = CharOf(w.text, p)
         /\ \A q \in 1 .. n : \A p \in 1 .. q : SubSeq(text, p, q) = SubSeq(w.text, p, q)
         /\ \A p \in Int : p > n => Char(p) \in Void
PROOF
  <1>1. /\ Len(w.text) \in Nat /\ Size \in Nat /\ n \in 1 .. Len(w.text) /\ n <= Size
        /\ n = Len(w.text) => Size = n
        BY SizeIsNat, PiecesAssumption DEF Agrees, PiecesAssumption
  <1>2. SubSeq(text, 1, n) = SubSeq(w.text, 1, n) /\ n \in 1 .. Len(text)
        BY <1>1 DEF Agrees, Size
  <1>3. \A p \in 1 .. n : /\ SubSeq(text, 1, p) = SubSeq(w.text, 1, p)
                          /\ p \in 1 .. Len(text) /\ p <= Len(w.text)
    <2>1. \A q \in 1 .. Len(text) :
            (q <= Len(w.text) /\ SubSeq(text, 1, q) = SubSeq(w.text, 1, q)) =>
               \A p \in 1 .. q : /\ SubSeq(text, p, q) = SubSeq(w.text, p, q)
                               /\ SubSeq(text, 1, p) = SubSeq(w.text, 1, p)
          BY Zenon, PiecesAssumption DEF PiecesAssumption
    <2>3. n <= Len(w.text)
          BY <1>1
    <2>4. \A p \in 1 .. n : /\ SubSeq(text, p, n) = SubSeq(w.text, p, n)
                            /\ SubSeq(text, 1, p) = SubSeq(w.text, 1, p)
          BY <1>2, <2>1, <2>3
    <2>2. \A p \in 1 .. n : p \in 1 .. Len(text) /\ p <= Len(w.text)
          BY <1>1 DEF Size
    <2> QED
        BY <2>2, <2>4
  <1>4. \A q \in 1 .. n : \A p \in 1 .. q : SubSeq(text, p, q) = SubSeq(w.text, p, q)
        BY <1>3, PiecesAssumption DEF PiecesAssumption
  <1>5. \A p \in 1 .. n : Char(p) = CharOf(w.text, p)
    <2>1. \A p \in 1 .. n : p \in 1 .. p /\ p \in 1 .. Size
          BY <1>1
    <2> QED
        BY <1>4, <2>1 DEF Char, CharOf
  <1>7. ASSUME NEW p \in Int, p > n
        PROVE  Char(p) \in Void
    <2>1. CASE p \in n + 1 .. Size
          BY <2>1, Zenon DEF Agrees, Void
    <2>2. CASE p \notin 1 .. Size
      <3>1. Char(p) = ""
            BY <2>2, Zenon DEF Char
      <3> QED
          BY <3>1, Zenon DEF Void
    <2> QED
        BY <1>1, <1>7, <2>1, <2>2
  <1>6. n \in Nat \ {0} /\ n <= Size /\ n <= Len(w.text)
        BY <1>1
  <1> QED
      BY <1>1, <1>4, <1>5, <1>6, <1>7, Zenon

\* Min of numbers, one of which is less than the others.
LEMMA MinIs ==
  ASSUME NEW S, S \subseteq Nat, NEW x \in S, \A y \in S : x <= y
  PROVE  Min(S) = x
PROOF
  <1>1. Min(S) \in S /\ \A y \in S : Min(S) <= y
        BY MinIsLeast
  <1>2. Min(S) \in Nat /\ x \in Nat /\ Min(S) <= x /\ x <= Min(S)
        BY <1>1
  <1> QED
      BY <1>2

\* A search for characters ends where it does in the text, if that was read
\* up to there; zero bytes are none of them.
LEMMA ToInText ==
  ASSUME text \in Texts, NEW w \in Written, NEW n \in Nat, Agrees(w, n),
         NEW chars \in SUBSET (Word \cup Marks),
         NEW p \in 1 .. Size + 1, NEW q \in Nat, p <= q,
         Without(w.text, p, q, chars),
         q <= Len(w.text) => CharOf(w.text, q) \in chars
  PROVE  To(p, chars) = IF q <= n THEN q ELSE Size + 1
PROOF
  <1> DEFINE found == {r \in p .. Size : Char(r) \in chars} \cup {Size + 1}
  <1>1. /\ n \in Nat /\ Size \in Nat /\ n <= Size
        /\ Len(w.text) \in Nat /\ n <= Len(w.text)
        /\ \A r \in 1 .. n : Char(r) = CharOf(w.text, r)
        /\ \A r \in Int : r > n => Char(r) \in Void
        BY AgreesFacts
  <1>2. \A c \in Void : c \notin chars
        BY MarksAreNoWords
  <1>3. ASSUME NEW r \in p .. Size, Char(r) \in chars
        PROVE  r <= n /\ q <= r
    <2>1. r <= n
          BY <1>1, <1>2, <1>3
    <2>2. r \in p .. q - 1 => FALSE
      <3>1. CharOf(w.text, r) \in chars
            BY <1>1, <1>3, <2>1
      <3> QED
          BY <3>1 DEF Without
    <2> QED
        BY <2>1, <2>2
  <1>4. found \subseteq Nat
        BY <1>1
  <1>5. To(p, chars) = Min(found)
        BY DEF To
  <1>6. CASE q <= n
    <2>1. q \in found
      <3>1. q \in 1 .. n /\ q <= Len(w.text) /\ q \in p .. Size
            BY <1>1, <1>6
      <3>2. Char(q) \in chars
            BY <1>1, <3>1
      <3> QED
          BY <3>1, <3>2
    <2>2. \A y \in found : q <= y
          BY <1>1, <1>3, <1>6
    <2> HIDE DEF found
    <2> QED
        BY <1>4, <1>5, <1>6, <2>1, <2>2, MinIs
  <1>7. CASE ~ (q <= n)
    <2>1. \A y \in found : y = Size + 1
          BY <1>1, <1>3, <1>7
    <2>2. Size + 1 \in found
          OBVIOUS
    <2> HIDE DEF found
    <2>3. \A y \in found : Size + 1 <= y
          BY <1>1, <2>1
    <2> QED
        BY <1>4, <1>5, <1>7, <2>2, <2>3, MinIs
  <1> QED
      BY <1>6, <1>7

\* A run of characters ends where it does in the text, or where that was cut.
LEMMA PastInText ==
  ASSUME text \in Texts, NEW w \in Written, NEW n \in Nat, Agrees(w, n),
         NEW chars \in SUBSET (Word \cup Marks),
         NEW p \in 1 .. Size + 1, NEW q \in Nat, p <= q, p <= n + 1,
         Only(w.text, p, q, chars),
         q <= Len(w.text) => CharOf(w.text, q) \notin chars
  PROVE  Past(p, chars) = IF q <= n THEN q ELSE n + 1
PROOF
  <1> DEFINE found == {r \in p .. Size : Char(r) \notin chars} \cup {Size + 1}
             first1 == IF q <= n THEN q ELSE n + 1
  <1>1. /\ n \in Nat /\ Size \in Nat /\ n <= Size
        /\ Len(w.text) \in Nat /\ n <= Len(w.text)
        /\ \A r \in 1 .. n : Char(r) = CharOf(w.text, r)
        /\ \A r \in Int : r > n => Char(r) \in Void
        BY AgreesFacts
  <1>2. \A c \in Void : c \notin chars
        BY MarksAreNoWords
  <1>3. ASSUME NEW r \in p .. Size, Char(r) \notin chars
        PROVE  first1 <= r
    <2>1. r <= n => ~ (r \in p .. q - 1)
      <3>1. SUFFICES ASSUME r <= n, r \in p .. q - 1
                     PROVE  FALSE
            OBVIOUS
      <3>2. r \in 1 .. n
            BY <1>1, <3>1
      <3>3. CharOf(w.text, r) \notin chars
            BY <1>1, <1>3, <3>2
      <3> QED
          BY <3>1, <3>3 DEF Only
    <2> QED
        BY <1>1, <2>1
  <1>4. found \subseteq Nat
        BY <1>1
  <1>5. Past(p, chars) = Min(found)
        BY DEF Past
  <1>6. first1 \in found
    <2>1. CASE q <= n
      <3>1. q \in 1 .. n /\ q <= Len(w.text) /\ q \in p .. Size
            BY <1>1, <2>1
      <3>2. Char(q) \notin chars
            BY <1>1, <3>1
      <3> QED
          BY <2>1, <3>1, <3>2
    <2>2. CASE ~ (q <= n) /\ n < Size
      <3>1. n + 1 \in p .. Size /\ n + 1 \in Int /\ n + 1 > n
            BY <1>1, <2>2
      <3>2. Char(n + 1) \notin chars
            BY <1>1, <1>2, <3>1
      <3> QED
          BY <2>2, <3>1, <3>2
    <2>3. CASE ~ (q <= n) /\ n = Size
          BY <1>1, <2>3
    <2> QED
        BY <1>1, <2>1, <2>2, <2>3
  <1>7. first1 <= Size + 1
        BY <1>1
  <1>8. \A y \in found : first1 <= y
        BY <1>3, <1>7
  <1> HIDE DEF found, first1
  <1>9. Past(p, chars) = first1
        BY <1>4, <1>5, <1>6, <1>8, MinIs
  <1> QED
      BY <1>9 DEF first1

-----------------------------------------------------------------------------
(* The order the nodes are visited in.                                     *)

\* What forEachNode shows of a node.
Visit(h, n, depth) ==
  [depth |-> depth, key |-> h[n].key, type |-> h[n].type,
   integer |-> h[n].value.integer, string |-> h[n].value.string]

\* Nodes n to m, in the order they were allocated in, so much deeper than in
\* the text.
Span(w, h, n, m, deeper) ==
  [i \in 1 .. m - n + 1 |-> Visit(h, n + i - 1, deeper + Level(w, n + i - 1))]

\* The last node of the list that begins with node n, and of all below it.
ListEndsAt(w, size, n, m) ==
  /\ m \in n .. size
  /\ \A q \in n .. m : Level(w, q) >= Level(w, n)
  /\ m < size => Level(w, m + 1) < Level(w, n)

EndOf(w, size, n) == CHOOSE m : ListEndsAt(w, size, n, m)

\* A heap whose nodes are the first of a text's, all of them complete.
Built(w, h, size) ==
  /\ Len(h) = size /\ size <= Len(w.nodes)
  /\ Linked(w, h, {})
  /\ Rising(w, size)

\* A list ends somewhere.
LEMMA EndExists ==
  ASSUME NEW w \in Written, NEW size \in Nat, size <= Len(w.nodes), NEW n \in 1 .. size
  PROVE  ListEndsAt(w, size, n, EndOf(w, size, n))
PROOF
  <1> DEFINE ends == {m \in n .. size : m = size \/ Level(w, m + 1) < Level(w, n)}
  <1>1. ends \subseteq Nat /\ size \in ends
        OBVIOUS
  <1>2. PICK m \in ends : \A q \in ends : m <= q
        BY <1>1, LeastNumber
  <1>3. \A q \in 1 .. size : Level(w, q) \in Nat
        BY WrittenFacts
  <1>4. ASSUME NEW q \in n .. m
        PROVE  Level(w, q) >= Level(w, n)
    <2>1. CASE q = n
          BY <1>3, <2>1
    <2>2. CASE q # n
      <3>1. q - 1 \in n .. size /\ q - 1 < m /\ q - 1 + 1 = q /\ q \in 1 .. size
            BY <1>2, <2>2
      <3>2. q - 1 \notin ends
            BY <1>2, <3>1
      <3>3. ~ (Level(w, q) < Level(w, n))
            BY <3>1, <3>2
      <3> QED
          BY <1>3, <3>1, <3>3
    <2> QED
        BY <2>1, <2>2
  <1>5. ListEndsAt(w, size, n, m)
        BY <1>2, <1>4 DEF ListEndsAt
  <1> QED
      BY <1>5, Zenon DEF EndOf

\* A list ends only there.
LEMMA EndIs ==
  ASSUME NEW w \in Written, NEW size \in Nat, size <= Len(w.nodes), NEW n \in 1 .. size,
         NEW m, ListEndsAt(w, size, n, m)
  PROVE  EndOf(w, size, n) = m
PROOF
  <1> DEFINE e == EndOf(w, size, n)
  <1>1. ListEndsAt(w, size, n, e)
        BY EndExists
  <1>2. \A q \in 1 .. size : Level(w, q) \in Nat
        BY WrittenFacts
  <1> HIDE DEF e
  <1>3. /\ m \in n .. size /\ e \in n .. size
        /\ \A q \in n .. m : Level(w, q) >= Level(w, n)
        /\ \A q \in n .. e : Level(w, q) >= Level(w, n)
        /\ m < size => Level(w, m + 1) < Level(w, n)
        /\ e < size => Level(w, e + 1) < Level(w, n)
        BY <1>1 DEF ListEndsAt
  <1>4. ~ (m < e)
    <2>1. SUFFICES ASSUME m < e PROVE FALSE
          OBVIOUS
    <2>2. m + 1 \in n .. e /\ m < size /\ m + 1 \in 1 .. size
          BY <1>3, <2>1
    <2>3. Level(w, m + 1) >= Level(w, n) /\ Level(w, m + 1) < Level(w, n)
          BY <1>3, <2>2
    <2> QED
        BY <1>2, <2>2, <2>3
  <1>5. ~ (e < m)
    <2>1. SUFFICES ASSUME e < m PROVE FALSE
          OBVIOUS
    <2>2. e + 1 \in n .. m /\ e < size /\ e + 1 \in 1 .. size
          BY <1>3, <2>1
    <2>3. Level(w, e + 1) >= Level(w, n) /\ Level(w, e + 1) < Level(w, n)
          BY <1>3, <2>2
    <2> QED
        BY <1>2, <2>2, <2>3
  <1>6. e = m
        BY <1>3, <1>4, <1>5
  <1> QED
      BY <1>6 DEF e

\* Two spans of nodes that follow one another are one.
LEMMA SpanJoined ==
  ASSUME NEW w, NEW h, NEW deeper, NEW n \in Nat \ {0}, NEW m \in Nat, NEW r \in Nat,
         n <= m + 1, m <= r
  PROVE  Span(w, h, n, m, deeper) \o Span(w, h, m + 1, r, deeper) = Span(w, h, n, r, deeper)
PROOF
  <1> DEFINE V(k) == Visit(h, k, deeper + Level(w, k))
             s == [i \in 1 .. m - n + 1 |-> V(n + i - 1)]
             t == [i \in 1 .. r - (m + 1) + 1 |-> V(m + 1 + i - 1)]
             u == [i \in 1 .. r - n + 1 |-> V(n + i - 1)]
  <1>1. /\ Span(w, h, n, m, deeper) = s
        /\ Span(w, h, m + 1, r, deeper) = t
        /\ Span(w, h, n, r, deeper) = u
        BY Zenon DEF Span
  <1>2. s \o t = u
    <2> HIDE DEF V
    <2>1. /\ m - n + 1 \in Nat /\ r - (m + 1) + 1 \in Nat /\ r - n + 1 \in Nat
          /\ (m - n + 1) + (r - (m + 1) + 1) = r - n + 1
          OBVIOUS
    <2>2. /\ Len(s) = m - n + 1 /\ Len(t) = r - (m + 1) + 1
          BY <2>1
    <2> DEFINE S == {V(k) : k \in Int}
    <2>3. ASSUME NEW i \in Int
          PROVE  V(i) \in S
          OBVIOUS
    <2>7. \A i \in Int : n + i - 1 \in Int /\ m + 1 + i - 1 \in Int
          OBVIOUS
    <2>8. s \in Seq(S) /\ t \in Seq(S) /\ u \in Seq(S)
      <3> HIDE DEF S
      <3> QED
          BY <2>1, <2>3, <2>7
    <2>4. ASSUME NEW i \in 1 .. r - n + 1
          PROVE  (IF i <= Len(s) THEN s[i] ELSE t[i - Len(s)]) = V(n + i - 1)
      <3>1. CASE i <= m - n + 1
        <4>1. i \in 1 .. m - n + 1
              BY <3>1
        <4>2. s[i] = V(n + i - 1)
              BY <4>1
        <4> QED
            BY <2>2, <3>1, <4>2
      <3>2. CASE ~ (i <= m - n + 1)
        <4>1. /\ i - (m - n + 1) \in 1 .. r - (m + 1) + 1
              /\ m + 1 + (i - (m - n + 1)) - 1 = n + i - 1
              BY <3>2
        <4>2. t[i - (m - n + 1)] = V(m + 1 + (i - (m - n + 1)) - 1)
              BY <4>1
        <4> QED
            BY <2>2, <3>2, <4>1, <4>2
      <3> QED
          BY <3>1, <3>2
    <2>6. Len(s) + Len(t) = r - n + 1 /\ Len(u) = r - n + 1
          BY <2>1, <2>2
    <2>9. \A i \in 1 .. r - n + 1 : u[i] = V(n + i - 1)
          OBVIOUS
    <2> HIDE DEF s, t, u, S
    <2>5. \A i \in 1 .. r - n + 1 : (s \o t)[i] = u[i]
      <3>1. ASSUME NEW i \in 1 .. r - n + 1
            PROVE  (s \o t)[i] = u[i]
        <4>1. i \in 1 .. Len(s) + Len(t)
              BY <2>6
        <4>2. (s \o t)[i] = IF i <= Len(s) THEN s[i] ELSE t[i - Len(s)]
              BY <2>8, <4>1
        <4> QED
            BY <2>4, <2>9, <4>2, Zenon
      <3> QED
          BY <3>1, Zenon
    <2>10. s \o t \in Seq(S) /\ Len(s \o t) = Len(s) + Len(t)
          BY <2>8
    <2> QED
        BY <2>5, <2>6, <2>8, <2>10, SeqEqual
  <1> QED
      BY <1>1, <1>2, Zenon

\* Where the nodes below a complete node and behind it are: the list below
\* ends right before its next sibling, or where its own list ends.
LEMMA SettledNode ==
  ASSUME NEW w \in Written, NEW h, NEW size \in Nat, Built(w, h, size), NEW n \in 1 .. size
  PROVE  LET below == BelowIn(h, n)
             next  == h[n].next
             end   == EndOf(w, size, n)
             m     == IF below = NULL THEN n ELSE EndOf(w, size, below)
         IN  /\ below # NULL => below = n + 1 /\ below \in 1 .. size
                                /\ Level(w, below) = Level(w, n) + 1
             /\ next # NULL => next = m + 1 /\ next \in 1 .. size
                               /\ Level(w, next) = Level(w, n)
                               /\ EndOf(w, size, next) = end
             /\ next = NULL => m = end
             /\ m \in n .. end /\ end \in n .. size
PROOF
  <1> DEFINE below == BelowIn(h, n)
             next  == h[n].next
             end   == EndOf(w, size, n)
             m     == IF below = NULL THEN n ELSE EndOf(w, size, below)
  <1>1. \A q \in 1 .. size : Level(w, q) \in Nat
        BY WrittenFacts DEF Built
  <1>2. /\ size <= Len(w.nodes) /\ Len(h) = size
        /\ n < size => Level(w, n + 1) <= Level(w, n) + 1
        BY DEF Built, Rising
  <1>3. Settled(w, h, n)
        BY <1>2 DEF Built, Linked
  <1>4. /\ below = IF n < size /\ Level(w, n + 1) > Level(w, n) THEN n + 1 ELSE NULL
        /\ \/ next \in 1 .. size /\ Follows(w, n, next)
           \/ next = NULL /\ \A q \in 1 .. size : ~ Follows(w, n, q)
        BY <1>2, <1>3 DEF Settled
  <1>5. below # NULL => below = n + 1 /\ below \in 1 .. size
                        /\ Level(w, below) = Level(w, n) + 1
        BY <1>1, <1>2, <1>4 DEF NULL
  <1>6. ListEndsAt(w, size, n, end)
        BY <1>2, EndExists
  <1>7. below # NULL => ListEndsAt(w, size, below, m)
    <2> HIDE DEF below
    <2> QED
        BY <1>2, <1>5, EndExists
  <1> HIDE DEF below, next, end
  \* The nodes to m are deeper than n, and the one behind is not.
  <1>8. /\ m \in n .. size
        /\ \A q \in n + 1 .. m : Level(w, q) > Level(w, n)
        /\ m < size => Level(w, m + 1) <= Level(w, n)
    <2>1. CASE below = NULL
          BY <1>1, <1>4, <2>1 DEF NULL
    <2>2. CASE below # NULL
      <3> HIDE DEF m
      <3>1. /\ m \in n + 1 .. size
            /\ \A q \in n + 1 .. m : Level(w, q) >= Level(w, n) + 1
            /\ m < size => Level(w, m + 1) < Level(w, n) + 1
            BY <1>5, <1>7, <2>2 DEF ListEndsAt
      <3>2. m < size => m + 1 \in 1 .. size
            BY <3>1
      <3> QED
          BY <1>1, <3>1, <3>2
    <2> QED
        BY <2>1, <2>2
  <1> HIDE DEF m
  <1>9. next # NULL => next = m + 1 /\ next \in 1 .. size /\ Level(w, next) = Level(w, n)
    <2>1. SUFFICES ASSUME next # NULL
                   PROVE  next = m + 1 /\ next \in 1 .. size /\ Level(w, next) = Level(w, n)
          OBVIOUS
    <2>2. /\ next \in 1 .. size /\ n < next /\ Level(w, next) = Level(w, n)
          /\ \A r \in n + 1 .. next - 1 : Level(w, r) > Level(w, n)
          BY <1>4, <2>1 DEF Follows
    <2>3. ~ (next <= m)
      <3>1. next \in n + 1 .. m => Level(w, next) > Level(w, n)
            BY <1>8
      <3> QED
          BY <1>1, <1>8, <2>2, <3>1
    <2>4. ~ (m + 1 < next)
      <3>1. m + 1 < next => m + 1 \in n + 1 .. next - 1 /\ m < size /\ m + 1 \in 1 .. size
            BY <1>8, <2>2
      <3> QED
          BY <1>1, <1>8, <2>2, <3>1
    <2> QED
        BY <1>8, <2>2, <2>3, <2>4
  <1>10. next # NULL => EndOf(w, size, next) = end /\ m <= end
    <2>1. SUFFICES ASSUME next # NULL
                   PROVE  EndOf(w, size, next) = end /\ m <= end
          OBVIOUS
    <2>2. next = m + 1 /\ next \in 1 .. size /\ Level(w, next) = Level(w, n)
          BY <1>9, <2>1
    <2>3. /\ end \in n .. size
          /\ \A q \in n .. end : Level(w, q) >= Level(w, n)
          /\ end < size => Level(w, end + 1) < Level(w, n)
          BY <1>6 DEF ListEndsAt
    <2>4. ~ (end < next)
      <3>1. end < next => end + 1 \in n + 1 .. m \/ end + 1 = next
            BY <1>8, <2>2, <2>3
      <3>2. end < next => end < size /\ end + 1 \in 1 .. size
            BY <2>2, <2>3
      <3> QED
          BY <1>1, <1>8, <2>2, <2>3, <3>1, <3>2
    <2>5. ListEndsAt(w, size, next, end)
          BY <1>8, <2>2, <2>3, <2>4 DEF ListEndsAt
    <2>6. EndOf(w, size, next) = end
          BY <1>2, <2>2, <2>5, EndIs
    <2> QED
        BY <1>8, <2>2, <2>3, <2>4, <2>6
  <1>11. next = NULL => m = end
    <2>1. SUFFICES ASSUME next = NULL
                   PROVE  ListEndsAt(w, size, n, m)
          BY <1>2, EndIs DEF end
    <2>2. \A q \in 1 .. size : ~ Follows(w, n, q)
          BY <1>4, <2>1 DEF NULL
    <2>3. m < size => Level(w, m + 1) # Level(w, n)
      <3>1. SUFFICES ASSUME m < size, Level(w, m + 1) = Level(w, n)
                     PROVE  FALSE
            OBVIOUS
      <3>2. m + 1 \in 1 .. size /\ m + 1 - 1 = m /\ n < m + 1
            BY <1>8, <3>1
      <3>3. Follows(w, n, m + 1)
            BY <1>8, <3>1, <3>2 DEF Follows
      <3> QED
          BY <2>2, <3>2, <3>3
    <2>4. m < size => m + 1 \in 1 .. size
          BY <1>8
    <2>5. \A q \in n .. m : q = n \/ q \in n + 1 .. m
          OBVIOUS
    <2>6. \A q \in n .. m : q \in 1 .. size
          BY <1>8
    <2> QED
        BY <1>1, <1>8, <2>3, <2>4, <2>5, <2>6 DEF ListEndsAt
  <1>12. end \in n .. size
        BY <1>6 DEF ListEndsAt
  <1>13. m \in n .. end
        BY <1>8, <1>10, <1>11, <1>12
  <1> QED
      BY <1>5, <1>9, <1>10, <1>11, <1>12, <1>13 DEF below, next, end, m

\* Visits's equation for the nodes of a heap.
VisitStep(h, size, f) ==
  [n \in 0 .. size |->
    [depth \in Nat |->
       IF n = NULL THEN <<>>
       ELSE <<Visit(h, n, depth)>>
              \o f[BelowIn(h, n)][depth + 1] \o f[h[n].next][depth]]]

\* What solves it.
Solution(w, h, size) ==
  [n \in 0 .. size |->
    [depth \in Nat |->
       IF n = NULL THEN <<>>
       ELSE Span(w, h, n, EndOf(w, size, n), depth - Level(w, n))]]

\* The spans of nodes from each node on solve that equation.
LEMMA SolutionSolves ==
  ASSUME NEW w \in Written, NEW h, NEW size \in Nat, Built(w, h, size)
  PROVE  Solution(w, h, size) = VisitStep(h, size, Solution(w, h, size))
PROOF
  <1> DEFINE f == Solution(w, h, size)
  <1>1. \A q \in 1 .. size : Level(w, q) \in Nat
        BY WrittenFacts DEF Built
  <1>2. \A n \in 0 .. size : \A depth \in Nat :
          f[n][depth] = IF n = NULL THEN <<>>
                        ELSE Span(w, h, n, EndOf(w, size, n), depth - Level(w, n))
        BY Zenon DEF Solution
  <1>6. ASSUME NEW q \in 0 .. size, q # NULL, NEW d \in Nat
        PROVE  f[q][d] = Span(w, h, q, EndOf(w, size, q), d - Level(w, q))
        BY <1>2, <1>6, Zenon
  <1>3. ASSUME NEW n \in 1 .. size, NEW depth \in Nat
        PROVE  f[n][depth] = <<Visit(h, n, depth)>>
                  \o f[BelowIn(h, n)][depth + 1] \o f[h[n].next][depth]
    <2> DEFINE below == BelowIn(h, n)
               next  == h[n].next
               end   == EndOf(w, size, n)
               m     == IF below = NULL THEN n ELSE EndOf(w, size, below)
               deeper == depth - Level(w, n)
    <2>1. /\ below # NULL => below = n + 1 /\ below \in 1 .. size
                              /\ Level(w, below) = Level(w, n) + 1
          /\ next # NULL => next = m + 1 /\ next \in 1 .. size
                            /\ Level(w, next) = Level(w, n) /\ EndOf(w, size, next) = end
          /\ next = NULL => m = end
          /\ m \in n .. end /\ end \in n .. size
          BY SettledNode
    <2>2. /\ Level(w, n) \in Nat /\ n \in 0 .. size /\ n # NULL /\ depth + 1 \in Nat
          /\ NULL \in 0 .. size
          BY <1>1 DEF NULL
    <2> HIDE DEF f, below, next, end
    <2>3. f[below][depth + 1] = Span(w, h, n + 1, m, deeper)
      <3>1. CASE below = NULL
        <4>1. f[below][depth + 1] = <<>>
              BY <1>2, <2>2, <3>1
        <4>2. Span(w, h, n + 1, n, deeper) = <<>>
          <5>1. n - (n + 1) + 1 = 0
                OBVIOUS
          <5> HIDE DEF deeper
          <5>2. Span(w, h, n + 1, n, deeper)
                  = [i \in 1 .. 0 |-> Visit(h, n + 1 + i - 1, deeper + Level(w, n + 1 + i - 1))]
                BY <5>1, Zenon DEF Span
          <5> QED
              BY <5>2
        <4> QED
            BY <3>1, <4>1, <4>2
      <3>2. CASE below # NULL
        <4>1. below \in 0 .. size /\ below = n + 1 /\ (depth + 1) - Level(w, below) = deeper
              BY <2>1, <2>2, <3>2
        <4> HIDE DEF deeper, m
        <4>3. \A d \in Nat : f[below][d]
                = Span(w, h, below, EndOf(w, size, below), d - Level(w, below))
              BY <1>6, <3>2, <4>1, Zenon
        <4>2. f[below][depth + 1]
                = Span(w, h, below, EndOf(w, size, below), (depth + 1) - Level(w, below))
          <5>1. depth + 1 \in Nat
                OBVIOUS
          <5> QED
              BY <4>3, <5>1, Zenon
        <4>4. EndOf(w, size, below) = m
              BY <3>2 DEF m
        <4>5. below = n + 1 /\ (depth + 1) - Level(w, below) = deeper
              BY <4>1
        <4> QED
            BY <4>2, <4>4, <4>5, Zenon
      <3> QED
          BY <3>1, <3>2
    <2>4. f[next][depth] = Span(w, h, m + 1, end, deeper)
      <3>1. CASE next = NULL
        <4>1. f[next][depth] = <<>>
              BY <1>2, <2>2, <3>1
        <4>2. Span(w, h, m + 1, m, deeper) = <<>>
          <5>1. m - (m + 1) + 1 = 0
                BY <2>1
          <5> HIDE DEF deeper, m
          <5>2. Span(w, h, m + 1, m, deeper)
                  = [i \in 1 .. 0 |-> Visit(h, m + 1 + i - 1, deeper + Level(w, m + 1 + i - 1))]
                BY <5>1, Zenon DEF Span
          <5> QED
              BY <5>2
        <4> QED
            BY <2>1, <3>1, <4>1, <4>2
      <3>2. CASE next # NULL
        <4>1. next \in 0 .. size /\ next = m + 1 /\ depth - Level(w, next) = deeper
              BY <2>1, <2>2, <3>2
        <4>2. f[next][depth] = Span(w, h, next, EndOf(w, size, next), depth - Level(w, next))
              BY <1>2, <2>2, <3>2, <4>1
        <4> QED
            BY <2>1, <3>2, <4>1, <4>2
      <3> QED
          BY <3>1, <3>2
    <2>5. <<Visit(h, n, depth)>> = Span(w, h, n, n, deeper)
      <3>1. deeper + Level(w, n) = depth /\ n - n + 1 = 1
            BY <2>2
      <3> HIDE DEF deeper
      <3>2. Span(w, h, n, n, deeper)
              = [i \in 1 .. 1 |-> Visit(h, n + i - 1, deeper + Level(w, n + i - 1))]
            BY <3>1, Zenon DEF Span
      <3>3. \A i \in 1 .. 1 : i = 1 /\ n + i - 1 = n
            OBVIOUS
      <3>4. [i \in 1 .. 1 |-> Visit(h, n + i - 1, deeper + Level(w, n + i - 1))]
              = [i \in 1 .. 1 |-> Visit(h, n, depth)]
            BY <3>1, <3>3
      <3>5. [i \in 1 .. 1 |-> Visit(h, n, depth)] = <<Visit(h, n, depth)>>
            OBVIOUS
      <3> QED
          BY <3>2, <3>4, <3>5
    <2>6. f[n][depth] = Span(w, h, n, end, deeper)
          BY <1>2, <2>2 DEF end
    <2> HIDE DEF deeper, m
    <2>9. /\ n \in Nat \ {0} /\ n \in Nat /\ m \in Nat /\ end \in Nat
          /\ n <= n + 1 /\ n <= m /\ n <= m + 1 /\ m <= end
          BY <2>1
    <2>10. \A a \in Nat \ {0}, b \in Nat, c \in Nat :
             (a <= b + 1 /\ b <= c) =>
                Span(w, h, a, b, deeper) \o Span(w, h, b + 1, c, deeper)
                  = Span(w, h, a, c, deeper)
           BY SpanJoined, Zenon
    <2>7. Span(w, h, n, n, deeper) \o Span(w, h, n + 1, m, deeper) = Span(w, h, n, m, deeper)
          BY <2>9, <2>10, Zenon
    <2>8. Span(w, h, n, m, deeper) \o Span(w, h, m + 1, end, deeper)
            = Span(w, h, n, end, deeper)
          BY <2>9, <2>10, Zenon
    <2> QED
        BY <2>3, <2>4, <2>5, <2>6, <2>7, <2>8 DEF below, next
  <1>4. ASSUME NEW n \in 0 .. size
        PROVE  f[n] = [depth \in Nat |->
                         IF n = NULL THEN <<>>
                         ELSE <<Visit(h, n, depth)>>
                                \o f[BelowIn(h, n)][depth + 1] \o f[h[n].next][depth]]
    <2>1. f[n] = [depth \in Nat |-> f[n][depth]]
          BY Zenon DEF Solution
    <2>2. n # NULL => n \in 1 .. size
          BY DEF NULL
    <2>3. ASSUME NEW depth \in Nat
          PROVE  f[n][depth] = IF n = NULL THEN <<>>
                         ELSE <<Visit(h, n, depth)>>
                                \o f[BelowIn(h, n)][depth + 1] \o f[h[n].next][depth]
      <3> HIDE DEF f
      <3>1. CASE n = NULL
            BY <1>2, <3>1
      <3>2. CASE n # NULL
            BY <1>3, <2>2, <3>2
      <3> QED
          BY <3>1, <3>2
    <2> HIDE DEF f
    <2> QED
        BY <2>1, <2>3, Zenon
  <1>5. f = [n \in 0 .. size |-> f[n]]
        BY Zenon DEF Solution
  <1> HIDE DEF f
  <1>7. f = VisitStep(h, size, f)
        BY <1>4, <1>5, Zenon DEF VisitStep
  <1> QED
      BY <1>7 DEF f

\* Nothing else solves it: the pointers lead to nodes behind.
LEMMA SolutionUnique ==
  ASSUME NEW w \in Written, NEW h, NEW size \in Nat, Built(w, h, size),
         NEW f, f = VisitStep(h, size, f), NEW g, g = VisitStep(h, size, g)
  PROVE  \A n \in 0 .. size : f[n] = g[n]
PROOF
  <1> DEFINE wrong == {k \in 0 .. size : f[size - k] # g[size - k]}
  <1>1. SUFFICES ASSUME wrong # {} PROVE FALSE
    <2>1. \A n \in 0 .. size : size - n \in 0 .. size /\ size - (size - n) = n
          OBVIOUS
    <2>2. wrong = {} => \A k \in 0 .. size : f[size - k] = g[size - k]
          OBVIOUS
    <2> QED
        BY <2>1, <2>2
  <1>2. wrong \subseteq Nat
        OBVIOUS
  <1>3. PICK k \in wrong : \A j \in wrong : k <= j
        BY <1>1, <1>2, LeastNumber
  <1> DEFINE n == size - k
  <1>4. n \in 0 .. size /\ f[n] # g[n]
        BY <1>3
  <1>5. ASSUME NEW m \in 0 .. size, m > n
        PROVE  f[m] = g[m]
    <2>1. size - m \in 0 .. size /\ ~ (k <= size - m) /\ size - (size - m) = m
          BY <1>4, <1>5
    <2>2. size - m \notin wrong
          BY <1>3, <2>1
    <2> QED
        BY <2>1, <2>2
  <1> HIDE DEF n, wrong
  <1>6. f[n] = [depth \in Nat |->
                  IF n = NULL THEN <<>>
                  ELSE <<Visit(h, n, depth)>>
                         \o f[BelowIn(h, n)][depth + 1] \o f[h[n].next][depth]]
    <2>1. f[n] = VisitStep(h, size, f)[n]
          BY Zenon
    <2> QED
        BY <1>4, <2>1, Zenon DEF VisitStep
  <1>7. g[n] = [depth \in Nat |->
                  IF n = NULL THEN <<>>
                  ELSE <<Visit(h, n, depth)>>
                         \o g[BelowIn(h, n)][depth + 1] \o g[h[n].next][depth]]
    <2>1. g[n] = VisitStep(h, size, g)[n]
          BY Zenon
    <2> QED
        BY <1>4, <2>1, Zenon DEF VisitStep
  <1>8. CASE n = NULL
        BY <1>4, <1>6, <1>7, <1>8, Zenon
  <1>9. CASE n # NULL
    <2>1. n \in 1 .. size
          BY <1>4, <1>9 DEF NULL
    <2>2. \A m \in {BelowIn(h, n), h[n].next} : f[m] = g[m]
      <3>1. f[NULL] = g[NULL]
        <4>1. NULL \in 0 .. size
              BY DEF NULL
        <4>2. f[NULL] = VisitStep(h, size, f)[NULL] /\ g[NULL] = VisitStep(h, size, g)[NULL]
              BY Zenon
        <4>3. VisitStep(h, size, f)[NULL] = [depth \in Nat |-> <<>>]
              BY <4>1, Zenon DEF VisitStep
        <4>4. VisitStep(h, size, g)[NULL] = [depth \in Nat |-> <<>>]
              BY <4>1, Zenon DEF VisitStep
        <4> QED
            BY <4>2, <4>3, <4>4, Zenon
      <3>2. BelowIn(h, n) # NULL => BelowIn(h, n) \in 0 .. size /\ BelowIn(h, n) > n
            BY <2>1, SettledNode
      <3>3. h[n].next # NULL => h[n].next \in 0 .. size /\ h[n].next > n
        <4>1. Settled(w, h, n)
              BY <2>1 DEF Built, Linked
        <4>2. h[n].next # NULL => h[n].next \in 1 .. size /\ n < h[n].next
              BY <4>1 DEF Settled, Follows, Built
        <4> QED
            BY <2>1, <4>2
      <3> QED
          BY <1>5, <3>1, <3>2, <3>3
    <2>3. f[BelowIn(h, n)] = g[BelowIn(h, n)] /\ f[h[n].next] = g[h[n].next]
          BY <2>2, Zenon
    <2>4. f[n] = g[n]
          BY <1>6, <1>7, <2>3
    <2> QED
        BY <1>4, <2>4
  <1> QED
      BY <1>8, <1>9

\* The nodes of a built heap are visited in the order they were allocated in.
LEMMA BuiltVisits ==
  ASSUME NEW w \in Written, Len(heap) \in Nat \ {0}, Built(w, heap, Len(heap))
  PROVE  Visits = [n \in 1 .. Len(heap) |-> Visit(heap, n, Level(w, n))]
PROOF
  <1> DEFINE size == Len(heap)
             f == CHOOSE f : f = VisitStep(heap, size, f)
             s == Solution(w, heap, size)
  <1>1. size \in Nat \ {0} /\ Built(w, heap, size)
        OBVIOUS
  <1> HIDE DEF size
  <1>2. s = VisitStep(heap, size, s)
        BY <1>1, SolutionSolves
  <1> HIDE DEF s
  <1>3. f = VisitStep(heap, size, f)
        BY <1>2, Zenon
  <1>4. Visits = f[1][0]
        BY Zenon DEF Visits, VisitStep, Visit, Below, BelowIn, size
  <1> HIDE DEF f
  <1>5. 1 \in 0 .. size /\ 1 # NULL /\ 1 \in 1 .. size /\ 0 \in Nat
        BY <1>1 DEF NULL
  <1>6. f[1] = s[1]
    <2>1. size \in Nat
          BY <1>1
    <2>2. \A n \in 0 .. size : f[n] = s[n]
      <3>1. \A g1, g2 :
              (g1 = VisitStep(heap, size, g1) /\ g2 = VisitStep(heap, size, g2)) =>
                 \A n \in 0 .. size : g1[n] = g2[n]
            BY <1>1, <2>1, SolutionUnique
      <3> QED
          BY <1>2, <1>3, <3>1, Zenon
    <2> QED
        BY <1>5, <2>2, Zenon
  <1>7. Level(w, 1) = 0
    <2>1. RootNode.depth = 0
          BY DEF RootNode
    <2> QED
        BY <2>1, WrittenFacts DEF Level
  <1>8. s[1][0] = Span(w, heap, 1, EndOf(w, size, 1), 0 - Level(w, 1))
        BY <1>5, Zenon DEF s, Solution
  <1>9. EndOf(w, size, 1) = size
    <2>1. \A q \in 1 .. size : Level(w, q) \in Nat
          BY <1>1, WrittenFacts DEF Built
    <2>2. ListEndsAt(w, size, 1, size)
          BY <1>1, <1>7, <2>1 DEF ListEndsAt
    <2> QED
        BY <1>1, <1>5, <2>2, EndIs DEF Built
  <1>10. Span(w, heap, 1, size, 0) = [n \in 1 .. size |-> Visit(heap, n, Level(w, n))]
    <2>1. \A i \in 1 .. size : 1 + i - 1 = i /\ 0 + Level(w, i) = Level(w, i)
      <3>1. \A q \in 1 .. size : Level(w, q) \in Nat
            BY <1>1, WrittenFacts DEF Built
      <3> QED
          BY <1>1, <3>1
    <2>2. size - 1 + 1 = size
          BY <1>1
    <2>3. Span(w, heap, 1, size, 0)
            = [i \in 1 .. size |-> Visit(heap, 1 + i - 1, 0 + Level(w, 1 + i - 1))]
          BY <2>2, Zenon DEF Span
    <2> QED
        BY <2>1, <2>3, Zenon
  <1>11. 0 - Level(w, 1) = 0
        BY <1>7
  <1> QED
      BY <1>4, <1>6, <1>8, <1>9, <1>10, <1>11 DEF size

-----------------------------------------------------------------------------
(* What a step does to the nodes and the activations.                      *)

\* A heap has one node more, behind this one, with the contents of x.
Grew(h, k, node, x) ==
  /\ k \in Heaps
  /\ Grown(h, k, node)
  /\ \A m \in 1 .. Len(h) : k[m].key = h[m].key
  /\ k[Len(k)].key = x.key /\ k[Len(k)].type = x.type /\ k[Len(k)].value = x.value

\* What newNode gives when nothing fails.
LEMMA NewNodeGrows ==
  ASSUME heap \in Heaps, failures \in 0 .. MaxFailures,
         NEW node \in 1 .. Len(heap), NEW new \in NewNode(node), new.failures = 0
  PROVE  /\ failures = 0 /\ new.node = Len(heap) + 1
         /\ Grew(heap, new.heap, node, Blank)
PROOF
  <1>1. /\ Len(heap) \in Nat /\ heap \in Seq(ListNodes) /\ heap[node] \in ListNodes
        /\ MaxFailures \in Nat
        BY HeapIsSequence, TextAssumption DEF TextAssumption
  <1>2. /\ new = [heap |-> Append([heap EXCEPT ![node].next = Len(heap) + 1], Blank),
                  node |-> Len(heap) + 1, failures |-> failures]
        BY <1>1 DEF NewNode
  <1> DEFINE x == [heap[node] EXCEPT !.next = Len(heap) + 1]
             linked == [heap EXCEPT ![node] = x]
             k == Append(linked, Blank)
  <1>3. /\ x \in ListNodes /\ x.next = Len(heap) + 1
        /\ x.key = heap[node].key /\ x.type = heap[node].type /\ x.value = heap[node].value
    <2>1. Len(heap) + 1 \in Nat
          BY <1>1
    <2> QED
        BY <1>1, <2>1 DEF ListNodes
  <1>4. /\ new.heap = k
        /\ new.node = Len(heap) + 1 /\ new.failures = failures
        BY <1>2
  <1> HIDE DEF x
  <1>5. /\ linked \in Seq(ListNodes) /\ Len(linked) = Len(heap) /\ linked[node] = x
        /\ \A n \in 1 .. Len(heap) : n # node => linked[n] = heap[n]
        BY <1>1, <1>3
  <1> HIDE DEF linked
  <1>6. /\ Len(k) = Len(heap) + 1 /\ k[Len(heap) + 1] = Blank
        /\ \A n \in 1 .. Len(heap) : k[n] = linked[n]
        BY <1>5, BlankIsNode, NodeAppended
  <1> HIDE DEF k
  <1>7. k \in Heaps
        BY <1>4, NewNodeEffect
  <1>8. BelowIn(k, Len(k)) = NULL
        BY <1>6, BlankIsNode DEF BelowIn, Blank
  <1>9. Grown(heap, k, node)
    <2>1. \A n \in 1 .. Len(heap) :
            /\ k[n].type = heap[n].type /\ k[n].value = heap[n].value
            /\ k[n].key = heap[n].key
            /\ n # node => k[n].next = heap[n].next
          BY <1>3, <1>5, <1>6
    <2>2. k[node].next = Len(heap) + 1
          BY <1>3, <1>5, <1>6
    <2> QED
        BY <1>6, <1>8, <2>1, <2>2, BlankIsNode DEF Grown
  <1>10. \A n \in 1 .. Len(heap) : k[n].key = heap[n].key
        BY <1>3, <1>5, <1>6
  <1> QED
      BY <1>4, <1>6, <1>7, <1>9, <1>10 DEF Grew

\* What is written to the new node does not change the others.
LEMMA GrewWritten ==
  ASSUME NEW h \in Heaps, NEW g \in Heaps, NEW node \in 1 .. Len(h), NEW size \in Nat,
         size = Len(h) + 1, NEW x, Grew(h, g, node, x),
         NEW y \in ListNodes, y.next = NULL, y.value.to = NULL
  PROVE  Grew(h, [g EXCEPT ![size] = y], node, y)
PROOF
  <1> DEFINE k == [g EXCEPT ![size] = y]
  <1>1. /\ Len(h) \in Nat /\ Len(g) = size /\ size \in 1 .. Len(g)
        /\ Len(g) \in 1 .. Len(g) /\ node # size
        BY HeapIsSequence DEF Grew, Grown
  <1>2. /\ k \in Heaps /\ Len(k) = Len(g) /\ k[size] = y
        /\ \A m \in 1 .. Len(g) : m # size => k[m] = g[m]
    <2>1. y.next \in 0 .. Len(g) /\ y.value.to \in 0 .. Len(g)
          BY <1>1 DEF NULL
    <2>2. size \in 1 .. Len(g)
          BY <1>1
    <2>3. /\ [g EXCEPT ![size] = y] \in Heaps /\ Len([g EXCEPT ![size] = y]) = Len(g)
          /\ [g EXCEPT ![size] = y][size] = y
          /\ \A m \in 1 .. Len(g) : m # size => [g EXCEPT ![size] = y][m] = g[m]
          BY <2>1, <2>2, NodeReplaced
    <2> QED
        BY <2>3, Zenon
  <1> HIDE DEF k
  <1>3. \A m \in 1 .. Len(h) : k[m] = g[m]
    <2>1. \A m \in 1 .. Len(h) : m \in 1 .. Len(g) /\ m # size
          BY <1>1
    <2> QED
        BY <1>2, <2>1, Zenon
  <1>4. BelowIn(k, Len(k)) = NULL
        BY <1>1, <1>2 DEF BelowIn
  <1>5. /\ g[node].next = Len(g)
        /\ \A n \in 1 .. Len(h) :
             /\ g[n].type = h[n].type /\ g[n].value = h[n].value
             /\ n # node => g[n].next = h[n].next
        BY DEF Grew, Grown
  <1>6. Grown(h, k, node)
        BY <1>1, <1>2, <1>3, <1>4, <1>5 DEF Grown
  <1>7. \A m \in 1 .. Len(h) : k[m].key = h[m].key
        BY <1>3 DEF Grew
  <1>8. Grew(h, k, node, y)
        BY <1>1, <1>2, <1>6, <1>7 DEF Grew
  <1> QED
      BY <1>8 DEF k

\* A key's node.
LEMMA KeyGrows ==
  ASSUME heap \in Heaps, failures \in 0 .. MaxFailures,
         NEW node \in 1 .. Len(heap), NEW new \in NewNode(node), new.failures = 0,
         NEW key \in Strings
  PROVE  Grew(heap, [new.heap EXCEPT ![new.node].key = key], node,
              [Blank EXCEPT !.key = key])
PROOF
  <1> DEFINE n == Len(heap) + 1
             x == [new.heap[n] EXCEPT !.key = key]
             y == [Blank EXCEPT !.key = key]
  <1>1. /\ new.node = n /\ Grew(heap, new.heap, node, Blank)
        BY NewNodeGrows
  <1>2. new.heap \in Heaps /\ Len(new.heap) = n /\ n \in 1 .. n
        BY <1>1, HeapIsSequence DEF Grew, Grown
  <1>3. new.heap[n] \in ListNodes
        BY <1>2, HeapIsSequence
  <1>4. /\ new.heap[n].next = NULL
        /\ new.heap[n].type = Blank.type /\ new.heap[n].value = Blank.value
        BY <1>1, <1>2 DEF Grew, Grown
  <1>5. /\ x \in ListNodes /\ x.next = NULL /\ x.value.to = NULL
        /\ x.key = key /\ x.type = Blank.type /\ x.value = Blank.value
        BY <1>3, <1>4, BlankIsNode DEF ListNodes
  <1>6. y.key = key /\ y.type = Blank.type /\ y.value = Blank.value
        BY BlankIsNode DEF ListNodes
  <1>7. [new.heap EXCEPT ![new.node].key = key] = [new.heap EXCEPT ![n] = x]
        BY <1>1
  <1> HIDE DEF x, y, n
  <1>8. Grew(heap, [new.heap EXCEPT ![n] = x], node, x)
    <2>1. n \in Nat /\ n = Len(heap) + 1
          BY <1>2, HeapIsSequence DEF n
    <2> QED
        BY <1>1, <1>2, <1>5, <2>1, GrewWritten
  <1>9. \A k : Grew(heap, k, node, x) => Grew(heap, k, node, y)
        BY <1>5, <1>6 DEF Grew
  <1> QED
      BY <1>7, <1>8, <1>9 DEF y

\* An element's node.
LEMMA ElementGrows ==
  ASSUME heap \in Heaps, failures \in 0 .. MaxFailures,
         NEW node \in 1 .. Len(heap), NEW new \in NewNode(node), new.failures = 0,
         NEW x, x.key \in Strings, x.type \in Types, x.value \in Values, x.value.to = NULL
  PROVE  Grew(heap, [new.heap EXCEPT ![new.node].type = x.type,
                                     ![new.node].value = x.value,
                                     ![new.node].key = x.key], node, x)
PROOF
  <1> DEFINE n == Len(heap) + 1
             y == [new.heap[n] EXCEPT !.type = x.type, !.value = x.value, !.key = x.key]
  <1>1. /\ new.node = n /\ Grew(heap, new.heap, node, Blank)
        BY NewNodeGrows
  <1>2. new.heap \in Heaps /\ Len(new.heap) = n /\ n \in 1 .. n
        BY <1>1, HeapIsSequence DEF Grew, Grown
  <1>3. new.heap[n] \in ListNodes /\ new.heap \in Seq(ListNodes)
        BY <1>2, HeapIsSequence
  <1>4. new.heap[n].next = NULL
        BY <1>1, <1>2 DEF Grew, Grown
  <1>5. /\ y \in ListNodes /\ y.next = NULL /\ y.value.to = NULL
        /\ y.key = x.key /\ y.type = x.type /\ y.value = x.value
        BY <1>3, <1>4 DEF ListNodes
  <1>7. [new.heap EXCEPT ![new.node].type = x.type, ![new.node].value = x.value,
                         ![new.node].key = x.key] = [new.heap EXCEPT ![n] = y]
        BY <1>1, <1>2, <1>3
  <1> HIDE DEF y, n
  <1>8. Grew(heap, [new.heap EXCEPT ![n] = y], node, y)
    <2>1. n \in Nat /\ n = Len(heap) + 1
          BY <1>2, HeapIsSequence DEF n
    <2> QED
        BY <1>1, <1>2, <1>5, <2>1, GrewWritten
  <1>9. \A k : Grew(heap, k, node, y) => Grew(heap, k, node, x)
        BY <1>5 DEF Grew
  <1> QED
      BY <1>7, <1>8, <1>9

\* What is known of the nodes while a text is read.
LEMMA ShapeFacts ==
  ASSUME IInv, NEW w \in Written, Shape(w), stage \in {"child", "list"}
  PROVE  /\ heap \in Heaps /\ Len(heap) \in Nat \ {0} /\ failures \in 0 .. MaxFailures
         /\ Len(heap) <= Len(w.nodes) /\ Len(w.nodes) \in Nat
         /\ \A n \in 1 .. Len(w.nodes) : Level(w, n) \in Nat
         /\ Rising(w, Len(heap))
         /\ Linked(w, heap, Open)
         /\ FramesFit(w, frames, Len(heap))
         /\ frames \in Seq(Activation) /\ Within(frames, Len(heap))
         /\ Len(frames) \in Nat \ {0}
         /\ Top = frames[Len(frames)] /\ Node = Top.node
         /\ Node \in 1 .. Len(heap) /\ Top.owner \in 1 .. Len(heap)
PROOF
  <1>1. /\ Len(heap) \in 1 .. Len(w.nodes) /\ Len(w.nodes) \in Nat
        /\ \A n \in 1 .. Len(w.nodes) : Level(w, n) \in Nat
        BY WrittenFacts DEF Shape
  <1>2. Rising(w, Len(heap)) /\ Linked(w, heap, Open) /\ FramesFit(w, frames, Len(heap))
        BY DEF Shape
  <1> QED
      BY <1>1, <1>2, TopOfStack

\* The nodes that are read are put together.
LEMMA ShapeOf ==
  ASSUME NEW w \in Written, NEW size \in Nat, Len(heap') = size,
         size \in 1 .. Len(w.nodes), Rising(w, size),
         Linked(w, heap', Owners(frames')), FramesFit(w, frames', size),
         stage' # "list"
  PROVE  Shape(w)'
PROOF
  <1>1. Open' = Owners(frames')
        BY DEF Open
  <1> QED
      BY <1>1 DEF Shape

\* A list that is read can have a node more, one level below its owner.
LEMMA RisingGrown ==
  ASSUME NEW w \in Written, NEW size \in Nat, size < Len(w.nodes), Rising(w, size),
         NEW owner \in 1 .. size, NEW begin, NEW at, ListFits(w, size, owner, begin, at),
         Level(w, size + 1) = Level(w, owner) + 1
  PROVE  Rising(w, size + 1)
PROOF
  <1>1. Len(w.nodes) \in Nat /\ \A n \in 1 .. Len(w.nodes) : Level(w, n) \in Nat
        BY WrittenFacts
  <1>2. Level(w, size) >= Level(w, owner)
    <2>1. CASE owner = size
          BY <1>1, <2>1
    <2>2. CASE owner # size
      <3>1. /\ at \in owner + 1 .. size /\ Level(w, at) = Level(w, owner) + 1
            /\ \A q \in at + 1 .. size : Level(w, q) > Level(w, at)
            BY <2>2 DEF ListFits
      <3>2. CASE at = size
            BY <1>1, <3>1, <3>2
      <3>3. CASE at # size
        <4>1. Level(w, size) > Level(w, at)
              BY <3>1, <3>3
        <4> QED
            BY <1>1, <3>1, <4>1
      <3> QED
          BY <3>2, <3>3
    <2> QED
        BY <2>1, <2>2
  <1>3. ASSUME NEW n \in 1 .. (size + 1) - 1
        PROVE  Level(w, n + 1) <= Level(w, n) + 1
    <2>1. CASE n = size
          BY <1>1, <1>2, <2>1
    <2>2. CASE n # size
      <3>1. n \in 1 .. size - 1
            BY <2>2
      <3> QED
          BY <3>1 DEF Rising
    <2> QED
        BY <2>1, <2>2
  <1> QED
      BY <1>3 DEF Rising

\* A key's node is the next child of the node the activation was called for.
LEMMA KeyShape ==
  ASSUME IInv, NEW w \in Written, Shape(w), stage = "child", stage' = "child",
         Len(heap) < Len(w.nodes), Level(w, Len(heap) + 1) = Len(frames),
         NEW key \in Strings, NEW new \in NewNode(Node), new.failures = 0,
         heap' = [new.heap EXCEPT ![new.node].key = key],
         frames' = Advanced(frames, new.node)
  PROVE  /\ Shape(w)'
         /\ Grew(heap, heap', Node, [Blank EXCEPT !.key = key])
         /\ Node' = Len(heap') /\ Top.owner' # Node' /\ Len(frames') = Len(frames)
PROOF
  <1> DEFINE size == Len(heap)
             top  == Len(frames)
  <1>1. /\ heap \in Heaps /\ size \in Nat \ {0} /\ failures \in 0 .. MaxFailures
        /\ size <= Len(w.nodes) /\ Len(w.nodes) \in Nat
        /\ \A n \in 1 .. Len(w.nodes) : Level(w, n) \in Nat
        /\ Rising(w, size) /\ Linked(w, heap, Open) /\ FramesFit(w, frames, size)
        /\ frames \in Seq(Activation) /\ Within(frames, size) /\ top \in Nat \ {0}
        /\ Top = frames[top] /\ Node = Top.node
        /\ Node \in 1 .. size /\ Top.owner \in 1 .. size
        BY ShapeFacts
  <1>2. /\ Grew(heap, heap', Node, [Blank EXCEPT !.key = key]) /\ new.node = size + 1
        BY <1>1, KeyGrows, NewNodeGrows
  <1>3. Grown(heap, heap', Node) /\ Len(heap') = size + 1
        BY <1>2 DEF Grew, Grown
  <1>4. Open = Owners(frames)
        BY DEF Open
  <1>5. /\ ListFits(w, size, Top.owner, Top.result, Node)
        /\ Level(w, Top.owner) = top - 1
        /\ Node # Top.owner => Level(w, Node) = top
        /\ Node = Top.owner => Node = size /\ Node \in Owners(frames)
    <2>1. top \in 1 .. Len(frames)
          BY <1>1
    <2> QED
        BY <1>1, <2>1, FrameFits, OwnersFacts
  <1>6. /\ \A n \in Owners(frames) : n \in 1 .. size /\ Level(w, n) < top
        BY <1>1, OwnersFacts
  <1>7. \/ Node \in Open /\ Node = size
        \/ /\ Node \notin Open /\ Level(w, Node) = Level(w, size + 1)
           /\ \A q \in Node + 1 .. size : Level(w, q) > Level(w, Node)
    <2>1. CASE Node = Top.owner
          BY <1>4, <1>5, <2>1
    <2>2. CASE Node # Top.owner
      <3>1. Node \notin Open
            BY <1>1, <1>4, <1>5, <1>6, <2>2
      <3>2. Top.owner # size
            BY <1>1, <1>5, <2>2 DEF ListFits
      <3>3. \A q \in Node + 1 .. size : Level(w, q) > Level(w, Node)
            BY <1>5, <3>2 DEF ListFits
      <3> QED
          BY <1>5, <2>2, <3>1, <3>3
    <2> QED
        BY <2>1, <2>2
  <1> HIDE DEF size, top
  <1>8. Linked(w, heap', Owners(frames))
    <2>1. size + 1 \notin Open
          BY <1>1, <1>4, <1>6
    <2>2. \A m \in 1 .. size : m \in Open => Level(w, m) < Level(w, size + 1)
          BY <1>1, <1>4, <1>6 DEF size, top
    <2>3. size \in Nat /\ Len(heap) = size /\ size < Len(w.nodes)
          BY <1>1 DEF size
    <2> QED
        BY <1>1, <1>3, <1>4, <1>7, <2>1, <2>2, <2>3, LinkedGrown
  <1>9. /\ FramesFit(w, frames', size + 1) /\ Owners(frames') = Owners(frames)
    <2>1. size \in Nat /\ size < Len(w.nodes) /\ Len(frames) > 0
          /\ Level(w, size + 1) = Len(frames)
          BY <1>1 DEF size, top
    <2> QED
        BY <1>1, <1>2, <2>1, FramesAdvanced
  <1>10. Rising(w, size + 1)
    <2>1. size \in Nat /\ size < Len(w.nodes) /\ Level(w, size + 1) = Level(w, Top.owner) + 1
          BY <1>1, <1>5 DEF size, top
    <2> QED
        BY <1>1, <1>5, <2>1, RisingGrown
  <1>11. /\ Len(frames') = top /\ frames'[top].node = size + 1
         /\ frames'[top].owner = frames[top].owner
    <2>1. /\ size \in Nat /\ size + 1 \in Nat /\ size <= size + 1 /\ Len(frames) > 0
          /\ new.node \in 1 .. size + 1
          BY <1>1, <1>2 DEF size, top
    <2> QED
        BY <1>1, <1>2, <2>1, AdvancedEffect DEF top
  <1>12. Node' = size + 1 /\ Top.owner' = Top.owner
         BY <1>1, <1>11 DEF Node, Top, Last
  <1>13. Shape(w)'
    <2>1. /\ size + 1 \in Nat /\ Len(heap') = size + 1 /\ size + 1 \in 1 .. Len(w.nodes)
          BY <1>1, <1>3 DEF size
    <2> QED
        BY <1>8, <1>9, <1>10, <2>1, ShapeOf
  <1> QED
      BY <1>1, <1>2, <1>3, <1>11, <1>12, <1>13 DEF size, top

\* The node that is read last, when it is not the activation's own, is in no
\* list that is read.
LEMMA NodeNotOpen ==
  ASSUME IInv, NEW w \in Written, Shape(w), stage \in {"child", "list"}, Top.owner # Node
  PROVE  /\ Node \notin Owners(frames) /\ Level(w, Node) = Len(frames)
         /\ ListFits(w, Len(heap), Top.owner, Top.result, Node)
         /\ Level(w, Top.owner) = Len(frames) - 1
         /\ \A n \in Owners(frames) : n \in 1 .. Len(heap) /\ Level(w, n) < Len(frames)
PROOF
  <1>1. Len(frames) \in 1 .. Len(frames) /\ Len(frames) \in Nat /\ Len(heap) \in Nat
        BY ShapeFacts
  <1>2. /\ ListFits(w, Len(heap), Top.owner, Top.result, Node)
        /\ Level(w, Top.owner) = Len(frames) - 1
        /\ Level(w, Node) = Len(frames)
        BY <1>1, ShapeFacts, FrameFits
  <1>3. \A n \in Owners(frames) : n \in 1 .. Len(heap) /\ Level(w, n) < Len(frames)
        BY <1>1, ShapeFacts, OwnersFacts
  <1>4. Node \notin Owners(frames)
        BY <1>1, <1>2, <1>3
  <1> QED
      BY <1>2, <1>3, <1>4

\* The type of the last node is written.
LEMMA LastTyped ==
  ASSUME NEW h \in Heaps, NEW size \in Nat \ {0}, Len(h) = size, NEW type \in Types
  PROVE  LET k == [h EXCEPT ![size].type = type]
         IN  /\ LastChanged(h, k) /\ k[size].type = type
             /\ k[size].key = h[size].key /\ k[size].value = h[size].value
PROOF
  <1>1. h \in Seq(ListNodes) /\ size \in 1 .. Len(h) /\ h[size] \in ListNodes
        BY HeapIsSequence
  <1> DEFINE x == [h[size] EXCEPT !.type = type]
             k == [h EXCEPT ![size] = x]
  <1>2. /\ x.type = type /\ x.key = h[size].key /\ x.value = h[size].value
        /\ x.next = h[size].next
        BY <1>1 DEF ListNodes
  <1> HIDE DEF x
  <1>3. /\ Len(k) = Len(h) /\ k[size] = x
        /\ \A m \in 1 .. Len(h) : m # size => k[m] = h[m]
        BY <1>1
  <1>4. [h EXCEPT ![size].type = type] = k
        BY DEF x
  <1> HIDE DEF k
  <1>5. \A m \in 1 .. size - 1 : m \in 1 .. Len(h) /\ m # size
        OBVIOUS
  <1>6. LastChanged(h, k)
        BY <1>2, <1>3, <1>5 DEF LastChanged
  <1> QED
      BY <1>2, <1>3, <1>4, <1>6

\* A brace: the last node becomes an activation's own.
LEMMA ChildShape ==
  ASSUME IInv, NEW w \in Written, Shape(w), stage = "child", Top.owner # Node,
         Node = Len(heap), Bare(w.nodes[Node]), Child
  PROVE  /\ Shape(w)'
         /\ Len(frames') = Len(frames) + 1
         /\ LastChanged(heap, heap') /\ heap'[Node].type = "child"
         /\ heap'[Node].key = heap[Node].key /\ heap'[Node].value = heap[Node].value
PROOF
  <1> DEFINE size == Len(heap)
  <1>1. /\ stage' = "child" /\ frames' = Append(frames, Frame(size))
        /\ heap' = [heap EXCEPT ![size].type = "child"]
        BY DEF Child, InChild
  <1>2. /\ heap \in Heaps /\ size \in Nat \ {0} /\ size <= Len(w.nodes)
        /\ Len(w.nodes) \in Nat
        /\ Rising(w, size) /\ Linked(w, heap, Open) /\ FramesFit(w, frames, size)
        /\ frames \in Seq(Activation) /\ Within(frames, size) /\ Len(frames) \in Nat \ {0}
        /\ Top = frames[Len(frames)] /\ Node = Top.node
        BY ShapeFacts
  <1>3. Open = Owners(frames) /\ size \notin Owners(frames)
        BY NodeNotOpen DEF Open
  <1> HIDE DEF size
  <1>4. /\ LastChanged(heap, heap') /\ heap'[size].type = "child"
        /\ heap'[size].key = heap[size].key /\ heap'[size].value = heap[size].value
        BY <1>1, <1>2, LastTyped DEF size, Types
  <1>5. Linked(w, heap', Owners(frames) \cup {size})
    <2>1. Len(heap) = size /\ Node = size
          BY DEF size
    <2> QED
        BY <1>2, <1>3, <1>4, <2>1, LinkedOpened
  <1>6. /\ FramesFit(w, frames', size) /\ Owners(frames') = Owners(frames) \cup {size}
    <2>1. /\ size \in Nat /\ Len(frames) > 0 /\ frames[Len(frames)].node = size
          /\ frames[Len(frames)].owner # size
          BY <1>2 DEF size
    <2>2. /\ FramesFit(w, Append(frames, Frame(size)), size)
          /\ Owners(Append(frames, Frame(size))) = Owners(frames) \cup {size}
          BY <1>2, <2>1, FramesPushed
    <2> QED
        BY <1>1, <2>2, Zenon
  <1>7. Len(heap') = size /\ size \in 1 .. Len(w.nodes) /\ size \in Nat
    <2>1. Len(heap') = size
          BY <1>4 DEF LastChanged, size
    <2> QED
        BY <1>2, <2>1
  <1>8. Shape(w)'
        BY <1>1, <1>2, <1>5, <1>6, <1>7, ShapeOf
  <1>9. Len(frames') = Len(frames) + 1
        BY <1>1, <1>2
  <1> QED
      BY <1>4, <1>8, <1>9 DEF size

\* A bracket: the last node becomes a list's.
LEMMA ListShape ==
  ASSUME IInv, NEW w \in Written, Shape(w), stage = "child", Top.owner # Node,
         Node = Len(heap), Bare(w.nodes[Node]), ListValue
  PROVE  /\ Shape(w)'
         /\ LastChanged(heap, heap') /\ heap'[Node].type = "list"
         /\ heap'[Node].key = heap[Node].key /\ heap'[Node].value = heap[Node].value
PROOF
  <1> DEFINE size == Len(heap)
  <1>1. /\ stage' = "list" /\ frames' = frames /\ last' = Node /\ first' = NULL
        /\ heap' = [heap EXCEPT ![size].type = "list"]
        BY DEF ListValue
  <1>2. /\ heap \in Heaps /\ size \in Nat \ {0} /\ size <= Len(w.nodes)
        /\ Len(w.nodes) \in Nat
        /\ Rising(w, size) /\ Linked(w, heap, Open) /\ FramesFit(w, frames, size)
        BY ShapeFacts
  <1>3. Open = Owners(frames) /\ size \notin Owners(frames)
        BY NodeNotOpen DEF Open
  <1> HIDE DEF size
  <1>4. /\ LastChanged(heap, heap') /\ heap'[size].type = "list"
        /\ heap'[size].key = heap[size].key /\ heap'[size].value = heap[size].value
        BY <1>1, <1>2, LastTyped DEF size, Types
  <1>5. Linked(w, heap', Owners(frames) \cup {size})
    <2>1. Len(heap) = size /\ Node = size
          BY DEF size
    <2> QED
        BY <1>2, <1>3, <1>4, <2>1, LinkedOpened
  <1>6. Node' = Node /\ Top.owner' = Top.owner /\ Node = size
        BY <1>1 DEF Node, Top, size
  <1>7. Open' = Owners(frames) \cup {size}
        BY <1>1, <1>6 DEF Open
  <1>8. Len(heap') = size /\ size \in 1 .. Len(w.nodes)
        BY <1>2, <1>4 DEF LastChanged, size
  <1>9. ListFits(w, size, Node, NULL, Node)
        BY <1>6 DEF ListFits
  <1>10. Shape(w)'
         BY <1>1, <1>2, <1>5, <1>6, <1>7, <1>8, <1>9 DEF Shape
  <1> QED
      BY <1>4, <1>10 DEF size

\* A string or an integer: the last node stays closed.
LEMMA ValueShape ==
  ASSUME IInv, NEW w \in Written, Shape(w), stage = "child", Top.owner # Node,
         Node = Len(heap), NEW type \in {"string", "integer"},
         NEW value, value \in Values,
         heap' = [heap EXCEPT ![Node].type = type, ![Node].value = value],
         UNCHANGED <<stage, frames>>
  PROVE  /\ Shape(w)'
         /\ LastChanged(heap, heap') /\ heap'[Node].type = type
         /\ heap'[Node].key = heap[Node].key /\ heap'[Node].value = value
PROOF
  <1> DEFINE size == Len(heap)
             x == [heap[size] EXCEPT !.type = type, !.value = value]
             k == [heap EXCEPT ![size] = x]
  <1>2. /\ heap \in Heaps /\ size \in Nat \ {0} /\ size <= Len(w.nodes)
        /\ Len(w.nodes) \in Nat
        /\ Rising(w, size) /\ Linked(w, heap, Open) /\ FramesFit(w, frames, size)
        BY ShapeFacts
  <1>3. Open = Owners(frames) /\ size \notin Owners(frames)
        BY NodeNotOpen DEF Open
  <1>4. heap \in Seq(ListNodes) /\ size \in 1 .. Len(heap) /\ heap[size] \in ListNodes
        BY <1>2, HeapIsSequence
  <1>5. heap' = k
        BY <1>4
  <1>6. /\ x.type = type /\ x.key = heap[size].key /\ x.value = value
        /\ x.next = heap[size].next
        BY <1>4 DEF ListNodes
  <1> HIDE DEF x
  <1>7. /\ Len(k) = Len(heap) /\ k[size] = x
        /\ \A m \in 1 .. Len(heap) : m # size => k[m] = heap[m]
        BY <1>4
  <1> HIDE DEF k
  <1>8. \A m \in 1 .. size - 1 : m \in 1 .. Len(heap) /\ m # size
        BY <1>2
  <1>9. LastChanged(heap, heap')
        BY <1>5, <1>6, <1>7, <1>8 DEF LastChanged
  <1>10. BelowIn(heap', size) = NULL
         BY <1>5, <1>6, <1>7 DEF BelowIn
  <1>11. Linked(w, heap', Owners(frames'))
    <2>1. Len(heap) = size
          OBVIOUS
    <2> HIDE DEF size
    <2> QED
        BY <1>2, <1>3, <1>9, <1>10, <2>1, LinkedValued
  <1>12. Len(heap') = size /\ size \in 1 .. Len(w.nodes) /\ size \in Nat
         BY <1>2, <1>5, <1>7
  <1> HIDE DEF size
  <1>13. Shape(w)'
         BY <1>2, <1>11, <1>12, ShapeOf
  <1> QED
      BY <1>5, <1>6, <1>7, <1>9, <1>13 DEF size

\* What an adoption changes of a node.
LEMMA AdoptedContent ==
  ASSUME NEW h \in Heaps, NEW owner \in 1 .. Len(h), NEW result \in 0 .. Len(h)
  PROVE  LET k == Adopted(h, owner, result)
         IN  /\ Len(k) = Len(h)
             /\ k[owner].key = h[owner].key /\ k[owner].type = h[owner].type
             /\ k[owner].value = Pointer(result)
             /\ \A n \in 1 .. Len(h) : n # owner => k[n] = h[n]
PROOF
  <1> DEFINE x == [h[owner] EXCEPT !.value = Pointer(result), !.next = NULL]
             k == [h EXCEPT ![owner] = x]
  <1>1. h[owner] \in ListNodes /\ h \in Seq(ListNodes)
        BY HeapIsSequence
  <1>2. x.key = h[owner].key /\ x.type = h[owner].type /\ x.value = Pointer(result)
        BY <1>1 DEF ListNodes
  <1>3. Adopted(h, owner, result) = k
        BY <1>1 DEF Adopted
  <1> HIDE DEF x
  <1>4. /\ Len(k) = Len(h) /\ k[owner] = x
        /\ \A m \in 1 .. Len(h) : m # owner => k[m] = h[m]
        BY <1>1
  <1> HIDE DEF k
  <1> QED
      BY <1>2, <1>3, <1>4

\* parseChild returns: its list is put below its owner.
LEMMA ReturnShape ==
  ASSUME IInv, NEW w \in Written, Shape(w), stage = "child", stage' # "list",
         heap' = Adopted(heap, Top.owner, Top.result), frames' = Front(frames)
  PROVE  Shape(w)' /\ Top.owner \in Open
PROOF
  <1> DEFINE size == Len(heap)
             top  == Len(frames)
  <1>1. /\ heap \in Heaps /\ size \in Nat \ {0} /\ size <= Len(w.nodes)
        /\ Len(w.nodes) \in Nat
        /\ Rising(w, size) /\ Linked(w, heap, Open) /\ FramesFit(w, frames, size)
        /\ frames \in Seq(Activation) /\ Within(frames, size) /\ top \in Nat \ {0}
        /\ Top = frames[top] /\ Node = Top.node /\ Top.owner \in 1 .. size
        BY ShapeFacts
  <1>2. top \in 1 .. Len(frames)
        BY <1>1
  <1>3. /\ ListFits(w, size, Top.owner, Top.result, Node) /\ Top.owner \in Owners(frames)
        BY <1>1, <1>2, FrameFits, OwnersFacts
  <1>4. Open = Owners(frames)
        BY DEF Open
  <1>5. Top.result = IF Top.owner = size THEN NULL ELSE Top.owner + 1
        BY <1>3 DEF ListFits
  <1>6. Linked(w, heap', Owners(frames) \ {Top.owner})
        BY <1>1, <1>3, <1>4, <1>5, LinkedAdopted
  <1>7. /\ FramesFit(w, frames', size) /\ Owners(frames') = Owners(frames) \ {Top.owner}
    <2>1. size \in Nat /\ top > 0 /\ top = Len(frames)
          BY <1>1
    <2> HIDE DEF size, top
    <2>2. /\ FramesFit(w, Front(frames), size)
          /\ Owners(Front(frames)) = Owners(frames) \ {frames[top].owner}
          BY <1>1, <2>1, FramesPopped
    <2> QED
        BY <1>1, <2>2
  <1>8. Len(heap') = size
    <2>1. Top.result \in 0 .. Len(heap)
          BY <1>1, TopOfStack
    <2> QED
        BY <1>1, <2>1, AdoptedEffect
  <1>9. size \in Nat /\ size \in 1 .. Len(w.nodes)
        BY <1>1
  <1> HIDE DEF size, top
  <1>10. Shape(w)'
         BY <1>1, <1>6, <1>7, <1>8, <1>9, ShapeOf
  <1> QED
      BY <1>3, <1>4, <1>10

\* An element is the list's next node.
LEMMA ElementShape ==
  ASSUME IInv, NEW w \in Written, Shape(w), stage = "list", element.type # "none",
         Len(heap) < Len(w.nodes), Level(w, Len(heap) + 1) = Len(frames) + 1,
         NEW appended \in Appended, appended.failures = 0
  PROVE  LET size == Len(heap) + 1
         IN  /\ Len(appended.heap) = size
             /\ Rising(w, size)
             /\ Linked(w, appended.heap, Open)
             /\ FramesFit(w, frames, size)
             /\ ListFits(w, size, Node, appended.first, appended.node)
             /\ Grew(heap, appended.heap, last, element)
PROOF
  <1> DEFINE size == Len(heap)
             top  == Len(frames)
             more == size + 1
  <1>1. /\ heap \in Heaps /\ size \in Nat \ {0} /\ failures \in 0 .. MaxFailures
        /\ size <= Len(w.nodes) /\ Len(w.nodes) \in Nat
        /\ \A n \in 1 .. Len(w.nodes) : Level(w, n) \in Nat
        /\ Rising(w, size) /\ Linked(w, heap, Open) /\ FramesFit(w, frames, size)
        /\ frames \in Seq(Activation) /\ Within(frames, size) /\ top \in Nat \ {0}
        /\ Top = frames[top] /\ Node = Top.node
        /\ Node \in 1 .. size /\ Top.owner \in 1 .. size
        BY ShapeFacts
  <1>2. Node # Top.owner /\ ListFits(w, size, Node, first, last)
        BY DEF Shape
  <1>3. /\ Node \notin Owners(frames) /\ Level(w, Node) = top
        /\ \A n \in Owners(frames) : n \in 1 .. size /\ Level(w, n) < top
        BY <1>2, NodeNotOpen
  <1>4. Open = Owners(frames) \cup {Node}
        BY DEF Open
  <1>5. element.type \in Types /\ element.value \in Values /\ element.key \in Strings
        /\ element.value.to = NULL
        BY DEF IInv, TypeInv, ListInv, Types
  <1>6. PICK new \in NewNode(last) :
          /\ appended.heap = [new.heap EXCEPT ![new.node].type = element.type,
                                              ![new.node].value = element.value,
                                              ![new.node].key = element.key]
          /\ appended.node = new.node /\ appended.failures = new.failures
          /\ appended.first = IF first = NULL THEN new.node ELSE first
    <2> DEFINE WithElement(new) ==
          [heap |-> [new.heap EXCEPT ![new.node].type = element.type,
                                     ![new.node].value = element.value,
                                     ![new.node].key = element.key],
           node |-> new.node, failures |-> new.failures,
           first |-> IF first = NULL THEN new.node ELSE first]
    <2>1. appended \in {WithElement(new) : new \in NewNode(last)}
          BY Zenon DEF Appended
    <2>2. PICK new \in NewNode(last) : appended = WithElement(new)
          BY <2>1, Zenon
    <2> QED
        BY <2>2
  <1>7. last \in 1 .. size
    <2>1. CASE Node = size
          BY <1>1, <1>2, <2>1 DEF ListFits
    <2>2. CASE Node # size
          BY <1>1, <1>2, <2>2 DEF ListFits
    <2> QED
        BY <2>1, <2>2
  <1>8. Grew(heap, appended.heap, last, element) /\ new.node = more
    <2>1. last \in 1 .. Len(heap) /\ new.failures = 0
          BY <1>6, <1>7
    <2>2. Grew(heap, [new.heap EXCEPT ![new.node].type = element.type,
                                      ![new.node].value = element.value,
                                      ![new.node].key = element.key], last, element)
          BY <1>1, <1>5, <2>1, ElementGrows
    <2>3. new.node = Len(heap) + 1
          BY <1>1, <2>1, NewNodeGrows
    <2> QED
        BY <1>6, <2>2, <2>3
  <1>9. Grown(heap, appended.heap, last) /\ Len(appended.heap) = more
        BY <1>8 DEF Grew, Grown
  <1>10. \/ last \in Open /\ last = size
         \/ /\ last \notin Open /\ Level(w, last) = Level(w, more)
            /\ \A q \in last + 1 .. size : Level(w, q) > Level(w, last)
    <2>1. CASE Node = size
          BY <1>2, <1>4, <2>1 DEF ListFits
    <2>2. CASE Node # size
      <3>1. /\ last \in Node + 1 .. size /\ Level(w, last) = Level(w, Node) + 1
            /\ \A q \in last + 1 .. size : Level(w, q) > Level(w, last)
            BY <1>2, <2>2 DEF ListFits
      <3>2. last \notin Open
            BY <1>1, <1>3, <1>4, <3>1
      <3> QED
          BY <1>3, <3>1, <3>2
    <2> QED
        BY <2>1, <2>2
  <1>11. size \in Nat /\ Len(heap) = size /\ size < Len(w.nodes) /\ Len(frames) > 0
         /\ Level(w, more) = Level(w, Node) + 1 /\ Level(w, more) > Len(frames)
         BY <1>1, <1>3
  <1>12. \A m \in Open : m \in 1 .. size /\ Level(w, m) < Level(w, more)
    <2>1. Level(w, more) = top + 1 /\ Level(w, Node) = top
          BY <1>3
    <2> HIDE DEF more, size
    <2>2. ASSUME NEW m \in Open
          PROVE  m \in 1 .. size /\ Level(w, m) < Level(w, more)
      <3>1. m \in 1 .. size /\ Level(w, m) <= top
        <4>1. CASE m = Node
              BY <1>1, <2>1, <4>1
        <4>2. CASE m \in Owners(frames)
          <5>1. m \in 1 .. size /\ Level(w, m) < top
                BY <1>3, <4>2 DEF size
          <5>2. Level(w, m) \in Nat
                BY <1>1, <5>1
          <5> QED
              BY <1>1, <5>1, <5>2
        <4> QED
            BY <1>4, <2>2, <4>1, <4>2
      <3>2. Level(w, m) \in Nat
            BY <1>1, <3>1
      <3> QED
          BY <1>1, <2>1, <3>1, <3>2
    <2> QED
        BY <2>2
  <1>13. more \notin Open
         BY <1>1, <1>12
  <1>14. new.node = IF first = NULL THEN appended.first ELSE appended.node
         BY <1>6
  <1>15. appended.node = more /\ appended.first = IF first = NULL THEN more ELSE first
         BY <1>6, <1>8
  <1> HIDE DEF size
  <1>16. Linked(w, appended.heap, Open)
         BY <1>7, <1>9, <1>1, <1>10, <1>11, <1>12, <1>13, LinkedGrown
  <1>17. FramesFit(w, frames, more)
         BY <1>1, <1>2, <1>11, FramesDeepened
  <1>18. ListFits(w, more, Node, appended.first, appended.node)
         BY <1>1, <1>2, <1>11, <1>15, ListGrown
  <1>19. Rising(w, more)
         BY <1>1, <1>2, <1>11, RisingGrown
  <1> QED
      BY <1>8, <1>9, <1>16, <1>17, <1>18, <1>19 DEF size

\* parseList returns: the list is put below the node it was read for.
LEMMA ListEndShape ==
  ASSUME IInv, NEW w \in Written, Shape(w), stage = "list", stage' = "child",
         NEW h \in Heaps, NEW size \in Nat, Len(h) = size, size \in Len(heap) .. Len(w.nodes),
         Rising(w, size), Linked(w, h, Open), FramesFit(w, frames, size),
         NEW begin, NEW at, ListFits(w, size, Node, begin, at),
         heap' = Adopted(h, Node, begin), frames' = frames
  PROVE  Shape(w)' /\ Node \in Open /\ begin \in 0 .. size
PROOF
  <1>1. /\ Len(heap) \in Nat \ {0} /\ Node \in 1 .. Len(heap) /\ Len(w.nodes) \in Nat
        BY ShapeFacts
  <1>2. Node # Top.owner
        BY DEF Shape
  <1>3. Node \notin Owners(frames)
        BY <1>2, NodeNotOpen
  <1>4. Open = Owners(frames) \cup {Node}
        BY DEF Open
  <1>5. begin = IF Node = size THEN NULL ELSE Node + 1
        BY DEF ListFits
  <1>6. Node \in 1 .. Len(h) /\ size \in 1 .. Len(w.nodes) /\ Len(h) <= Len(w.nodes)
        BY <1>1
  <1>7. Linked(w, heap', Open \ {Node})
        BY <1>4, <1>5, <1>6, LinkedAdopted
  <1>8. Open \ {Node} = Owners(frames')
        BY <1>3, <1>4
  <1>9. begin \in 0 .. size
        BY <1>1, <1>5, <1>6 DEF NULL
  <1>10. Len(heap') = size
         BY <1>6, <1>9, AdoptedEffect
  <1>11. Shape(w)'
         BY <1>6, <1>7, <1>8, <1>10, ShapeOf
  <1> QED
      BY <1>4, <1>9, <1>11

-----------------------------------------------------------------------------
(* From one place of a text to the next.                                   *)

\* The function the parser is in and the character it reads determine which
\* step is taken.
LEMMA StepInChild ==
  ASSUME Next, stage = "child", ~ AtEnd
  PROVE  /\ Char(ptr) = "#" => Comment
         /\ Char(ptr) = "\n" => Newline
         /\ Char(ptr) = "{" => Child
         /\ Char(ptr) = "}" => ChildReturns
         /\ Char(ptr) = "=" => NoValue \/ ListValue \/ StringValue \/ IntegerValue
         /\ Char(ptr) \notin {"#", "\n", "=", "{", "}"} => Key
PROOF
  <1>1. ~ AllocateRoot /\ ~ NoRoot /\ ~ ListString /\ ~ ListInteger /\ ~ Comma
        /\ ~ Bracket /\ ~ PassInList /\ ~ ListCut /\ ~ Over
        BY DEF AllocateRoot, NoRoot, ListString, ListInteger, Comma, Bracket,
               PassInList, ListCut, Over, InList
  <1>2. /\ Comment => Char(ptr) = "#"
        /\ Newline => Char(ptr) = "\n"
        /\ Child => Char(ptr) = "{"
        /\ ChildReturns => Char(ptr) = "}"
        /\ NoValue \/ ListValue \/ StringValue \/ IntegerValue => Char(ptr) = "="
        /\ Key => Char(ptr) \notin {"#", "\n", "=", "{", "}"}
        BY DEF Comment, Newline, Child, ChildReturns, NoValue, ListValue, StringValue,
               IntegerValue, Key, InValue
  <1>3. \/ Comment \/ Newline \/ Key \/ Child \/ ChildReturns
        \/ NoValue \/ ListValue \/ StringValue \/ IntegerValue
        BY <1>1 DEF Next
  <1> QED
      BY <1>2, <1>3

\* So do they in a list.
LEMMA StepInList ==
  ASSUME Next, stage = "list", ~ AtEnd
  PROVE  /\ Char(ptr) = "\"" => ListString
         /\ Char(ptr) \in Digits => ListInteger
         /\ Char(ptr) = "," => Comma
         /\ Char(ptr) = "]" => Bracket
         /\ Char(ptr) \notin Digits \cup {"\"", ",", "]"} => PassInList
PROOF
  <1>1. ~ AllocateRoot /\ ~ NoRoot /\ ~ Comment /\ ~ Newline /\ ~ Key /\ ~ Child
        /\ ~ ChildReturns /\ ~ NoValue /\ ~ ListValue /\ ~ StringValue /\ ~ IntegerValue
        /\ ~ ListCut /\ ~ Over
        BY DEF AllocateRoot, NoRoot, Comment, Newline, Key, Child, ChildReturns, NoValue,
               ListValue, StringValue, IntegerValue, ListCut, Over, InChild, InValue
  <1>2. /\ ListString => Char(ptr) = "\""
        /\ ListInteger => Char(ptr) \in Digits
        /\ Comma => Char(ptr) = ","
        /\ Bracket => Char(ptr) = "]"
        /\ PassInList => Char(ptr) \notin Digits \cup {"\"", ",", "]"}
        BY DEF ListString, ListInteger, Comma, Bracket, PassInList
  <1>3. ListString \/ ListInteger \/ Comma \/ Bracket \/ PassInList
        BY <1>1 DEF Next
  <1>4. "\"" \notin Digits /\ "," \notin Digits /\ "]" \notin Digits
        BY DEF Digits
  <1> QED
      BY <1>2, <1>3, <1>4

\* The parser is at a place s, whose next one is t, in the part of the text
\* that was not cut off.
Here(w, n, s, t) ==
  /\ IInv /\ failures = 0 /\ failures' = 0
  /\ Agrees(w, n)
  /\ s \in Place /\ t \in Place
  /\ s.at < t.at /\ t.at <= Len(w.text) + 1 /\ t.nodes <= Len(w.nodes)
  /\ Shape(w) /\ AtPlace(w, s) /\ s.at <= n

\* What is known of the cursor and the text at a place.
LEMMA HereFacts ==
  ASSUME NEW w \in Written, NEW n \in Nat, NEW s, NEW t, Here(w, n, s, t)
  PROVE  /\ text \in Texts /\ Size \in Nat /\ Len(w.text) \in Nat
         /\ ptr = s.at /\ ptr \in 1 .. n /\ ptr \in 1 .. Size /\ ~ AtEnd
         /\ n \in 1 .. Size /\ n <= Len(w.text) /\ (n = Len(w.text) => Size = n)
         /\ Char(ptr) = CharOf(w.text, ptr)
         /\ s.at \in Nat /\ t.at \in Nat /\ s.depth \in Nat /\ s.nodes \in Nat
         /\ s.at < t.at /\ t.at <= Len(w.text) + 1
         /\ s.in \in {"section", "key", "list", "element"}
         /\ Len(w.nodes) \in Nat /\ t.nodes <= Len(w.nodes)
         /\ Read(w, s) /\ stage \in {"child", "list"}
PROOF
  <1>1. text \in Texts /\ Agrees(w, n) /\ ptr = s.at /\ s.at <= n
        BY DEF Here, AtPlace, IInv, TypeInv, TextInv
  <1>2. /\ n \in Nat \ {0} /\ Size \in Nat /\ n <= Size
        /\ Len(w.text) \in Nat /\ n <= Len(w.text)
        /\ n = Len(w.text) => Size = n
        /\ \A p \in 1 .. n : Char(p) = CharOf(w.text, p)
        BY <1>1, AgreesFacts
  <1>3. /\ s.at \in Nat \ {0} /\ t.at \in Nat /\ s.depth \in Nat /\ s.nodes \in Nat
        /\ s.in \in {"section", "key", "list", "element"}
        /\ s.at < t.at /\ t.at <= Len(w.text) + 1 /\ t.nodes <= Len(w.nodes)
        BY DEF Here, Place
  <1>4. Read(w, s) /\ stage \in {"child", "list"}
        BY DEF Here, AtPlace, Read
  <1>5. Len(w.nodes) \in Nat
        BY WrittenFacts
  <1>6. ptr \in 1 .. n /\ ptr \in 1 .. Size /\ n \in 1 .. Size
        BY <1>1, <1>2, <1>3
  <1>7. ~ AtEnd
        BY <1>2, <1>6 DEF AtEnd
  <1> QED
      BY <1>1, <1>2, <1>3, <1>4, <1>5, <1>6, <1>7

\* What a step comes to: the next place; or what was cut off; or, where only
\* the last character is left and is lost, the end of the text.
Reached(w, n, t) == ptr' = t.at /\ t.at <= n + 1 /\ Read(w, t)'

CutThere(w, n) ==
  /\ ptr' > n /\ n < Len(w.text)
  /\ stage' \in {"child", "list"}
  /\ \A m \in 1 .. Len(heap') - 1 : Holds(w, heap', m)

LastLost(w, n, t) ==
  ptr' > n /\ n = Len(w.text) /\ t.at = n /\ t.in # "key" /\ Read(w, t)'

Comes(w, n, t) ==
  /\ Shape(w)'
  /\ Reached(w, n, t) \/ CutThere(w, n) \/ LastLost(w, n, t)

\* What was read of the nodes stays, where no node is changed.
LEMMA QuietRead ==
  ASSUME NEW w \in Written, NEW s \in Place, NEW t \in Place,
         t.in = s.in, t.depth = s.depth, t.nodes = s.nodes,
         Shape(w), Read(w, s), UNCHANGED <<stage, heap, frames, list>>
  PROVE  Shape(w)' /\ Read(w, t)'
PROOF
  <1>1. /\ stage' = stage /\ heap' = heap /\ frames' = frames
        /\ last' = last /\ first' = first /\ element' = element
        BY DEF list
  <1>2. Shape(w)'
        BY <1>1 DEF Shape, Open, Node, Top
  <1>3. ElementFits(w, s) => ElementFits(w, t)'
        BY <1>1 DEF ElementFits
  <1>4. Node' = Node /\ Top.owner' = Top.owner
        BY <1>1 DEF Node, Top
  <1>5. Read(w, t)'
        BY <1>1, <1>3, <1>4 DEF Read
  <1> QED
      BY <1>2, <1>5

\* All nodes but the last are what the text says.
LEMMA ReadHolds ==
  ASSUME NEW w \in Written, NEW s, Read(w, s)
  PROVE  \A m \in 1 .. Len(heap) - 1 : Holds(w, heap, m)
PROOF
  BY DEF Read

\* Only the cursor moves: to the next place, or to where the text was cut.
LEMMA QuietStep ==
  ASSUME NEW w \in Written, NEW n \in Nat, NEW s, NEW t, Here(w, n, s, t),
         t.in = s.in, t.depth = s.depth, t.nodes = s.nodes,
         UNCHANGED <<stage, heap, frames, list>>,
         \/ ptr' = t.at /\ t.at <= n + 1
         \/ ptr' > n /\ n < Len(w.text)
         \/ ptr' > n /\ n = Len(w.text) /\ t.at = n /\ t.in # "key"
  PROVE  Comes(w, n, t)
PROOF
  <1>1. s \in Place /\ t \in Place /\ Shape(w) /\ Read(w, s) /\ stage \in {"child", "list"}
        BY HereFacts DEF Here
  <1>2. Shape(w)' /\ Read(w, t)'
        BY <1>1, QuietRead
  <1>3. \A m \in 1 .. Len(heap') - 1 : Holds(w, heap', m)
        BY <1>1, ReadHolds
  <1>4. stage' \in {"child", "list"}
        BY <1>1
  <1> QED
      BY <1>2, <1>3, <1>4 DEF Comes, Reached, CutThere, LastLost

\* A piece of no length, which is no key.
Nothing(string) == string = ""

\* A piece that ends before it begins is one of those.
LEMMA NoPiece ==
  ASSUME text \in Texts
  PROVE  \A p \in 1 .. Size + 1 : Nothing(SubSeq(text, p, p - 1)) /\ Nothing(SubSeq(text, p, p - 2))
PROOF
  BY Zenon, PiecesAssumption DEF PiecesAssumption, Nothing, Size

\* A character that belongs to no word is passed over where a key is looked
\* for.
LEMMA IdleKey ==
  ASSUME text \in Texts, Key, ptr \in 1 .. Size, Char(ptr) \notin Word
  PROVE  ptr' = ptr + 1 /\ UNCHANGED <<stage, heap, frames, list>>
PROOF
  <1> DEFINE key == Duplicate(KeyStart, ptr')
  <1>1. Size \in Nat
        BY SizeIsNat
  <1>2. ptr' = NextChar(Past(KeyStart, Word)) /\ UNCHANGED <<stage, list, text>>
        BY DEF Key
  <1>3. Nothing(key) => UNCHANGED <<heap, frames>>
    <2> HIDE DEF key
    <2>1. key = "" => UNCHANGED <<heap, frames, failures>>
          BY Zenon DEF Key, key
    <2> QED
        BY <2>1, Zenon DEF Nothing
  <1>4. CASE ptr < Size
    <2>1. KeyStart = ptr
          BY <1>1, <1>4 DEF KeyStart, PreviousChar
    <2>2. /\ Past(ptr, Word) \in ptr .. Size + 1
          /\ \A q \in ptr .. Past(ptr, Word) - 1 : Char(q) \in Word
      <3>1. ptr \in 1 .. Size + 1
            BY <1>1
      <3> QED
          BY <3>1, PastInBuffer
    <2>3. Past(ptr, Word) = ptr
      <3>1. Past(ptr, Word) > ptr => ptr \in ptr .. Past(ptr, Word) - 1
            BY <1>1, <2>2
      <3> QED
          BY <1>1, <2>2, <3>1
    <2>4. ptr' = ptr + 1
          BY <1>1, <1>2, <1>4, <2>1, <2>3 DEF NextChar
    <2>5. Nothing(key)
      <3>1. key = SubSeq(text, ptr, (ptr + 1) - 2) /\ (ptr + 1) - 2 = ptr - 1
            BY <2>1, <2>4 DEF Duplicate
      <3>2. ptr \in 1 .. Size + 1
            BY <1>1
      <3> QED
          BY <3>1, <3>2, NoPiece
    <2> QED
        BY <1>2, <1>3, <2>4, <2>5
  <1>5. CASE ptr = Size
    <2>1. KeyStart = Size + 1
          BY <1>1, <1>5 DEF KeyStart, PreviousChar
    <2>2. Past(Size + 1, Word) = Size + 1
      <3>1. Size + 1 \in 1 .. Size + 1
            BY <1>1
      <3>2. Past(Size + 1, Word) \in Size + 1 .. Size + 1
            BY <3>1, PastInBuffer
      <3> QED
          BY <1>1, <3>2
    <2>3. ptr' = ptr + 1
          BY <1>1, <1>2, <1>5, <2>1, <2>2 DEF NextChar
    <2>4. Nothing(key)
      <3>1. key = SubSeq(text, Size + 1, (Size + 1) - 2)
            BY <1>5, <2>1, <2>3 DEF Duplicate
      <3>2. Size + 1 \in 1 .. Size + 1
            BY <1>1
      <3> QED
          BY <3>1, <3>2, NoPiece
    <2> QED
        BY <1>2, <1>3, <2>3, <2>4
  <1> QED
      BY <1>1, <1>4, <1>5

\* A blank, or in a list a newline.
LEMMA BlanksRead ==
  ASSUME NEW w \in Written, NEW n \in Nat, NEW s, NEW t, Here(w, n, s, t),
         Next, Blanks(w.text, s, t)
  PROVE  Comes(w, n, t)
PROOF
  <1>1. /\ text \in Texts /\ ptr = s.at /\ ptr \in 1 .. Size /\ ptr \in 1 .. n /\ ~ AtEnd
        /\ Char(ptr) = CharOf(w.text, ptr) /\ Read(w, s) /\ stage \in {"child", "list"}
        BY HereFacts
  <1>2. s \in Place /\ t \in Place
        BY DEF Here
  <1>3. /\ t.at = s.at + 1 /\ t.in = s.in /\ t.depth = s.depth /\ t.nodes = s.nodes
        BY <1>2 DEF Blanks, Further, Place
  <1>4. CharOf(w.text, ptr) \in {" ", "\t"} \/ (CharOf(w.text, ptr) = "\n" /\ stage = "list")
        BY <1>1 DEF Blanks, Read
  <1>5. /\ Char(ptr) \in {" ", "\t", "\n"} /\ (stage = "child" => Char(ptr) \in {" ", "\t"})
        BY <1>1, <1>4
  <1>6. Char(ptr) \notin Word
        BY <1>5, MarksAreNoWords DEF Marks
  <1>7. ptr' = ptr + 1 /\ UNCHANGED <<stage, heap, frames, list>>
    <2>1. CASE stage = "child"
      <3>1. Key
            BY <1>1, <1>5, <2>1, StepInChild
      <3> QED
          BY <1>1, <1>6, <3>1, IdleKey
    <2>2. CASE stage = "list"
      <3>1. Char(ptr) \notin Digits \cup {"\"", ",", "]"}
        <4>1. Char(ptr) \notin Digits
              BY <1>6, MarksAreNoWords
        <4>2. Char(ptr) \notin {"\"", ",", "]"}
              BY <1>5
        <4> QED
            BY <4>1, <4>2
      <3>2. PassInList
            BY <1>1, <2>2, <3>1, StepInList
      <3> QED
          BY <3>2 DEF PassInList
    <2> QED
        BY <1>1, <2>1, <2>2
  <1>8. ptr' = t.at /\ t.at <= n + 1
        BY <1>1, <1>3, <1>7
  <1> QED
      BY <1>3, <1>7, <1>8, QuietStep

\* A comment, to the end of its line or of the text.
LEMMA CommentRead ==
  ASSUME NEW w \in Written, NEW n \in Nat, NEW s, NEW t, Here(w, n, s, t),
         Next, CommentLine(w.text, s, t)
  PROVE  Comes(w, n, t)
PROOF
  <1>1. /\ text \in Texts /\ Size \in Nat /\ Len(w.text) \in Nat
        /\ ptr = s.at /\ ptr \in 1 .. Size /\ ptr \in 1 .. n /\ ~ AtEnd
        /\ n \in 1 .. Size /\ n <= Len(w.text) /\ (n = Len(w.text) => Size = n)
        /\ Char(ptr) = CharOf(w.text, ptr) /\ Read(w, s)
        /\ t.at \in Nat /\ s.at < t.at /\ t.at <= Len(w.text) + 1
        BY HereFacts
  <1>2. s \in Place /\ t \in Place /\ Agrees(w, n)
        BY DEF Here
  <1>3. /\ t.in = s.in /\ t.depth = s.depth /\ t.nodes = s.nodes /\ s.in = "section"
        BY <1>2 DEF CommentLine, Further, Place
  <1>4. stage = "child" /\ Char(ptr) = "#"
        BY <1>1, <1>3 DEF CommentLine, Read
  <1>5. Comment
        BY <1>1, <1>4, StepInChild
  <1>6. ptr' = NextChar(To(ptr + 1, {"\n"})) /\ UNCHANGED <<stage, heap, frames, list>>
        BY <1>5 DEF Comment
  <1>7. {"\n"} \in SUBSET (Word \cup Marks) /\ ptr + 1 \in 1 .. Size + 1
        BY <1>1 DEF Marks
  <1>8. CASE /\ s.at + 1 < t.at
             /\ Without(w.text, s.at, t.at - 1, {"\n"})
             /\ CharOf(w.text, t.at - 1) = "\n"
    <2> DEFINE q == t.at - 1
    <2>1. q \in Nat /\ ptr + 1 <= q /\ Without(w.text, ptr + 1, q, {"\n"})
          BY <1>1, <1>8 DEF Without
    <2>2. q <= Len(w.text) => CharOf(w.text, q) \in {"\n"}
          BY <1>8
    <2> HIDE DEF q
    <2>3. To(ptr + 1, {"\n"}) = IF q <= n THEN q ELSE Size + 1
          BY <1>1, <1>2, <1>7, <2>1, <2>2, ToInText
    <2>4. t.at = q + 1
          BY <1>1 DEF q
    <2>5. CASE q <= n
      <3>1. ptr' = t.at /\ t.at <= n + 1
            BY <1>1, <1>6, <2>1, <2>3, <2>4, <2>5 DEF NextChar
      <3> QED
          BY <1>3, <1>6, <3>1, QuietStep
    <2>6. CASE ~ (q <= n)
      <3>1. ptr' > n /\ n < Len(w.text)
            BY <1>1, <1>6, <2>1, <2>3, <2>4, <2>6 DEF NextChar
      <3> QED
          BY <1>3, <1>6, <3>1, QuietStep
    <2> QED
        BY <2>5, <2>6
  <1>9. CASE t.at = Len(w.text) + 1 /\ Without(w.text, s.at, t.at, {"\n"})
    <2> DEFINE q == t.at
    <2>1. q \in Nat /\ ptr + 1 <= q /\ Without(w.text, ptr + 1, q, {"\n"})
          BY <1>1, <1>9 DEF Without
    <2>2. q <= Len(w.text) => CharOf(w.text, q) \in {"\n"}
          BY <1>1, <1>9
    <2> HIDE DEF q
    <2>3. To(ptr + 1, {"\n"}) = IF q <= n THEN q ELSE Size + 1
          BY <1>1, <1>2, <1>7, <2>1, <2>2, ToInText
    <2>4. To(ptr + 1, {"\n"}) = Size + 1
          BY <1>1, <1>9, <2>3 DEF q
    <2>5. ptr' = Size + 1
          BY <1>1, <1>6, <2>4 DEF NextChar
    <2>6. CASE n = Len(w.text)
      <3>1. ptr' = t.at /\ t.at <= n + 1
            BY <1>1, <1>9, <2>5, <2>6
      <3> QED
          BY <1>3, <1>6, <3>1, QuietStep
    <2>7. CASE n # Len(w.text)
      <3>1. ptr' > n /\ n < Len(w.text)
            BY <1>1, <2>5, <2>7
      <3> QED
          BY <1>3, <1>6, <3>1, QuietStep
    <2> QED
        BY <2>6, <2>7
  <1> QED
      BY <1>8, <1>9 DEF CommentLine

\* The end of a line, and the blank lines and blanks behind it.
LEMMA LineEndRead ==
  ASSUME NEW w \in Written, NEW n \in Nat, NEW s, NEW t, Here(w, n, s, t),
         Next, LineEnd(w.text, s, t)
  PROVE  Comes(w, n, t)
PROOF
  <1> DEFINE chars == {"\n", "\t", " "}
  <1>1. /\ text \in Texts /\ Size \in Nat /\ Len(w.text) \in Nat
        /\ ptr = s.at /\ ptr \in 1 .. Size /\ ptr \in 1 .. n /\ ~ AtEnd
        /\ n \in 1 .. Size /\ n <= Len(w.text) /\ (n = Len(w.text) => Size = n)
        /\ Char(ptr) = CharOf(w.text, ptr) /\ Read(w, s)
        /\ t.at \in Nat /\ s.at < t.at /\ t.at <= Len(w.text) + 1
        BY HereFacts
  <1>2. s \in Place /\ t \in Place /\ Agrees(w, n)
        BY DEF Here
  <1>3. /\ t.in = s.in /\ t.depth = s.depth /\ t.nodes = s.nodes /\ s.in = "section"
        BY <1>2 DEF LineEnd, Further, Place
  <1>4. stage = "child" /\ Char(ptr) = "\n"
        BY <1>1, <1>3 DEF LineEnd, Read
  <1>5. Newline
        BY <1>1, <1>4, StepInChild
  <1>6. /\ ptr' = PreviousChar(NextChar(Past(ptr + 1, chars)))
        /\ UNCHANGED <<stage, heap, frames, list>>
        BY <1>5 DEF Newline
  <1>7. chars \in SUBSET (Word \cup Marks) /\ ptr + 1 \in 1 .. Size + 1 /\ ptr + 1 <= n + 1
        BY <1>1 DEF Marks
  <1>8. /\ ptr + 1 <= t.at /\ Only(w.text, ptr + 1, t.at, chars)
        /\ t.at <= Len(w.text) => CharOf(w.text, t.at) \notin chars
    <2>1. ptr + 1 <= t.at
          BY <1>1
    <2>2. /\ Only(w.text, s.at, t.at, chars)
          /\ t.at <= Len(w.text) => CharOf(w.text, t.at) \notin chars
          BY Zenon DEF LineEnd
    <2> HIDE DEF chars
    <2>3. \A r \in ptr + 1 .. t.at - 1 : r \in s.at .. t.at - 1
          BY <1>1
    <2>4. Only(w.text, ptr + 1, t.at, chars)
          BY <2>2, <2>3, Zenon DEF Only
    <2> QED
        BY <2>1, <2>2, <2>4
  <1> HIDE DEF chars
  <1>9. Past(ptr + 1, chars) = IF t.at <= n THEN t.at ELSE n + 1
        BY <1>1, <1>2, <1>7, <1>8, PastInText
  <1>10. \/ ptr' = t.at /\ t.at <= n + 1
         \/ ptr' > n /\ n < Len(w.text)
         \/ ptr' > n /\ n = Len(w.text) /\ t.at = n
    <2>1. CASE t.at < Size /\ t.at <= n
          BY <1>1, <1>6, <1>9, <2>1 DEF NextChar, PreviousChar
    <2>2. CASE t.at = Size /\ t.at <= n
          BY <1>1, <1>6, <1>9, <2>2 DEF NextChar, PreviousChar
    <2>3. CASE ~ (t.at <= n)
      <3>1. ptr' \in {n + 1, n + 2} /\ (n = Size => ptr' = n + 1)
            BY <1>1, <1>6, <1>9, <2>3 DEF NextChar, PreviousChar
      <3> QED
          BY <1>1, <2>3, <3>1
    <2> QED
        BY <1>1, <2>1, <2>2, <2>3
  <1>11. t.in # "key"
         BY <1>3
  <1> QED
      BY <1>3, <1>6, <1>10, <1>11, QuietStep

\* What the nodes held, they hold when there is one more.
LEMMA HoldsGrown ==
  ASSUME NEW w \in Written, NEW h, NEW k, NEW node, NEW x, Len(h) \in Nat, Grew(h, k, node, x),
         \A m \in 1 .. Len(h) : Holds(w, h, m)
  PROVE  Len(k) = Len(h) + 1 /\ \A m \in 1 .. Len(k) - 1 : Holds(w, k, m)
PROOF
  <1>1. /\ Len(k) = Len(h) + 1
        /\ \A m \in 1 .. Len(h) : /\ k[m].key = h[m].key /\ k[m].type = h[m].type
                                  /\ k[m].value = h[m].value
        BY DEF Grew, Grown
  <1>2. \A m \in 1 .. Len(k) - 1 : m \in 1 .. Len(h)
        BY <1>1
  <1> QED
      BY <1>1, <1>2 DEF Holds

\* In a section all nodes are complete.
LEMMA SectionHolds ==
  ASSUME NEW w \in Written, NEW s, Read(w, s), s.in # "key", Len(heap) \in Nat
  PROVE  \A m \in 1 .. Len(heap) : Holds(w, heap, m)
PROOF
  <1>1. \A m \in 1 .. Len(heap) - 1 : Holds(w, heap, m)
        BY DEF Read
  <1>2. Holds(w, heap, Len(heap))
        BY DEF Read
  <1>3. \A m \in 1 .. Len(heap) : m \in 1 .. Len(heap) - 1 \/ m = Len(heap)
        OBVIOUS
  <1> QED
      BY <1>1, <1>2, <1>3

\* A key gives a node, unless it has no characters.
LEMMA KeyEffect ==
  ASSUME NEW w \in Written, NEW n \in Nat, NEW s, NEW t, Here(w, n, s, t),
         Key, s.in = "section",
         s.nodes < Len(w.nodes), w.nodes[s.nodes + 1].depth = s.depth
  PROVE  /\ Shape(w)' /\ stage' = "child"
         /\ \A m \in 1 .. Len(heap') - 1 : Holds(w, heap', m)
         /\ ~ Nothing(Duplicate(KeyStart, ptr')) =>
              /\ Len(heap') = s.nodes + 1 /\ Len(frames') = s.depth
              /\ heap'[Len(heap')].key = Duplicate(KeyStart, ptr')
              /\ heap'[Len(heap')].type = "none" /\ heap'[Len(heap')].value = Pointer(NULL)
              /\ Node' = Len(heap') /\ Top.owner' # Node'
PROOF
  <1> DEFINE key == Duplicate(KeyStart, ptr')
  <1>1. IInv /\ Shape(w) /\ Read(w, s) /\ text \in Texts /\ Size \in Nat
        /\ s \in Place /\ failures' = 0
        BY HereFacts DEF Here
  <1>2. /\ Len(heap) = s.nodes /\ stage = "child" /\ Len(frames) = s.depth
        BY <1>1 DEF Read
  <1>3. Len(heap) \in Nat
        BY <1>1, <1>2, ShapeFacts
  <1>4. \A m \in 1 .. Len(heap) : Holds(w, heap, m)
        BY <1>1, <1>3, SectionHolds
  <1>5. stage' = "child" /\ UNCHANGED <<stage, list>>
        BY <1>2 DEF Key
  <1>6. CASE Nothing(key)
    <2>1. UNCHANGED <<heap, frames>>
      <3> HIDE DEF key
      <3>1. key = "" => UNCHANGED <<heap, frames, failures>>
            BY Zenon DEF Key, key
      <3> QED
          BY <1>6, <3>1, Zenon DEF Nothing
    <2>2. Shape(w)' /\ Read(w, s)'
          BY <1>1, <1>5, <2>1, QuietRead
    <2>3. \A m \in 1 .. Len(heap') - 1 : Holds(w, heap', m)
          BY <1>1, <2>1, ReadHolds
    <2> QED
        BY <1>5, <1>6, <2>2, <2>3
  <1>7. CASE ~ Nothing(key)
    <2>1. PICK new \in NewNode(Node) :
            /\ heap' = [new.heap EXCEPT ![new.node].key = key]
            /\ frames' = Advanced(frames, new.node)
            /\ failures' = new.failures
      <3> HIDE DEF key
      <3>1. key # ""
            BY <1>7, Zenon DEF Nothing
      <3>2. \E new \in NewNode(Node) :
              /\ heap' = [new.heap EXCEPT ![new.node].key = key]
              /\ frames' = [frames EXCEPT
                   ![Len(frames)].node = new.node,
                   ![Len(frames)].result = IF @ = NULL THEN new.node ELSE @]
              /\ failures' = new.failures
            BY <3>1, Zenon DEF Key, key
      <3> QED
          BY <3>2, Zenon DEF Advanced
    <2>2. key \in Strings
      <3>1. ptr \in Int /\ ptr' \in Int /\ KeyStart \in Int
        <4>1. ptr \in 1 .. Size /\ ptr + 1 \in Int
              BY <1>1, HereFacts
        <4>2. KeyStart \in {ptr, ptr + 1}
              BY <1>1, <4>1, CursorInBuffer DEF KeyStart
        <4>3. KeyStart \in 1 .. Size + 1
              BY <1>1, <4>1, <4>2
        <4>4. ptr' = NextChar(Past(KeyStart, Word))
              BY DEF Key
        <4>5. Past(KeyStart, Word) \in 1 .. Size + 1
          <5>1. Past(KeyStart, Word) \in KeyStart .. Size + 1
                BY <1>1, <4>3, PastInBuffer
          <5> QED
              BY <1>1, <4>3, <5>1
        <4>6. ptr' \in 1 .. Size + 1
              BY <1>1, <4>4, <4>5, CursorInBuffer
        <4> QED
            BY <1>1, <4>1, <4>3, <4>6
      <3> QED
          BY <1>1, <3>1, DuplicateIsString
    <2>3. Level(w, Len(heap) + 1) = Len(frames) /\ Len(heap) < Len(w.nodes)
          BY <1>2 DEF Level
    <2> HIDE DEF key
    <2>4. /\ Shape(w)'
          /\ Grew(heap, heap', Node, [Blank EXCEPT !.key = key])
          /\ Node' = Len(heap') /\ Top.owner' # Node' /\ Len(frames') = Len(frames)
          BY <1>1, <1>2, <1>5, <2>1, <2>2, <2>3, KeyShape
    <2>5. Len(heap') = Len(heap) + 1 /\ \A m \in 1 .. Len(heap') - 1 : Holds(w, heap', m)
          BY <1>3, <1>4, <2>4, HoldsGrown
    <2>6. /\ heap'[Len(heap')].key = key
          /\ heap'[Len(heap')].type = "none" /\ heap'[Len(heap')].value = Pointer(NULL)
          BY <2>4 DEF Grew, Blank
    <2> QED
        BY <1>2, <1>5, <1>7, <2>4, <2>5, <2>6 DEF key
  <1> QED
      BY <1>6, <1>7

\* A key.
LEMMA KeyWordRead ==
  ASSUME NEW w \in Written, NEW n \in Nat, NEW s, NEW t, Here(w, n, s, t),
         Next, KeyWord(w, s, t)
  PROVE  Comes(w, n, t)
PROOF
  <1> DEFINE q == t.at - 1
  <1>1. /\ text \in Texts /\ Size \in Nat /\ Len(w.text) \in Nat
        /\ ptr = s.at /\ ptr \in 1 .. Size /\ ptr \in 1 .. n /\ ~ AtEnd
        /\ n \in 1 .. Size /\ n <= Len(w.text) /\ (n = Len(w.text) => Size = n)
        /\ Char(ptr) = CharOf(w.text, ptr) /\ Read(w, s)
        /\ t.at \in Nat /\ s.at < t.at /\ t.at <= Len(w.text) + 1
        /\ s.nodes \in Nat /\ t.nodes <= Len(w.nodes) /\ Len(w.nodes) \in Nat
        BY HereFacts
  <1>2. s \in Place /\ t \in Place /\ Agrees(w, n)
        BY DEF Here
  <1>3. /\ s.in = "section" /\ t.in = "key" /\ t.depth = s.depth /\ t.nodes = s.nodes + 1
        BY <1>2 DEF KeyWord, Place
  <1>4. /\ s.at + 1 < t.at /\ Only(w.text, s.at, q, Word)
        /\ CharOf(w.text, q) \in {" ", "\t"}
        /\ w.nodes[t.nodes].depth = s.depth
        /\ w.nodes[t.nodes].key = SubSeq(w.text, s.at, t.at - 2)
        BY DEF KeyWord
  <1>5. q \in Nat /\ ptr + 1 <= q /\ t.at = q + 1 /\ t.at - 2 = q - 1
    <2>1. t.at \in Nat /\ ptr = s.at /\ s.at \in Nat
          BY <1>1
    <2>2. s.at + 1 < t.at
          BY <1>4, Zenon
    <2> QED
        BY <2>1, <2>2
  <1> HIDE DEF q
  <1>6. Char(ptr) \in Word
    <2>1. s.at \in s.at .. q - 1
          BY <1>1, <1>5
    <2> QED
        BY <1>1, <1>4, <2>1 DEF Only
  <1>7. Key
    <2>1. Char(ptr) \notin {"#", "\n", "=", "{", "}"}
          BY <1>6, MarksAreNoWords DEF Marks
    <2>2. stage = "child"
          BY <1>1, <1>3 DEF Read
    <2> QED
        BY <1>1, <2>1, <2>2, StepInChild
  <1>8. /\ Shape(w)' /\ stage' = "child"
        /\ \A m \in 1 .. Len(heap') - 1 : Holds(w, heap', m)
        /\ ~ Nothing(Duplicate(KeyStart, ptr')) =>
              /\ Len(heap') = s.nodes + 1 /\ Len(frames') = s.depth
              /\ heap'[Len(heap')].key = Duplicate(KeyStart, ptr')
              /\ heap'[Len(heap')].type = "none" /\ heap'[Len(heap')].value = Pointer(NULL)
              /\ Node' = Len(heap') /\ Top.owner' # Node'
    <2>1. s.nodes < Len(w.nodes)
          BY <1>1, <1>3
    <2>2. w.nodes[s.nodes + 1].depth = s.depth
          BY <1>3, <1>4
    <2> QED
        BY <1>3, <1>7, <2>1, <2>2, KeyEffect
  <1>9. ptr' = NextChar(Past(KeyStart, Word))
        BY <1>7 DEF Key
  <1>10. CASE ptr < Size
    <2>1. KeyStart = ptr
          BY <1>1, <1>10 DEF KeyStart, PreviousChar
    <2>2. Past(ptr, Word) = IF q <= n THEN q ELSE n + 1
      <3>1. CharOf(w.text, q) \notin Word
            BY <1>4, MarksAreNoWords DEF Marks
      <3>2. ptr \in 1 .. Size + 1 /\ ptr <= n + 1 /\ ptr <= q /\ Word \in SUBSET (Word \cup Marks)
            BY <1>1, <1>5
      <3>3. Only(w.text, ptr, q, Word)
            BY <1>1, <1>4
      <3> QED
          BY <1>1, <1>2, <1>5, <3>1, <3>2, <3>3, PastInText
    <2>3. CASE q <= n
      <3>1. ptr' = t.at /\ t.at <= n + 1
            BY <1>1, <1>5, <1>9, <2>1, <2>2, <2>3 DEF NextChar
      <3>2. Duplicate(KeyStart, ptr') = SubSeq(w.text, s.at, q - 1)
        <4>1. SubSeq(text, ptr, q - 1) = SubSeq(w.text, ptr, q - 1)
          <5>1. q - 1 \in 1 .. n /\ ptr \in 1 .. q - 1
                BY <1>1, <1>5, <2>3
          <5> QED
              BY <1>1, <1>2, <5>1, AgreesFacts
        <4> QED
            BY <1>1, <1>5, <2>1, <3>1, <4>1 DEF Duplicate
      <3>3. ~ Nothing(SubSeq(w.text, s.at, q - 1))
        <4>1. s.at \in 1 .. Len(w.text) /\ q - 1 \in s.at .. Len(w.text)
              BY <1>1, <1>5
        <4> QED
            BY <4>1, PiecesAssumption, Zenon DEF PiecesAssumption, Nothing
      <3>4. heap'[Len(heap')].key = w.nodes[t.nodes].key
            BY <1>4, <1>5, <1>8, <3>2, <3>3
      <3>5. Valueless(w, heap', Len(heap'))
            BY <1>3, <1>8, <3>2, <3>3, <3>4 DEF Valueless
      <3>6. Read(w, t)'
            BY <1>3, <1>8, <3>2, <3>3, <3>5 DEF Read
      <3> QED
          BY <1>8, <3>1, <3>6 DEF Comes, Reached
    <2>4. CASE ~ (q <= n)
      <3>1. ptr' > n /\ n < Len(w.text)
            BY <1>1, <1>5, <1>9, <2>1, <2>2, <2>4 DEF NextChar
      <3> QED
          BY <1>8, <3>1 DEF Comes, CutThere
    <2> QED
        BY <2>3, <2>4
  <1>11. CASE ptr = Size
    <2>1. KeyStart = Size + 1
          BY <1>1, <1>11 DEF KeyStart, PreviousChar
    <2>2. Past(Size + 1, Word) = Size + 1
      <3>1. Size + 1 \in 1 .. Size + 1
            BY <1>1
      <3>2. Past(Size + 1, Word) \in Size + 1 .. Size + 1
            BY <1>1, <3>1, PastInBuffer
      <3> QED
          BY <1>1, <3>2
    <2>3. ptr' > n /\ n < Len(w.text)
          BY <1>1, <1>5, <1>9, <1>11, <2>1, <2>2 DEF NextChar
    <2> QED
        BY <1>8, <2>3 DEF Comes, CutThere
  <1> QED
      BY <1>1, <1>10, <1>11

\* A pointer is all the value a node has that has none of its own.
LEMMA BareHolds ==
  ASSUME NEW w \in Written, NEW h, NEW m, Bare(w.nodes[m]), NEW to,
         h[m].key = w.nodes[m].key, h[m].type = w.nodes[m].type, h[m].value = Pointer(to)
  PROVE  Holds(w, h, m)
PROOF
  <1>1. Pointer(to).integer = 0 /\ Pointer(to).string = ""
        BY Zenon DEF Pointer
  <1>2. w.nodes[m].integer = 0 /\ w.nodes[m].string = ""
        BY DEF Bare
  <1>3. /\ h[m].value.integer = w.nodes[m].integer
        /\ h[m].value.string = w.nodes[m].string
        BY <1>1, <1>2, Zenon
  <1> QED
      BY <1>3 DEF Holds

\* Where only the last node changes, the others hold what they held.
LEMMA HoldsLastChanged ==
  ASSUME NEW w \in Written, NEW h, NEW k, Len(h) \in Nat, LastChanged(h, k),
         \A m \in 1 .. Len(h) - 1 : Holds(w, h, m)
  PROVE  Len(k) = Len(h) /\ \A m \in 1 .. Len(k) - 1 : Holds(w, k, m)
PROOF
  BY DEF LastChanged, Holds

\* A node that is still open has no value of its own, and keeps what it holds
\* when its list is put below it.
LEMMA AdoptedHolds ==
  ASSUME NEW w \in Written, NEW h \in Heaps, NEW open, Linked(w, h, open),
         NEW owner \in 1 .. Len(h), owner \in open, NEW result \in 0 .. Len(h),
         NEW m \in 1 .. Len(h), Holds(w, h, m)
  PROVE  Holds(w, Adopted(h, owner, result), m)
PROOF
  <1> DEFINE k == Adopted(h, owner, result)
  <1>1. /\ k[owner].key = h[owner].key /\ k[owner].type = h[owner].type
        /\ k[owner].value = Pointer(result)
        /\ \A n \in 1 .. Len(h) : n # owner => k[n] = h[n]
        BY AdoptedContent
  <1> HIDE DEF k
  <1>2. CASE m # owner
    <2>1. k[m] = h[m]
          BY <1>1, <1>2
    <2>2. Holds(w, k, m)
          BY <2>1 DEF Holds
    <2> QED
        BY <2>2 DEF k
  <1>3. CASE m = owner
    <2>1. Bare(w.nodes[m])
          BY <1>3 DEF Linked, Unsettled
    <2>2. k[m].key = w.nodes[m].key /\ k[m].type = w.nodes[m].type
          BY <1>1, <1>3 DEF Holds
    <2>3. Holds(w, k, m)
          BY <1>1, <1>3, <2>1, <2>2, BareHolds
    <2> QED
        BY <2>3 DEF k
  <1> QED
      BY <1>2, <1>3

\* What a key's node is, while it has no value.
LEMMA KeyFacts ==
  ASSUME NEW w \in Written, NEW n \in Nat, NEW s, NEW t, Here(w, n, s, t), s.in = "key"
  PROVE  /\ IInv /\ Shape(w) /\ stage = "child" /\ Top.owner # Node /\ Node = Len(heap)
         /\ Len(heap) = s.nodes /\ Len(frames) = s.depth
         /\ heap \in Heaps /\ Len(heap) \in Nat \ {0}
         /\ \A m \in 1 .. Len(heap) - 1 : Holds(w, heap, m)
         /\ heap[Node].key = w.nodes[Node].key /\ heap[Node].value = Pointer(NULL)
PROOF
  <1>1. Read(w, s) /\ IInv /\ Shape(w)
        BY HereFacts DEF Here
  <1>2. stage = "child" /\ heap \in Heaps /\ Len(heap) \in Nat \ {0}
        BY <1>1, ShapeFacts DEF Read
  <1> QED
      BY <1>1, <1>2 DEF Read, Valueless

\* A brace opens the section of a key.
LEMMA SectionStartRead ==
  ASSUME NEW w \in Written, NEW n \in Nat, NEW s, NEW t, Here(w, n, s, t),
         Next, SectionStart(w, s, t)
  PROVE  Comes(w, n, t)
PROOF
  <1>1. /\ ptr = s.at /\ ptr \in 1 .. n /\ ~ AtEnd /\ Char(ptr) = CharOf(w.text, ptr)
        BY HereFacts
  <1>2. s \in Place
        BY DEF Here
  <1>12. t.at = s.at + 1 /\ t.depth = s.depth + 1 /\ t.nodes = s.nodes
         BY <1>2 DEF SectionStart, Opens, Place
  <1>3. /\ s.in = "key" /\ t.in = "section"
        /\ w.nodes[s.nodes].type = "child" /\ Bare(w.nodes[s.nodes])
        /\ CharOf(w.text, s.at) = "{"
        BY <1>2 DEF SectionStart, Opens, Place
  <1>4. /\ IInv /\ Shape(w) /\ stage = "child" /\ Top.owner # Node /\ Node = Len(heap)
        /\ Len(heap) = s.nodes /\ Len(frames) = s.depth /\ Len(heap) \in Nat
        /\ \A m \in 1 .. Len(heap) - 1 : Holds(w, heap, m)
        /\ heap[Node].key = w.nodes[Node].key /\ heap[Node].value = Pointer(NULL)
        BY <1>3, KeyFacts
  <1>5. Child
        BY <1>1, <1>3, <1>4, StepInChild
  <1>6. /\ Shape(w)'
        /\ Len(frames') = Len(frames) + 1
        /\ LastChanged(heap, heap') /\ heap'[Node].type = "child"
        /\ heap'[Node].key = heap[Node].key /\ heap'[Node].value = heap[Node].value
        BY <1>3, <1>4, <1>5, ChildShape
  <1>7. stage' = "child" /\ ptr' = ptr + 1
        BY <1>4, <1>5 DEF Child
  <1>8. Len(heap') = Len(heap) /\ \A m \in 1 .. Len(heap') - 1 : Holds(w, heap', m)
        BY <1>4, <1>6, HoldsLastChanged
  <1>9. Holds(w, heap', Len(heap'))
        BY <1>3, <1>4, <1>6, <1>8, BareHolds
  <1>10. Read(w, t)'
         BY <1>3, <1>4, <1>6, <1>7, <1>8, <1>9, <1>12 DEF Read
  <1>11. ptr' = t.at /\ t.at <= n + 1
    <2>1. ptr' = ptr + 1 /\ ptr = s.at /\ ptr \in 1 .. n
          BY <1>1, <1>7
    <2> QED
        BY <1>12, <2>1
  <1> QED
      BY <1>6, <1>10, <1>11 DEF Comes, Reached

\* A brace closes a section.
LEMMA SectionEndRead ==
  ASSUME NEW w \in Written, NEW n \in Nat, NEW s, NEW t, Here(w, n, s, t),
         Next, SectionEnd(w, s, t)
  PROVE  Comes(w, n, t)
PROOF
  <1>1. /\ ptr = s.at /\ ptr \in 1 .. n /\ ~ AtEnd /\ Char(ptr) = CharOf(w.text, ptr)
        /\ ptr \in 1 .. Size /\ Size \in Nat /\ Read(w, s)
        BY HereFacts
  <1>2. s \in Place /\ IInv /\ Shape(w)
        BY DEF Here
  <1>14. /\ s.depth > 1 /\ t.at = s.at + 1 /\ t.depth = s.depth - 1 /\ t.nodes = s.nodes
         BY <1>2 DEF SectionEnd, Place
  <1>3. /\ s.in = "section" /\ t.in = "section"
        /\ CharOf(w.text, s.at) = "}"
        BY <1>2 DEF SectionEnd, Place
  <1>4. stage = "child" /\ Len(heap) = s.nodes /\ Len(frames) = s.depth
        BY <1>1, <1>3 DEF Read
  <1>5. ChildReturns
        BY <1>1, <1>3, <1>4, StepInChild
  <1>6. /\ heap' = Adopted(heap, Top.owner, Top.result)
        /\ frames' = Front(frames) /\ stage' = "child" /\ ptr' = ptr + 1
    <2>1. Len(frames) # 1
      <3>1. Len(frames) = s.depth
            BY <1>4
      <3> QED
          BY <1>14, <3>1
    <2>2. NextChar(ptr) = ptr + 1
          BY <1>1 DEF NextChar
    <2> QED
        BY <1>5, <2>1, <2>2 DEF ChildReturns
  <1>7. Shape(w)' /\ Top.owner \in Open
        BY <1>2, <1>4, <1>6, ReturnShape
  <1>8. /\ heap \in Heaps /\ Len(heap) \in Nat /\ Linked(w, heap, Open)
        /\ Top.owner \in 1 .. Len(heap) /\ Top.result \in 0 .. Len(heap)
        /\ frames \in Seq(Activation) /\ Len(frames) > 0
        BY <1>2, <1>4, ShapeFacts, TopOfStack
  <1>9. Len(heap') = Len(heap) /\ Len(frames') = Len(frames) - 1
    <2>1. Len(Front(frames)) = Len(frames) - 1
          BY <1>8, FrontOfStack
    <2>2. Len(Adopted(heap, Top.owner, Top.result)) = Len(heap)
          BY <1>8, AdoptedContent
    <2> QED
        BY <1>6, <2>1, <2>2
  <1>10. \A m \in 1 .. Len(heap) : Holds(w, heap', m)
    <2>1. \A m \in 1 .. Len(heap) : Holds(w, heap, m)
          BY <1>1, <1>3, <1>8, SectionHolds
    <2> QED
        BY <1>6, <1>7, <1>8, <2>1, AdoptedHolds
  <1>11. Holds(w, heap', Len(heap')) /\ \A m \in 1 .. Len(heap') - 1 : Holds(w, heap', m)
    <2>1. Len(heap) \in 1 .. Len(heap)
          BY <1>2, <1>4, ShapeFacts
    <2> QED
        BY <1>8, <1>9, <1>10, <2>1
  <1>12. Read(w, t)'
         BY <1>3, <1>4, <1>6, <1>9, <1>11, <1>14 DEF Read
  <1>13. ptr' = t.at /\ t.at <= n + 1
    <2>1. ptr' = ptr + 1 /\ ptr = s.at /\ ptr \in 1 .. n
          BY <1>1, <1>6
    <2> QED
        BY <1>14, <2>1
  <1> QED
      BY <1>7, <1>12, <1>13 DEF Comes, Reached

\* A number the parser reads is the one that is written.
LEMMA IntegerInText ==
  ASSUME NEW w \in Written, NEW p \in Nat, NEW q \in Nat, p < q,
         \A r \in p .. q - 1 : Char(r) = CharOf(w.text, r)
  PROVE  IntegerFrom(p, q) = Decimal(w.text, p, q)
PROOF
  <1> DEFINE Step(f) == [n \in 0 .. q - p |->
                           IF n = 0 THEN 0
                           ELSE f[n - 1] * 10 + DigitValue[Char(p + n - 1)]]
             Written1(f) == [n \in 0 .. q - p |->
                           IF n = 0 THEN 0
                           ELSE f[n - 1] * 10 + DigitValue[CharOf(w.text, p + n - 1)]]
  <1>1. ASSUME NEW f
        PROVE  Step(f) = Written1(f)
    <2>1. ASSUME NEW n \in 0 .. q - p, n # 0
          PROVE  Char(p + n - 1) = CharOf(w.text, p + n - 1)
      <3>1. p + n - 1 \in p .. q - 1
            BY <2>1
      <3> QED
          BY <3>1
    <2>2. ASSUME NEW n \in 0 .. q - p
          PROVE  (IF n = 0 THEN 0 ELSE f[n - 1] * 10 + DigitValue[Char(p + n - 1)])
                   = (IF n = 0 THEN 0 ELSE f[n - 1] * 10 + DigitValue[CharOf(w.text, p + n - 1)])
          BY <2>1, Zenon
    <2> QED
        BY <2>2, Zenon
  <1>2. (CHOOSE f : f = Step(f)) = (CHOOSE f : f = Written1(f))
    <2>1. \A f : f = Step(f) <=> f = Written1(f)
          BY <1>1, Zenon
    <2> HIDE DEF Step, Written1
    <2> QED
        BY <2>1, Zenon
  <1>3. IntegerFrom(p, q) = (CHOOSE f : f = Step(f))[q - p]
        BY Zenon DEF IntegerFrom
  <1>4. Decimal(w.text, p, q) = (CHOOSE f : f = Written1(f))[q - p]
        BY Zenon DEF Decimal
  <1> QED
      BY <1>2, <1>3, <1>4, Zenon

\* A piece of the text that begins where that was not cut off.
LEMMA PieceInText ==
  ASSUME text \in Texts, NEW w \in Written, NEW n \in Nat, Agrees(w, n),
         NEW start \in 1 .. n, NEW end \in start - 1 .. n
  PROVE  SubSeq(text, start, end) = SubSeq(w.text, start, end)
PROOF
  <1>1. /\ Size \in Nat /\ n <= Size /\ Len(w.text) \in Nat /\ n <= Len(w.text)
        /\ \A q \in 1 .. n : \A p \in 1 .. q : SubSeq(text, p, q) = SubSeq(w.text, p, q)
        BY AgreesFacts
  <1>2. CASE end >= start
    <2>1. end \in 1 .. n /\ start \in 1 .. end
          BY <1>1, <1>2
    <2> QED
        BY <1>1, <2>1
  <1>3. CASE end = start - 1
    <2>1. start \in 1 .. Len(text) + 1 /\ start \in 1 .. Len(w.text)
          BY <1>1 DEF Size
    <2>2. SubSeq(text, start, start - 1) = "" /\ SubSeq(w.text, start, start - 1) = ""
          BY <2>1, PiecesAssumption, Zenon DEF PiecesAssumption
    <2> QED
        BY <1>3, <2>2, Zenon
  <1> QED
      BY <1>2, <1>3

\* A value stands behind the equals sign that follows a key.
ValueAt(w, s, v) ==
  /\ s.in = "key" /\ Assigns(w.text, s.at, v)
  /\ CharOf(w.text, v) \in Digits \cup {"[", "\""}

\* What stands behind an equals sign and blanks is found, unless the text was
\* cut off before it.
LEMMA ValueFound ==
  ASSUME NEW w \in Written, NEW n \in Nat, NEW s, NEW t, Here(w, n, s, t),
         Next, NEW v \in Nat, v <= Len(w.text), ValueAt(w, s, v)
  PROVE  /\ v > n => Comes(w, n, t)
         /\ v <= n => /\ ValueStart = v
                      /\ CharOf(w.text, v) = "[" => ListValue
                      /\ CharOf(w.text, v) = "\"" => StringValue
                      /\ CharOf(w.text, v) \in Digits => IntegerValue
PROOF
  <1> DEFINE chars == Digits \cup {"\n", "[", "\""}
  <1>1. /\ text \in Texts /\ Size \in Nat /\ Len(w.text) \in Nat
        /\ ptr = s.at /\ ptr \in 1 .. Size /\ ptr \in 1 .. n /\ ~ AtEnd
        /\ n \in 1 .. Size /\ n <= Len(w.text)
        /\ Char(ptr) = CharOf(w.text, ptr) /\ Read(w, s)
        BY HereFacts
  <1>2. s \in Place /\ Agrees(w, n) /\ IInv /\ Shape(w)
        BY DEF Here
  <1>3. stage = "child" /\ Char(ptr) = "="
        BY <1>1, <1>2 DEF Read, Assigns, ValueAt
  <1>4. NoValue \/ ListValue \/ StringValue \/ IntegerValue
        BY <1>1, <1>3, StepInChild
  <1>5. \A c \in {" ", "\t"} : c \notin chars
    <2>1. " " \notin Digits /\ "\t" \notin Digits
          BY DEF Digits
    <2> QED
        BY <2>1
  <1>6. ptr < v
    <2>1. s.at < v
          BY DEF Assigns, ValueAt
    <2> QED
        BY <1>1, <2>1
  <1>7. Without(w.text, ptr + 1, v, chars)
    <2>1. Only(w.text, ptr + 1, v, {" ", "\t"})
          BY <1>1 DEF Assigns, ValueAt
    <2> HIDE DEF chars
    <2> QED
        BY <1>5, <2>1 DEF Only, Without
  <1>8. CharOf(w.text, v) \in chars
        BY DEF ValueAt
  <1>9. chars \in SUBSET (Word \cup Marks)
        BY MarksAreNoWords DEF Marks
  <1>10. ValueStart = To(ptr + 1, chars)
        BY Zenon DEF ValueStart
  <1> HIDE DEF chars
  <1>11. ValueStart = IF v <= n THEN v ELSE Size + 1
    <2>1. ptr + 1 \in 1 .. Size + 1 /\ ptr + 1 <= v
          BY <1>1, <1>6
    <2> QED
        BY <1>1, <1>2, <1>7, <1>8, <1>9, <1>10, <2>1, ToInText
  <1>12. ASSUME v > n
         PROVE  Comes(w, n, t)
    <2>1. ValueStart = Size + 1
          BY <1>1, <1>11, <1>12
    <2>2. Char(ValueStart) = ""
      <3>1. Size + 1 \notin 1 .. Size
            BY <1>1
      <3> QED
          BY <2>1, <3>1, Zenon DEF Char
    <2>3. ~ ListValue /\ ~ StringValue /\ ~ IntegerValue
      <3>1. Char(ValueStart) \notin {"["} /\ Char(ValueStart) \notin {"\""}
            /\ Char(ValueStart) \notin Digits
            BY <2>2, CharsAreNotEmpty, Zenon
      <3> QED
          BY <3>1, Zenon DEF ListValue, StringValue, IntegerValue, InValue
    <2>4. NoValue
          BY <1>4, <2>3
    <2>5. /\ ptr' = PreviousChar(NextChar(ValueStart))
          /\ UNCHANGED <<stage, heap, frames, list>>
          BY <2>4 DEF NoValue
    <2>6. ptr' > n /\ n < Len(w.text)
          BY <1>1, <1>12, <2>1, <2>5 DEF NextChar, PreviousChar
    <2>7. Shape(w)' /\ Read(w, s)'
          BY <1>1, <1>2, <2>5, QuietRead
    <2>8. \A m \in 1 .. Len(heap') - 1 : Holds(w, heap', m)
          BY <1>1, <2>5, ReadHolds
    <2>9. stage' = "child"
          BY <1>3, <2>5
    <2> QED
        BY <2>6, <2>7, <2>8, <2>9 DEF Comes, CutThere
  <1>13. ASSUME v <= n
         PROVE  /\ CharOf(w.text, v) = "[" => ListValue
                /\ CharOf(w.text, v) = "\"" => StringValue
                /\ CharOf(w.text, v) \in Digits => IntegerValue
    <2>1. ValueStart = v /\ Char(v) = CharOf(w.text, v)
      <3>1. v \in 1 .. n
            BY <1>1, <1>6, <1>13
      <3> QED
          BY <1>1, <1>2, <1>11, <1>13, <3>1, AgreesFacts
    <2>2. "[" \notin Digits /\ "\"" \notin Digits /\ "\n" \notin Digits
          BY DEF Digits
    <2>3. /\ NoValue => Char(ValueStart) \in {"\n", ""}
          /\ ListValue => Char(ValueStart) \in {"["}
          /\ StringValue => Char(ValueStart) \in {"\""}
          /\ IntegerValue => Char(ValueStart) \in Digits
          BY Zenon DEF NoValue, ListValue, StringValue, IntegerValue, InValue
    <2>4. Char(ValueStart) \in Digits \cup {"[", "\""}
          BY <2>1 DEF ValueAt
    <2>5. ~ NoValue
      <3>1. \A c \in {"\n", ""} : c \notin Digits \cup {"[", "\""}
            BY <2>2, CharsAreNotEmpty
      <3> QED
          BY <2>3, <2>4, <3>1, Zenon
    <2>6. ListValue \/ StringValue \/ IntegerValue
          BY <1>4, <2>5
    <2> QED
        BY <2>1, <2>2, <2>3, <2>6
  <1>14. v <= n => ValueStart = v
        BY <1>11
  <1> QED
      BY <1>12, <1>13, <1>14

\* A bracket opens the list of a key.
LEMMA ListStartRead ==
  ASSUME NEW w \in Written, NEW n \in Nat, NEW s, NEW t, Here(w, n, s, t),
         Next, ListStart(w, s, t)
  PROVE  Comes(w, n, t)
PROOF
  <1> DEFINE v == t.at - 1
  <1>1. /\ s.at \in Nat /\ t.at \in Nat /\ s.at < t.at /\ t.at <= Len(w.text) + 1
        /\ Len(w.text) \in Nat /\ n \in 1 .. Size /\ Size \in Nat /\ ptr = s.at /\ ptr \in 1 .. n
        BY HereFacts
  <1>2. s \in Place
        BY DEF Here
  <1>3. t.depth = s.depth + 1 /\ t.nodes = s.nodes /\ s.depth \in Nat
        BY <1>2 DEF ListStart, Opens, Place
  <1>4. /\ s.in = "key" /\ t.in = "list"
        /\ w.nodes[s.nodes].type = "list" /\ Bare(w.nodes[s.nodes])
        BY <1>2 DEF ListStart, Opens, Place
  <1>5. v \in Nat /\ v <= Len(w.text) /\ t.at = v + 1
        BY <1>1
  <1>6. ValueAt(w, s, v) /\ CharOf(w.text, v) = "["
        BY <1>4 DEF ListStart, ValueAt
  <1> HIDE DEF v
  <1>7. /\ v > n => Comes(w, n, t)
        /\ v <= n => ValueStart = v /\ ListValue
    <2>1. /\ v > n => Comes(w, n, t)
          /\ v <= n => /\ ValueStart = v
                       /\ CharOf(w.text, v) = "[" => ListValue
                       /\ CharOf(w.text, v) = "\"" => StringValue
                       /\ CharOf(w.text, v) \in Digits => IntegerValue
          BY <1>5, <1>6, ValueFound
    <2> QED
        BY <1>6, <2>1, Zenon
  <1>8. CASE v <= n
    <2>1. ListValue /\ ptr' = t.at /\ t.at <= n + 1
      <3>1. ListValue /\ ptr' = ValueStart + 1 /\ ValueStart = v
            BY <1>7, <1>8 DEF ListValue
      <3> QED
          BY <1>5, <1>8, <3>1
    <2>2. /\ IInv /\ Shape(w) /\ stage = "child" /\ Top.owner # Node /\ Node = Len(heap)
          /\ Len(heap) = s.nodes /\ Len(frames) = s.depth /\ Len(heap) \in Nat
          /\ \A m \in 1 .. Len(heap) - 1 : Holds(w, heap, m)
          /\ heap[Node].key = w.nodes[Node].key /\ heap[Node].value = Pointer(NULL)
          BY <1>4, KeyFacts
    <2>3. /\ Shape(w)'
          /\ LastChanged(heap, heap') /\ heap'[Node].type = "list"
          /\ heap'[Node].key = heap[Node].key /\ heap'[Node].value = heap[Node].value
          BY <1>4, <2>1, <2>2, ListShape
    <2>4. stage' = "list" /\ frames' = frames /\ element' = NoElement
          BY <2>1 DEF ListValue
    <2>5. Len(heap') = Len(heap) /\ \A m \in 1 .. Len(heap') - 1 : Holds(w, heap', m)
          BY <2>2, <2>3, HoldsLastChanged
    <2>6. Holds(w, heap', Len(heap'))
          BY <1>4, <2>2, <2>3, <2>5, BareHolds
    <2>7. ElementFits(w, t)'
          BY <1>4, <2>4 DEF ElementFits, NoElement
    <2>8. Len(frames') = t.depth - 1 /\ Len(heap') = t.nodes
      <3>1. Len(frames') = s.depth
            BY <2>2, <2>4
      <3> QED
          BY <1>3, <2>2, <2>5, <3>1
    <2>9. Read(w, t)'
          BY <1>4, <2>4, <2>5, <2>6, <2>7, <2>8 DEF Read
    <2> QED
        BY <2>1, <2>3, <2>9 DEF Comes, Reached
  <1>9. v <= n \/ v > n
        BY <1>1, <1>5
  <1> QED
      BY <1>7, <1>8, <1>9

\* The last node's type and value are written.
Valued(type, value) ==
  /\ heap' = [heap EXCEPT ![Node].type = type, ![Node].value = value]
  /\ UNCHANGED <<stage, frames>>

\* The place behind a value.
Complete(s, t) ==
  s.in = "key" /\ t.in = "section" /\ t.depth = s.depth /\ t.nodes = s.nodes

\* A value that was read makes a key's node complete; of a text that was cut
\* off in it, the other nodes are.
LEMMA ValueRead ==
  ASSUME NEW w \in Written, NEW n \in Nat, NEW s, NEW t, Here(w, n, s, t), Complete(s, t),
         NEW type \in {"string", "integer"}, NEW value \in Values, Valued(type, value)
  PROVE  /\ Shape(w)' /\ stage' \in {"child", "list"}
         /\ \A m \in 1 .. Len(heap') - 1 : Holds(w, heap', m)
         /\ (/\ type = w.nodes[s.nodes].type /\ value.integer = w.nodes[s.nodes].integer
             /\ value.string = w.nodes[s.nodes].string) => Read(w, t)'
PROOF
  <1>1. /\ IInv /\ Shape(w) /\ stage = "child" /\ Top.owner # Node /\ Node = Len(heap)
        /\ Len(heap) = s.nodes /\ Len(frames) = s.depth /\ Len(heap) \in Nat
        /\ \A m \in 1 .. Len(heap) - 1 : Holds(w, heap, m)
        /\ heap[Node].key = w.nodes[Node].key
        BY KeyFacts DEF Complete
  <1>2. /\ Shape(w)'
        /\ LastChanged(heap, heap') /\ heap'[Node].type = type
        /\ heap'[Node].key = heap[Node].key /\ heap'[Node].value = value
        BY <1>1, ValueShape DEF Valued
  <1>3. Len(heap') = Len(heap) /\ \A m \in 1 .. Len(heap') - 1 : Holds(w, heap', m)
        BY <1>1, <1>2, HoldsLastChanged
  <1>4. ASSUME type = w.nodes[s.nodes].type, value.integer = w.nodes[s.nodes].integer,
               value.string = w.nodes[s.nodes].string
        PROVE  Read(w, t)'
    <2>1. Holds(w, heap', Len(heap'))
      <3>1. Node = s.nodes /\ Len(heap') = Node
            BY <1>1, <1>3
      <3>2. Holds(w, heap', Node)
            BY <1>1, <1>2, <1>4, <3>1, Zenon DEF Holds
      <3> QED
          BY <3>1, <3>2
    <2>2. stage' = stage /\ frames' = frames
          BY DEF Valued
    <2> QED
        BY <1>1, <1>3, <2>1, <2>2 DEF Read, Complete
  <1> QED
      BY <1>1, <1>2, <1>3, <1>4 DEF Valued

\* The cursor behind the string that begins at a quote.
QuoteEnd(v) == NextChar(To(v + 1, {"\""}))

\* A quoted string ends where it does in the text, or at the buffer's end.
LEMMA QuoteFound ==
  ASSUME text \in Texts, NEW w \in Written, NEW n \in Nat, Agrees(w, n),
         NEW v \in 1 .. n, NEW end \in Nat, end <= Len(w.text) + 1,
         QuotedString(w.text, v, end), NEW p, p = QuoteEnd(v)
  PROVE  /\ end <= n + 1 => p = end /\ Duplicate(v + 1, p) = Unquoted(w.text, v, end)
         /\ end > n + 1 => p > n /\ n < Len(w.text)
         /\ Duplicate(v + 1, p) \in Strings
PROOF
  <1> DEFINE q == end - 1
             chars == {"\""}
  <1>1. /\ Size \in Nat /\ Len(w.text) \in Nat /\ n <= Size /\ n <= Len(w.text)
        BY AgreesFacts
  <1>2. v < q
        BY DEF QuotedString
  <1>3. CharOf(w.text, q) \in chars /\ Without(w.text, v + 1, q, chars)
        BY DEF QuotedString
  <1>4. q \in Nat /\ v + 1 <= q /\ end = q + 1 /\ end - 2 = q - 1 /\ v + 1 \in 1 .. Size + 1
    <2>1. v \in 1 .. n /\ v < q /\ end \in Nat
          BY <1>2
    <2> QED
        BY <1>1, <2>1
  <1>5. chars \in SUBSET (Word \cup Marks)
        BY DEF Marks
  <1> DEFINE found == To(v + 1, chars)
  <1>7. p = NextChar(found)
        BY DEF QuoteEnd
  <1> HIDE DEF q, chars
  <1>6. To(v + 1, chars) = IF q <= n THEN q ELSE Size + 1
        BY <1>3, <1>4, <1>5, ToInText
  <1>8. found = IF q <= n THEN q ELSE Size + 1
        BY <1>6
  <1> HIDE DEF found
  <1>9. p \in 1 .. Size + 1 /\ (q <= n => p = end) /\ (q > n => p > n)
        BY <1>1, <1>4, <1>7, <1>8 DEF NextChar
  <1>10. ASSUME q <= n
         PROVE  Duplicate(v + 1, p) = Unquoted(w.text, v, end)
    <2>1. v + 1 \in 1 .. n /\ q - 1 \in (v + 1) - 1 .. n
          BY <1>1, <1>4, <1>10
    <2>2. SubSeq(text, v + 1, q - 1) = SubSeq(w.text, v + 1, q - 1)
          BY <2>1, PieceInText
    <2>3. p - 2 = q - 1 /\ end - 2 = q - 1
          BY <1>4, <1>9, <1>10
    <2> QED
        BY <2>2, <2>3, Zenon DEF Duplicate, Unquoted
  <1>11. Duplicate(v + 1, p) \in Strings
    <2>1. v + 1 \in Int /\ p \in Int
          BY <1>1, <1>9
    <2> QED
        BY <2>1, DuplicateIsString
  <1>12. (end <= n + 1 <=> q <= n) /\ (end > n + 1 => q > n /\ n < Len(w.text))
         BY <1>1, <1>4
  <1> QED
      BY <1>9, <1>10, <1>11, <1>12

\* The cursor behind a number, and what the number is.
NumberEnd(start) == PreviousChar(NextChar(Past(start, Digits)))
NumberAt(start) == IntegerFrom(start, Past(start, Digits))

\* A number ends where it does in the text, or where that was cut off; of a
\* buffer that ends with the character behind it, nothing is left.
LEMMA NumberFound ==
  ASSUME text \in Texts, NEW w \in Written, NEW n \in Nat, Agrees(w, n),
         NEW v \in 1 .. n, NEW end \in Nat, DigitsEnd(w.text, v, end),
         NEW p, p = NumberEnd(v)
  PROVE  /\ NumberAt(v) \in Nat
         /\ \/ p = end /\ end <= n /\ NumberAt(v) = Decimal(w.text, v, end)
            \/ p > n /\ n < Len(w.text)
            \/ p > n /\ n = Len(w.text) /\ end = n /\ NumberAt(v) = Decimal(w.text, v, end)
PROOF
  <1>1. /\ Size \in Nat /\ Len(w.text) \in Nat /\ n <= Size /\ n <= Len(w.text)
        /\ n = Len(w.text) => Size = n
        /\ \A r \in 1 .. n : Char(r) = CharOf(w.text, r)
        BY AgreesFacts
  <1>2. v < end /\ end <= Len(w.text)
        BY DEF DigitsEnd
  <1>3. Only(w.text, v, end, Digits) /\ CharOf(w.text, end) \notin Digits
        BY DEF DigitsEnd
  <1>4. v \in 1 .. Size + 1 /\ v \in Nat /\ v <= end /\ v <= n + 1
        BY <1>1, <1>2
  <1>5. Digits \in SUBSET (Word \cup Marks)
        BY MarksAreNoWords
  <1>6. Past(v, Digits) = IF end <= n THEN end ELSE n + 1
        BY <1>3, <1>4, <1>5, PastInText
  <1>7. NumberAt(v) \in Nat
        BY <1>4, DigitsAreNat DEF NumberAt
  <1>8. p = PreviousChar(NextChar(Past(v, Digits)))
        BY DEF NumberEnd
  <1>9. CASE end <= n
    <2>1. \A r \in v .. end - 1 : Char(r) = CharOf(w.text, r)
      <3>1. \A r \in v .. end - 1 : r \in 1 .. n
            BY <1>2, <1>9
      <3> QED
          BY <1>1, <3>1
    <2>2. IntegerFrom(v, end) = Decimal(w.text, v, end)
          BY <1>2, <1>4, <2>1, IntegerInText
    <2>3. NumberAt(v) = Decimal(w.text, v, end)
          BY <1>6, <1>9, <2>2 DEF NumberAt
    <2>4. CASE end < Size
      <3>1. p = end
            BY <1>1, <1>6, <1>8, <1>9, <2>4 DEF PreviousChar, NextChar
      <3> QED
          BY <1>7, <1>9, <2>3, <3>1
    <2>5. CASE end = Size
      <3>1. p > n /\ end = n /\ (n < Len(w.text) \/ n = Len(w.text))
            BY <1>1, <1>6, <1>8, <1>9, <2>5 DEF PreviousChar, NextChar
      <3> QED
          BY <1>7, <2>3, <3>1
    <2> QED
        BY <1>1, <1>9, <2>4, <2>5
  <1>10. CASE ~ (end <= n)
    <2>1. n < Len(w.text)
          BY <1>1, <1>2, <1>10
    <2>2. Past(v, Digits) = n + 1
          BY <1>6, <1>10
    <2>3. p > n
          BY <1>1, <1>8, <2>2 DEF PreviousChar, NextChar
    <2> QED
        BY <1>7, <2>1, <2>3
  <1> QED
      BY <1>9, <1>10

\* A string for a key.
LEMMA StringAssignedRead ==
  ASSUME NEW w \in Written, NEW n \in Nat, NEW s, NEW t, Here(w, n, s, t),
         Next, StringAssigned(w, s, t)
  PROVE  Comes(w, n, t)
PROOF
  <1>1. /\ s.at \in Nat /\ t.at \in Nat /\ s.at < t.at /\ t.at <= Len(w.text) + 1
        /\ Len(w.text) \in Nat /\ n \in 1 .. Size /\ Size \in Nat /\ text \in Texts
        BY HereFacts
  <1>2. s \in Place /\ Agrees(w, n)
        BY DEF Here
  <1>3. PICK v \in s.at + 1 .. t.at - 1 :
          /\ Assigns(w.text, s.at, v) /\ QuotedString(w.text, v, t.at)
          /\ w.nodes[s.nodes].string = Unquoted(w.text, v, t.at)
        BY DEF StringAssigned
  <1>4. /\ Complete(s, t) /\ s.in = "key"
        /\ w.nodes[s.nodes].type = "string" /\ w.nodes[s.nodes].integer = 0
        BY <1>2 DEF StringAssigned, Complete, Place
  <1>5. v \in Nat /\ v <= Len(w.text) /\ v > 0
        BY <1>1
  <1>6. ValueAt(w, s, v) /\ CharOf(w.text, v) = "\""
        BY <1>3, <1>4 DEF ValueAt, QuotedString
  <1>7. /\ v > n => Comes(w, n, t)
        /\ v <= n => ValueStart = v /\ StringValue
    <2>1. /\ v > n => Comes(w, n, t)
          /\ v <= n => /\ ValueStart = v
                       /\ CharOf(w.text, v) = "[" => ListValue
                       /\ CharOf(w.text, v) = "\"" => StringValue
                       /\ CharOf(w.text, v) \in Digits => IntegerValue
          BY <1>5, <1>6, ValueFound
    <2> QED
        BY <1>6, <2>1, Zenon
  <1>8. CASE v <= n
    <2> DEFINE string == Duplicate(v + 1, ptr')
    <2>1. /\ ptr' = QuoteEnd(v)
          /\ Valued("string", Chars(string))
          BY <1>7, <1>8 DEF StringValue, QuoteEnd, Valued
    <2>2. /\ t.at <= n + 1 => ptr' = t.at /\ string = Unquoted(w.text, v, t.at)
          /\ t.at > n + 1 => ptr' > n /\ n < Len(w.text)
          /\ string \in Strings
      <3>1. v \in 1 .. n
            BY <1>1, <1>5, <1>8
      <3> QED
          BY <1>1, <1>2, <1>3, <2>1, <3>1, QuoteFound
    <2> HIDE DEF string
    <2>3. Chars(string) \in Values /\ Chars(string).integer = 0 /\ Chars(string).string = string
          BY <2>2, ValuesAreNoPointers DEF Chars
    <2>4. /\ Shape(w)' /\ stage' \in {"child", "list"}
          /\ \A m \in 1 .. Len(heap') - 1 : Holds(w, heap', m)
          /\ (/\ "string" = w.nodes[s.nodes].type
              /\ Chars(string).integer = w.nodes[s.nodes].integer
              /\ Chars(string).string = w.nodes[s.nodes].string) => Read(w, t)'
          BY <1>4, <2>1, <2>3, ValueRead, Zenon
    <2>5. t.at <= n + 1 => Read(w, t)'
          BY <1>3, <1>4, <2>2, <2>3, <2>4, Zenon
    <2>6. t.at <= n + 1 \/ t.at > n + 1
          BY <1>1
    <2> QED
        BY <2>2, <2>4, <2>5, <2>6 DEF Comes, Reached, CutThere
  <1>9. v <= n \/ v > n
        BY <1>1, <1>5
  <1> QED
      BY <1>7, <1>8, <1>9

\* An integer for a key.
LEMMA IntegerAssignedRead ==
  ASSUME NEW w \in Written, NEW n \in Nat, NEW s, NEW t, Here(w, n, s, t),
         Next, IntegerAssigned(w, s, t)
  PROVE  Comes(w, n, t)
PROOF
  <1>1. /\ s.at \in Nat /\ t.at \in Nat /\ s.at < t.at /\ t.at <= Len(w.text) + 1
        /\ Len(w.text) \in Nat /\ n \in 1 .. Size /\ Size \in Nat /\ text \in Texts
        /\ n = Len(w.text) => Size = n
        BY HereFacts
  <1>2. s \in Place /\ Agrees(w, n)
        BY DEF Here
  <1>3. PICK v \in s.at + 1 .. t.at - 1 :
          /\ Assigns(w.text, s.at, v) /\ DigitsEnd(w.text, v, t.at)
          /\ w.nodes[s.nodes].integer = Decimal(w.text, v, t.at)
        BY DEF IntegerAssigned
  <1>4. /\ Complete(s, t) /\ s.in = "key"
        /\ w.nodes[s.nodes].type = "integer" /\ Nothing(w.nodes[s.nodes].string)
    <2>1. w.nodes[s.nodes].type = "integer" /\ Nothing(w.nodes[s.nodes].string)
          BY Zenon DEF IntegerAssigned, Nothing
    <2>2. Complete(s, t) /\ s.in = "key"
          BY <1>2 DEF IntegerAssigned, Complete, Place
    <2> QED
        BY <2>1, <2>2
  <1>5. v \in Nat /\ v <= Len(w.text) /\ v > 0
        BY <1>1
  <1>6. ValueAt(w, s, v) /\ CharOf(w.text, v) \in Digits
    <2>1. v \in v .. t.at - 1
          BY <1>1, <1>5
    <2>2. CharOf(w.text, v) \in Digits
          BY <1>3, <2>1, Zenon DEF DigitsEnd, Only
    <2> QED
        BY <1>3, <1>4, <2>2 DEF ValueAt
  <1>7. /\ v > n => Comes(w, n, t)
        /\ v <= n => ValueStart = v /\ IntegerValue
    <2>1. /\ v > n => Comes(w, n, t)
          /\ v <= n => /\ ValueStart = v
                       /\ CharOf(w.text, v) = "[" => ListValue
                       /\ CharOf(w.text, v) = "\"" => StringValue
                       /\ CharOf(w.text, v) \in Digits => IntegerValue
          BY <1>5, <1>6, ValueFound
    <2> QED
        BY <1>6, <2>1, Zenon
  <1>8. CASE v <= n
    <2> DEFINE start == PreviousChar(v + 1)
    <2>1. /\ ptr' = NumberEnd(start)
          /\ Valued("integer", Number(NumberAt(start)))
          BY <1>7, <1>8 DEF IntegerValue, NumberEnd, NumberAt, Valued
    <2>2. IF v < Size THEN start = v ELSE start = Size + 1 /\ n = Size /\ n < Len(w.text)
      <3>1. v < t.at /\ t.at <= Len(w.text)
            BY <1>3 DEF DigitsEnd
      <3> QED
          BY <1>1, <1>5, <1>8, <3>1 DEF PreviousChar
    <2> HIDE DEF start
    <2>3. NumberAt(start) \in Nat
      <3>1. start \in 1 .. Size + 1
            BY <1>1, <1>5, <2>2
      <3> QED
          BY <1>1, <3>1, DigitsAreNat DEF NumberAt
    <2> DEFINE value == Number(NumberAt(start))
    <2>4. value \in Values /\ value.integer = NumberAt(start) /\ Nothing(value.string)
      <3>1. value.integer = NumberAt(start)
            BY DEF Number
      <3>2. Nothing(value.string)
            BY Zenon DEF Number, Nothing
      <3> QED
          BY <2>3, <3>1, <3>2, ValuesAreNoPointers
    <2>5. /\ Shape(w)' /\ stage' \in {"child", "list"}
          /\ \A m \in 1 .. Len(heap') - 1 : Holds(w, heap', m)
          /\ (/\ "integer" = w.nodes[s.nodes].type
              /\ value.integer = w.nodes[s.nodes].integer
              /\ value.string = w.nodes[s.nodes].string) => Read(w, t)'
      <3> HIDE DEF value
      <3>1. Valued("integer", value)
            BY <2>1 DEF value
      <3>2. "integer" \in {"string", "integer"} /\ value \in Values
            BY <2>4
      <3> QED
          BY <1>4, <3>1, <3>2, ValueRead, Zenon
    <2>6. NumberAt(start) = Decimal(w.text, v, t.at) => Read(w, t)'
      <3>1. value.string = w.nodes[s.nodes].string
            BY <1>4, <2>4, Zenon DEF Nothing
      <3> QED
          BY <1>3, <1>4, <2>4, <2>5, <3>1, Zenon
    <2> HIDE DEF value
    <2>7. CASE v < Size
      <3>1. v \in 1 .. n
            BY <1>1, <1>5, <1>8
      <3>2. start = v
            BY <2>2, <2>7
      <3>3. \/ ptr' = t.at /\ t.at <= n /\ NumberAt(v) = Decimal(w.text, v, t.at)
            \/ ptr' > n /\ n < Len(w.text)
            \/ /\ ptr' > n /\ n = Len(w.text) /\ t.at = n
               /\ NumberAt(v) = Decimal(w.text, v, t.at)
            BY <1>1, <1>2, <1>3, <2>1, <3>1, <3>2, NumberFound
      <3>4. CASE ptr' = t.at /\ t.at <= n /\ NumberAt(v) = Decimal(w.text, v, t.at)
        <4>1. t.at <= n + 1
              BY <1>1, <3>4
        <4> QED
            BY <2>5, <2>6, <3>2, <3>4, <4>1 DEF Comes, Reached
      <3>5. CASE ptr' > n /\ n < Len(w.text)
            BY <2>5, <3>5 DEF Comes, CutThere
      <3>6. CASE /\ ptr' > n /\ n = Len(w.text) /\ t.at = n
                 /\ NumberAt(v) = Decimal(w.text, v, t.at)
        <4>1. t.in # "key"
              BY <1>4 DEF Complete
        <4> QED
            BY <2>5, <2>6, <3>2, <3>6, <4>1 DEF Comes, LastLost
      <3> QED
          BY <3>3, <3>4, <3>5, <3>6
    <2>8. CASE ~ (v < Size)
      <3>1. start = Size + 1 /\ n = Size /\ n < Len(w.text)
            BY <2>2, <2>8
      <3>2. Past(Size + 1, Digits) = Size + 1
        <4>1. Size + 1 \in 1 .. Size + 1
              BY <1>1
        <4>2. Past(Size + 1, Digits) \in Size + 1 .. Size + 1
              BY <1>1, <4>1, PastInBuffer
        <4> QED
            BY <1>1, <4>2
      <3>3. ptr' > n
            BY <1>1, <2>1, <3>1, <3>2 DEF NumberEnd, NextChar, PreviousChar
      <3> QED
          BY <2>5, <3>1, <3>3 DEF Comes, CutThere
    <2> QED
        BY <2>7, <2>8
  <1>9. v <= n \/ v > n
        BY <1>1, <1>5
  <1> QED
      BY <1>7, <1>8, <1>9

\* What is known in a list.
LEMMA ListFacts ==
  ASSUME NEW w \in Written, NEW n \in Nat, NEW s, NEW t, Here(w, n, s, t),
         s.in \in {"list", "element"}
  PROVE  /\ IInv /\ Shape(w) /\ stage = "list" /\ Read(w, s) /\ ElementFits(w, s)
         /\ Len(heap) = s.nodes /\ Len(frames) = s.depth - 1 /\ s.depth \in Nat
         /\ heap \in Heaps /\ Len(heap) \in Nat \ {0}
         /\ \A m \in 1 .. Len(heap) : Holds(w, heap, m)
PROOF
  <1>1. Read(w, s) /\ IInv /\ Shape(w) /\ s.depth \in Nat
        BY HereFacts DEF Here
  <1>2. /\ stage = "list" /\ Len(heap) = s.nodes /\ Len(frames) = s.depth - 1
        /\ ElementFits(w, s)
        BY <1>1 DEF Read
  <1>3. heap \in Heaps /\ Len(heap) \in Nat \ {0}
        BY <1>1, <1>2, ShapeFacts
  <1>4. \A m \in 1 .. Len(heap) : Holds(w, heap, m)
    <2>1. s.in # "key"
          OBVIOUS
    <2> QED
        BY <1>1, <1>3, <2>1, SectionHolds
  <1> QED
      BY <1>1, <1>2, <1>3, <1>4

\* An element that is read changes nothing else.
LEMMA ElementRead ==
  ASSUME NEW w \in Written, NEW n \in Nat, NEW s, NEW t, Here(w, n, s, t),
         s.in = "list", t.in = "element", t.depth = s.depth, t.nodes = s.nodes,
         UNCHANGED <<stage, heap, frames, last, first>>
  PROVE  /\ Shape(w)' /\ stage' \in {"child", "list"}
         /\ \A m \in 1 .. Len(heap') - 1 : Holds(w, heap', m)
         /\ ElementFits(w, t)' => Read(w, t)'
PROOF
  <1>1. /\ IInv /\ Shape(w) /\ stage = "list" /\ Read(w, s)
        /\ Len(heap) = s.nodes /\ Len(frames) = s.depth - 1 /\ Len(heap) \in Nat \ {0}
        /\ \A m \in 1 .. Len(heap) : Holds(w, heap, m)
        BY ListFacts
  <1>2. Shape(w)'
        BY <1>1 DEF Shape, Open, Node, Top
  <1>3. \A m \in 1 .. Len(heap) - 1 : m \in 1 .. Len(heap)
        BY <1>1
  <1>4. Len(heap) \in 1 .. Len(heap)
        BY <1>1
  <1>5. ElementFits(w, t)' => Read(w, t)'
        BY <1>1, <1>3, <1>4 DEF Read
  <1> QED
      BY <1>1, <1>2, <1>3, <1>5

\* A string of a list.
LEMMA StringElementRead ==
  ASSUME NEW w \in Written, NEW n \in Nat, NEW s, NEW t, Here(w, n, s, t),
         Next, StringElement(w, s, t)
  PROVE  Comes(w, n, t)
PROOF
  <1> DEFINE string == Duplicate(ptr + 1, ptr')
             x      == w.nodes[s.nodes + 1]
  <1>1. /\ ptr = s.at /\ ptr \in 1 .. n /\ ~ AtEnd /\ Char(ptr) = CharOf(w.text, ptr)
        /\ s.at \in Nat /\ t.at \in Nat /\ t.at <= Len(w.text) + 1 /\ text \in Texts
        BY HereFacts
  <1>2. s \in Place /\ Agrees(w, n)
        BY DEF Here
  <1>3. t.depth = s.depth /\ t.nodes = s.nodes /\ s.nodes < Len(w.nodes) /\ x.depth = s.depth
        BY <1>2 DEF StringElement, ElementBegins, Place
  <1>4. s.in = "list" /\ t.in = "element"
        BY <1>2 DEF StringElement, ElementBegins, Place
  <1>5. QuotedString(w.text, s.at, t.at) /\ CharOf(w.text, s.at) = "\""
        BY DEF StringElement, QuotedString
  <1>6. /\ x.type = "string" /\ x.integer = 0
        /\ x.key = Unquoted(w.text, s.at, t.at) /\ x.string = Unquoted(w.text, s.at, t.at)
        BY DEF StringElement
  <1>7. ListString
    <2>1. stage = "list"
          BY <1>4, ListFacts
    <2> QED
        BY <1>1, <1>5, <2>1, StepInList
  <1>8. /\ ptr' = QuoteEnd(ptr)
        /\ element' = [type |-> "string", value |-> Chars(string), key |-> string]
        /\ UNCHANGED <<stage, heap, frames, last, first>>
        BY <1>7 DEF ListString, QuoteEnd
  <1>9. /\ t.at <= n + 1 => ptr' = t.at /\ string = Unquoted(w.text, s.at, t.at)
        /\ t.at > n + 1 => ptr' > n /\ n < Len(w.text)
    <2>1. QuotedString(w.text, ptr, t.at)
          BY <1>1, <1>5
    <2>2. ptr \in 1 .. n /\ t.at \in Nat /\ t.at <= Len(w.text) + 1
          BY <1>1
    <2>3. /\ t.at <= n + 1 => ptr' = t.at /\ string = Unquoted(w.text, ptr, t.at)
          /\ t.at > n + 1 => ptr' > n /\ n < Len(w.text)
          BY <1>1, <1>2, <1>8, <2>1, <2>2, QuoteFound
    <2> QED
        BY <1>1, <2>3
  <1> HIDE DEF string, x
  <1>10. /\ Shape(w)' /\ stage' \in {"child", "list"}
         /\ \A m \in 1 .. Len(heap') - 1 : Holds(w, heap', m)
         /\ ElementFits(w, t)' => Read(w, t)'
         BY <1>3, <1>4, <1>8, ElementRead
  <1>11. ASSUME t.at <= n + 1
         PROVE  Read(w, t)'
    <2>1. /\ element'.type = x.type /\ element'.key = x.key
          /\ element'.value.integer = x.integer /\ element'.value.string = x.string
      <3>1. /\ element'.type = "string" /\ element'.key = string
            /\ element'.value = Chars(string)
            BY <1>8
      <3>2. Chars(string).integer = 0 /\ Chars(string).string = string
            BY DEF Chars
      <3> QED
          BY <1>6, <1>9, <1>11, <3>1, <3>2, Zenon
    <2>2. ElementFits(w, t)'
          BY <1>3, <1>4, <1>6, <2>1 DEF ElementFits, x
    <2> QED
        BY <1>10, <2>2
  <1>12. t.at <= n + 1 \/ t.at > n + 1
         BY <1>1
  <1> QED
      BY <1>9, <1>10, <1>11, <1>12 DEF Comes, Reached, CutThere

\* An integer of a list.
LEMMA IntegerElementRead ==
  ASSUME NEW w \in Written, NEW n \in Nat, NEW s, NEW t, Here(w, n, s, t),
         Next, IntegerElement(w, s, t)
  PROVE  Comes(w, n, t)
PROOF
  <1> DEFINE number == NumberAt(ptr)
             x      == w.nodes[s.nodes + 1]
  <1>1. /\ ptr = s.at /\ ptr \in 1 .. n /\ ~ AtEnd /\ Char(ptr) = CharOf(w.text, ptr)
        /\ s.at \in Nat /\ t.at \in Nat /\ t.at <= Len(w.text) + 1 /\ text \in Texts
        BY HereFacts
  <1>2. s \in Place /\ Agrees(w, n)
        BY DEF Here
  <1>3. t.depth = s.depth /\ t.nodes = s.nodes /\ s.nodes < Len(w.nodes) /\ x.depth = s.depth
        BY <1>2 DEF IntegerElement, ElementBegins, Place
  <1>4. s.in = "list" /\ t.in = "element"
        BY <1>2 DEF IntegerElement, ElementBegins, Place
  <1>5. DigitsEnd(w.text, s.at, t.at) /\ CharOf(w.text, s.at) \in Digits
    <2>1. DigitsEnd(w.text, s.at, t.at)
          BY DEF IntegerElement
    <2>2. s.at \in s.at .. t.at - 1
      <3>1. s.at < t.at
            BY HereFacts
      <3> QED
          BY <1>1, <3>1
    <2> QED
        BY <2>1, <2>2, Zenon DEF DigitsEnd, Only
  <1>6. /\ x.type = "integer" /\ x.key = "integer" /\ Nothing(x.string)
        /\ x.integer = Decimal(w.text, s.at, t.at)
    <2> DEFINE Node1(string) ==
          [depth |-> s.depth, key |-> "integer", type |-> "integer",
           integer |-> Decimal(w.text, s.at, t.at), string |-> string]
    <2>1. x = Node1("")
          BY Zenon DEF IntegerElement
    <2>2. \A string : /\ Node1(string).type = "integer" /\ Node1(string).key = "integer"
                      /\ Node1(string).integer = Decimal(w.text, s.at, t.at)
                      /\ Node1(string).string = string
          OBVIOUS
    <2> HIDE DEF Node1, x
    <2>3. x.type = "integer" /\ x.key = "integer" /\ x.integer = Decimal(w.text, s.at, t.at)
          BY <2>1, <2>2, Zenon
    <2>4. Nothing(x.string)
          BY <2>1, <2>2, Zenon DEF Nothing
    <2> QED
        BY <2>3, <2>4
  <1>7. ListInteger
    <2>1. stage = "list"
          BY <1>4, ListFacts
    <2> QED
        BY <1>1, <1>5, <2>1, StepInList
  <1>8. /\ ptr' = NumberEnd(ptr)
        /\ element' = [type |-> "integer", key |-> "integer", value |-> Number(number)]
        /\ UNCHANGED <<stage, heap, frames, last, first>>
        BY <1>7 DEF ListInteger, NumberEnd, NumberAt
  <1>9. \/ ptr' = t.at /\ t.at <= n /\ number = Decimal(w.text, s.at, t.at)
        \/ ptr' > n /\ n < Len(w.text)
        \/ ptr' > n /\ n = Len(w.text) /\ t.at = n /\ number = Decimal(w.text, s.at, t.at)
    <2>1. DigitsEnd(w.text, ptr, t.at)
          BY <1>1, <1>5
    <2>2. \/ ptr' = t.at /\ t.at <= n /\ number = Decimal(w.text, ptr, t.at)
          \/ ptr' > n /\ n < Len(w.text)
          \/ ptr' > n /\ n = Len(w.text) /\ t.at = n /\ number = Decimal(w.text, ptr, t.at)
          BY <1>1, <1>2, <1>8, <2>1, NumberFound
    <2> QED
        BY <1>1, <2>2
  <1> HIDE DEF number, x
  <1>10. /\ Shape(w)' /\ stage' \in {"child", "list"}
         /\ \A m \in 1 .. Len(heap') - 1 : Holds(w, heap', m)
         /\ ElementFits(w, t)' => Read(w, t)'
         BY <1>3, <1>4, <1>8, ElementRead
  <1>11. ASSUME number = Decimal(w.text, s.at, t.at)
         PROVE  Read(w, t)'
    <2>1. /\ element'.type = x.type /\ element'.key = x.key
          /\ element'.value.integer = x.integer /\ element'.value.string = x.string
      <3>1. /\ element'.type = "integer" /\ element'.key = "integer"
            /\ element'.value = Number(number)
            BY <1>8
      <3>2. Number(number).integer = number
            BY DEF Number
      <3>3. Number(number).string = ""
            BY Zenon DEF Number
      <3>4. x.string = ""
            BY <1>6, Zenon DEF Nothing
      <3> QED
          BY <1>6, <1>11, <3>1, <3>2, <3>3, <3>4, Zenon
    <2>2. ElementFits(w, t)'
          BY <1>3, <1>4, <1>6, <2>1 DEF ElementFits, x
    <2> QED
        BY <1>10, <2>2
  <1>12. t.at <= n => t.at <= n + 1
         BY <1>1
  <1>13. t.in # "key"
         BY <1>4
  <1> QED
      BY <1>9, <1>10, <1>11, <1>12, <1>13 DEF Comes, Reached, CutThere, LastLost

\* The nodes so far, with the element that was read last, if there is one.
LEMMA AppendedShape ==
  ASSUME NEW w \in Written, NEW n \in Nat, NEW s, NEW t, Here(w, n, s, t),
         s.in \in {"list", "element"},
         t.nodes = IF s.in = "element" THEN s.nodes + 1 ELSE s.nodes,
         NEW appended \in Appended, appended.failures = 0
  PROVE  /\ appended.heap \in Heaps /\ Len(appended.heap) = t.nodes
         /\ t.nodes \in Len(heap) .. Len(w.nodes) /\ t.nodes \in Nat
         /\ Rising(w, t.nodes) /\ Linked(w, appended.heap, Open)
         /\ FramesFit(w, frames, t.nodes)
         /\ ListFits(w, t.nodes, Node, appended.first, appended.node)
         /\ \A m \in 1 .. t.nodes : Holds(w, appended.heap, m)
PROOF
  <1>1. /\ IInv /\ Shape(w) /\ stage = "list" /\ Read(w, s) /\ ElementFits(w, s)
        /\ Len(heap) = s.nodes /\ Len(frames) = s.depth - 1 /\ s.depth \in Nat
        /\ heap \in Heaps /\ Len(heap) \in Nat \ {0}
        /\ \A m \in 1 .. Len(heap) : Holds(w, heap, m)
        BY ListFacts
  <1>2. t.nodes <= Len(w.nodes) /\ Len(w.nodes) \in Nat
        BY HereFacts
  <1>3. appended.heap \in Heaps
        BY <1>1, AppendedEffect
  <1>4. CASE s.in = "list"
    <2>1. element.type = "none" /\ t.nodes = Len(heap)
          BY <1>1, <1>4 DEF ElementFits
    <2>2. appended.heap = heap /\ appended.node = last /\ appended.first = first
          BY <2>1 DEF Appended
    <2>3. /\ Rising(w, Len(heap)) /\ Linked(w, heap, Open) /\ FramesFit(w, frames, Len(heap))
          /\ ListFits(w, Len(heap), Node, first, last)
          BY <1>1 DEF Shape
    <2>4. t.nodes \in Len(heap) .. Len(w.nodes) /\ t.nodes \in Nat
          BY <1>1, <1>2, <2>1
    <2> QED
        BY <1>1, <1>3, <2>1, <2>2, <2>3, <2>4
  <1>5. CASE s.in = "element"
    <2> DEFINE x == w.nodes[s.nodes + 1]
               size == Len(heap) + 1
    <2>1. /\ element.type = x.type /\ element.key = x.key
          /\ element.value.integer = x.integer /\ element.value.string = x.string
          /\ x.type \in {"string", "integer"}
          BY <1>1, <1>5 DEF ElementFits
    <2>2. s.nodes < Len(w.nodes) /\ x.depth = s.depth
          BY <1>1, <1>5 DEF ElementFits
    <2>3. t.nodes = size
      <3>1. t.nodes = s.nodes + 1
            BY <1>5
      <3> QED
          BY <1>1, <3>1
    <2>4. element.type # "none"
      <3> HIDE DEF x
      <3> QED
          BY <2>1
    <2>5. Len(heap) < Len(w.nodes) /\ Level(w, Len(heap) + 1) = Len(frames) + 1
      <3>1. Len(frames) = s.depth - 1 /\ s.depth \in Nat /\ Len(heap) = s.nodes
            BY <1>1
      <3>2. Level(w, s.nodes + 1) = s.depth
            BY <2>2 DEF Level
      <3> QED
          BY <2>2, <3>1, <3>2
    <2> HIDE DEF size
    <2>6. /\ Len(appended.heap) = size
          /\ Rising(w, size)
          /\ Linked(w, appended.heap, Open)
          /\ FramesFit(w, frames, size)
          /\ ListFits(w, size, Node, appended.first, appended.node)
          /\ Grew(heap, appended.heap, last, element)
          BY <1>1, <2>4, <2>5, ElementShape DEF size
    <2>7. /\ Len(appended.heap) = Len(heap) + 1
          /\ \A m \in 1 .. Len(appended.heap) - 1 : Holds(w, appended.heap, m)
          BY <1>1, <2>6, HoldsGrown
    <2>8. Holds(w, appended.heap, size)
      <3>1. /\ appended.heap[size].key = element.key /\ appended.heap[size].type = element.type
            /\ appended.heap[size].value = element.value
            BY <2>6 DEF Grew
      <3>2. x = w.nodes[size]
            BY <1>1 DEF size
      <3> HIDE DEF x
      <3> QED
          BY <2>1, <3>1, <3>2 DEF Holds
    <2>9. \A m \in 1 .. size : Holds(w, appended.heap, m)
      <3>1. \A m \in 1 .. size : m = size \/ m \in 1 .. Len(appended.heap) - 1
            BY <1>1, <2>6, <2>7
      <3> QED
          BY <2>7, <2>8, <3>1
    <2>10. size \in Len(heap) .. Len(w.nodes) /\ size \in Nat
           BY <1>1, <1>2, <2>5 DEF size
    <2> QED
        BY <1>3, <2>3, <2>6, <2>9, <2>10
  <1> QED
      BY <1>4, <1>5

\* A comma makes an element the list's next node.
LEMMA ElementEndsRead ==
  ASSUME NEW w \in Written, NEW n \in Nat, NEW s, NEW t, Here(w, n, s, t),
         Next, ElementEnds(w, s, t)
  PROVE  Comes(w, n, t)
PROOF
  <1>1. /\ ptr = s.at /\ ptr \in 1 .. n /\ ~ AtEnd /\ Char(ptr) = CharOf(w.text, ptr)
        BY HereFacts
  <1>2. s \in Place /\ failures' = 0
        BY DEF Here
  <1>3. t.at = s.at + 1 /\ t.depth = s.depth
        BY <1>2 DEF ElementEnds, Place
  <1>4. s.in = "element" /\ t.in = "list" /\ CharOf(w.text, s.at) = ","
        BY <1>2 DEF ElementEnds, Place
  <1>5. t.nodes = IF s.in = "element" THEN s.nodes + 1 ELSE s.nodes
        BY <1>2 DEF ElementEnds, Place
  <1>6. /\ IInv /\ Shape(w) /\ stage = "list" /\ Len(frames) = s.depth - 1
        /\ Len(heap) \in Nat \ {0}
        BY <1>4, ListFacts
  <1>7. Comma
        BY <1>1, <1>4, <1>6, StepInList
  <1>8. PICK appended \in Appended :
          /\ heap' = appended.heap /\ last' = appended.node
          /\ first' = appended.first /\ failures' = appended.failures
        BY <1>7 DEF Comma
  <1>9. /\ ptr' = ptr + 1 /\ element' = NoElement /\ stage' = "list" /\ frames' = frames
        BY <1>6, <1>7 DEF Comma
  <1>10. /\ appended.heap \in Heaps /\ Len(appended.heap) = t.nodes
         /\ t.nodes \in Len(heap) .. Len(w.nodes) /\ t.nodes \in Nat
         /\ Rising(w, t.nodes) /\ Linked(w, appended.heap, Open)
         /\ FramesFit(w, frames, t.nodes)
         /\ ListFits(w, t.nodes, Node, appended.first, appended.node)
         /\ \A m \in 1 .. t.nodes : Holds(w, appended.heap, m)
         BY <1>2, <1>4, <1>5, <1>8, AppendedShape
  <1>11. Node' = Node /\ Top.owner' = Top.owner
         BY <1>9 DEF Node, Top
  <1>12. Open' = Open
         BY <1>6, <1>9, <1>11 DEF Open
  <1>13. t.nodes \in 1 .. Len(w.nodes)
         BY <1>6, <1>10
  <1>14. Shape(w)'
    <2>1. Node # Top.owner
          BY <1>6 DEF Shape
    <2> QED
        BY <1>8, <1>9, <1>10, <1>11, <1>12, <1>13, <2>1 DEF Shape
  <1>15. ElementFits(w, t)'
         BY <1>4, <1>9 DEF ElementFits, NoElement
  <1>16. /\ \A m \in 1 .. t.nodes - 1 : Holds(w, heap', m)
         /\ Holds(w, heap', t.nodes)
    <2>1. /\ \A m \in 1 .. t.nodes - 1 : m \in 1 .. t.nodes
          /\ t.nodes \in 1 .. t.nodes
          BY <1>13
    <2> QED
        BY <1>8, <1>10, <2>1
  <1>17. Read(w, t)'
         BY <1>3, <1>4, <1>6, <1>8, <1>9, <1>10, <1>15, <1>16 DEF Read
  <1>18. ptr' = t.at /\ t.at <= n + 1
    <2>1. ptr = s.at /\ ptr \in 1 .. n
          BY <1>1
    <2>2. ptr' = ptr + 1
          BY <1>9
    <2> QED
        BY <1>3, <2>1, <2>2
  <1> QED
      BY <1>14, <1>17, <1>18 DEF Comes, Reached

\* A bracket ends a list, and its last element.
LEMMA ListEndRead ==
  ASSUME NEW w \in Written, NEW n \in Nat, NEW s, NEW t, Here(w, n, s, t),
         Next, ListEnd(w, s, t)
  PROVE  Comes(w, n, t)
PROOF
  <1>1. /\ ptr = s.at /\ ptr \in 1 .. n /\ ~ AtEnd /\ Char(ptr) = CharOf(w.text, ptr)
        BY HereFacts
  <1>2. s \in Place /\ failures' = 0
        BY DEF Here
  <1>3. t.at = s.at + 1 /\ t.depth = s.depth - 1
        BY <1>2 DEF ListEnd, Place
  <1>4. s.in \in {"list", "element"} /\ t.in = "section" /\ CharOf(w.text, s.at) = "]"
        BY <1>2 DEF ListEnd, Place
  <1>5. t.nodes = IF s.in = "element" THEN s.nodes + 1 ELSE s.nodes
        BY <1>2 DEF ListEnd, Place
  <1>6. /\ IInv /\ Shape(w) /\ stage = "list" /\ Len(frames) = s.depth - 1
        /\ Len(heap) \in Nat \ {0}
        BY <1>4, ListFacts
  <1>7. Bracket
        BY <1>1, <1>4, <1>6, StepInList
  <1>8. PICK appended \in Appended :
          /\ heap' = Adopted(appended.heap, Node, appended.first)
          /\ failures' = appended.failures
        BY <1>7 DEF Bracket
  <1>9. /\ ptr' = ptr + 1 /\ stage' = "child" /\ frames' = frames
        BY <1>7 DEF Bracket
  <1> DEFINE h == appended.heap
             size == t.nodes
  <1>10. /\ h \in Heaps /\ Len(h) = size
         /\ size \in Len(heap) .. Len(w.nodes) /\ size \in Nat
         /\ Rising(w, size) /\ Linked(w, h, Open)
         /\ FramesFit(w, frames, size)
         /\ ListFits(w, size, Node, appended.first, appended.node)
         /\ \A m \in 1 .. size : Holds(w, h, m)
         BY <1>2, <1>4, <1>5, <1>8, AppendedShape
  <1> HIDE DEF h, size
  <1>11. Shape(w)' /\ Node \in Open /\ appended.first \in 0 .. size
         BY <1>6, <1>8, <1>9, <1>10, ListEndShape DEF h
  <1>12. Node \in 1 .. size /\ size \in 1 .. Len(w.nodes)
    <2>1. Node \in 1 .. Len(heap)
          BY <1>6, ShapeFacts
    <2> QED
        BY <1>6, <1>10, <2>1
  <1>13. Len(heap') = size /\ \A m \in 1 .. size : Holds(w, heap', m)
    <2>1. heap' = Adopted(h, Node, appended.first)
          BY <1>8 DEF h
    <2>2. Len(heap') = size
          BY <1>10, <1>11, <1>12, <2>1, AdoptedContent
    <2>3. \A m \in 1 .. size : Holds(w, heap', m)
          BY <1>10, <1>11, <1>12, <2>1, AdoptedHolds
    <2> QED
        BY <2>2, <2>3
  <1>14. /\ \A m \in 1 .. size - 1 : Holds(w, heap', m)
         /\ Holds(w, heap', size)
    <2>1. /\ \A m \in 1 .. size - 1 : m \in 1 .. size
          /\ size \in 1 .. size
          BY <1>12
    <2> QED
        BY <1>13, <2>1
  <1>15. Len(frames') = t.depth
    <2>1. Len(frames') = s.depth - 1
          BY <1>6, <1>9
    <2> QED
        BY <1>3, <2>1
  <1>17. Read(w, t)'
         BY <1>4, <1>9, <1>13, <1>14, <1>15 DEF Read, size
  <1>18. ptr' = t.at /\ t.at <= n + 1
    <2>1. ptr = s.at /\ ptr \in 1 .. n
          BY <1>1
    <2>2. ptr' = ptr + 1
          BY <1>9
    <2> QED
        BY <1>3, <2>1, <2>2
  <1> QED
      BY <1>11, <1>17, <1>18 DEF Comes, Reached

\* Whatever stands there.
LEMMA StandsRead ==
  ASSUME NEW w \in Written, NEW n \in Nat, NEW s, NEW t, Here(w, n, s, t),
         Next, Stands(w, s, t)
  PROVE  Comes(w, n, t)
PROOF
  BY CommentRead, LineEndRead, BlanksRead, KeyWordRead, SectionStartRead, SectionEndRead,
     StringAssignedRead, IntegerAssignedRead, ListStartRead, ListEndRead,
     StringElementRead, IntegerElementRead, ElementEndsRead DEF Stands

-----------------------------------------------------------------------------
(* The places of a text.                                                   *)

\* Nothing that is written is empty.
LEMMA StandsFurther ==
  ASSUME NEW w, NEW s \in Place, NEW t \in Place, Stands(w, s, t)
  PROVE  s.at < t.at
PROOF
  <1>1. s.at \in Nat /\ t.at \in Nat
        BY DEF Place
  <1>2. ASSUME t.at = s.at + 1
        PROVE  s.at < t.at
        BY <1>1, <1>2
  <1>3. CommentLine(w.text, s, t) \/ LineEnd(w.text, s, t) \/ Blanks(w.text, s, t) => s.at < t.at
        BY DEF CommentLine, LineEnd, Blanks, Further
  <1>4. KeyWord(w, s, t) => s.at < t.at
    <2>1. KeyWord(w, s, t) => s.at + 1 < t.at
          BY DEF KeyWord
    <2> QED
        BY <1>1, <2>1
  <1>5. SectionStart(w, s, t) \/ ListStart(w, s, t) => s.at < t.at
        BY DEF SectionStart, ListStart, Opens
  <1>6. StringAssigned(w, s, t) \/ IntegerAssigned(w, s, t) => s.at < t.at
        BY DEF StringAssigned, IntegerAssigned
  <1>7. StringElement(w, s, t) \/ IntegerElement(w, s, t) => s.at < t.at
        BY DEF StringElement, IntegerElement, ElementBegins
  <1>8. SectionEnd(w, s, t) => s.at < t.at
    <2>1. SectionEnd(w, s, t) => t.at = s.at + 1
          BY DEF SectionEnd, Place
    <2> QED
        BY <1>2, <2>1
  <1>9. ListEnd(w, s, t) => s.at < t.at
    <2>1. ListEnd(w, s, t) => t.at = s.at + 1
          BY DEF ListEnd, Place
    <2> QED
        BY <1>2, <2>1
  <1>10. ElementEnds(w, s, t) => s.at < t.at
    <2>1. ElementEnds(w, s, t) => t.at = s.at + 1
          BY DEF ElementEnds, Place
    <2> QED
        BY <1>2, <2>1
  <1> QED
      BY <1>3, <1>4, <1>5, <1>6, <1>7, <1>8, <1>9, <1>10 DEF Stands

\* From a section only a key leads elsewhere, and only a key means a node.
LEMMA SectionGoesOn ==
  ASSUME NEW w, NEW s \in Place, NEW t \in Place, Stands(w, s, t), s.in = "section"
  PROVE  t.in = "key" \/ t.nodes = s.nodes
PROOF
  <1>1. /\ ~ SectionStart(w, s, t) /\ ~ ListStart(w, s, t) /\ ~ StringAssigned(w, s, t)
        /\ ~ IntegerAssigned(w, s, t) /\ ~ StringElement(w, s, t) /\ ~ IntegerElement(w, s, t)
        /\ ~ ListEnd(w, s, t) /\ ~ ElementEnds(w, s, t)
        BY DEF SectionStart, ListStart, Opens, StringAssigned, IntegerAssigned,
               StringElement, IntegerElement, ElementBegins, ListEnd, ElementEnds
  <1>2. CommentLine(w.text, s, t) \/ LineEnd(w.text, s, t) \/ Blanks(w.text, s, t)
          => t.nodes = s.nodes
        BY DEF CommentLine, LineEnd, Blanks, Further, Place
  <1>3. KeyWord(w, s, t) => t.in = "key"
        BY DEF KeyWord, Place
  <1>4. SectionEnd(w, s, t) => t.nodes = s.nodes
        BY DEF SectionEnd, Place
  <1> QED
      BY <1>1, <1>2, <1>3, <1>4 DEF Stands

\* A place and the next one.
LEMMA NextPlace ==
  ASSUME NEW w \in Written, NEW k \in 1 .. Len(w.places)
  PROVE  /\ w.places[k] \in Place /\ Len(w.text) \in Nat \ {0} /\ Len(w.places) \in Nat
         /\ k = Len(w.places) => /\ w.places[k].at = Len(w.text) + 1
                                 /\ w.places[k].in = "section"
                                 /\ w.places[k].nodes = Len(w.nodes)
         /\ k # Len(w.places) =>
              /\ k + 1 \in 1 .. Len(w.places) /\ w.places[k + 1] \in Place
              /\ Stands(w, w.places[k], w.places[k + 1])
              /\ w.places[k].at < w.places[k + 1].at
              /\ w.places[k + 1].at <= Len(w.text) + 1
              /\ w.places[k + 1].nodes <= Len(w.nodes)
              /\ w.places[k].in \in {"list", "element"} => k + 1 # Len(w.places)
PROOF
  <1>1. Says(w) /\ w.places \in Seq(Place)
        BY WrittenFacts
  <1>2. Len(w.text) \in Nat \ {0}
    <2>1. Len(w.text) > 0
          BY <1>1 DEF Says
    <2>2. Len(w.text) \in Nat
          BY PiecesAssumption DEF PiecesAssumption
    <2> QED
        BY <2>1, <2>2
  <1>3. w.places[k] \in Place /\ Len(w.places) \in Nat
        BY <1>1
  <1>4. ASSUME k = Len(w.places)
        PROVE  /\ w.places[k].at = Len(w.text) + 1
               /\ w.places[k].in = "section" /\ w.places[k].nodes = Len(w.nodes)
    <2>1. w.places[k] = [at |-> Len(w.text) + 1, in |-> "section", depth |-> 1,
                         nodes |-> Len(w.nodes)]
          BY <1>1, <1>4, Zenon DEF Says
    <2> QED
        BY <2>1
  <1>5. ASSUME k # Len(w.places)
        PROVE  /\ k + 1 \in 1 .. Len(w.places) /\ w.places[k + 1] \in Place
               /\ Stands(w, w.places[k], w.places[k + 1])
               /\ w.places[k].at < w.places[k + 1].at
               /\ w.places[k + 1].at <= Len(w.text) + 1
               /\ w.places[k + 1].nodes <= Len(w.nodes)
               /\ w.places[k].in \in {"list", "element"} => k + 1 # Len(w.places)
    <2>1. k \in 1 .. Len(w.places) - 1 /\ k + 1 \in 1 .. Len(w.places)
          BY <1>3, <1>5
    <2>2. w.places[k + 1] \in Place
          BY <1>1, <2>1
    <2>3. \A j \in 1 .. Len(w.places) - 1 :
           /\ Stands(w, w.places[j], w.places[j + 1])
           /\ w.places[j + 1].at <= Len(w.text) + 1
           /\ w.places[j + 1].nodes <= Len(w.nodes)
           /\ w.places[j].in \in {"list", "element"} => j + 1 < Len(w.places)
          BY <1>1, Zenon DEF Says
    <2>4. /\ Stands(w, w.places[k], w.places[k + 1])
          /\ w.places[k + 1].at <= Len(w.text) + 1
          /\ w.places[k + 1].nodes <= Len(w.nodes)
          /\ w.places[k].in \in {"list", "element"} => k + 1 < Len(w.places)
          BY <2>1, <2>3, Zenon
    <2>5. w.places[k].at < w.places[k + 1].at
          BY <1>3, <2>2, <2>4, StandsFurther
    <2>6. k + 1 < Len(w.places) => k + 1 # Len(w.places)
          BY <1>3
    <2> QED
        BY <2>1, <2>2, <2>4, <2>5, <2>6
  <1> QED
      BY <1>2, <1>3, <1>4, <1>5

\* Of the last two places a text can be left at, only one is in its list of
\* nodes short of the last: that of a key.
LEMMA LastPlaces ==
  ASSUME NEW w \in Written, NEW k \in 1 .. Len(w.places),
         w.places[k].at >= Len(w.text), w.places[k].in # "key"
  PROVE  w.places[k].nodes = Len(w.nodes)
PROOF
  <1> DEFINE s == w.places[k]
             t == w.places[k + 1]
  <1>1. CASE k = Len(w.places)
        BY <1>1, NextPlace
  <1>2. CASE k # Len(w.places)
    <2>1. /\ k + 1 \in 1 .. Len(w.places) /\ s \in Place /\ t \in Place
          /\ Stands(w, s, t)
          /\ s.in \in {"list", "element"} => k + 1 # Len(w.places)
          BY <1>2, NextPlace
    <2>2. s.at < t.at /\ t.at <= Len(w.text) + 1 /\ Len(w.text) \in Nat
          BY <1>2, NextPlace
    <2>3. s.at \in Nat /\ t.at \in Nat /\ s.in \in {"section", "key", "list", "element"}
          BY <2>1 DEF Place
    <2>4. t.at = Len(w.text) + 1
      <3>1. s.at >= Len(w.text)
            OBVIOUS
      <3> HIDE DEF s, t
      <3> QED
          BY <2>2, <2>3, <3>1
    <2>5. k + 1 = Len(w.places)
      <3>1. SUFFICES ASSUME k + 1 # Len(w.places) PROVE FALSE
            OBVIOUS
      <3> DEFINE j == k + 1
                 u == w.places[j + 1]
      <3>2. j \in 1 .. Len(w.places) /\ j # Len(w.places) /\ t = w.places[j]
            BY <2>1, <3>1
      <3> HIDE DEF j
      <3>3. w.places[j].at < u.at /\ u.at <= Len(w.text) + 1 /\ u \in Place
            BY <3>2, NextPlace
      <3>4. u.at \in Nat
            BY <3>3 DEF Place
      <3>5. t.at < u.at
            BY <3>2, <3>3
      <3> HIDE DEF t, u
      <3> QED
          BY <2>2, <2>4, <3>3, <3>4, <3>5
    <2>6. s.in = "section"
          BY <2>1, <2>3, <2>5
    <2>7. t.in = "section" /\ t.nodes = Len(w.nodes)
      <3> DEFINE j == k + 1
      <3>1. j \in 1 .. Len(w.places) /\ j = Len(w.places) /\ t = w.places[j]
            BY <2>1, <2>5
      <3> HIDE DEF j
      <3>2. w.places[j].in = "section" /\ w.places[j].nodes = Len(w.nodes)
            BY <3>1, NextPlace
      <3> QED
          BY <3>1, <3>2
    <2>8. t.in = "key" \/ t.nodes = s.nodes
          BY <2>1, <2>6, SectionGoesOn
    <2> QED
        BY <2>7, <2>8
  <1> QED
      BY <1>1, <1>2

-----------------------------------------------------------------------------
(* From one step of the parser to the next.                                *)

\* Where the text ends, what was read is all of it.
LEMMA ReadIsBehind ==
  ASSUME NEW w \in Written, NEW n \in Nat, NEW k \in 1 .. Len(w.places),
         Read(w, w.places[k])', ptr' > n,
         n = Len(w.text) => w.places[k].at >= n /\ w.places[k].in # "key"
  PROVE  Behind(w, n)'
PROOF
  <1> DEFINE s == w.places[k]
  <1>1. /\ stage' \in {"child", "list"} /\ Len(heap') = s.nodes
        /\ \A m \in 1 .. Len(heap') - 1 : Holds(w, heap', m)
        /\ s.in # "key" => Holds(w, heap', Len(heap'))
        BY DEF Read
  <1>2. n = Len(w.text) => s.nodes = Len(w.nodes)
        BY LastPlaces
  <1>3. stage' # "parsed"
        BY <1>1
  <1> HIDE DEF s
  <1>4. n = Len(w.text) => s.in # "key"
        BY DEF s
  <1> QED
      BY <1>1, <1>2, <1>3, <1>4 DEF Behind

\* From a place of the part that was read the parser gets to the next one, or
\* behind that part.
LEMMA Onward ==
  ASSUME IInv, failures = 0, failures' = 0, Next,
         NEW w \in Written, NEW n \in Nat, Agrees(w, n), Shape(w), Inside(w, n)
  PROVE  Shape(w)' /\ (Inside(w, n)' \/ Behind(w, n)')
PROOF
  <1>1. PICK k \in 1 .. Len(w.places) : AtPlace(w, w.places[k])
        BY DEF Inside
  <1> DEFINE s == w.places[k]
             t == w.places[k + 1]
  <1>2. s.at <= n /\ AtPlace(w, s)
        BY <1>1 DEF Inside, AtPlace
  <1>3. n \in Nat /\ n <= Len(w.text) /\ Len(w.text) \in Nat
    <2>1. text \in Texts
          BY DEF IInv, TypeInv, TextInv
    <2> QED
        BY <2>1, AgreesFacts
  <1>4. k # Len(w.places)
    <2>1. k = Len(w.places) => s.at = Len(w.text) + 1
          BY NextPlace
    <2> HIDE DEF s
    <2> QED
        BY <1>2, <1>3, <2>1
  <1>5. /\ s \in Place /\ t \in Place /\ Stands(w, s, t) /\ k + 1 \in 1 .. Len(w.places)
        /\ s.at < t.at /\ t.at <= Len(w.text) + 1 /\ t.nodes <= Len(w.nodes)
        BY <1>4, NextPlace
  <1> HIDE DEF s, t
  <1>6. Here(w, n, s, t)
        BY <1>2, <1>5 DEF Here
  <1>7. Comes(w, n, t)
        BY <1>5, <1>6, StandsRead
  <1>8. t = w.places[k + 1] /\ t.at \in Nat
        BY <1>5 DEF t, Place
  <1>9. CASE Reached(w, n, t)
    <2>1. ptr' = t.at /\ t.at <= n + 1 /\ Read(w, t)'
          BY <1>9 DEF Reached
    <2>2. CASE t.at <= n
      <3>1. AtPlace(w, t)'
            BY <2>1 DEF AtPlace
      <3>2. stage' \in {"child", "list"}
            BY <2>1 DEF Read
      <3> DEFINE j == k + 1
      <3>3. j \in 1 .. Len(w.places) /\ t = w.places[j]
            BY <1>5, <1>8
      <3> HIDE DEF j
      <3>4. Inside(w, n)'
            BY <2>1, <2>2, <3>1, <3>2, <3>3 DEF Inside
      <3> QED
          BY <1>7, <3>4 DEF Comes
    <2>3. CASE ~ (t.at <= n)
      <3> DEFINE j == k + 1
      <3>1. j \in 1 .. Len(w.places) /\ t = w.places[j]
            BY <1>5, <1>8
      <3> HIDE DEF j
      <3>2. t.at = n + 1 /\ ptr' > n
            BY <1>3, <1>8, <2>1, <2>3
      <3>3. ASSUME n = Len(w.text)
            PROVE  t.at >= n /\ t.in # "key"
        <4>1. j = Len(w.places)
          <5>1. SUFFICES ASSUME j # Len(w.places) PROVE FALSE
                OBVIOUS
          <5> DEFINE u == w.places[j + 1]
          <5>2. t.at < u.at /\ u.at <= Len(w.text) + 1 /\ u \in Place
                BY <3>1, <5>1, NextPlace
          <5>3. u.at \in Nat
                BY <5>2 DEF Place
          <5> HIDE DEF u
          <5> QED
              BY <1>3, <1>8, <3>2, <3>3, <5>2, <5>3
        <4>2. t.in = "section"
              BY <3>1, <4>1, NextPlace
        <4>3. t.at >= n
              BY <1>3, <3>2
        <4> QED
            BY <4>2, <4>3
      <3>4. Behind(w, n)'
            BY <2>1, <3>1, <3>2, <3>3, ReadIsBehind
      <3> QED
          BY <1>7, <3>4 DEF Comes
    <2> QED
        BY <2>2, <2>3
  <1>10. CASE CutThere(w, n)
    <2>1. Behind(w, n)'
      <3>1. n # Len(w.text)
            BY <1>3, <1>10 DEF CutThere
      <3>2. /\ ptr' > n /\ stage' \in {"child", "list"}
            /\ \A m \in 1 .. Len(heap') - 1 : Holds(w, heap', m)
            BY <1>10 DEF CutThere
      <3> QED
          BY <3>1, <3>2 DEF Behind
    <2> QED
        BY <1>7, <2>1 DEF Comes
  <1>11. CASE LastLost(w, n, t)
    <2> DEFINE j == k + 1
    <2>1. j \in 1 .. Len(w.places) /\ t = w.places[j]
          BY <1>5, <1>8
    <2> HIDE DEF j
    <2>2. ptr' > n /\ t.in # "key" /\ Read(w, t)' /\ t.at = n
          BY <1>11 DEF LastLost
    <2>3. t.at >= n
          BY <1>3, <2>2
    <2>4. Behind(w, n)'
          BY <2>1, <2>2, <2>3, ReadIsBehind
    <2> QED
        BY <1>7, <2>4 DEF Comes
  <1> QED
      BY <1>7, <1>9, <1>10, <1>11 DEF Comes

\* At the buffer's end a list and a section end.
LEMMA StepAtEnd ==
  ASSUME Next, AtEnd, stage \in {"child", "list", "parsed"}
  PROVE  /\ stage = "child" => ChildReturns
         /\ stage = "list" => ListCut
         /\ stage = "parsed" => Over
PROOF
  <1>1. /\ ~ AllocateRoot /\ ~ NoRoot /\ ~ Comment /\ ~ Newline /\ ~ Key /\ ~ Child
        /\ ~ NoValue /\ ~ ListValue /\ ~ StringValue /\ ~ IntegerValue
        /\ ~ ListString /\ ~ ListInteger /\ ~ Comma /\ ~ Bracket /\ ~ PassInList
        BY DEF AllocateRoot, NoRoot, Comment, Newline, Key, Child, NoValue, ListValue,
               StringValue, IntegerValue, ListString, ListInteger, Comma, Bracket,
               PassInList, InChild, InValue, InList
  <1>2. ChildReturns \/ ListCut \/ Over
        BY <1>1 DEF Next
  <1>3. /\ ChildReturns => stage = "child"
        /\ ListCut => stage = "list"
        /\ Over => stage \in {"parsed", "failed"}
        BY DEF ChildReturns, ListCut, Over
  <1> QED
      BY <1>2, <1>3

\* A parser that has returned does nothing more.
LEMMA StepParsed ==
  ASSUME Next, stage = "parsed"
  PROVE  UNCHANGED vars
PROOF
  BY DEF Next, AllocateRoot, NoRoot, Comment, Newline, Key, Child, ChildReturns, NoValue,
         ListValue, StringValue, IntegerValue, ListString, ListInteger, Comma, Bracket,
         PassInList, ListCut, Over, InChild, InValue, InList

\* Behind the part that was read nothing is added; what is open is closed.
LEMMA BehindStep ==
  ASSUME IInv, failures = 0, failures' = 0, Next,
         NEW w \in Written, NEW n \in Nat, Agrees(w, n), Shape(w), Behind(w, n)
  PROVE  Shape(w)' /\ Behind(w, n)'
PROOF
  <1>1. /\ text \in Texts /\ ptr \in 1 .. Size + 1
        BY DEF IInv, TypeInv, TextInv
  <1>2. /\ Size \in Nat /\ n <= Size /\ \A p \in Int : p > n => Char(p) \in Void
        BY <1>1, AgreesFacts
  <1>3. /\ ptr > n /\ stage \in {"child", "list", "parsed"}
        /\ stage = "parsed" => frames = <<>>
        /\ \A m \in 1 .. Len(heap) - 1 : Holds(w, heap, m)
        /\ n = Len(w.text) => Len(heap) = Len(w.nodes) /\ Holds(w, heap, Len(heap))
        BY DEF Behind
  <1>4. ASSUME UNCHANGED <<stage, heap, frames, list>>, ptr' > n
        PROVE  Shape(w)' /\ Behind(w, n)'
    <2>1. /\ stage' = stage /\ heap' = heap /\ frames' = frames
          /\ last' = last /\ first' = first
          BY <1>4 DEF list
    <2>2. Shape(w)'
          BY <2>1 DEF Shape, Open, Node, Top
    <2>3. Behind(w, n)'
          BY <1>3, <1>4, <2>1 DEF Behind
    <2> QED
        BY <2>2, <2>3
  <1>5. CASE stage \in {"child", "list"} /\ ~ AtEnd
    <2>1. ptr \in 1 .. Size /\ ptr \in Int
          BY <1>1, <1>2, <1>5 DEF AtEnd
    <2>2. Char(ptr) \in Void
          BY <1>2, <1>3, <2>1
    <2>3. Char(ptr) \notin Word /\ Char(ptr) \notin Marks
          BY <2>2, MarksAreNoWords
    <2>4. ptr' = ptr + 1 /\ UNCHANGED <<stage, heap, frames, list>>
      <3>1. CASE stage = "child"
        <4>1. Key
              BY <1>5, <2>3, <3>1, StepInChild DEF Marks
        <4> QED
            BY <1>1, <2>1, <2>3, <4>1, IdleKey
      <3>2. CASE stage = "list"
        <4>1. Char(ptr) \notin Digits
              BY <2>3, MarksAreNoWords
        <4>2. Char(ptr) \notin {"\"", ",", "]"}
              BY <2>3 DEF Marks
        <4>3. PassInList
              BY <1>5, <3>2, <4>1, <4>2, StepInList
        <4> QED
            BY <4>3 DEF PassInList
      <3> QED
          BY <1>5, <3>1, <3>2
    <2>5. ptr' > n
      <3>1. ptr' = ptr + 1
            BY <2>4
      <3> QED
          BY <1>3, <2>1, <3>1
    <2> QED
        BY <1>4, <2>4, <2>5
  <1>6. CASE stage = "child" /\ AtEnd
    <2>1. ChildReturns
          BY <1>6, StepAtEnd
    <2>2. /\ ptr' = NextChar(ptr)
          /\ heap' = Adopted(heap, Top.owner, Top.result)
          /\ frames' = Front(frames)
          /\ stage' = IF Len(frames) = 1 THEN "parsed" ELSE "child"
          BY <2>1 DEF ChildReturns
    <2>3. ptr' > n
          BY <1>1, <1>2, <1>3, <2>2 DEF NextChar
    <2>4. Shape(w)' /\ Top.owner \in Open
      <3>1. stage' # "list"
            BY <2>2
      <3> QED
          BY <1>6, <2>2, <3>1, ReturnShape
    <2>5. /\ heap \in Heaps /\ Len(heap) \in Nat \ {0} /\ Linked(w, heap, Open)
          /\ Top.owner \in 1 .. Len(heap) /\ Top.result \in 0 .. Len(heap)
          /\ frames \in Seq(Activation) /\ Len(frames) > 0
          BY <1>6, ShapeFacts, TopOfStack
    <2>6. Len(heap') = Len(heap)
          BY <2>2, <2>5, AdoptedContent
    <2>7. \A m \in 1 .. Len(heap) : Holds(w, heap, m) => Holds(w, heap', m)
          BY <2>2, <2>4, <2>5, AdoptedHolds
    <2>8. \A m \in 1 .. Len(heap') - 1 : Holds(w, heap', m)
      <3>1. \A m \in 1 .. Len(heap) - 1 : m \in 1 .. Len(heap)
            BY <2>5
      <3> QED
          BY <1>3, <2>6, <2>7, <3>1
    <2>9. n = Len(w.text) => Len(heap') = Len(w.nodes) /\ Holds(w, heap', Len(heap'))
      <3>1. Len(heap) \in 1 .. Len(heap)
            BY <2>5
      <3> QED
          BY <1>3, <2>6, <2>7, <3>1
    <2>10. stage' = "parsed" => frames' = <<>>
      <3>1. stage' = "parsed" => Len(frames) = 1
            BY <2>2
      <3>2. Front(frames) \in Seq(Activation) /\ Len(Front(frames)) = Len(frames) - 1
            BY <2>5, FrontOfStack
      <3>3. Len(frames) = 1 => frames' = <<>>
            BY <2>2, <3>2
      <3> QED
          BY <3>1, <3>3
    <2>11. stage' \in {"child", "list", "parsed"}
           BY <2>2
    <2> QED
        BY <2>3, <2>4, <2>8, <2>9, <2>10, <2>11 DEF Behind
  <1>7. CASE stage = "list" /\ AtEnd
    <2>1. ListCut
          BY <1>7, StepAtEnd
    <2>2. /\ ptr' = ptr /\ frames' = frames /\ stage' = "child"
          /\ heap' = Adopted(heap, Node, first)
          BY <2>1 DEF ListCut, input
    <2> DEFINE size == Len(heap)
    <2>3. /\ heap \in Heaps /\ size \in Nat \ {0} /\ size \in Nat /\ size \in Len(heap) .. Len(w.nodes)
          /\ Rising(w, size) /\ Linked(w, heap, Open) /\ FramesFit(w, frames, size)
          /\ Node \in 1 .. size
          BY <1>7, ShapeFacts
    <2>4. ListFits(w, size, Node, first, last)
          BY <1>7 DEF Shape
    <2>5. Shape(w)' /\ Node \in Open /\ first \in 0 .. size
      <3>1. Len(heap) = size
            OBVIOUS
      <3> HIDE DEF size
      <3> QED
          BY <1>7, <2>2, <2>3, <2>4, <3>1, ListEndShape
    <2>6. Len(heap') = Len(heap)
          BY <2>2, <2>3, <2>5, AdoptedContent
    <2>7. \A m \in 1 .. Len(heap) : Holds(w, heap, m) => Holds(w, heap', m)
          BY <2>2, <2>3, <2>5, AdoptedHolds
    <2>8. \A m \in 1 .. Len(heap') - 1 : Holds(w, heap', m)
      <3>1. \A m \in 1 .. Len(heap) - 1 : m \in 1 .. Len(heap)
            BY <2>3
      <3> QED
          BY <1>3, <2>6, <2>7, <3>1
    <2>9. n = Len(w.text) => Len(heap') = Len(w.nodes) /\ Holds(w, heap', Len(heap'))
      <3>1. Len(heap) \in 1 .. Len(heap)
            BY <2>3
      <3> QED
          BY <1>3, <2>6, <2>7, <3>1
    <2>10. ptr' > n /\ stage' # "parsed"
           BY <1>3, <2>2
    <2> QED
        BY <2>2, <2>5, <2>8, <2>9, <2>10 DEF Behind
  <1>8. CASE stage = "parsed"
    <2>1. UNCHANGED vars
          BY <1>8, StepParsed
    <2>2. UNCHANGED <<stage, heap, frames, list>> /\ ptr' = ptr
          BY <2>1 DEF vars, list
    <2> QED
        BY <1>3, <1>4, <2>2
  <1> QED
      BY <1>3, <1>5, <1>6, <1>7, <1>8

-----------------------------------------------------------------------------
(* The invariant.                                                          *)

\* The block is never written.
LEMMA TextConstant ==
  ASSUME [Next]_vars
  PROVE  text' = text
PROOF
  BY DEF Next, AllocateRoot, NoRoot, Comment, Newline, Key, Child, ChildReturns, NoValue,
         ListValue, StringValue, IntegerValue, ListString, ListInteger, Comma, Bracket,
         PassInList, ListCut, Over, input, vars

\* So what the block has of a text stays the same.
LEMMA AgreesConstant ==
  ASSUME [Next]_vars, NEW w \in Written, NEW n \in Nat
  PROVE  Agrees(w, n)' <=> Agrees(w, n)
PROOF
  <1>1. text' = text
        BY TextConstant
  <1> QED
      BY <1>1 DEF Agrees, Char, Size

\* What could not be allocated stays missing.
LEMMA FailuresStay ==
  ASSUME IInv, [Next]_vars, failures' = 0
  PROVE  failures = 0
PROOF
  <1>1. failures \in Nat
    <2>1. failures \in 0 .. MaxFailures /\ MaxFailures \in Nat
          BY TextAssumption DEF IInv, TypeInv, HeapInv, TextAssumption
    <2> QED
        BY <2>1
  <1>2. CASE NoRoot
    <2>1. failures' = failures + 1
          BY <1>2 DEF NoRoot
    <2> QED
        BY <1>1, <2>1
  <1>3. CASE Key
    <2>1. stage = "child" /\ (failures' = failures \/ \E new \in NewNode(Node) : failures' = new.failures)
          BY <1>3 DEF Key, InChild
    <2>2. /\ heap \in Heaps /\ failures \in 0 .. MaxFailures /\ Node \in 1 .. Len(heap)
          BY <2>1, TopOfStack
    <2>3. \A new \in NewNode(Node) : new.failures = 0 => failures = 0
          BY <2>2, NewNodeEffect
    <2> QED
        BY <2>1, <2>3
  <1>4. CASE Comma \/ Bracket
    <2>1. stage = "list" /\ \E appended \in Appended : failures' = appended.failures
          BY <1>4 DEF Comma, Bracket, InList
    <2>2. \A appended \in Appended : appended.failures = 0 => failures = 0
          BY <2>1, AppendedEffect
    <2> QED
        BY <2>1, <2>2
  <1>5. CASE ~ (NoRoot \/ Key \/ Comma \/ Bracket)
    <2>1. failures' = failures
          BY <1>5 DEF Next, AllocateRoot, Comment, Newline, Child, ChildReturns, NoValue,
             ListValue, StringValue, IntegerValue, ListString, ListInteger, PassInList,
             ListCut, Over, vars
    <2> QED
        BY <2>1
  <1> QED
      BY <1>2, <1>3, <1>4, <1>5

\* Only the allocation of the root leaves the start, and nothing leads back.
LEMMA StepFromStart ==
  ASSUME [Next]_vars
  PROVE  /\ stage = "start" => AllocateRoot \/ NoRoot \/ UNCHANGED vars
         /\ stage' = "start" => stage = "start" /\ ptr' = ptr
         /\ stage = "failed" => UNCHANGED vars
PROOF
  <1>1. stage = "start" => AllocateRoot \/ NoRoot \/ UNCHANGED vars
        BY DEF Next, Comment, Newline, Key, Child, ChildReturns, NoValue, ListValue,
               StringValue, IntegerValue, ListString, ListInteger, Comma, Bracket,
               PassInList, ListCut, Over, InChild, InValue, InList
  <1>2. stage' = "start" => stage = "start" /\ ptr' = ptr
        BY DEF Next, AllocateRoot, NoRoot, Comment, Newline, Key, Child, ChildReturns,
               NoValue, ListValue, StringValue, IntegerValue, ListString, ListInteger,
               Comma, Bracket, PassInList, ListCut, Over, InChild, InValue, InList, vars
  <1>3. stage = "failed" => UNCHANGED vars
        BY DEF Next, AllocateRoot, NoRoot, Comment, Newline, Key, Child, ChildReturns,
               NoValue, ListValue, StringValue, IntegerValue, ListString, ListInteger,
               Comma, Bracket, PassInList, ListCut, Over, InChild, InValue, InList
  <1> QED
      BY <1>1, <1>2, <1>3

\* The root, and the activation that reads what is below it.
LEMMA StartShape ==
  ASSUME AllocateRoot, NEW w \in Written
  PROVE  Shape(w)'
PROOF
  <1> USE DEF NULL
  <1> DEFINE x == [Blank EXCEPT !.key = "root_node", !.type = "child"]
  <1>1. heap' = <<x>> /\ frames' = <<Frame(1)>> /\ stage' # "list"
        BY DEF AllocateRoot
  <1>2. x.next = 0 /\ x.type \in {"child", "list"}
        BY DEF Blank
  <1>3. Bare(w.nodes[1]) /\ Level(w, 1) = 0
    <2>1. w.nodes[1] = RootNode
          BY WrittenFacts
    <2>2. Bare(RootNode) /\ RootNode.depth = 0
          BY DEF Bare, RootNode
    <2> QED
        BY <2>1, <2>2 DEF Level
  <1>4. Len(w.nodes) \in Nat \ {0}
        BY WrittenFacts
  <1>5. /\ Frame(1).owner = 1 /\ Frame(1).node = 1 /\ Frame(1).result = 0
        BY DEF Frame
  <1> DEFINE root == Frame(1)
  <1> HIDE DEF x, root
  <1>6. Len(heap') = 1 /\ Len(frames') = 1 /\ heap'[1] = x /\ frames'[1] = root
        BY <1>1 DEF root
  <1>7. root.owner = 1 /\ root.node = 1 /\ root.result = 0
        BY <1>5 DEF root
  <1>8. Rising(w, 1)
        BY DEF Rising
  <1>9. 1 \in Owners(frames')
        BY <1>6, <1>7 DEF Owners
  <1>10. Unsettled(w, heap', 1)
    <2>1. heap'[1].type \in {"child", "list"}
          BY <1>2, <1>6
    <2>2. heap'[1].next = IF 1 < Len(heap') THEN 1 + 1 ELSE NULL
          BY <1>2, <1>6
    <2>3. \A q \in 1 + 1 .. Len(heap') : Level(w, q) > Level(w, 1)
          BY <1>6
    <2> QED
        BY <1>3, <2>1, <2>2, <2>3 DEF Unsettled
  <1>11. Linked(w, heap', Owners(frames'))
    <2>1. \A m \in 1 .. Len(heap') : m = 1
          BY <1>6
    <2> QED
        BY <1>9, <1>10, <2>1 DEF Linked
  <1>12. FramesFit(w, frames', 1)
    <2>1. ListFits(w, 1, 1, 0, 1)
          BY DEF ListFits
    <2>2. \A f \in 1 .. Len(frames') : f = 1
          BY <1>6
    <2>3. /\ Level(w, frames'[1].owner) = 1 - 1
          /\ ListFits(w, 1, frames'[1].owner, frames'[1].result, frames'[1].node)
          BY <1>3, <1>6, <1>7, <2>1
    <2> QED
        BY <2>2, <2>3 DEF FramesFit
  <1>13. 1 \in 1 .. Len(w.nodes)
         BY <1>4
  <1> QED
      BY <1>1, <1>6, <1>8, <1>11, <1>12, <1>13, ShapeOf

\* A text begins where its first place is.
LEMMA StartInside ==
  ASSUME AllocateRoot, ptr = 1, NEW w \in Written, NEW n \in Nat, n # 0
  PROVE  Inside(w, n)'
PROOF
  <1> DEFINE x == [Blank EXCEPT !.key = "root_node", !.type = "child"]
             s == w.places[1]
  <1>1. heap' = <<x>> /\ frames' = <<Frame(1)>> /\ stage' = "child" /\ ptr' = ptr
        BY DEF AllocateRoot, input
  <1>2. /\ s = [at |-> 1, in |-> "section", depth |-> 1, nodes |-> 1]
        /\ w.places \in Seq(Place) /\ Len(w.places) > 0 /\ w.nodes[1] = RootNode
        BY WrittenFacts DEF Says
  <1>3. s.at = 1 /\ s.in = "section" /\ s.depth = 1 /\ s.nodes = 1
        BY <1>2
  <1>4. Holds(w, heap', 1)
    <2>1. /\ x.key = "root_node" /\ x.type = "child"
          /\ x.value.integer = 0 /\ x.value.string = ""
          BY DEF Blank, Pointer
    <2>2. heap'[1] = x
          BY <1>1
    <2>3. /\ RootNode.key = "root_node" /\ RootNode.type = "child"
          /\ RootNode.integer = 0 /\ RootNode.string = ""
          BY DEF RootNode
    <2> HIDE DEF x
    <2> QED
        BY <1>2, <2>1, <2>2, <2>3 DEF Holds
  <1> HIDE DEF x, s
  <1>5. Len(heap') = 1 /\ Len(frames') = 1
        BY <1>1
  <1>6. 1 \in 1 .. Len(w.places)
        BY <1>2
  <1>7. \A m \in 1 .. Len(heap') - 1 : Holds(w, heap', m)
        BY <1>5
  <1>8. s.in \notin {"list", "element"} /\ s.in # "key"
        BY <1>3
  <1>9. Len(heap') = s.nodes /\ Len(frames') = s.depth /\ Holds(w, heap', Len(heap'))
        BY <1>3, <1>4, <1>5
  <1>10. Read(w, s)'
         BY <1>1, <1>7, <1>8, <1>9 DEF Read
  <1>11. ptr' = s.at /\ ptr' <= n
         BY <1>1, <1>3
  <1>12. AtPlace(w, s)'
         BY <1>10, <1>11 DEF AtPlace
  <1> QED
      BY <1>1, <1>6, <1>11, <1>12 DEF Inside, s

\* Before the root is allocated, nothing was read.
AtStart == stage = "start" => ptr = 1

\* Whichever written text the block has, or has the beginning of, the nodes
\* are that text's.
ReadsFormat == \A w \in Written : \A n \in Nat : FormatInv(w, n)

\* Each step keeps the nodes those of the text.
LEMMA FormatPreserved ==
  ASSUME IInv, AtStart, [Next]_vars, NEW w \in Written, NEW n \in Nat, FormatInv(w, n)
  PROVE  FormatInv(w, n)'
PROOF
  <1>1. SUFFICES ASSUME Agrees(w, n)', failures' = 0, stage' # "start"
                 PROVE  Shape(w)' /\ (Inside(w, n)' \/ Behind(w, n)')
        BY DEF FormatInv
  <1>2. Agrees(w, n) /\ failures = 0
        BY <1>1, AgreesConstant, FailuresStay
  <1>3. CASE stage = "start"
    <2>1. ~ (UNCHANGED vars)
          BY <1>1, <1>3 DEF vars
    <2>2. ~ NoRoot
          BY <1>1, <1>2 DEF NoRoot
    <2>3. AllocateRoot
          BY <1>3, <2>1, <2>2, StepFromStart
    <2>4. ptr = 1
          BY <1>3 DEF AtStart
    <2>5. n # 0
      <3>1. text \in Texts
            BY DEF IInv, TypeInv, TextInv
      <3>2. n \in Nat \ {0}
            BY <1>2, <3>1, AgreesFacts
      <3> QED
          BY <3>2
    <2> QED
        BY <2>3, <2>4, <2>5, StartShape, StartInside
  <1>4. CASE stage # "start"
    <2>1. Shape(w) /\ (Inside(w, n) \/ Behind(w, n))
          BY <1>2, <1>4 DEF FormatInv
    <2>2. CASE Next
      <3>1. CASE Inside(w, n)
            BY <1>1, <1>2, <2>1, <2>2, <3>1, Onward
      <3>2. CASE Behind(w, n)
            BY <1>1, <1>2, <2>1, <2>2, <3>2, BehindStep
      <3> QED
          BY <2>1, <3>1, <3>2
    <2>3. CASE UNCHANGED vars
      <3>1. /\ stage' = stage /\ heap' = heap /\ frames' = frames /\ last' = last
            /\ first' = first /\ element' = element /\ ptr' = ptr
            BY <2>3 DEF vars
      <3>2. Shape(w)'
            BY <2>1, <3>1 DEF Shape, Open, Node, Top
      <3>3. Behind(w, n) => Behind(w, n)'
            BY <3>1 DEF Behind
      <3>4. Inside(w, n) => Inside(w, n)'
            BY <3>1 DEF Inside, AtPlace, Read, ElementFits, Node, Top
      <3> QED
          BY <2>1, <3>2, <3>3, <3>4
    <2> QED
        BY <2>2, <2>3
  <1> QED
      BY <1>3, <1>4

\* The nodes of a written text's parse, whole or cut off, are at each step
\* those the part that was read means, linked as the depths say; what is not
\* complete hangs on the activations that read it (parseMetadata.c:331-673).
THEOREM FormatRead == Spec => []ReadsFormat
PROOF
  <1>1. Init => AtStart /\ ReadsFormat
        BY DEF Init, AtStart, ReadsFormat, FormatInv
  <1>2. ASSUME IInv, AtStart, ReadsFormat, [Next]_vars
        PROVE  AtStart' /\ ReadsFormat'
    <2>1. AtStart'
          BY <1>2, StepFromStart DEF AtStart
    <2>2. ASSUME NEW w \in Written, NEW n \in Nat
          PROVE  FormatInv(w, n)'
      <3>1. FormatInv(w, n)
            BY <1>2 DEF ReadsFormat
      <3> QED
          BY <1>2, <3>1, FormatPreserved
    <2>3. ReadsFormat'
          BY <2>2 DEF ReadsFormat
    <2> QED
        BY <2>1, <2>3
  <1> QED
      BY <1>1, <1>2, Invariant, PTL DEF Spec

-----------------------------------------------------------------------------
(* What the parser returns.                                                *)

\* When parseMetadata has returned, nothing is open any more.
LEMMA ParsedBuilt ==
  ASSUME IInv, ReadsFormat, Parsed, NEW w \in Written, NEW n \in Nat, Agrees(w, n)
  PROVE  /\ Len(heap) \in Nat \ {0} /\ Len(heap) <= Len(w.nodes)
         /\ Built(w, heap, Len(heap))
         /\ \A m \in 1 .. Len(heap) - 1 : Holds(w, heap, m)
         /\ n = Len(w.text) => Len(heap) = Len(w.nodes) /\ Holds(w, heap, Len(heap))
PROOF
  <1>1. failures = 0 /\ stage # "start" /\ stage # "list" /\ stage = "parsed"
        BY DEF Parsed
  <1>2. Shape(w) /\ (Inside(w, n) \/ Behind(w, n))
    <2>1. FormatInv(w, n)
          BY DEF ReadsFormat
    <2> QED
        BY <1>1, <2>1 DEF FormatInv
  <1>3. ~ Inside(w, n)
        BY <1>1 DEF Inside
  <1>4. /\ frames = <<>>
        /\ \A m \in 1 .. Len(heap) - 1 : Holds(w, heap, m)
        /\ n = Len(w.text) => Len(heap) = Len(w.nodes) /\ Holds(w, heap, Len(heap))
        BY <1>1, <1>2, <1>3 DEF Behind
  <1>5. /\ Len(heap) \in 1 .. Len(w.nodes) /\ Rising(w, Len(heap))
        /\ Linked(w, heap, Open)
        BY <1>2 DEF Shape
  <1>6. Len(w.nodes) \in Nat
        BY WrittenFacts
  <1>7. Open = {}
    <2>1. Owners(<<>>) = {}
          BY DEF Owners
    <2> QED
        BY <1>1, <1>4, <2>1 DEF Open
  <1>8. Len(heap) \in Nat \ {0} /\ Len(heap) <= Len(w.nodes)
        BY <1>5, <1>6
  <1>9. Built(w, heap, Len(heap))
        BY <1>5, <1>7, <1>8 DEF Built
  <1> QED
      BY <1>4, <1>8, <1>9

\* A node that holds what the text says is visited as that.
LEMMA VisitHeld ==
  ASSUME NEW w \in Written, NEW m \in 1 .. Len(w.nodes), Holds(w, heap, m)
  PROVE  Visit(heap, m, Level(w, m)) = w.nodes[m]
PROOF
  <1> DEFINE x == w.nodes[m]
  <1>1. x \in WrittenNode
        BY WrittenFacts
  <1>2. x = [depth |-> x.depth, key |-> x.key, type |-> x.type,
             integer |-> x.integer, string |-> x.string]
        BY <1>1 DEF WrittenNode
  <1>3. /\ heap[m].key = x.key /\ heap[m].type = x.type
        /\ heap[m].value.integer = x.integer /\ heap[m].value.string = x.string
        BY DEF Holds
  <1>4. Level(w, m) = x.depth
        BY DEF Level
  <1> HIDE DEF x
  <1>5. Visit(heap, m, Level(w, m)) = x
        BY <1>2, <1>3, <1>4 DEF Visit
  <1> QED
      BY <1>5 DEF x

\* A text that was read as a whole.
LEMMA WholeText ==
  ASSUME IInv, NEW w \in Written, w.text = text
  PROVE  Agrees(w, Len(w.text)) /\ Len(w.text) \in Nat
PROOF
  <1>1. Len(w.text) \in Nat /\ Len(w.text) > 0
    <2>1. Len(w.text) \in Nat
          BY PiecesAssumption DEF PiecesAssumption
    <2>2. Len(w.text) > 0
          BY WrittenFacts DEF Says
    <2> QED
        BY <2>1, <2>2
  <1>2. Size = Len(w.text)
        BY DEF Size
  <1> DEFINE n == Len(w.text)
  <1> HIDE DEF n
  <1>3. n \in Nat /\ n > 0 /\ Size = n /\ Len(w.text) = n
        BY <1>1, <1>2 DEF n
  <1>4. n \in 1 .. Len(w.text) /\ n <= Size /\ (n = Len(w.text) => Size = n)
        BY <1>3
  <1>5. \A p \in n + 1 .. Size : Char(p) = Zero
        BY <1>3
  <1>6. Agrees(w, n)
        BY <1>4, <1>5 DEF Agrees
  <1> QED
      BY <1>3, <1>6 DEF n

\* The tree of a text of LVM's format is the tree the text was written for,
\* with the nodes in the same order, on the same levels, and with the same
\* keys, types and values, for every text and every layout
\* (parseMetadata.c:390-673).
THEOREM WrittenIsParsed == Spec => []ParsedAsWritten
PROOF
  <1>1. ASSUME IInv, ReadsFormat PROVE ParsedAsWritten
    <2>1. SUFFICES ASSUME Parsed, NEW w \in Written, w.text = text
                   PROVE  Visits = w.nodes
          BY DEF ParsedAsWritten
    <2> DEFINE n == Len(w.text)
               size == Len(heap)
    <2>2. Agrees(w, n) /\ n \in Nat
          BY <1>1, <2>1, WholeText
    <2>3. /\ size \in Nat \ {0} /\ size = Len(w.nodes) /\ Built(w, heap, size)
          /\ \A m \in 1 .. size - 1 : Holds(w, heap, m)
          /\ Holds(w, heap, size)
          BY <1>1, <2>1, <2>2, ParsedBuilt
    <2>4. Visits = [m \in 1 .. size |-> Visit(heap, m, Level(w, m))]
          BY <2>3, BuiltVisits
    <2>5. w.nodes = [m \in 1 .. Len(w.nodes) |-> w.nodes[m]]
          BY WrittenFacts
    <2> HIDE DEF n, size
    <2>6. \A m \in 1 .. size : Holds(w, heap, m)
          BY <2>3
    <2>7. \A m \in 1 .. size : Visit(heap, m, Level(w, m)) = w.nodes[m]
      <3>1. ASSUME NEW m \in 1 .. size
            PROVE  Visit(heap, m, Level(w, m)) = w.nodes[m]
            BY <2>3, <2>6, VisitHeld
      <3> QED
          BY <3>1
    <2>8. [m \in 1 .. size |-> Visit(heap, m, Level(w, m))] = [m \in 1 .. size |-> w.nodes[m]]
          BY <2>7
    <2> QED
        BY <2>3, <2>4, <2>5, <2>8
  <1> QED
      BY <1>1, Invariant, FormatRead, PTL

\* A text of LVM's format that was cut off, with nothing or with zero bytes
\* behind what was read of it, gives the first nodes of the whole text's tree
\* and at most one more, for every text and wherever it was cut
\* (parseMetadata.c:91-102, 114-122, readlogicalvolume.c:227-239).
THEOREM CutTextIsPrefix == Spec => []CutTextGivesPrefix
PROOF
  <1>1. ASSUME IInv, ReadsFormat PROVE CutTextGivesPrefix
    <2>1. SUFFICES ASSUME Parsed, NEW w \in Written, CutOff(w.text)
                   PROVE  IsPrefix(Front(Visits), w.nodes)
          BY DEF CutTextGivesPrefix
    <2>2. PICK n \in 1 .. Len(w.text) - 1 :
            /\ n <= Size
            /\ SubSeq(text, 1, n) = SubSeq(w.text, 1, n)
            /\ \A p \in n + 1 .. Size : Char(p) = Zero
          BY <2>1 DEF CutOff
    <2>3. Len(w.text) \in Nat
          BY PiecesAssumption DEF PiecesAssumption
    <2>4. n \in Nat /\ n \in 1 .. Len(w.text) /\ n # Len(w.text)
          BY <2>2, <2>3
    <2>5. Agrees(w, n)
          BY <2>2, <2>4 DEF Agrees
    <2> DEFINE size == Len(heap)
               visited == [m \in 1 .. size |-> Visit(heap, m, Level(w, m))]
               nodes == w.nodes
    <2>6. /\ size \in Nat \ {0} /\ size <= Len(w.nodes) /\ Built(w, heap, size)
          /\ \A m \in 1 .. size - 1 : Holds(w, heap, m)
          BY <1>1, <2>1, <2>4, <2>5, ParsedBuilt
    <2>7. Visits = visited
          BY <2>6, BuiltVisits
    <2>8. Len(w.nodes) \in Nat
          BY WrittenFacts
    <2> HIDE DEF size
    <2>9. \A m \in 1 .. size - 1 : visited[m] = nodes[m]
      <3>1. ASSUME NEW m \in 1 .. size - 1
            PROVE  Visit(heap, m, Level(w, m)) = w.nodes[m]
        <4>1. m \in 1 .. Len(w.nodes)
              BY <2>6, <2>8
        <4> QED
            BY <2>6, <4>1, VisitHeld
      <3>2. \A m \in 1 .. size - 1 : m \in 1 .. size
            BY <2>6
      <3> QED
          BY <3>1, <3>2
    <2>10. DOMAIN visited = 1 .. size /\ Len(visited) = size
           BY <2>6
    <2> HIDE DEF visited, nodes
    <2>11. Front(visited) = [m \in 1 .. size - 1 |-> visited[m]]
           BY <2>6, <2>10 DEF Front
    <2>12. /\ Len(Front(visited)) = size - 1
           /\ SubSeq(Front(visited), 1, size - 1) = [m \in 1 .. size - 1 |-> visited[m]]
           BY <2>6, <2>11
    <2>13. SubSeq(nodes, 1, size - 1) = [m \in 1 .. size - 1 |-> nodes[m]]
           BY <2>6
    <2>14. [m \in 1 .. size - 1 |-> visited[m]] = [m \in 1 .. size - 1 |-> nodes[m]]
           BY <2>9
    <2>15. size - 1 <= Len(nodes)
           BY <2>6, <2>8 DEF nodes
    <2>16. IsPrefix(Front(visited), nodes)
           BY <2>12, <2>13, <2>14, <2>15 DEF IsPrefix
    <2> QED
        BY <2>7, <2>16 DEF nodes
  <1> QED
      BY <1>1, Invariant, FormatRead, PTL

-----------------------------------------------------------------------------
(* The tree as a sequence, whatever the text is.                           *)

\* What is made of any text is a tree as its readers expect one
\* (DocumentsAssumption): the root alone at its depth, and nodes only below those
\* that are trees or lists (parseMetadata.c:434-437, 561-564, 612-616).
VisitsAreDocument ==
  Parsed =>
    LET d == Visits
    IN  /\ d # <<>> /\ d[1].depth = 0
        /\ \A p \in 2 .. Len(d) :
             /\ d[p].depth \in 1 .. d[p - 1].depth + 1
             /\ d[p].depth > d[p - 1].depth => d[p - 1].type \in {"child", "list"}

\* What forEachNode shows of a node, as far as its type goes.
Visited ==
  [depth : Nat, key : Strings, type : Types, integer : Nat, string : Strings]

\* Only such a node has nodes below it.
HasBelow(x) == x.type \in {"child", "list"}

\* The nodes of a list that begins at this depth, and of all below it.
PreorderFrom(d, depth) ==
  /\ d \in Seq(Visited)
  /\ Len(d) > 0 => d[1].depth = depth
  /\ \A p \in 1 .. Len(d) : d[p].depth >= depth
  /\ \A p \in 2 .. Len(d) :
       /\ d[p].depth <= d[p - 1].depth + 1
       /\ d[p].depth > d[p - 1].depth => HasBelow(d[p - 1])

\* The second one's depth may come behind the first one's last node.
Continues(s, t, more) ==
  Len(t) > 0 => /\ more <= s[Len(s)].depth + 1
                /\ more > s[Len(s)].depth => HasBelow(s[Len(s)])

\* Two such sequences are one, when the second goes on where the first ends.
LEMMA PreorderJoined ==
  ASSUME NEW depth \in Nat, NEW more \in Nat, more >= depth,
         NEW s, PreorderFrom(s, depth), Len(s) > 0, NEW t, PreorderFrom(t, more),
         Continues(s, t, more)
  PROVE  /\ PreorderFrom(s \o t, depth) /\ Len(s \o t) = Len(s) + Len(t)
         /\ \A p \in 1 .. Len(s) : (s \o t)[p] = s[p]
         /\ \A p \in Len(s) + 1 .. Len(s) + Len(t) : (s \o t)[p] = t[p - Len(s)]
PROOF
  <1> DEFINE u == s \o t
             k == Len(s)
  <1>1. /\ s \in Seq(Visited) /\ t \in Seq(Visited)
        /\ s[1].depth = depth /\ (Len(t) > 0 => t[1].depth = more)
        /\ \A p \in 1 .. k : s[p].depth >= depth
        /\ \A p \in 1 .. Len(t) : t[p].depth >= more
        BY DEF PreorderFrom
  <1>2. k \in Nat \ {0} /\ Len(t) \in Nat /\ Len(u) = k + Len(t) /\ u \in Seq(Visited)
        BY <1>1
  <1>3. /\ \A p \in 1 .. k : u[p] = s[p]
        /\ \A p \in k + 1 .. k + Len(t) : u[p] = t[p - k]
        BY <1>1
  <1>4. /\ \A p \in 2 .. k : s[p].depth <= s[p - 1].depth + 1
                             /\ (s[p].depth > s[p - 1].depth => HasBelow(s[p - 1]))
        /\ \A p \in 2 .. Len(t) : t[p].depth <= t[p - 1].depth + 1
                             /\ (t[p].depth > t[p - 1].depth => HasBelow(t[p - 1]))
        BY DEF PreorderFrom
  <1>5. \A p \in 1 .. Len(t) : t[p] \in Visited /\ t[p].depth \in Int
    <2>1. \A p \in 1 .. Len(t) : t[p] \in Visited
          BY <1>1
    <2>2. \A x \in Visited : x.depth \in Int
          BY DEF Visited
    <2> QED
        BY <2>1, <2>2
  <1> HIDE DEF u, k
  <1>6. ASSUME NEW p \in 1 .. k + Len(t)
        PROVE  u[p].depth >= depth
    <2>1. CASE p <= k
          BY <1>1, <1>2, <1>3, <2>1
    <2>2. CASE p > k
      <3>1. p - k \in 1 .. Len(t) /\ p \in k + 1 .. k + Len(t)
            BY <1>2, <2>2
      <3>2. u[p] = t[p - k] /\ t[p - k].depth >= more /\ t[p - k].depth \in Int
            BY <1>1, <1>3, <1>5, <3>1
      <3> QED
          BY <3>2
    <2> QED
        BY <1>2, <2>1, <2>2
  <1>7. ASSUME NEW p \in 2 .. k + Len(t)
        PROVE  /\ u[p].depth <= u[p - 1].depth + 1
               /\ u[p].depth > u[p - 1].depth => HasBelow(u[p - 1])
    <2>1. CASE p <= k
      <3>1. p \in 2 .. k /\ p \in 1 .. k /\ p - 1 \in 1 .. k
            BY <1>2, <2>1
      <3>2. u[p] = s[p] /\ u[p - 1] = s[p - 1]
            BY <1>3, <3>1
      <3> QED
          BY <1>4, <3>1, <3>2
    <2>2. CASE p = k + 1
      <3>1. p \in k + 1 .. k + Len(t) /\ p - k = 1 /\ p - 1 = k /\ k \in 1 .. k /\ Len(t) > 0
            BY <1>2, <2>2
      <3>2. u[p] = t[1] /\ u[p - 1] = s[k]
            BY <1>3, <3>1
      <3>3. t[1].depth = more
            BY <1>1, <3>1
      <3>4. more <= s[k].depth + 1 /\ (more > s[k].depth => HasBelow(s[k]))
            BY <3>1 DEF k, Continues
      <3> QED
          BY <3>2, <3>3, <3>4
    <2>3. CASE p > k + 1
      <3>1. /\ p \in k + 1 .. k + Len(t) /\ p - 1 \in k + 1 .. k + Len(t)
            /\ p - k \in 2 .. Len(t) /\ (p - 1) - k = (p - k) - 1
            BY <1>2, <2>3
      <3>2. u[p] = t[p - k] /\ u[p - 1] = t[(p - k) - 1]
            BY <1>3, <3>1
      <3> QED
          BY <1>4, <3>1, <3>2
    <2> QED
        BY <1>2, <2>1, <2>2, <2>3
  <1>8. u[1].depth = depth
    <2>1. 1 \in 1 .. k
          BY <1>2
    <2> QED
        BY <1>1, <1>3, <2>1
  <1>9. PreorderFrom(u, depth)
        BY <1>2, <1>6, <1>7, <1>8 DEF PreorderFrom
  <1> QED
      BY <1>2, <1>3, <1>9 DEF u, k

\* What is visited from a node on, given what is from those it leads to.
VisitTurn(h, f, n) ==
  [depth \in Nat |->
     IF n = NULL THEN <<>>
     ELSE <<Visit(h, n, depth)>>
            \o f[BelowIn(h, n)][depth + 1] \o f[h[n].next][depth]]

\* Pointers lead to nodes behind.
Forward(h, size) ==
  /\ h \in Heaps /\ Len(h) = size
  /\ \A n \in 1 .. size :
       \A to \in {BelowIn(h, n), h[n].next} : to \in 0 .. size /\ (to = 0 \/ to > n)

\* They do in a forest.
LEMMA ForestForward ==
  ASSUME NEW h \in Heaps, Forest(h)
  PROVE  Forward(h, Len(h)) /\ Len(h) \in Nat
PROOF
  <1>1. /\ Len(h) \in Nat
        /\ \A n \in 1 .. Len(h) : h[n].next \in 0 .. Len(h) /\ h[n].value.to \in 0 .. Len(h)
        BY HeapIsSequence
  <1>2. \A n \in 1 .. Len(h) : /\ h[n].next = 0 \/ h[n].next > n
                               /\ h[n].value.to = 0 \/ h[n].value.to > n
        BY DEF Forest, NULL
  <1>3. \A n \in 1 .. Len(h) : BelowIn(h, n) \in {0, h[n].value.to}
        BY DEF BelowIn, NULL
  <1> QED
      BY <1>1, <1>2, <1>3 DEF Forward

\* f is right for nodes from k on.
SolvesFrom(h, size, k, f) ==
  /\ f = [n \in 0 .. size |-> f[n]]
  /\ \A n \in 0 .. size : (n = 0 \/ n >= k) => f[n] = VisitTurn(h, f, n)

\* One can be right for the node before, too.
LEMMA SolvesBefore ==
  ASSUME NEW size \in Nat, NEW h, Forward(h, size), NEW k \in 1 .. size,
         NEW f, SolvesFrom(h, size, k + 1, f)
  PROVE  \E g : SolvesFrom(h, size, k, g)
PROOF
  <1> DEFINE new == VisitTurn(h, f, k)
             g == [n \in 0 .. size |-> IF n = k THEN new ELSE f[n]]
  <1> HIDE DEF new
  <1>1. g = [n \in 0 .. size |-> g[n]]
        OBVIOUS
  <1>2. g[k] = new /\ \A n \in 0 .. size : n # k => g[n] = f[n]
        OBVIOUS
  <1> HIDE DEF g
  <1>3. ASSUME NEW n \in 0 .. size, n = 0 \/ n >= k
        PROVE  VisitTurn(h, g, n) = VisitTurn(h, f, n)
    <2>1. CASE n = NULL
          BY <2>1, Zenon DEF VisitTurn
    <2>2. CASE n # NULL
      <3>1. n \in 1 .. size /\ n >= k
            BY <1>3, <2>2 DEF NULL
      <3>2. \A to \in {BelowIn(h, n), h[n].next} : to \in 0 .. size /\ to # k
            BY <3>1 DEF Forward
      <3>3. g[BelowIn(h, n)] = f[BelowIn(h, n)] /\ g[h[n].next] = f[h[n].next]
            BY <1>2, <3>2
      <3> QED
          BY <3>3, Zenon DEF VisitTurn
    <2> QED
        BY <2>1, <2>2
  <1>4. ASSUME NEW n \in 0 .. size, n = 0 \/ n >= k
        PROVE  g[n] = VisitTurn(h, g, n)
    <2>1. CASE n = k
          BY <1>2, <1>3, <1>4, <2>1 DEF new
    <2>2. CASE n # k
      <3>1. n = 0 \/ n >= k + 1
            BY <1>4, <2>2
      <3>2. f[n] = VisitTurn(h, f, n)
            BY <3>1 DEF SolvesFrom
      <3> QED
          BY <1>2, <1>3, <1>4, <2>2, <3>2
    <2> QED
        BY <2>1, <2>2
  <1>5. SolvesFrom(h, size, k, g)
        BY <1>1, <1>4 DEF SolvesFrom
  <1> QED
      BY <1>5

\* So Visits's equation has a solution, for any forest.
LEMMA VisitsExist ==
  ASSUME NEW size \in Nat, NEW h, Forward(h, size)
  PROVE  \E f : f = VisitStep(h, size, f)
PROOF
  <1> DEFINE without == {j \in 0 .. size : ~ \E f : SolvesFrom(h, size, (size + 1) - j, f)}
  <1>1. without = {}
    <2>1. SUFFICES ASSUME without # {} PROVE FALSE
          OBVIOUS
    <2>2. without \subseteq Nat
          OBVIOUS
    <2>3. PICK j \in without : \A i \in without : j <= i
          BY <2>1, <2>2, LeastNumber
    <2>4. j \in 0 .. size /\ ~ \E f : SolvesFrom(h, size, (size + 1) - j, f)
          BY <2>3
    <2>5. CASE j = 0
      <3> DEFINE none == [depth \in Nat |-> <<>>]
                 f == [n \in 0 .. size |-> none]
      <3>1. VisitTurn(h, f, 0) = none
            BY Zenon DEF VisitTurn, NULL
      <3> HIDE DEF none
      <3>2. f[0] = none /\ f = [n \in 0 .. size |-> f[n]]
            OBVIOUS
      <3> HIDE DEF f
      <3>3. \A n \in 0 .. size : (n = 0 \/ n >= (size + 1) - j) => n = 0
            BY <2>5
      <3>4. SolvesFrom(h, size, (size + 1) - j, f)
            BY <3>1, <3>2, <3>3 DEF SolvesFrom
      <3> QED
          BY <2>4, <3>4
    <2>6. CASE j # 0
      <3> DEFINE k == (size + 1) - j
      <3>1. k \in 1 .. size /\ j - 1 \in 0 .. size /\ (size + 1) - (j - 1) = k + 1 /\ ~ (j <= j - 1)
            BY <2>4, <2>6
      <3>2. j - 1 \notin without
            BY <2>3, <3>1
      <3> HIDE DEF k
      <3>3. PICK f : SolvesFrom(h, size, k + 1, f)
            BY <3>1, <3>2
      <3>4. \E g : SolvesFrom(h, size, k, g)
            BY <3>1, <3>3, SolvesBefore
      <3> QED
          BY <2>4, <3>4 DEF k
    <2> QED
        BY <2>5, <2>6
  <1>2. PICK f : SolvesFrom(h, size, 1, f)
    <2>1. size \in 0 .. size /\ size \notin without /\ (size + 1) - size = 1
          BY <1>1
    <2> QED
        BY <2>1
  <1>3. \A n \in 0 .. size : f[n] = VisitTurn(h, f, n)
    <2>1. \A n \in 0 .. size : n = 0 \/ n >= 1
          OBVIOUS
    <2> QED
        BY <1>2, <2>1 DEF SolvesFrom
  <1>4. f = [n \in 0 .. size |-> VisitTurn(h, f, n)]
        BY <1>2, <1>3 DEF SolvesFrom
  <1>5. VisitStep(h, size, f) = [n \in 0 .. size |-> VisitTurn(h, f, n)]
        BY Zenon DEF VisitStep, VisitTurn
  <1> QED
      BY <1>4, <1>5


\* What forEachNode shows of a node of the heap.
LEMMA VisitTyped ==
  ASSUME NEW h \in Heaps, NEW n \in 1 .. Len(h), NEW depth \in Nat
  PROVE  /\ Visit(h, n, depth) \in Visited /\ Visit(h, n, depth).depth = depth
         /\ BelowIn(h, n) # NULL => HasBelow(Visit(h, n, depth))
PROOF
  <1>1. h[n] \in ListNodes /\ h[n].value \in Values
        BY HeapIsSequence
  <1>2. /\ h[n].key \in Strings /\ h[n].type \in Types
        /\ h[n].value.integer \in Nat /\ h[n].value.string \in Strings
        BY <1>1 DEF ListNodes, Values
  <1>3. Visit(h, n, depth) \in Visited
        BY <1>2, Zenon DEF Visit, Visited
  <1>4. Visit(h, n, depth).depth = depth /\ Visit(h, n, depth).type = h[n].type
        BY DEF Visit
  <1>5. BelowIn(h, n) # NULL => h[n].type \in {"child", "list"}
        BY Zenon DEF BelowIn
  <1> QED
      BY <1>3, <1>4, <1>5, Zenon DEF HasBelow

\* One node is such a sequence.
LEMMA PreorderOfOne ==
  ASSUME NEW x \in Visited, NEW depth, x.depth = depth
  PROVE  PreorderFrom(<<x>>, depth) /\ Len(<<x>>) = 1 /\ <<x>>[1] = x
PROOF
  <1>1. <<x>> \in Seq(Visited) /\ Len(<<x>>) = 1 /\ <<x>>[1] = x
        OBVIOUS
  <1>2. x.depth \in Nat
        BY DEF Visited
  <1> HIDE DEF Visited
  <1> QED
      BY <1>1, <1>2 DEF PreorderFrom

\* And so is no node.
LEMMA PreorderOfNone ==
  ASSUME NEW depth
  PROVE  PreorderFrom(<<>>, depth)
PROOF
  BY DEF PreorderFrom

\* What a node leads to is in preorder.
Ordered(f, n) ==
  \A depth \in Nat : PreorderFrom(f[n][depth], depth) /\ (n # NULL => Len(f[n][depth]) > 0)

\* A node, what is below it and what follows it are in preorder if each is.
LEMMA OrderedTurn ==
  ASSUME NEW size \in Nat, NEW h, Forward(h, size), NEW f, NEW n \in 1 .. size,
         f[n] = VisitTurn(h, f, n), f[0] = VisitTurn(h, f, 0),
         Ordered(f, BelowIn(h, n)), Ordered(f, h[n].next)
  PROVE  Ordered(f, n)
PROOF
  <1>1. h \in Heaps /\ n \in 1 .. Len(h) /\ n # NULL
        BY DEF Forward, NULL
  <1>2. SUFFICES ASSUME NEW depth \in Nat
                 PROVE  PreorderFrom(f[n][depth], depth) /\ Len(f[n][depth]) > 0
        BY DEF Ordered
  <1> DEFINE x == Visit(h, n, depth)
             below == f[BelowIn(h, n)][depth + 1]
             next == f[h[n].next][depth]
             joined == <<x>> \o below
  <1>3. f[n][depth] = joined \o next
        BY <1>1, Zenon DEF VisitTurn
  <1>4. x \in Visited /\ x.depth = depth /\ (BelowIn(h, n) # NULL => HasBelow(x))
        BY <1>1, VisitTyped
  <1>5. depth + 1 \in Nat
        OBVIOUS
  <1>6. PreorderFrom(below, depth + 1) /\ PreorderFrom(next, depth)
        BY <1>5 DEF Ordered
  <1>7. BelowIn(h, n) = NULL => below = <<>>
    <2>1. f[NULL][depth + 1] = <<>>
          BY <1>5, Zenon DEF VisitTurn, NULL
    <2> QED
        BY <2>1, Zenon
  <1> HIDE DEF x, below, next
  <1>8. PreorderFrom(<<x>>, depth) /\ Len(<<x>>) = 1 /\ <<x>>[1] = x
        BY <1>4, PreorderOfOne
  <1>9. Len(below) > 0 => HasBelow(x)
        BY <1>4, <1>7
  <1>10. PreorderFrom(joined, depth) /\ Len(joined) = 1 + Len(below)
    <2> DEFINE s == <<x>>
               more == depth + 1
    <2>1. PreorderFrom(s, depth) /\ Len(s) > 0 /\ Len(s) = 1 /\ s[1] = x
          BY <1>8
    <2>2. more \in Nat /\ more >= depth /\ PreorderFrom(below, more)
          BY <1>6
    <2> HIDE DEF s
    <2>3. Continues(s, below, more)
          BY <1>4, <1>9, <2>1 DEF Continues
    <2> HIDE DEF more
    <2>4. \A u, t : (/\ Len(u) > 0 /\ PreorderFrom(u, depth) /\ PreorderFrom(t, more)
                     /\ Continues(u, t, more)) =>
                   PreorderFrom(u \o t, depth) /\ Len(u \o t) = Len(u) + Len(t)
      <3>1. more \in Nat /\ more >= depth
            BY <2>2
      <3>2. ASSUME NEW u, Len(u) > 0, PreorderFrom(u, depth), NEW t, PreorderFrom(t, more),
                   Continues(u, t, more)
            PROVE  PreorderFrom(u \o t, depth) /\ Len(u \o t) = Len(u) + Len(t)
            BY <3>1, <3>2, PreorderJoined
      <3> QED
          BY <3>2
    <2>5. PreorderFrom(s \o below, depth) /\ Len(s \o below) = Len(s) + Len(below)
          BY <2>1, <2>2, <2>3, <2>4, Zenon
    <2> QED
        BY <2>1, <2>5 DEF s
  <1>11. Len(below) \in Nat /\ Len(next) \in Nat
        BY <1>6 DEF PreorderFrom
  <1> HIDE DEF joined
  <1>12. Len(joined) > 0 /\ Len(joined) \in 1 .. Len(joined)
        BY <1>10, <1>11
  <1>13. joined[Len(joined)].depth >= depth /\ joined[Len(joined)].depth \in Nat
    <2>1. joined[Len(joined)].depth >= depth /\ joined[Len(joined)] \in Visited
          BY <1>10, <1>12 DEF PreorderFrom
    <2> QED
        BY <2>1 DEF Visited
  <1>14. Continues(joined, next, depth)
        BY <1>13 DEF Continues
  <1>15. PreorderFrom(joined \o next, depth) /\ Len(joined \o next) = Len(joined) + Len(next)
    <2>1. depth >= depth
          OBVIOUS
    <2>2. \A s, t : (/\ Len(s) > 0
                     /\ PreorderFrom(s, depth) /\ PreorderFrom(t, depth)
                     /\ Continues(s, t, depth)) =>
                   PreorderFrom(s \o t, depth) /\ Len(s \o t) = Len(s) + Len(t)
          BY <2>1, PreorderJoined
    <2> QED
        BY <1>6, <1>10, <1>12, <1>14, <2>2, Zenon
  <1> QED
      BY <1>3, <1>11, <1>12, <1>15

\* Whatever solves the equation is in preorder, from every node.
LEMMA SolutionOrdered ==
  ASSUME NEW size \in Nat, NEW h, Forward(h, size), NEW f, f = VisitStep(h, size, f)
  PROVE  \A n \in 0 .. size : f[n] = VisitTurn(h, f, n) /\ Ordered(f, n)
PROOF
  <1>1. f = [n \in 0 .. size |-> VisitTurn(h, f, n)]
        BY Zenon DEF VisitStep, VisitTurn
  <1>2. \A n \in 0 .. size : f[n] = VisitTurn(h, f, n)
        BY <1>1, Zenon
  <1>3. 0 \in 0 .. size
        OBVIOUS
  <1>4. Ordered(f, 0)
    <2>1. \A depth \in Nat : f[0][depth] = <<>>
          BY <1>2, <1>3, Zenon DEF VisitTurn, NULL
    <2>2. 0 = NULL
          BY DEF NULL
    <2> QED
        BY <2>1, <2>2, PreorderOfNone, Zenon DEF Ordered
  <1> DEFINE wrong == {j \in 0 .. size : ~ Ordered(f, size - j)}
  <1>5. wrong = {}
    <2>1. SUFFICES ASSUME wrong # {} PROVE FALSE
          OBVIOUS
    <2>2. wrong \subseteq Nat
          OBVIOUS
    <2>3. PICK j \in wrong : \A i \in wrong : j <= i
          BY <2>1, <2>2, LeastNumber
    <2> DEFINE n == size - j
    <2>4. n \in 0 .. size /\ ~ Ordered(f, n) /\ j \in Nat
          BY <2>3
    <2>5. n # 0
          BY <1>4, <2>4
    <2>6. ASSUME NEW to \in 0 .. size, to = 0 \/ to > n
          PROVE  Ordered(f, to)
      <3>1. CASE to = 0
            BY <1>4, <3>1
      <3>2. CASE to > n
        <4>1. size - to \in 0 .. size /\ size - (size - to) = to /\ ~ (j <= size - to)
              BY <2>3, <2>4, <2>6, <3>2
        <4>2. size - to \notin wrong
              BY <2>3, <4>1
        <4> QED
            BY <4>1, <4>2
      <3> QED
          BY <2>6, <3>1, <3>2
    <2> HIDE DEF n, wrong
    <2>7. n \in 1 .. size
          BY <2>4, <2>5
    <2>8. /\ BelowIn(h, n) \in 0 .. size /\ (BelowIn(h, n) = 0 \/ BelowIn(h, n) > n)
          /\ h[n].next \in 0 .. size /\ (h[n].next = 0 \/ h[n].next > n)
          BY <2>7 DEF Forward
    <2>9. Ordered(f, BelowIn(h, n)) /\ Ordered(f, h[n].next)
          BY <2>6, <2>8
    <2>10. f[n] = VisitTurn(h, f, n) /\ f[0] = VisitTurn(h, f, 0)
          BY <1>2, <1>3, <2>4
    <2>11. Ordered(f, n)
          BY <2>7, <2>9, <2>10, OrderedTurn
    <2> QED
        BY <2>4, <2>11
  <1>6. ASSUME NEW n \in 0 .. size
        PROVE  Ordered(f, n)
    <2>1. size - n \in 0 .. size /\ size - (size - n) = n
          OBVIOUS
    <2> HIDE DEF wrong
    <2>2. size - n \notin wrong
          BY <1>5
    <2> QED
        BY <2>1, <2>2 DEF wrong
  <1> QED
      BY <1>2, <1>6

\* The list of the root is the root.
RootAlone ==
  failures = 0 =>
    /\ stage \in {"child", "list"} => frames[1].owner = 1
    /\ stage = "parsed" => heap # <<>> /\ heap[1].next = NULL


\* The first activation of parseChild is for the root until it returns, and
\* then nothing is left behind the root.
LEMMA RootAlonePreserved ==
  ASSUME IInv, RootAlone, [Next]_vars
  PROVE  RootAlone'
PROOF
  <1>1. SUFFICES ASSUME failures' = 0
                 PROVE  /\ stage' \in {"child", "list"} => frames'[1].owner = 1
                        /\ stage' = "parsed" => heap' # <<>> /\ heap'[1].next = NULL
        BY DEF RootAlone
  <1>2. failures = 0
        BY <1>1, FailuresStay
  <1>3. /\ stage \in {"child", "list"} => frames[1].owner = 1
        /\ stage = "parsed" => heap # <<>> /\ heap[1].next = NULL
        BY <1>2 DEF RootAlone
  <1>4. CASE AllocateRoot
    <2>1. frames' = <<Frame(1)>> /\ stage' = "child"
          BY <1>4 DEF AllocateRoot
    <2>2. frames'[1].owner = 1
          BY <2>1 DEF Frame
    <2> QED
        BY <2>1, <2>2
  <1>5. CASE NoRoot
    <2>1. stage' = "failed"
          BY <1>5 DEF NoRoot
    <2> QED
        BY <2>1
  <1>6. CASE Key
    <2>1. stage = "child" /\ stage' = stage
          BY <1>6 DEF Key, InChild
    <2>2. /\ frames \in Seq(Activation) /\ Len(frames) \in Nat /\ Len(frames) > 0
          BY <2>1, TopOfStack
    <2>3. frames' = frames \/ \E new : frames' = Advanced(frames, new.node)
          BY <1>6, Zenon DEF Key, Advanced
    <2>4. \A node : Advanced(frames, node)[1].owner = frames[1].owner
      <3>1. 1 \in 1 .. Len(frames) /\ Len(frames) \in 1 .. Len(frames)
            BY <2>2
      <3>2. frames[1] \in Activation /\ frames[Len(frames)] \in Activation
            BY <2>2, <3>1
      <3> QED
          BY <2>2, <3>1, <3>2 DEF Advanced, Activation
    <2> QED
        BY <1>3, <2>1, <2>3, <2>4
  <1>7. CASE Child
    <2>1. stage = "child" /\ stage' = stage /\ frames' = Append(frames, Frame(Node))
          BY <1>7 DEF Child, InChild
    <2>2. /\ frames \in Seq(Activation) /\ Len(frames) \in Nat /\ Len(frames) > 0
          BY <2>1, TopOfStack
    <2>3. 1 \in 1 .. Len(frames)
          BY <2>2
    <2>4. frames'[1] = frames[1]
          BY <2>1, <2>2, <2>3
    <2> QED
        BY <1>3, <2>1, <2>4
  <1>8. CASE ChildReturns
    <2>1. /\ stage = "child" /\ stage' = IF Len(frames) = 1 THEN "parsed" ELSE "child"
          /\ heap' = Adopted(heap, Top.owner, Top.result)
          /\ frames' = Front(frames)
          BY <1>8 DEF ChildReturns
    <2>2. /\ heap \in Heaps /\ Len(heap) \in Nat
          /\ frames \in Seq(Activation) /\ Len(frames) \in Nat /\ Len(frames) > 0
          /\ Top = frames[Len(frames)]
          /\ Top.owner \in 1 .. Len(heap) /\ Top.result \in 0 .. Len(heap)
          BY <2>1, TopOfStack
    <2>3. CASE Len(frames) = 1
      <3>1. Top.owner = 1
            BY <1>3, <2>1, <2>2, <2>3
      <3>2. \A owner \in 1 .. Len(heap), result \in 0 .. Len(heap) :
              /\ Adopted(heap, owner, result)[owner].next = NULL
              /\ Len(Adopted(heap, owner, result)) = Len(heap)
            BY <2>2, AdoptedEffect
      <3>3. heap'[1].next = NULL /\ Len(heap') = Len(heap)
            BY <2>1, <2>2, <3>1, <3>2, Zenon
      <3>4. Len(heap) # 0
            BY <2>2
      <3>5. heap' # <<>>
            BY <3>3, <3>4
      <3> QED
          BY <2>1, <2>3, <3>3, <3>5
    <2>4. CASE Len(frames) # 1
      <3>1. \A f \in 1 .. Len(frames) - 1 : Front(frames)[f] = frames[f]
            BY <2>2, FrontOfStack
      <3>2. 1 \in 1 .. Len(frames) - 1
        <4> DEFINE top == Len(frames)
        <4>1. top \in Nat /\ top > 0 /\ top # 1
              BY <2>2, <2>4
        <4> HIDE DEF top
        <4>2. 1 \in 1 .. top - 1
              BY <4>1
        <4> QED
            BY <4>2 DEF top
      <3>3. frames'[1] = frames[1]
            BY <2>1, <3>1, <3>2
      <3> QED
          BY <1>3, <2>1, <2>4, <3>3
    <2> QED
        BY <2>3, <2>4
  <1>9. CASE \/ Comment \/ Newline \/ NoValue \/ ListValue \/ StringValue \/ IntegerValue
             \/ ListString \/ ListInteger \/ Comma \/ Bracket \/ PassInList \/ ListCut
    <2>1. stage \in {"child", "list"} /\ stage' \in {"child", "list"} /\ frames' = frames
          BY <1>9
          DEF Comment, Newline, NoValue, ListValue, StringValue, IntegerValue, ListString,
              ListInteger, Comma, Bracket, PassInList, ListCut, InChild, InValue, InList, input
    <2> QED
        BY <1>3, <2>1
  <1>10. CASE Over \/ UNCHANGED vars
    <2>1. stage' = stage /\ heap' = heap /\ frames' = frames
          BY <1>10 DEF Over, vars
    <2> QED
        BY <1>3, <2>1
  <1> QED
      BY <1>4, <1>5, <1>6, <1>7, <1>8, <1>9, <1>10 DEF Next

\* Behind a node that nothing follows there is only what is below it.
LEMMA DocumentFromRoot ==
  ASSUME NEW d, PreorderFrom(d, 0), Len(d) > 0,
         NEW x, NEW below, PreorderFrom(below, 1), d = <<x>> \o below
  PROVE  /\ d # <<>> /\ d[1].depth = 0
         /\ \A p \in 2 .. Len(d) :
              /\ d[p].depth \in 1 .. d[p - 1].depth + 1
              /\ d[p].depth > d[p - 1].depth => d[p - 1].type \in {"child", "list"}
PROOF
  <1>1. d \in Seq(Visited) /\ below \in Seq(Visited) /\ Len(d) \in Nat /\ Len(below) \in Nat
        BY DEF PreorderFrom
  <1>2. \A n \in 1 .. Len(d) : d[n] \in Visited
        BY <1>1
  <1>3. \A y \in Visited : y.depth \in Nat
        BY DEF Visited
  <1>4. Len(d) = 1 + Len(below) /\ \A p \in 2 .. Len(d) : d[p] = below[p - 1]
    <2> HIDE DEF Visited
    <2> QED
        BY <1>1
  <1>5. d # <<>> /\ d[1].depth = 0
    <2>1. d # <<>>
          BY <1>1
    <2> QED
        BY <2>1 DEF PreorderFrom
  <1>6. ASSUME NEW p \in 2 .. Len(d)
        PROVE  /\ d[p].depth \in 1 .. d[p - 1].depth + 1
               /\ d[p].depth > d[p - 1].depth => d[p - 1].type \in {"child", "list"}
    <2>1. p \in 1 .. Len(d) /\ p - 1 \in 1 .. Len(d) /\ p - 1 \in 1 .. Len(below)
          BY <1>1, <1>4
    <2>2. d[p].depth \in Nat /\ d[p - 1].depth \in Nat
          BY <1>2, <1>3, <2>1
    <2>3. d[p].depth >= 1
          BY <1>4, <2>1 DEF PreorderFrom
    <2>4. d[p].depth <= d[p - 1].depth + 1
          BY DEF PreorderFrom
    <2>5. d[p].depth > d[p - 1].depth => HasBelow(d[p - 1])
          BY DEF PreorderFrom
    <2>6. d[p].depth \in 1 .. d[p - 1].depth + 1
          BY <2>2, <2>3, <2>4
    <2> QED
        BY <2>5, <2>6 DEF HasBelow
  <1> QED
      BY <1>5, <1>6

\* What parseMetadata made of any text, without a failed allocation, is a
\* document as the other parts of the program expect one: the root alone at
\* its depth, and nodes only below trees and lists
\* (parseMetadata.c:434-437, 561-564, 612-616, 655-673).
THEOREM DocumentsParsed == Spec => []VisitsAreDocument
PROOF
  <1>1. Init => RootAlone
        BY DEF Init, RootAlone
  <1>2. IInv /\ RootAlone /\ [Next]_vars => RootAlone'
        BY RootAlonePreserved
  <1>3. ASSUME IInv, RootAlone PROVE VisitsAreDocument
    <2>1. SUFFICES ASSUME Parsed
                   PROVE  /\ Visits # <<>> /\ Visits[1].depth = 0
                          /\ \A p \in 2 .. Len(Visits) :
                               /\ Visits[p].depth \in 1 .. Visits[p - 1].depth + 1
                               /\ Visits[p].depth > Visits[p - 1].depth =>
                                    Visits[p - 1].type \in {"child", "list"}
          BY Zenon DEF VisitsAreDocument
    <2>2. heap \in Heaps /\ Forest(heap) /\ heap # <<>> /\ heap[1].next = NULL
          BY <1>3, <2>1 DEF Parsed, RootAlone, IInv, TypeInv, HeapInv, TreeInv
    <2> DEFINE size == Len(heap)
               f == CHOOSE f : f = VisitStep(heap, size, f)
    <2>3. Forward(heap, size) /\ size \in Nat
          BY <2>2, ForestForward
    <2>4. size # 0
          BY <2>2 DEF Heaps
    <2>5. Visits = f[1][0]
          BY Zenon DEF Visits, VisitStep, Visit, Below, BelowIn
    <2> HIDE DEF size
    <2>6. f = VisitStep(heap, size, f)
      <3>1. \E g : g = VisitStep(heap, size, g)
            BY <2>3, VisitsExist
      <3> QED
          BY <3>1, Zenon
    <2> HIDE DEF f
    <2>7. \A n \in 0 .. size : f[n] = VisitTurn(heap, f, n) /\ Ordered(f, n)
          BY <2>3, <2>6, SolutionOrdered
    <2>8. 0 \in 0 .. size /\ 1 \in 0 .. size /\ 1 \in 1 .. size /\ 1 # NULL /\ 0 \in Nat /\ 1 \in Nat
          BY <2>3, <2>4 DEF NULL
    <2>9. PreorderFrom(Visits, 0) /\ Len(Visits) > 0
          BY <2>5, <2>7, <2>8 DEF Ordered
    <2> DEFINE below == f[BelowIn(heap, 1)][1]
               x == Visit(heap, 1, 0)
    <2>10. PreorderFrom(below, 1)
      <3>1. BelowIn(heap, 1) \in 0 .. size
            BY <2>3, <2>8 DEF Forward
      <3> QED
          BY <2>7, <2>8, <3>1 DEF Ordered
    <2>11. Visits = <<x>> \o below
      <3>1. f[1][0] = <<x>> \o f[BelowIn(heap, 1)][0 + 1] \o f[heap[1].next][0]
            BY <2>7, <2>8, Zenon DEF VisitTurn
      <3>2. f[NULL][0] = <<>>
        <4>1. f[NULL] = VisitTurn(heap, f, NULL)
              BY <2>7, <2>8, Zenon DEF NULL
        <4> QED
            BY <2>8, <4>1, Zenon DEF VisitTurn
      <3>3. f[1][0] = <<x>> \o below \o <<>>
        <4>1. 0 + 1 = 1
              OBVIOUS
        <4> QED
            BY <2>2, <3>1, <3>2, <4>1, Zenon
      <3>4. below \in Seq(Visited)
            BY <2>10 DEF PreorderFrom
      <3> HIDE DEF below, x
      <3>5. <<x>> \o below \o <<>> = <<x>> \o below
            BY <3>4
      <3> QED
          BY <2>5, <3>3, <3>5
    <2> HIDE DEF below, x
    <2> DEFINE d == Visits
    <2>12. PreorderFrom(d, 0) /\ Len(d) > 0 /\ d = <<x>> \o below
           BY <2>9, <2>11
    <2> HIDE DEF d
    <2>13. /\ d # <<>> /\ d[1].depth = 0
           /\ \A p \in 2 .. Len(d) :
                /\ d[p].depth \in 1 .. d[p - 1].depth + 1
                /\ d[p].depth > d[p - 1].depth => d[p - 1].type \in {"child", "list"}
           BY <2>10, <2>12, DocumentFromRoot
    <2> QED
        BY <2>13 DEF d
  <1> QED
      BY <1>1, <1>2, <1>3, Invariant, PTL DEF Spec
=============================================================================
