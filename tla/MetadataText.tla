---------------------------- MODULE MetadataText ----------------------------
(***************************************************************************)
(* parseMetadata of parseMetadata.c: the text of the metadata is read from *)
(* a buffer with one position, that can be put back by one character, and  *)
(* a tree of linked nodes is built.  A step is one turn of the loop of     *)
(* parseChild or parseList; frames are the activations of parseChild.      *)
(*                                                                         *)
(* A node is appended to the list that begins with the node it belongs to, *)
(* whose next pointer is reset when the list is complete.                  *)
(*                                                                         *)
(* text is a string; ptr is the next character's place, counted from 1.    *)
(***************************************************************************)
EXTENDS Integers, SequencesExt

CONSTANTS
  Texts,       \* what the block of the metadata may hold
  Written,     \* the texts of volume groups, each with the nodes it means
  MaxFailures  \* nodes that cannot be allocated

ASSUME TextAssumption ==
  /\ Texts \subseteq STRING
  /\ \A block \in Texts : Len(block) \in Nat
  /\ \A written \in Written : written.text \in STRING
  /\ MaxFailures \in Nat

NULL == 0

Digits == {"0", "1", "2", "3", "4", "5", "6", "7", "8", "9"}

Letters == {"a", "b", "c", "d", "e", "f", "g", "h", "i", "j", "k", "l", "m",
            "n", "o", "p", "q", "r", "s", "t", "u", "v", "w", "x", "y", "z",
            "A", "B", "C", "D", "E", "F", "G", "H", "I", "J", "K", "L", "M",
            "N", "O", "P", "Q", "R", "S", "T", "U", "V", "W", "X", "Y", "Z"}

Word == Letters \cup Digits \cup {"_"}

\* The union of a node: whichever member was written last is in effect.
Pointer(node) == [to |-> node, string |-> "", integer |-> 0]
Chars(string) == [to |-> NULL, string |-> string, integer |-> 0]
Number(n) == [to |-> NULL, string |-> "", integer |-> n]

\* A node as calloc gives it.
Blank == [next |-> NULL, key |-> "", type |-> "none", value |-> Pointer(NULL)]

\* The locals of parseChild; owner is the node it was called for.
Frame(owner) == [owner |-> owner, node |-> owner, result |-> NULL]

\* The locals of parseList, but for the node: what the element that was read
\* last is, and the list so far.
NoElement == [type |-> "none", value |-> Pointer(NULL), key |-> ""]

VARIABLES
  stage,    \* the function the parser is in
  text,     \* the block; never written
  ptr,      \* the character getNextChar gives next
  heap,     \* the nodes, by the order they were allocated in; 1 is the root
  frames,   \* the activations of parseChild
  last,     \* parseList: the node of the element appended last
  first,    \* parseList: the node of the first element
  element,  \* parseList: the element that is waiting for a comma
  failures  \* how many nodes could not be allocated

input == <<text, ptr>>
list == <<last, first, element>>
vars == <<stage, text, ptr, heap, frames, last, first, element, failures>>

Size == Len(text)

TypeOK ==
  /\ stage \in {"start", "child", "list", "parsed", "failed"}
  /\ text \in STRING
  /\ ptr \in 1 .. Size + 1
  /\ \A n \in DOMAIN heap :
       /\ heap[n].next \in 0 .. Len(heap)
       /\ heap[n].value.to \in 0 .. Len(heap)
       /\ heap[n].value.integer \in Nat
       /\ heap[n].type \in {"none", "child", "list", "string", "integer"}
  /\ \A f \in DOMAIN frames :
       /\ {frames[f].owner, frames[f].node} \subseteq DOMAIN heap
       /\ frames[f].result \in 0 .. Len(heap)
  /\ {last, first} \subseteq 0 .. Len(heap)
  /\ failures \in 0 .. MaxFailures

Init ==
  /\ stage = "start"
  /\ text \in Texts
  /\ ptr = 1
  /\ heap = <<>>
  /\ frames = <<>>
  /\ last = NULL
  /\ first = NULL
  /\ element = NoElement
  /\ failures = 0

-----------------------------------------------------------------------------
(* The buffer.                                                             *)

AtEnd == ptr > Size

\* A character, or EOF.
Char(p) == IF p \in 1 .. Size THEN SubSeq(text, p, p) ELSE ""

\* Slip: the length of the rest not looked at.
UncheckedNext(p) == p + 1

\* ptr after getNextChar read, or found no more, character p.
NextChar(p) == IF p > Size THEN p ELSE p + 1

\* Slip: the length of the rest not looked at.
AlwaysBack(p) == p - 1

\* ptr after getPreviousChar: nothing is put back once the buffer is used up.
PreviousChar(p) == IF p > Size THEN p ELSE p - 1

\* The first character from p on that is one of these, or the buffer's end.
To(p, chars) == Min({q \in p .. Size : Char(q) \in chars} \cup {Size + 1})

\* The first that is not one of these.
Past(p, chars) == Min({q \in p .. Size : Char(q) \notin chars} \cup {Size + 1})

\* setStringEnd and dupString, after the character that ended the string was
\* read: at the buffer's end there was none, and the last one of the string
\* is lost.
Duplicate(start, p) == SubSeq(text, start, p - 2)

DigitValue == [c \in Digits |->
  CASE c = "0" -> 0 [] c = "1" -> 1 [] c = "2" -> 2 [] c = "3" -> 3 [] c = "4" -> 4
    [] c = "5" -> 5 [] c = "6" -> 6 [] c = "7" -> 7 [] c = "8" -> 8 [] c = "9" -> 9]

\* parseInteger's sum after each of the characters from p to before q.
IntegerFrom(p, q) ==
  LET integer[n \in 0 .. q - p] ==
        IF n = 0 THEN 0 ELSE integer[n - 1] * 10 + DigitValue[Char(p + n - 1)]
  IN  integer[q - p]

-----------------------------------------------------------------------------
(* The tree.                                                               *)

\* newNode: a node behind this one, or, if calloc failed, this one itself.
NewNode(node) ==
  {[heap |-> Append([heap EXCEPT ![node].next = Len(heap) + 1], Blank),
    node |-> Len(heap) + 1, failures |-> failures]}
  \cup
  (IF failures < MaxFailures
   THEN {[heap |-> [heap EXCEPT ![node].next = NULL],
          node |-> node, failures |-> failures + 1]}
   ELSE {})

Top == Last(frames)

Node == Top.node

\* Slip: the list not cut off from its owner.
StillLinked(nodes, owner, result) ==
  [nodes EXCEPT ![owner].value = Pointer(result)]

\* Slip: the list cut off only where its end was seen.
CutAtBrace(nodes, owner, result) ==
  [nodes EXCEPT ![owner].value = Pointer(result),
                ![owner].next = IF AtEnd THEN @ ELSE NULL]

\* What parseList and parseChild return is put under its owner.
Adopted(nodes, owner, result) ==
  [nodes EXCEPT ![owner].value = Pointer(result), ![owner].next = NULL]

\* parseMetadata.
AllocateRoot ==
  /\ stage = "start"
  /\ heap' = <<[Blank EXCEPT !.key = "root_node", !.type = "child"]>>
  /\ frames' = <<Frame(1)>>
  /\ stage' = "child"
  /\ UNCHANGED <<input, list, failures>>

NoRoot ==
  /\ stage = "start"
  /\ failures < MaxFailures
  /\ failures' = failures + 1
  /\ stage' = "failed"
  /\ UNCHANGED <<input, heap, frames, list>>

-----------------------------------------------------------------------------
(* parseChild.                                                             *)

InChild == stage = "child" /\ ~ AtEnd

Comment ==
  /\ InChild /\ Char(ptr) = "#"
  /\ ptr' = NextChar(To(ptr + 1, {"\n"}))
  /\ UNCHANGED <<stage, text, heap, frames, list, failures>>

\* The character behind the blank lines is put back.
Newline ==
  /\ InChild /\ Char(ptr) = "\n"
  /\ ptr' = PreviousChar(NextChar(Past(ptr + 1, {"\n", "\t", " "})))
  /\ UNCHANGED <<stage, text, heap, frames, list, failures>>

\* Slip: the first character of the key not put back.
KeyTail == ptr + 1

KeyStart == PreviousChar(ptr + 1)

\* A key ends before the first character that does not belong to a word,
\* which is used up.  Of one or of no character nothing comes at the
\* buffer's end.
Key ==
  /\ InChild /\ Char(ptr) \notin {"#", "\n", "=", "{", "}"}
  /\ ptr' = NextChar(Past(KeyStart, Word))
  /\ LET key == Duplicate(KeyStart, ptr')
     IN  IF key = ""
         THEN UNCHANGED <<heap, frames, failures>>
         ELSE \E new \in NewNode(Node) :
                /\ heap' = [new.heap EXCEPT ![new.node].key = key]
                /\ frames' = [frames EXCEPT
                     ![Len(frames)].node = new.node,
                     ![Len(frames)].result = IF @ = NULL THEN new.node ELSE @]
                /\ failures' = new.failures
  /\ UNCHANGED <<stage, text, list>>

Child ==
  /\ InChild /\ Char(ptr) = "{"
  /\ ptr' = ptr + 1
  /\ heap' = [heap EXCEPT ![Node].type = "child"]
  /\ frames' = Append(frames, Frame(Node))
  /\ UNCHANGED <<stage, text, list, failures>>

\* parseChild returns, at a brace or at the buffer's end.
ChildReturns ==
  /\ stage = "child"
  /\ AtEnd \/ Char(ptr) = "}"
  /\ ptr' = NextChar(ptr)
  /\ heap' = Adopted(heap, Top.owner, Top.result)
  /\ frames' = Front(frames)
  /\ stage' = IF Len(frames) = 1 THEN "parsed" ELSE "child"
  /\ UNCHANGED <<text, list, failures>>

-----------------------------------------------------------------------------
(* parseValue, parseString and parseInteger, called at an equals sign.     *)

ValueStart == To(ptr + 1, Digits \cup {"\n", "[", "\""})

InValue(chars) ==
  /\ InChild /\ Char(ptr) = "="
  /\ Char(ValueStart) \in chars

\* The newline is put back.
NoValue ==
  /\ InValue({"\n", ""})
  /\ ptr' = PreviousChar(NextChar(ValueStart))
  /\ UNCHANGED <<stage, text, heap, frames, list, failures>>

ListValue ==
  /\ InValue({"["})
  /\ ptr' = ValueStart + 1
  /\ heap' = [heap EXCEPT ![Node].type = "list"]
  /\ last' = Node
  /\ first' = NULL
  /\ element' = NoElement
  /\ stage' = "list"
  /\ UNCHANGED <<text, frames, failures>>

StringValue ==
  /\ InValue({"\""})
  /\ ptr' = NextChar(To(ValueStart + 1, {"\""}))
  /\ heap' = [heap EXCEPT ![Node].type = "string",
                          ![Node].value = Chars(Duplicate(ValueStart + 1, ptr'))]
  /\ UNCHANGED <<stage, text, frames, list, failures>>

\* The first digit is put back for parseInteger, and so is the character
\* that ends the number.
IntegerValue ==
  /\ InValue(Digits)
  /\ LET start == PreviousChar(ValueStart + 1)
         end == Past(start, Digits)
     IN  /\ ptr' = PreviousChar(NextChar(end))
         /\ heap' = [heap EXCEPT ![Node].type = "integer",
                                 ![Node].value = Number(IntegerFrom(start, end))]
  /\ UNCHANGED <<stage, text, frames, list, failures>>

-----------------------------------------------------------------------------
(* parseList.                                                              *)

InList == stage = "list" /\ ~ AtEnd

\* A string that is not closed ends the buffer and the list.
ListString ==
  /\ InList /\ Char(ptr) = "\""
  /\ ptr' = NextChar(To(ptr + 1, {"\""}))
  /\ LET string == Duplicate(ptr + 1, ptr')
     IN  element' = [type |-> "string", value |-> Chars(string), key |-> string]
  /\ UNCHANGED <<stage, text, heap, frames, last, first, failures>>

ListInteger ==
  /\ InList /\ Char(ptr) \in Digits
  /\ LET end == Past(ptr, Digits)
     IN  /\ ptr' = PreviousChar(NextChar(end))
         /\ element' = [type |-> "integer", key |-> "integer",
                        value |-> Number(IntegerFrom(ptr, end))]
  /\ UNCHANGED <<stage, text, heap, frames, last, first, failures>>

\* The heap and the list's first and last node with the element behind the
\* list.
Appended ==
  IF element.type = "none"
  THEN {[heap |-> heap, node |-> last, failures |-> failures, first |-> first]}
  ELSE {[heap |-> [new.heap EXCEPT ![new.node].type = element.type,
                                   ![new.node].value = element.value,
                                   ![new.node].key = element.key],
         node |-> new.node, failures |-> new.failures,
         first |-> IF first = NULL THEN new.node ELSE first]
         : new \in NewNode(last)}

Comma ==
  /\ InList /\ Char(ptr) = ","
  /\ ptr' = ptr + 1
  /\ \E appended \in Appended :
       /\ heap' = appended.heap
       /\ last' = appended.node
       /\ first' = appended.first
       /\ failures' = appended.failures
  /\ element' = NoElement
  /\ UNCHANGED <<stage, text, frames>>

Bracket ==
  /\ InList /\ Char(ptr) = "]"
  /\ ptr' = ptr + 1
  /\ \E appended \in Appended :
       /\ heap' = Adopted(appended.heap, Node, appended.first)
       /\ failures' = appended.failures
  /\ stage' = "child"
  /\ UNCHANGED <<text, frames, list>>

PassInList ==
  /\ InList /\ Char(ptr) \notin Digits \cup {"\"", ",", "]"}
  /\ ptr' = ptr + 1
  /\ UNCHANGED <<stage, text, heap, frames, list, failures>>

\* An element that no comma or bracket followed is lost.
ListCut ==
  /\ stage = "list" /\ AtEnd
  /\ heap' = Adopted(heap, Node, first)
  /\ stage' = "child"
  /\ UNCHANGED <<input, frames, list, failures>>

Over ==
  /\ stage \in {"parsed", "failed"}
  /\ UNCHANGED vars

Next ==
  \/ AllocateRoot \/ NoRoot
  \/ Comment \/ Newline \/ Key \/ Child \/ ChildReturns
  \/ NoValue \/ ListValue \/ StringValue \/ IntegerValue
  \/ ListString \/ ListInteger \/ Comma \/ Bracket \/ PassInList \/ ListCut
  \/ Over

\* The program is one thread that runs until it exits.
Spec == Init /\ [][Next]_vars /\ WF_vars(Next)

-----------------------------------------------------------------------------
(* Properties.                                                             *)

Below(n) == IF heap[n].type \in {"child", "list"} THEN heap[n].value.to ELSE NULL

Pointers ==
  ({n \in DOMAIN heap : heap[n].next # NULL} \X {"next"})
    \cup ({n \in DOMAIN heap : Below(n) # NULL} \X {"below"})

Target(pointer) ==
  IF pointer[2] = "next" THEN heap[pointer[1]].next ELSE Below(pointer[1])

\* No two pointers lead to the same node, and none to the root.
TreeShaped ==
  \A p \in Pointers :
    Target(p) # 1 /\ \A q \in Pointers : Target(p) = Target(q) => p = q

\* Whatever the text is, also one that is no volume group's or was cut off,
\* the nodes that can be reached are a tree at each moment: the elements of a
\* list, and the children of a node, are not left behind the node they belong
\* to as well as under it (parseMetadata.c:434-437, 561-564, 612-616).
NodesFormTree == failures = 0 => TreeShaped

\* The nodes of the tree in the order forEachNode calls the callback: visits
\* of the list that begins with node n and of all below it.
Visits ==
  LET visits[n \in 0 .. Len(heap)] ==
        [depth \in Nat |->
           IF n = NULL THEN <<>>
           ELSE <<[depth |-> depth, key |-> heap[n].key, type |-> heap[n].type,
                   integer |-> heap[n].value.integer,
                   string |-> heap[n].value.string]>>
                  \o visits[Below(n)][depth + 1] \o visits[heap[n].next][depth]]
  IN  visits[1][0]

Parsed == stage = "parsed" /\ failures = 0

\* The tree of a volume group's text is the tree the text was written for,
\* whatever the layout: comments with braces and quotes in them, blank lines,
\* lists over several lines, empty lists, a missing final newline
\* (parseMetadata.c:390-673).
ParsedAsWritten ==
  (Parsed /\ \E written \in Written : written.text = text) =>
    \E written \in Written :
      written.text = text /\ Visits = written.nodes

\* Stands for the zero byte.
Zero == "~"

\* The text is this one as a read that fell short left it, with nothing or
\* with zero bytes behind the bytes that were read.
CutOff(whole) ==
  \E n \in 1 .. Len(whole) - 1 :
    /\ n <= Size
    /\ SubSeq(text, 1, n) = SubSeq(whole, 1, n)
    /\ \A p \in n + 1 .. Size : Char(p) = Zero

\* A text that was cut off gives the first nodes of the whole one: nothing
\* is moved to another place or invented, and only the last node may be
\* incomplete (parseMetadata.c:91-102, 114-122, readlogicalvolume.c:227-239).
CutTextGivesPrefix ==
  Parsed =>
    \A written \in Written :
      CutOff(written.text) => IsPrefix(Front(Visits), written.nodes)

\* Parsing ends, whatever the text is.
ParsingEnds == <>(stage \in {"parsed", "failed"})
=============================================================================
