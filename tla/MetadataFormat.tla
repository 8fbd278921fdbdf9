--------------------------- MODULE MetadataFormat ---------------------------
(***************************************************************************)
(* The text LVM writes for a volume group, as far as parseMetadata can     *)
(* tell: which places it consists of, and which nodes stand there.         *)
(*                                                                         *)
(* A place is where something begins: how deep it is nested, how many      *)
(* nodes the text before it means, and whether it is in a section, behind  *)
(* a key that has no value yet, in a list, or behind an element.  From one *)
(* place to the next there is one key, value, brace, comma, ... or layout. *)
(* Nothing here is about the parser's buffer, nodes or recursion.          *)
(*                                                                         *)
(* Keys are what parseMetadata.c:633 takes for one, a string has no quote  *)
(* in it (510), a number is digits: LVM also writes \" in strings, and     *)
(* names with a hyphen, a dot or a plus, and such texts are none of these. *)
(***************************************************************************)
EXTENDS MetadataText

Place == [at : Nat \ {0}, in : {"section", "key", "list", "element"},
          depth : Nat, nodes : Nat]

\* What a node of a written text is.
WrittenNode == [depth : Nat, key : STRING,
          type : {"child", "list", "string", "integer"},
          integer : Nat, string : STRING]

-----------------------------------------------------------------------------
(* Characters.                                                             *)

CharOf(whole, p) == SubSeq(whole, p, p)

\* All characters from p to before q are some of these.
Only(whole, p, q, chars) == \A r \in p .. q - 1 : CharOf(whole, r) \in chars

\* None of them is.
Without(whole, p, q, chars) == \A r \in p .. q - 1 : CharOf(whole, r) \notin chars

\* The digits from p on end before q, and the text does not.
DigitsEnd(whole, p, q) ==
  /\ p < q /\ q <= Len(whole)
  /\ Only(whole, p, q, Digits) /\ CharOf(whole, q) \notin Digits

\* The number that the digits from p to before q are, in the decimal system.
Decimal(whole, p, q) ==
  LET number[n \in 0 .. q - p] ==
        IF n = 0 THEN 0
        ELSE number[n - 1] * 10 + DigitValue[CharOf(whole, p + n - 1)]
  IN  number[q - p]

\* A quoted string from p to before q.
QuotedString(whole, p, q) ==
  /\ p < q - 1
  /\ CharOf(whole, p) = "\"" /\ CharOf(whole, q - 1) = "\""
  /\ Without(whole, p + 1, q - 1, {"\""})

Unquoted(whole, p, q) == SubSeq(whole, p + 1, q - 2)

\* An equals sign at p and blanks to before v.
Assigns(whole, p, v) ==
  CharOf(whole, p) = "=" /\ p < v /\ Only(whole, p + 1, v, {" ", "\t"})

-----------------------------------------------------------------------------
(* What stands between a place s and the next place t.  Layout changes     *)
(* only the place.                                                         *)

Further(s, t) == s.at < t.at /\ t = [s EXCEPT !.at = t.at]

CommentLine(whole, s, t) ==
  /\ s.in = "section" /\ Further(s, t)
  /\ CharOf(whole, s.at) = "#"
  /\ \/ /\ s.at + 1 < t.at
        /\ Without(whole, s.at, t.at - 1, {"\n"})
        /\ CharOf(whole, t.at - 1) = "\n"
     \/ /\ t.at = Len(whole) + 1
        /\ Without(whole, s.at, t.at, {"\n"})

LineEnd(whole, s, t) ==
  /\ s.in = "section" /\ Further(s, t)
  /\ CharOf(whole, s.at) = "\n"
  /\ Only(whole, s.at, t.at, {"\n", "\t", " "})
  /\ t.at <= Len(whole) => CharOf(whole, t.at) \notin {"\n", "\t", " "}

Blanks(whole, s, t) ==
  /\ Further(s, t) /\ t.at = s.at + 1
  /\ CharOf(whole, s.at) \in {" ", "\t"} \cup (IF s.in \in {"list", "element"}
                                                THEN {"\n"} ELSE {})

\* A key and the blank behind it: the node after those so far.
KeyWord(w, s, t) ==
  /\ s.in = "section" /\ s.at + 1 < t.at
  /\ Only(w.text, s.at, t.at - 1, Word)
  /\ CharOf(w.text, t.at - 1) \in {" ", "\t"}
  /\ t = [s EXCEPT !.at = t.at, !.in = "key", !.nodes = @ + 1]
  /\ w.nodes[t.nodes].depth = s.depth
  /\ w.nodes[t.nodes].key = SubSeq(w.text, s.at, t.at - 2)

\* A node without a value of its own.
Bare(x) == x.integer = 0 /\ x.string = ""

Opens(w, s, t, type, in) ==
  /\ s.in = "key" /\ s.at < t.at
  /\ t = [s EXCEPT !.at = t.at, !.in = in, !.depth = @ + 1]
  /\ w.nodes[s.nodes].type = type
  /\ Bare(w.nodes[s.nodes])

SectionStart(w, s, t) ==
  /\ Opens(w, s, t, "child", "section") /\ t.at = s.at + 1
  /\ CharOf(w.text, s.at) = "{"

SectionEnd(w, s, t) ==
  /\ s.in = "section" /\ s.depth > 1
  /\ CharOf(w.text, s.at) = "}"
  /\ t = [s EXCEPT !.at = @ + 1, !.depth = @ - 1]

ListStart(w, s, t) ==
  /\ Opens(w, s, t, "list", "list")
  /\ Assigns(w.text, s.at, t.at - 1)
  /\ CharOf(w.text, t.at - 1) = "["

StringAssigned(w, s, t) ==
  /\ s.in = "key" /\ s.at < t.at
  /\ t = [s EXCEPT !.at = t.at, !.in = "section"]
  /\ w.nodes[s.nodes].type = "string" /\ w.nodes[s.nodes].integer = 0
  /\ \E v \in s.at + 1 .. t.at - 1 :
       /\ Assigns(w.text, s.at, v) /\ QuotedString(w.text, v, t.at)
       /\ w.nodes[s.nodes].string = Unquoted(w.text, v, t.at)

IntegerAssigned(w, s, t) ==
  /\ s.in = "key" /\ s.at < t.at
  /\ t = [s EXCEPT !.at = t.at, !.in = "section"]
  /\ w.nodes[s.nodes].type = "integer" /\ w.nodes[s.nodes].string = ""
  /\ \E v \in s.at + 1 .. t.at - 1 :
       /\ Assigns(w.text, s.at, v) /\ DigitsEnd(w.text, v, t.at)
       /\ w.nodes[s.nodes].integer = Decimal(w.text, v, t.at)

\* The element is the node after those so far, and will be one of them when
\* it has ended.
ElementBegins(w, s, t) ==
  /\ s.in = "list" /\ s.at < t.at
  /\ t = [s EXCEPT !.at = t.at, !.in = "element"]
  /\ s.nodes < Len(w.nodes) /\ w.nodes[s.nodes + 1].depth = s.depth

StringElement(w, s, t) ==
  /\ ElementBegins(w, s, t)
  /\ QuotedString(w.text, s.at, t.at)
  /\ LET string == Unquoted(w.text, s.at, t.at)
     IN  w.nodes[s.nodes + 1] = [depth |-> s.depth, key |-> string, type |-> "string",
                                 integer |-> 0, string |-> string]

IntegerElement(w, s, t) ==
  /\ ElementBegins(w, s, t)
  /\ DigitsEnd(w.text, s.at, t.at)
  /\ w.nodes[s.nodes + 1] = [depth |-> s.depth, key |-> "integer", type |-> "integer",
                             integer |-> Decimal(w.text, s.at, t.at), string |-> ""]

ElementEnds(w, s, t) ==
  /\ s.in = "element"
  /\ CharOf(w.text, s.at) = ","
  /\ t = [s EXCEPT !.at = @ + 1, !.in = "list", !.nodes = @ + 1]

ListEnd(w, s, t) ==
  /\ s.in \in {"list", "element"}
  /\ CharOf(w.text, s.at) = "]"
  /\ t = [s EXCEPT !.at = @ + 1, !.in = "section", !.depth = @ - 1,
                   !.nodes = IF s.in = "element" THEN @ + 1 ELSE @]

Stands(w, s, t) ==
  \/ CommentLine(w.text, s, t) \/ LineEnd(w.text, s, t) \/ Blanks(w.text, s, t)
  \/ KeyWord(w, s, t) \/ SectionStart(w, s, t) \/ SectionEnd(w, s, t)
  \/ StringAssigned(w, s, t) \/ IntegerAssigned(w, s, t)
  \/ ListStart(w, s, t) \/ ListEnd(w, s, t)
  \/ StringElement(w, s, t) \/ IntegerElement(w, s, t) \/ ElementEnds(w, s, t)

RootNode ==
  [depth |-> 0, key |-> "root_node", type |-> "child", integer |-> 0, string |-> ""]

\* The nodes are what the text says, from its beginning to its end, where it
\* is at most a newline short: a list is not the last thing in it.
Says(w) ==
  LET places == w.places
  IN  /\ w.nodes \in Seq(WrittenNode) /\ places \in Seq(Place)
      /\ Len(w.text) > 0 /\ Len(places) > 0
      /\ w.nodes # <<>> /\ w.nodes[1] = RootNode
      /\ places[1] = [at |-> 1, in |-> "section", depth |-> 1, nodes |-> 1]
      /\ places[Len(places)] = [at |-> Len(w.text) + 1, in |-> "section", depth |-> 1,
                                nodes |-> Len(w.nodes)]
      /\ \A k \in 1 .. Len(places) - 1 :
           /\ Stands(w, places[k], places[k + 1])
           /\ places[k + 1].at <= Len(w.text) + 1
           /\ places[k + 1].nodes <= Len(w.nodes)
           /\ places[k].in \in {"list", "element"} => k + 1 < Len(places)

ASSUME FormatAssumption == \A w \in Written : Says(w)

\* Strings are sequences of characters: a piece of no length is empty, and
\* texts that begin alike have the same pieces there.
ASSUME PiecesAssumption ==
  /\ \A block \in Texts :
       \A p \in 1 .. Len(block) + 1 :
         SubSeq(block, p, p - 1) = "" /\ SubSeq(block, p, p - 2) = ""
  /\ \A w \in Written :
       /\ Len(w.text) \in Nat
       /\ \A p \in 1 .. Len(w.text) :
            /\ SubSeq(w.text, p, p - 1) = ""
            /\ \A q \in p .. Len(w.text) : SubSeq(w.text, p, q) # ""
  /\ \A block \in Texts, w \in Written :
       \A q \in 1 .. Len(block) :
         (q <= Len(w.text) /\ SubSeq(block, 1, q) = SubSeq(w.text, 1, q)) =>
            \A p \in 1 .. q : /\ SubSeq(block, p, q) = SubSeq(w.text, p, q)
                            /\ SubSeq(block, 1, p) = SubSeq(w.text, 1, p)
=============================================================================
