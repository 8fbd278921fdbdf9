--------------------------- MODULE MCMetadataText ---------------------------
(***************************************************************************)
(* The texts of two volume groups in four layouts, those of the smaller    *)
(* one cut off at every place too, and every short sequence of the         *)
(* characters that mean something to the parser.                           *)
(***************************************************************************)
EXTENDS MetadataFormat, VolumeGroups

CONSTANT MaxChars

\* How a text is laid out: what begins a line of depth n, what ends a line,
\* what opens a list and stands between its elements, how many characters
\* of the last line's end are missing.
Layout(tab, end, open, comma, missing) ==
  [tab |-> tab, end |-> end, open |-> open, comma |-> comma, missing |-> missing]

Layouts ==
  {Layout("\t", "\n", "[", ", ", 0), Layout("", "\n", "[", ", ", 1),
   Layout("", " # \"{ = [\n\n", "[\n\t", ",\n", 0),
   Layout("  ", "\n# }\n \t\n", " [ ", ",", 0)}

Quoted(s) == "\"" \o s \o "\""

Value(node) ==
  IF node.type = "string" THEN Quoted(node.string) ELSE ToString(node.integer)

\* The text of nodes in a layout; from[p] is the text of node p and the nodes
\* beside it that follow it.
TextOf(nodes, layout) ==
  LET has(p, depth) == p <= Len(nodes) /\ nodes[p].depth = depth
      parent(p) == nodes[Max({q \in 1 .. p - 1 : has(q, nodes[p].depth - 1)})]
      after(p) == Min({q \in p + 1 .. Len(nodes) : nodes[q].depth <= nodes[p].depth}
                        \cup {Len(nodes) + 1})
      tabs[n \in Nat] == IF n = 0 THEN "" ELSE layout.tab \o tabs[n - 1]
      from[p \in 1 .. Len(nodes)] ==
        LET node == nodes[p]
            margin == tabs[node.depth - 1]
            below == IF has(p + 1, node.depth + 1) THEN from[p + 1] ELSE ""
            next == IF has(after(p), node.depth) THEN from[after(p)] ELSE ""
        IN  IF parent(p).type = "list"
            THEN Value(node) \o (IF next = "" THEN "" ELSE layout.comma \o next)
            ELSE margin \o node.key
                   \o (CASE node.type = "child" ->
                               " {" \o layout.end \o below \o margin \o "}"
                          [] node.type = "list" ->
                               " = " \o layout.open \o below \o "]"
                          [] OTHER -> " = " \o Value(node))
                   \o layout.end \o next
  IN  from[2]

\* What the parser makes of a node: no number of a segment.
Plainly(nodes) ==
  [n \in 1 .. Len(nodes) |->
     [f \in {"depth", "key", "type", "integer", "string"} |-> nodes[n][f]]]

\* No piece of these texts is longer.
Longest == 24

\* The places of a text, from its beginning on.
PlacesOf(w) ==
  LET next(s) ==
        CHOOSE t \in {[at |-> q, in |-> in, depth |-> depth, nodes |-> nodes] :
                        q \in s.at + 1 .. Min({s.at + Longest, Len(w.text) + 1}),
                        in \in {"section", "key", "list", "element"},
                        depth \in s.depth - 1 .. s.depth + 1,
                        nodes \in s.nodes .. Min({s.nodes + 1, Len(w.nodes)})} :
          Stands(w, s, t)
      from[s \in Place] == IF s.at > Len(w.text) THEN <<s>> ELSE <<s>> \o from[next(s)]
  IN  from[[at |-> 1, in |-> "section", depth |-> 1, nodes |-> 1]]

Writing(nodes, layout) ==
  LET whole == TextOf(nodes, layout)
      w == [text |-> SubSeq(whole, 1, Len(whole) - layout.missing),
            nodes |-> Plainly(nodes)]
  IN  [text |-> w.text, nodes |-> w.nodes, places |-> PlacesOf(w)]

VG ==
  Group(PV("pv0", 2048),
        VolumeTree("home_0", 2, SegmentTree(2, Plain(1, 6))
                                  \o SegmentTree(1, Striped(0))))

Small ==
  Root(Num("version", 10)
         \o Tree("vg", Str("id", "q") \o List("flags", <<>>) \o Tree("lv", <<>>)
                         \o List("tags", Item("t") \o Count(12)))
         \o Str("description", ""))

Writings == {Writing(nodes, layout) : nodes \in {VG, Small}, layout \in Layouts}

\* TLC evaluates Writings once, and what a constant is replaced by each time.
MCWritten == Writings

Cuts ==
  UNION {{SubSeq(written.text, 1, n) \o zeros :
            n \in 1 .. Len(written.text), zeros \in {"", Zero \o Zero}} :
           written \in {Writing(Small, layout) : layout \in Layouts}}

Alphabet == {"a", " ", "\n", "=", "{", "}", "[", "]", "\"", "1", "#", ","}

Sentences[n \in Nat] ==
  IF n = 0 THEN {""}
  ELSE Sentences[n - 1] \cup {s \o c : s \in Sentences[n - 1], c \in Alphabet}

\* Short texts, and the same within a tree and within a list.
MCTexts ==
  {written.text : written \in MCWritten} \cup Cuts
    \cup {opening \o s : opening \in {"", "ab {", "ab {cd {ef ", "ab = [", "ab { = [1, "},
                         s \in Sentences[MaxChars]}
=============================================================================
