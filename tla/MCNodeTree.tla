----------------------------- MODULE MCNodeTree -----------------------------
(***************************************************************************)
(* The trees of volume groups with keys at several depths, in lists and    *)
(* below one another; every form of path there is for getKeyPath.          *)
(***************************************************************************)
EXTENDS NodeTree, VolumeGroups

\* The codes of digits, capitals, the underscore and small letters.
From(characters, code) ==
  [c \in {SubSeq(characters, n, n) : n \in 1 .. Len(characters)} |->
     code - 1 + CHOOSE n \in 1 .. Len(characters) : SubSeq(characters, n, n) = c]

Code ==
  From("0123456789", 48) @@ From("ABCDEFGHIJKLMNOPQRSTUVWXYZ", 65)
    @@ From("_", 95) @@ From("abcdefghijklmnopqrstuvwxyz", 97)

Spelled(words) ==
  [w \in words |-> [n \in 1 .. Len(w) |-> Code[SubSeq(w, n, n)]]]

\* What the callbacks look for, and what else is in a volume group's text.
Vocabulary ==
  <<"id", "device", "dev_size", "pe_start", "pe_count", "segment_count",
    "start_extent", "extent_count", "type", "stripe_count", "stripes",
    "extent_size", "physical_volumes", "logical_volumes", "segment1", "segment2",
    "segment12", "status", "READ", "VISIBLE", "tags", "pv0", "pv1", "lv", "LV",
    "vl", "l", "root_node", "integer", "alpha", "beta">>

Keys == {"vg", "lv", "t", "stripes", "segment1", "nothing"}

Paths1 ==
  {[text |-> "", keys |-> <<>>], [text |-> "/", keys |-> <<>>],
   [text |-> "vg//lv", keys |-> <<"vg", "", "lv">>]}
    \cup {[text |-> k, keys |-> <<k>>] : k \in Keys \cup Range(Vocabulary)}
    \cup {[text |-> "/" \o k \o "/" \o l, keys |-> <<k, l>>] : k, l \in Keys}
    \cup {[text |-> k \o "/lv/" \o l \o "/", keys |-> <<k, "lv", l>>] :
             k, l \in Keys}

Documents1 ==
  {Root(<<>>), Root([n \in 1 .. Len(Vocabulary) |-> Num(Vocabulary[n], n)[1]]),
   Root(Tree("vg", Tree("lv", Tree("lv", Tree("lv", Num("t", 1)))))),
   Root(Num("lv", 1) \o Tree("vg", List("tags", Item("t") \o Item("") \o Item("lv"))
                                     \o Tree("empty", <<>>) \o List("flags", <<>>)
                                     \o Tree("lv", Num("n", 2)))),
   Group(PV("pv0", 2),
         VolumeTree("t", 1, SegmentTree(1, Tagged))
           \o VolumeTree("lv", 2,
                         SegmentTree(1, Deep) \o SegmentTree(2, Plain(1, 6))))}

\* Names of a user's in another alphabet have bytes above 127.
Codes1 ==
  [w \in UNION {{d[n].key : n \in DOMAIN d} : d \in Documents1}
            \cup Keys \cup {""} |->
     CASE w = "alpha" -> <<-50, -79>>
       [] w = "beta" -> <<-50, -78>>
       [] OTHER -> Spelled({w})[w]]

\* What the theorems that need it assume holds of these keys.
ASSUME MCHashesDistinct == HashesDistinct

MCDocuments == Documents1

MCPaths == Paths1

MCCodes == Codes1
=============================================================================
