---------------------------- MODULE VolumeGroups ----------------------------
(***************************************************************************)
(* Builders for the metadata trees of volume groups, for model checking: a *)
(* tree is the sequence of its nodes (NodeSequence), put together from     *)
(* leaves and from trees under a node.                                     *)
(***************************************************************************)
EXTENDS Integers, Sequences

\* A node with a depth relative to the node it is put under.
Leaf(key, type) ==
  [depth |-> 0, key |-> key, type |-> type, integer |-> 0, string |-> "",
   segment |-> -1]

Num(key, n) == <<[Leaf(key, "integer") EXCEPT !.integer = n]>>

Str(key, string) == <<[Leaf(key, "string") EXCEPT !.string = string]>>

Under(node, nodes) ==
  <<node>> \o [n \in 1 .. Len(nodes) |-> [nodes[n] EXCEPT !.depth = @ + 1]]

Tree(key, nodes) == Under(Leaf(key, "child"), nodes)

List(key, nodes) == Under(Leaf(key, "list"), nodes)

\* An element of a list.
Item(string) == Str(string, string)

Count(n) == Num("integer", n)

SegmentNames == <<"segment0", "segment1", "segment2">>

SegmentTree(n, nodes) ==
  Under([Leaf(SegmentNames[n + 1], "child") EXCEPT !.segment = n], nodes)

Stripes(name, extent) == List("stripes", Item(name) \o Count(extent))

\* What the metadata writer puts into a segment, and other orders.
Plain(start, extent) ==
  Num("start_extent", start) \o Num("extent_count", start + 1)
    \o Str("type", "striped") \o Num("stripe_count", 1) \o Stripes("pv0", extent)

Shuffled(start, extent) ==
  Num("stripe_count", 1) \o Stripes("pv0", extent)
    \o Num("extent_count", start + 1) \o Num("start_extent", start)

Striped(start) ==
  Num("extent_count", 2) \o Num("stripe_count", 2) \o Num("stripe_size", 8)
    \o List("stripes", Item("pv0") \o Count(3) \o Item("pv1") \o Count(5))
    \o Num("start_extent", start)

Tagged == List("tags", Item("t")) \o Plain(0, 1)

\* Nothing is expected this deep; the walk passes it.
Deep == Plain(0, 1) \o Tree("extra", Tree("more", Num("start_extent", 7)))

VolumeTree(name, count, nodes) ==
  Tree(name, List("status", Item("READ") \o Item("VISIBLE"))
               \o Num("segment_count", count) \o nodes)

PV(name, n) ==
  Tree(name, Str("id", name) \o Str("device", "disk") \o Num("dev_size", n)
               \o Num("pe_start", n) \o Num("pe_count", n + 1))

Root(nodes) == Under(Leaf("root_node", "child"), nodes)

Group(pvs, lvs) ==
  Root(Tree("vg", Num("extent_size", 2) \o Tree("physical_volumes", pvs)
                    \o Tree("logical_volumes", lvs)))
=============================================================================
