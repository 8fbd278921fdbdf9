------------------------------ MODULE Preorder ------------------------------
(***************************************************************************)
(* A tree as the sequence of its nodes in the order forEachNode visits     *)
(* them, each with its depth: which nodes are below a node and beside it,  *)
(* and what a lookup by key finds, are read off that sequence.  The        *)
(* modules that use this one have the tree in a variable.                  *)
(***************************************************************************)
EXTENDS Integers, SequencesExt

CONSTANT document

\* Node p and the nodes below it.
Nodes(p) ==
  {q \in p .. Len(document) :
     \A r \in p + 1 .. q : document[r].depth > document[p].depth}

Children(p) ==
  {q \in Nodes(p) : document[q].depth = document[p].depth + 1}

\* The place of node q among its siblings, counted from 0.
Index(q) ==
  Cardinality({r \in 1 .. q - 1 :
                 /\ document[r].depth = document[q].depth
                 /\ \A s \in r .. q : document[s].depth >= document[q].depth})

\* What getKeyPath finds under node p: the first node with that key, p
\* itself included, at whatever depth, be it an element of a list.
Found(key, p) == {q \in Nodes(p) : document[q].key = key}
=============================================================================
