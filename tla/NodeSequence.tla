---------------------------- MODULE NodeSequence ----------------------------
(***************************************************************************)
(* The tree of the metadata as parseMetadata.c sees it through forEachNode *)
(* and getKeyPath: the sequence of its nodes in the order they are         *)
(* visited, each with its depth (Preorder).  Node 1 is the root.           *)
(* MetadataText builds such trees, NodeTree shows that the walks over      *)
(* linked nodes are walks over this sequence, and VolumeCollection uses    *)
(* them as such.                                                           *)
(*                                                                         *)
(* Keys stand for their hashes (StringHash).                               *)
(***************************************************************************)
EXTENDS Integers, SequencesExt

CONSTANT Documents  \* the metadata trees

Types == {"child", "list", "string", "integer"}

\* The segment of a key that does not begin with "segment".
NotSegment == -1

\* A string of a list has itself for a key, an integer "integer".  segment
\* is what atoi makes of the rest of a key such as segment1.  The empty
\* string stands for the NULL pointer that dupString makes of it.
Node == [depth : Nat, key : STRING, type : Types, integer : Nat,
         string : STRING, segment : Nat \cup {NotSegment}]

\* Only trees and lists have nodes below them.
ASSUME DocumentsAssumption ==
  \A d \in Documents :
    /\ d \in Seq(Node) \ {<<>>}
    /\ d[1].depth = 0
    /\ \A p \in 2 .. Len(d) :
         /\ d[p].depth \in 1 .. d[p - 1].depth + 1
         /\ d[p].depth > d[p - 1].depth => d[p - 1].type \in {"child", "list"}
=============================================================================
