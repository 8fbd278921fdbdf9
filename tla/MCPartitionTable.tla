-------------------------- MODULE MCPartitionTable --------------------------
(***************************************************************************)
(* Every table of up to MaxEntries entries over three partition extents,   *)
(* with and without a valid signature and checksum, of headers that say    *)
(* they are as long as they are and of longer ones.                        *)
(***************************************************************************)
EXTENDS PartitionTable, SequencesExt

CONSTANT MaxEntries

Extents == {<<4, 4>>, <<5, 6>>, <<7, 9>>}

MCEntries ==
  {[kind |-> "unused", firstLBA |-> 0, lastLBA |-> 0],
   [kind |-> "other", firstLBA |-> 10, lastLBA |-> 10]}
    \cup {[kind |-> "lvm", firstLBA |-> e[1], lastLBA |-> e[2]] : e \in Extents}

MCHeaders ==
  [signed : BOOLEAN, size : {HeaderSize, HeaderSize + 1}, crcMatches : BOOLEAN,
   firstLBA : {2}, entries : BoundedSeq(MCEntries, MaxEntries)]
=============================================================================
