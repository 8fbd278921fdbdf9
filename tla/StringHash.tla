----------------------------- MODULE StringHash -----------------------------
(***************************************************************************)
(* hashString of stringHash.c: the djb2 hash, at 64 bits, which the parser *)
(* keeps for the key of each node, and the constants parseMetadata.c       *)
(* compares it with.  hashBytes, which hashes the keys of a path, differs  *)
(* in where it stops and is part of NodeTree.                              *)
(*                                                                         *)
(* A hash is four limbs of 16 bits, the lowest first.                      *)
(***************************************************************************)
EXTENDS Integers, Sequences

NoString == ""  \* the empty string

CONSTANT Codes  \* what may be hashed, with the codes of its characters

Limb == 65536  \* 2 ^ 16

Limbs == 0 .. Limb - 1

Hash == Limbs \X Limbs \X Limbs \X Limbs

\* The constants of parseMetadata.c.
Constant(d, c, b, a) == <<a, b, c, d>>

KHash ==
  [id            |-> Constant(\h0000, \h0000, \h0cfb, \h66ec),
   device        |-> Constant(\h0000, \heaeb, \h4d97, \hcacf),
   dev_size      |-> Constant(\h03e7, \h52f5, \h1209, \hacb8),
   pe_start      |-> Constant(\h03e7, \h536b, \hf0e3, \h5441),
   pe_count      |-> Constant(\h03e7, \h536b, \hefbf, \h62dc),
   segment_count |-> Constant(\h69d8, \h2873, \h1cbe, \h319a),
   start_extent  |-> Constant(\h8766, \hb8e0, \hde29, \h2584),
   extent_count  |-> Constant(\h7dad, \hb102, \h6042, \h75ff),
   type          |-> Constant(\h0000, \h0037, \h3977, \h4241),
   stripe_count  |-> Constant(\h8769, \h7ace, \h17d5, \h787e),
   stripes       |-> Constant(\h001e, \h4859, \ha5ef, \heb29)]

\* char is signed, and a string ends at its zero byte.
ASSUME CodesAssumption ==
  /\ Codes \in [DOMAIN Codes -> Seq((-128 .. 127) \ {0})]
  /\ NoString \in DOMAIN Codes /\ Codes[NoString] = <<>>

\* Slip: the seed djb2 is usually given.
UsualSeed == <<5381, 0, 0, 0>>

\* 199999
Seed == <<3391, 3, 0, 0>>

\* The sums of the limbs with what is carried from the limb below; c may be
\* negative, and so may be what is carried.
Sums(hash, c) ==
  LET sum1 == hash[1] * 33 + c
      sum2 == hash[2] * 33 + sum1 \div Limb
      sum3 == hash[3] * 33 + sum2 \div Limb
  IN  <<sum1, sum2, sum3, hash[4] * 33 + sum3 \div Limb>>

\* (hash << 5) + hash + c
Added(hash, c) ==
  LET sums == Sums(hash, c)
  IN  <<sums[1] % Limb, sums[2] % Limb, sums[3] % Limb, sums[4] % Limb>>

\* The hash as it is after each of the characters of a key.
HashedUpTo(key) ==
  LET hashed[n \in 0 .. Len(Codes[key])] ==
        IF n = 0 THEN Seed ELSE Added(hashed[n - 1], Codes[key][n])
  IN  hashed

\* hashString: the hash of the whole string, and 0 for the NULL pointer, which
\* the empty string stands for.
HashString(key) ==
  IF key = NoString THEN <<0, 0, 0, 0>> ELSE HashedUpTo(key)[Len(Codes[key])]
=============================================================================
