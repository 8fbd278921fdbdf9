------------------------------ MODULE NodeTree ------------------------------
(***************************************************************************)
(* forEachNode, getKeyHash and getKeyPath of parseMetadata.c on linked     *)
(* nodes, with hashBytes of stringHash.c: the recursion is a stack of      *)
(* activations of forEachNodeRecurse, and each step is one byte hashed,    *)
(* one call of the callback or one return.                                 *)
(*                                                                         *)
(* A path is taken apart key by key, and the hash of each key is searched  *)
(* below the node that was found for the key before it.  A walk whose      *)
(* callback never returns a node is one for NoHash.                        *)
(***************************************************************************)
EXTENDS NodeSequence, StringHash

CONSTANT Paths  \* what getKeyPath is called with, and the keys it means

NULL == 0

NoHash == <<>>  \* no node has it

CharOf(text, p) == SubSeq(text, p, p)

\* Where the keys of a path begin: behind each slash, and at the first
\* character if that is none.
Starts(text) ==
  {p \in 1 .. Len(text) :
     IF p = 1 THEN CharOf(text, 1) # "/" ELSE CharOf(text, p - 1) = "/"}

\* A key is what stands from p to before the next slash or the end.
IsKeyAt(key, text, p) ==
  \E q \in p - 1 .. Len(text) :
    /\ key = SubSeq(text, p, q)
    /\ \A r \in p .. q : CharOf(text, r) # "/"
    /\ q < Len(text) => CharOf(text, q + 1) = "/"

\* The keys a path means are those that stand in it, one after the other.
ASSUME PathsAssumption ==
  /\ Paths \subseteq [text : STRING, keys : Seq(DOMAIN Codes)]
  /\ \A d \in Documents : \A n \in DOMAIN d : d[n].key \in DOMAIN Codes
  /\ \A p \in Paths :
       /\ Len(p.text) \in Nat /\ (Len(p.text) = 0 <=> p.text = NoString)
       /\ Len(p.keys) = Cardinality(Starts(p.text))
       /\ \A q \in Starts(p.text) :
            IsKeyAt(p.keys[Cardinality({r \in Starts(p.text) : r <= q})], p.text, q)

VARIABLES
  stage,   \* "path": in getKeyPath; "hash": in hashBytes; "root", "below":
           \* in forEachNode
  document,  \* the tree; never written
  hashes,  \* the hashes of the nodes; never written
  path,    \* the path; never written
  end,     \* the place in the path's text, counted from 1
  key,     \* the key that is searched for
  hash,    \* its hash, or that of its first bytes
  hashed,  \* how many bytes hashBytes has hashed
  root,    \* the node forEachNode was called for
  result,  \* what getKeyPath, or the walk, has found
  frames,  \* the activations of forEachNodeRecurse: their node and index
  calls    \* history: the calls of the callback by this forEachNode

INSTANCE Preorder

tree == <<document, hashes, path>>
search == <<end, key, hash, hashed, root>>
vars == <<stage, tree, search, result, frames, calls>>

TypeOK ==
  /\ stage \in {"path", "hash", "root", "below", "returned"}
  /\ document \in Documents
  /\ hashes \in [DOMAIN document -> Hash]
  /\ path \in Paths
  /\ end \in 1 .. Len(path.text) + 1
  /\ key \in DOMAIN Codes
  /\ hash \in Hash \cup {NoHash}
  /\ hashed \in 0 .. Len(Codes[key])
  /\ root \in DOMAIN document
  /\ result \in DOMAIN document \cup {NULL}
  /\ frames \in Seq([node : DOMAIN document \cup {NULL}, index : Nat])
  /\ calls \in Seq((DOMAIN document) \X Nat \X Nat)

Char(p) == CharOf(path.text, p)

\* Either getKeyPath is called for the root of the tree, or forEachNode for
\* any node and a callback that visits them all.
Init ==
  /\ document \in Documents
  /\ hashes = [p \in DOMAIN document |-> HashString(document[p].key)]
  /\ frames = <<>>
  /\ calls = <<>>
  /\ key = NoString /\ hash = NoHash /\ hashed = 0
  /\ \/ /\ stage = "path"
        /\ path \in Paths
        /\ end = IF path.text # NoString /\ Char(1) = "/" THEN 2 ELSE 1
        /\ root = 1
     \/ /\ stage = "root"
        /\ path \in {p \in Paths : p.text = NoString}
        /\ end = 1
        /\ root \in DOMAIN document
  /\ result = root

-----------------------------------------------------------------------------
(* The linked nodes, as the parser leaves them.                            *)

\* child or list, by the node's type; other types have nothing below.
Below(p) ==
  IF p + 1 \in DOMAIN document /\ document[p + 1].depth > document[p].depth
  THEN p + 1 ELSE NULL

NextOf(p) ==
  LET q == Max(Nodes(p)) + 1
  IN  IF q \in DOMAIN document /\ document[q].depth = document[p].depth
      THEN q ELSE NULL

-----------------------------------------------------------------------------
(* getKeyPath.                                                             *)

SlashFrom(p) ==
  Min({q \in p .. Len(path.text) : Char(q) = "/"} \cup {Len(path.text) + 1})

\* Slip: a step over the end of the text as over a slash.
OverTheEnd(p) == p + 1

\* What comes behind the key that ends before p.
Behind(p) == IF p <= Len(path.text) THEN p + 1 ELSE p

TakeKey ==
  /\ stage = "path"
  /\ result # NULL /\ end <= Len(path.text)
  /\ key' = SubSeq(path.text, end, SlashFrom(end) - 1)
  /\ end' = Behind(SlashFrom(end))
  /\ root' = result
  /\ calls' = <<>>
  /\ hash' = Seed /\ hashed' = 0
  /\ stage' = "hash"
  /\ UNCHANGED <<tree, result, frames>>

\* Slip: the last byte left out.
AtLastByte == hashed >= Len(Codes[key]) - 1

AllHashed == hashed = Len(Codes[key])

\* hashBytes, as many bytes as it is told.
HashByte ==
  /\ stage = "hash"
  /\ ~ AllHashed
  /\ hash' = Added(hash, Codes[key][hashed + 1])
  /\ hashed' = hashed + 1
  /\ UNCHANGED <<stage, tree, end, key, root, result, frames, calls>>

\* getKeyHash is called with the hash.
Search ==
  /\ stage = "hash"
  /\ AllHashed
  /\ stage' = "root"
  /\ UNCHANGED <<tree, search, result, frames, calls>>

PathReturns ==
  /\ stage = "path"
  /\ result = NULL \/ end > Len(path.text)
  /\ stage' = "returned"
  /\ UNCHANGED <<tree, search, result, frames, calls>>

-----------------------------------------------------------------------------
(* forEachNode and forEachNodeRecurse.                                     *)

\* The callback returns the node it is called with: hashMatchCallback.
Matches(p) == hashes[p] = hash

Returns(found) ==
  /\ result' = found
  /\ frames' = <<>>
  /\ stage' = "path"

CallRoot ==
  /\ stage = "root"
  /\ calls' = <<<<root, 0, 0>>>>
  /\ IF Matches(root) THEN Returns(root)
     ELSE IF document[root].type \in {"child", "list"}
     THEN /\ frames' = <<[node |-> Below(root), index |-> 0]>>
          /\ stage' = "below"
          /\ UNCHANGED result
     ELSE Returns(NULL)
  /\ UNCHANGED <<tree, search>>

Top == Last(frames)

\* Slip: the index counted through the lists below.
SameIndex(frame) == [node |-> NextOf(frame.node), index |-> frame.index]

\* The turn of an activation's loop: on to the node behind.
Turned(frame) == [node |-> NextOf(frame.node), index |-> frame.index + 1]

InTop(frame) == Append(Front(frames), frame)

Call ==
  /\ stage = "below"
  /\ Top.node # NULL
  /\ calls' = Append(calls, <<Top.node, Len(frames), Top.index>>)
  /\ IF Matches(Top.node) THEN Returns(Top.node)
     ELSE /\ frames' = IF Below(Top.node) # NULL
                       THEN Append(frames, [node |-> Below(Top.node), index |-> 0])
                       ELSE InTop(Turned(Top))
          /\ UNCHANGED <<stage, result>>
  /\ UNCHANGED <<tree, search>>

\* The activation that called the one that returns goes on.
GoOn(callers) == Append(Front(callers), Turned(Last(callers)))

Return ==
  /\ stage = "below"
  /\ Top.node = NULL
  /\ IF Len(frames) = 1 THEN Returns(NULL)
     ELSE frames' = GoOn(Front(frames)) /\ UNCHANGED <<stage, result>>
  /\ UNCHANGED <<tree, search, calls>>

Over ==
  /\ stage = "returned"
  /\ UNCHANGED vars

Next ==
  \/ TakeKey \/ HashByte \/ Search \/ PathReturns
  \/ CallRoot \/ Call \/ Return
  \/ Over

Spec == Init /\ [][Next]_vars

-----------------------------------------------------------------------------
(* Properties.                                                             *)

\* The n-th call is for the n-th node of the sequence from the root on, with
\* the depth and the index the sequence gives it.
CallsInOrder ==
  \A n \in DOMAIN calls :
    LET p == root + n - 1
    IN  /\ p \in Nodes(root)
        /\ calls[n] = <<p, document[p].depth - document[root].depth,
                        IF n = 1 THEN 0 ELSE Index(p)>>

\* A walk is over when it has called back for every node, or for the first
\* that has the hash.
WalkComplete ==
  (stage = "path" /\ calls # <<>>) =>
    /\ \A n \in DOMAIN calls :
         hashes[calls[n][1]] = hash <=> result # NULL /\ n = Len(calls)
    /\ IF result = NULL
       THEN Len(calls) = Cardinality(Nodes(root))
       ELSE result = calls[Len(calls)][1]

\* No node is known by the empty key, that of an empty string included.
FoundByHash(k, p) == IF k = NoString THEN {} ELSE Found(k, p)

\* The first node with the hash is the first with the key.
HashStandsForKey ==
  (stage = "path" /\ calls # <<>> /\ hash # NoHash) =>
    IF FoundByHash(key, root) = {}
    THEN result = NULL
    ELSE result = Min(FoundByHash(key, root))

\* The recursion is a walk over the sequence, and the search for a hash one
\* for the first node with the key: what VolumeCollection takes for granted,
\* though depth and index are all that is handed down, and keys are known by
\* 64 bits only (parseMetadata.c:155-252).
CallsFollowSequence == CallsInOrder /\ WalkComplete /\ HashStandsForKey

\* The nodes found for the first keys of the path, or NULL.
ResolvedUpTo ==
  LET resolved[n \in 0 .. Len(path.keys)] ==
        IF n = 0 THEN 1
        ELSE IF resolved[n - 1] = NULL THEN NULL
        ELSE LET found == FoundByHash(path.keys[n], resolved[n - 1])
             IN  IF found = {} THEN NULL ELSE Min(found)
  IN  resolved

Resolved == ResolvedUpTo[Len(path.keys)]

\* No two keys in use have the same hash, and none has that of the empty key
\* of a path or of the NULL pointer: 64 bits make it likely, nothing sees to it.
HashesDistinct ==
  \A k \in DOMAIN Codes \ {NoString} :
    /\ HashString(k) \notin {Seed, <<0, 0, 0, 0>>}
    /\ \A l \in DOMAIN Codes \ {NoString} : HashString(k) = HashString(l) => k = l

\* A path leads where its keys lead one after the other, each searched below
\* the one before; slashes in front and at the end make no difference, two in
\* a row lead nowhere, and no key of the metadata's vocabulary is taken for
\* another one with its hash (parseMetadata.c:240-281, stringHash.c:113-142).
PathResolved ==
  (stage = "returned" /\ (path.text # NoString \/ calls = <<>>)) =>
    result = Resolved

\* The callbacks know a node by its hash: each constant is the hash of the
\* key it is named for, at 64 bits and with the seed hashString uses, so no
\* attribute is passed over for a wrong constant (parseMetadata.c:676-764).
ConstantsAreHashes ==
  (stage = "root" /\ hash # NoHash /\ key \in DOMAIN KHash) =>
    hash = KHash[key]
=============================================================================
