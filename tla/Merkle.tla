------------------------------- MODULE Merkle -------------------------------
(***************************************************************************)
(* The Merkle root of rmem_hashes.py over terms in place of hashes: SHA-256*)
(* is taken to be collision-free, so the hash of a tuple of parts is that  *)
(* tuple.  Tuples of different lengths stand for different prefixes.       *)
(***************************************************************************)
EXTENDS Naturals, Sequences

\* A leaf is hashed under the prefix 0x00, two nodes under 0x01.
LeafHash(leaf)    == <<leaf>>
Node(left, right) == <<left, right>>

\* The root of no leaves, sha256(0x00).
EmptyRoot == <<>>

\* Mutated form of Combine: a lone trailing node is left out.
BugDropOdd(level) ==
  [i \in 1..Len(level) \div 2 |-> Node(level[2 * i - 1], level[2 * i])]

\* _merkle_combine: a lone trailing node is paired with itself.
Combine(level) ==
  LET At(i) == IF i <= Len(level) THEN level[i] ELSE level[Len(level)] IN
  [i \in 1..(Len(level) + 1) \div 2 |-> Node(At(2 * i - 1), At(2 * i))]

\* The loop of merkle_root_v2: combines level after level until one node is left.
Reduce(hashes) ==
  LET level[k \in 0..Len(hashes)] ==
        IF k = 0 THEN hashes
        ELSE IF Len(level[k - 1]) > 1 THEN Combine(level[k - 1])
        ELSE level[k - 1]
  IN level[Len(hashes)][1]

\* merkle_root_v2
MerkleRoot(leaves) ==
  IF leaves = <<>> THEN EmptyRoot
  ELSE Reduce([i \in 1..Len(leaves) |-> LeafHash(leaves[i])])
=============================================================================
