----------------------------- MODULE MCCapsule ------------------------------
(* Small instances of Capsule for TLC. *)
EXTENDS Capsule, TLC

CONSTANTS p1, p2, r1, r2, wrongKey

TwoProcs   == {p1, p2}
TwoRecords == {r1, r2}
RightWrong == {OldKey, wrongKey}
Eip191     == {"eip191"}
BothSchemes == {"eip191", "eip712"}

\* Commands and record ids are interchangeable.
Symmetry == Permutations(Procs) \cup Permutations(Records)
=============================================================================
