------------------------------ MODULE MCAnchor ------------------------------
(* Small instances of Anchor for TLC. *)
EXTENDS Anchor, TLC

CONSTANTS p1, p2, r1, r2

TwoProcs   == {p1, p2}
TwoRecords == {r1, r2}

\* Commands and record ids are interchangeable.
Symmetry == Permutations(Procs) \cup Permutations(Records)
=============================================================================
