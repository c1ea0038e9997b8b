---------------------------- MODULE MCEvmClient -----------------------------
(* Small instances of EvmClient for TLC: one subject, one body.            *)
EXTENDS EvmClient, TLC

CONSTANTS p1, p2, owner, body, r1, r2, id, v

TwoProcs     == {p1, p2}
OwnerAndBody == {owner, body}
OneOwner     == {owner}
OneId        == {id}
OneCommit    == {v}
TwoRecords   == {r1, r2}
OneHour      == {1}

\* Commands and the vault's record ids are interchangeable.
Symmetry == Permutations(Procs) \cup Permutations(Records)
=============================================================================
