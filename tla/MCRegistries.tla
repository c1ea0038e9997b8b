---------------------------- MODULE MCRegistries ----------------------------
(* Small instances of Registries for TLC: one subject, one body.           *)
EXTENDS Registries, TLC

CONSTANTS owner, body, r1, r2, v1, v2

OwnerAndBody == {owner, body}
OneOwner     == {owner}
OneId        == {r1}
TwoIds       == {r1, r2}
TwoCommits   == {v1, v2}

\* Record ids and commitments are interchangeable.
Symmetry == Permutations(Ids) \cup Permutations(Commits)
=============================================================================
