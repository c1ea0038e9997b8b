---------------------------- MODULE MCVaultStore ----------------------------
(* Small instances of VaultStore for TLC.                                  *)
EXTENDS VaultStore, TLC

CONSTANTS p1, p2, r1, r2, s1, s2, k1, k2

TwoProcs   == {p1, p2}
NoReaders  == {}
OneRecord  == {r1}
TwoRecords == {r1, r2}
OneSoul    == {s1}
TwoSouls   == {s1, s2}
OneKey     == {k1}
TwoKeys    == {k1, k2}

\* Processes, records, souls and keys are interchangeable; used only by runs
\* without liveness properties.
Symmetry ==
  Permutations(Procs) \cup Permutations(Records)
    \cup Permutations(Souls) \cup Permutations(Keys)
=============================================================================
