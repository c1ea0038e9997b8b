---------------------------- MODULE AuditedIndex ----------------------------
(***************************************************************************)
(* What the vault promises its callers, without files, processes or hash   *)
(* chain: an index of records and a log, such that no change to the index  *)
(* is ever visible without the log entry that accounts for it, and nothing *)
(* is logged that did not happen.  A record is put once, by one soul, and  *)
(* once tombstoned stays tombstoned.                                       *)
(***************************************************************************)
EXTENDS Sequences, Naturals

CONSTANTS Records, Souls, Null, ReadOps

VARIABLES index, log

Log(op, s, r) == log' = Append(log, [op |-> op, soul |-> s, rec |-> r])

Init ==
  /\ index = [r \in Records |-> [status |-> "none", soul |-> Null]]
  /\ log = <<>>

\* The vault is set up, once.
SetUp ==
  /\ \A i \in DOMAIN log : log[i].op # "vault.init"
  /\ Log("vault.init", Null, Null)
  /\ UNCHANGED index

Put(r, s) ==
  /\ index[r].status = "none"
  /\ index' = [index EXCEPT ![r] = [status |-> "active", soul |-> s]]
  /\ Log("put", s, r)

\* Two callers may each be told they tombstoned the record.
Tombstone(r) ==
  /\ index[r].status # "none"
  /\ index' = [index EXCEPT ![r].status = "tombstoned"]
  /\ Log("tombstone", index[r].soul, r)

\* A read is logged under the record's soul, and as a read of a tombstoned
\* record only if it is one; a read that found the record active may be
\* logged after the record was tombstoned.
Read(r, op) ==
  /\ index[r].status # "none"
  /\ op = "read.tombstoned" => index[r].status = "tombstoned"
  /\ Log(op, index[r].soul, r)
  /\ UNCHANGED index

Next ==
  \/ SetUp
  \/ \E r \in Records, s \in Souls : Put(r, s)
  \/ \E r \in Records : Tombstone(r)
  \/ \E r \in Records, op \in ReadOps : Read(r, op)

Spec == Init /\ [][Next]_<<index, log>>
=============================================================================
