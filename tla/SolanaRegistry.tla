--------------------------- MODULE SolanaRegistry ---------------------------
(***************************************************************************)
(* The registry program on Solana (solana-program/src/lib.rs): one account *)
(* per record and per lease.  A transaction is a batch of instructions,    *)
(* all or nothing; an account left without lamports is gone when it ends,  *)
(* and until then keeps its data.  An instruction that fails undoes its    *)
(* transaction, so it has no action.                                       *)
(***************************************************************************)
EXTENDS Integers

CONSTANTS
  Parties, Subjects, Ids, Commits,
  Zeroed,    \* what a record's data are filled with when it is deleted
  NoAccount, \* no account at this address
  MaxBatch   \* bound: instructions in a transaction

VARIABLES
  records,    \* subject -> record id -> account
  leaseAccts, \* subject -> body -> account
  batch,      \* instructions so far in the transaction under way
  now         \* Clock::unix_timestamp

solanaVars == <<records, leaseAccts, batch>>

\* authorize, given the lease account of subject and signer.
Authorize(signer, s, scope) ==
  \/ signer = s
  \/ /\ leaseAccts[s][signer] # NoAccount
     /\ leaseAccts[s][signer].revoked_at = 0
     /\ now < leaseAccts[s][signer].expires_at
     /\ scope \in leaseAccts[s][signer].scopes

Instruction == batch < MaxBatch /\ batch' = batch + 1

\* write_memory: the account is created, and paid for, if it has no data.
WriteMemory(signer, s, r, v) ==
  /\ Instruction
  /\ Authorize(signer, s, "WRITE")
  /\ records' = [records EXCEPT ![s][r] =
                   [commitment |-> v, funded |-> @ = NoAccount \/ @.funded]]
  /\ UNCHANGED leaseAccts

\* Mutated form of DeleteMemory: the data are zeroed, the lamports stay.
BugKeepsLamports(signer, s, r) ==
  /\ Instruction
  /\ Authorize(signer, s, "DELETE")
  /\ records[s][r] # NoAccount
  /\ records' = [records EXCEPT ![s][r] = [commitment |-> Zeroed, funded |-> TRUE]]
  /\ UNCHANGED leaseAccts

\* delete_memory: takes the lamports and zeroes the data.
DeleteMemory(signer, s, r) ==
  /\ Instruction
  /\ Authorize(signer, s, "DELETE")
  /\ records[s][r] # NoAccount
  /\ records' = [records EXCEPT ![s][r] = [commitment |-> Zeroed, funded |-> FALSE]]
  /\ UNCHANGED leaseAccts

\* grant_lease, by the subject.
GrantLease(s, b, scopes, expires_at) ==
  /\ Instruction
  /\ scopes # {} /\ expires_at > now
  /\ leaseAccts' = [leaseAccts EXCEPT ![s][b] =
                      [scopes |-> scopes, expires_at |-> expires_at, revoked_at |-> 0]]
  /\ UNCHANGED records

\* revoke_lease, by the subject: needs a lease, keeps its window.
RevokeLease(s, b) ==
  /\ Instruction
  /\ leaseAccts[s][b] # NoAccount
  /\ leaseAccts' = [leaseAccts EXCEPT ![s][b].revoked_at = now]
  /\ UNCHANGED records

\* The runtime ends the transaction.
EndTransaction ==
  /\ batch > 0
  /\ batch' = 0
  /\ records' = [s \in Subjects |-> [r \in Ids |->
                   IF records[s][r] # NoAccount /\ ~records[s][r].funded
                   THEN NoAccount ELSE records[s][r]]]
  /\ UNCHANGED leaseAccts

SolanaInit ==
  /\ records = [s \in Subjects |-> [r \in Ids |-> NoAccount]]
  /\ leaseAccts = [s \in Subjects |-> [b \in Parties |-> NoAccount]]
  /\ batch = 0
=============================================================================
