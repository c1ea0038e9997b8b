----------------------------- MODULE Registries -----------------------------
(***************************************************************************)
(* Both registries, given the same calls: the Solana program is said to be *)
(* semantically equivalent to the contract.  On Solana the calls are       *)
(* batched into transactions as the client likes; a registry that refuses  *)
(* a call stays as it is.  Both chains tell the same time.                 *)
(***************************************************************************)
EXTENDS EvmRegistry

CONSTANTS Zeroed, NoAccount, MaxBatch

\* NoAccount is no account.
ASSUME RegistriesConstants ==
  /\ NoAccount \notin [scopes : SUBSET Scopes, expires_at : Nat, revoked_at : Nat]
  /\ NoAccount \notin [commitment : Commits \cup {Zeroed}, funded : BOOLEAN]

VARIABLES records, leaseAccts, batch

solanaVars == <<records, leaseAccts, batch>>
vars == <<commit, index, leases, revokedAt, events, now, records, leaseAccts, batch>>

Solana == INSTANCE SolanaRegistry

\* A call goes to both registries.
Write(c, s, r, v) ==
  /\ \/ WriteMemory(c, s, r, v)
     \/ ~IsAuthorized(c, s, "WRITE") /\ UNCHANGED evmVars
  /\ \/ Solana!WriteMemory(c, s, r, v)
     \/ ~Solana!Authorize(c, s, "WRITE") /\ UNCHANGED solanaVars

Delete(c, s, r) ==
  /\ \/ DeleteMemory(c, s, r)
     \/ (~IsAuthorized(c, s, "DELETE") \/ commit[s][r] = None) /\ UNCHANGED evmVars
  /\ \/ Solana!DeleteMemory(c, s, r)
     \/ /\ ~Solana!Authorize(c, s, "DELETE") \/ records[s][r] = NoAccount
        /\ UNCHANGED solanaVars

Grant(s, b, scopes, expiresAt) ==
  GrantLease(s, b, scopes, expiresAt) /\ Solana!GrantLease(s, b, scopes, expiresAt)

Revoke(s, b) ==
  /\ RevokeLease(s, b)
  /\ \/ Solana!RevokeLease(s, b)
     \/ leaseAccts[s][b] = NoAccount /\ UNCHANGED solanaVars

\* Only the contract anchors; Solana's memo transactions touch no account of
\* the program.
Anchor(c, s) == AnchorMemoryRoot(c, s) /\ UNCHANGED solanaVars

EndTransaction == Solana!EndTransaction /\ UNCHANGED evmVars

\* A new block, once the Solana transaction under way has ended.
NewBlock ==
  /\ batch = 0
  /\ now < MaxTime
  /\ now' = now + 1
  /\ UNCHANGED <<evmVars, solanaVars>>

Init == EvmInit /\ Solana!SolanaInit

\* The scopes a lease is granted: those that change memory, or just reading.
Grantable == {{"READ"}, {"WRITE"}, {"WRITE", "DELETE"}}

Calls ==
  \/ \E c \in Parties, s \in Subjects, r \in Ids :
       Delete(c, s, r) \/ \E v \in Commits : Write(c, s, r, v)
  \/ \E c \in Parties, s \in Subjects : Anchor(c, s)
  \/ \E s \in Subjects, b \in Parties :
       \/ Revoke(s, b)
       \/ \E scopes \in Grantable, e \in 1..MaxTime + 1 : Grant(s, b, scopes, e)

Next == (Calls /\ UNCHANGED now) \/ (EndTransaction /\ UNCHANGED now) \/ NewBlock

Spec == Init /\ [][Next]_vars

-----------------------------------------------------------------------------
(* Properties.                                                             *)

\* Both registries agree at every moment on who may do what: through grants,
\* revocations (which the contract does by forgetting the lease and the
\* program by dating its revocation), regrants and expiry.
SameRights ==
  \A c \in Parties, s \in Subjects, scope \in Scopes :
    IsAuthorized(c, s, scope) <=> Solana!Authorize(c, s, scope)

\* Between transactions, a record on Solana is the one the contract holds, is
\* paid for, and is there if it was never deleted.
SolanaNeverStale ==
  batch = 0 =>
    \A s \in Subjects, r \in Ids :
      LET a == records[s][r] IN
      /\ a # NoAccount => a.funded /\ a.commitment = commit[s][r]
      /\ a = NoAccount /\ commit[s][r] # None => Emitted("MemoryDeleted", s, r) # {}

\* Semantic equivalence: between transactions both registries hold the same
\* records.
SameMemory ==
  batch = 0 =>
    \A s \in Subjects, r \in Ids : records[s][r] = NoAccount <=> commit[s][r] = None
=============================================================================
