--------------------------- MODULE RegistryProofs ---------------------------
(***************************************************************************)
(* Proofs about the registries, for any parties, records, commitments and  *)
(* bounds: the contract implements MemoryRights, its events tell its       *)
(* memory, and the Solana program grants the same rights at every moment.  *)
(***************************************************************************)
EXTENDS Registries, EvmRegistryProofs

\* Scopes that are granted are scopes, and some.
LEMMA GrantableScopes == Grantable \subseteq (SUBSET Scopes) \ {{}}
  BY DEF Grantable, Scopes

\* A step of both registries is, for the contract, a call, nothing, or a block.
LEMMA EvmSteps ==
  ASSUME [Next]_vars
  PROVE  EvmStep
  <1>1. ASSUME Calls PROVE EvmCall \/ UNCHANGED evmVars
    <2>1. ASSUME NEW c \in Parties, NEW s \in Subjects, NEW r \in Ids, Delete(c, s, r)
          PROVE  EvmCall \/ UNCHANGED evmVars
      BY <2>1 DEF Delete, EvmCall
    <2>2. ASSUME NEW c \in Parties, NEW s \in Subjects, NEW r \in Ids, NEW v \in Commits,
                 Write(c, s, r, v)
          PROVE  EvmCall \/ UNCHANGED evmVars
      BY <2>2 DEF Write, EvmCall
    <2>3. ASSUME NEW c \in Parties, NEW s \in Subjects, Anchor(c, s)
          PROVE  EvmCall
      BY <2>3 DEF Anchor, EvmCall
    <2>4. ASSUME NEW s \in Subjects, NEW b \in Parties, Revoke(s, b)
          PROVE  EvmCall
      BY <2>4 DEF Revoke, EvmCall
    <2>5. ASSUME NEW s \in Subjects, NEW b \in Parties, NEW scopes \in Grantable,
                 NEW e \in 1..MaxTime + 1, Grant(s, b, scopes, e)
          PROVE  EvmCall
      BY <2>5, GrantableScopes, EvmConstants DEF Grant, EvmCall
    <2>6. QED
      BY <1>1, <2>1, <2>2, <2>3, <2>4, <2>5 DEF Calls
  <1>2. QED
    BY <1>1 DEF Next, EndTransaction, NewBlock, vars, evmVars, EvmStep

-----------------------------------------------------------------------------
(* Types.                                                                  *)

\* The contract's storage always has its types: a lease is there with scopes and
\* a date, or not at all.
THEOREM EvmTyping == Spec => []EvmTypeOK
  <1>1. Init => EvmTypeOK
    BY EvmTypeInit DEF Init
  <1>2. EvmTypeOK /\ [Next]_vars => EvmTypeOK'
    BY EvmSteps, EvmTypeStep
  <1>3. QED
    BY <1>1, <1>2, PTL DEF Spec

-----------------------------------------------------------------------------
(* Equal rights.  A lease account and the contract's lease of one body are  *)
(* in one of three relations: neither was ever granted, both hold the same  *)
(* window and scopes, or both were revoked, each in its own way.            *)

LeaseAcct == [scopes : SUBSET Scopes, expires_at : Nat, revoked_at : Nat]

Unknown(s, b) == leaseAccts[s][b] = NoAccount /\ leases[s][b] = NoLease

SameLease(s, b) ==
  /\ leaseAccts[s][b] # NoAccount
  /\ leaseAccts[s][b].revoked_at = 0 /\ revokedAt[s][b] = 0
  /\ leaseAccts[s][b].expires_at = leases[s][b].expiresAt
  /\ leaseAccts[s][b].scopes = leases[s][b].scopes

BothRevoked(s, b) ==
  /\ leaseAccts[s][b] # NoAccount
  /\ leaseAccts[s][b].revoked_at # 0
  /\ leases[s][b] = NoLease

LeasesCorrespond ==
  /\ leaseAccts \in [Subjects -> [Parties -> LeaseAcct \cup {NoAccount}]]
  /\ \A s \in Subjects, b \in Parties :
       Unknown(s, b) \/ SameLease(s, b) \/ BothRevoked(s, b)

\* What corresponds grants the same rights.
LEMMA CorrespondingRights == EvmTypeOK /\ LeasesCorrespond => SameRights
  <1> SUFFICES ASSUME EvmTypeOK, LeasesCorrespond,
                      NEW c \in Parties, NEW s \in Subjects, NEW scope \in Scopes
               PROVE  IsAuthorized(c, s, scope) <=> Solana!Authorize(c, s, scope)
    BY DEF SameRights
  <1>1. leases[s][c] \in LeaseType /\ now \in Nat
    BY DEF EvmTypeOK
  <1>2. CASE Unknown(s, c)
    BY <1>1, <1>2 DEF Unknown, NoLease, IsAuthorized, Solana!Authorize
  <1>3. CASE SameLease(s, c)
    BY <1>1, <1>3 DEF SameLease, IsAuthorized, Solana!Authorize
  <1>4. CASE BothRevoked(s, c)
    BY <1>1, <1>4 DEF BothRevoked, NoLease, IsAuthorized, Solana!Authorize
  <1>5. QED
    BY <1>2, <1>3, <1>4 DEF LeasesCorrespond

\* Only grants and revocations touch leases.
LEMMA LeaseSteps ==
  ASSUME [Next]_vars
  PROVE  \/ UNCHANGED <<leases, revokedAt, leaseAccts>>
         \/ \E s \in Subjects, b \in Parties : Revoke(s, b)
         \/ \E s \in Subjects, b \in Parties, scopes \in Grantable, e \in 1..MaxTime + 1 :
              Grant(s, b, scopes, e)
  <1>1. ASSUME NEW c \in Parties, NEW s \in Subjects, NEW r \in Ids, Delete(c, s, r)
        PROVE  UNCHANGED <<leases, revokedAt, leaseAccts>>
    BY <1>1 DEF Delete, DeleteMemory, Solana!DeleteMemory, evmVars, solanaVars
  <1>2. ASSUME NEW c \in Parties, NEW s \in Subjects, NEW r \in Ids, NEW v \in Commits,
               Write(c, s, r, v)
        PROVE  UNCHANGED <<leases, revokedAt, leaseAccts>>
    BY <1>2 DEF Write, WriteMemory, Solana!WriteMemory, evmVars, solanaVars
  <1>3. ASSUME NEW c \in Parties, NEW s \in Subjects, Anchor(c, s)
        PROVE  UNCHANGED <<leases, revokedAt, leaseAccts>>
    BY <1>3 DEF Anchor, AnchorMemoryRoot, evmState, solanaVars
  <1>4. ASSUME EndTransaction \/ NewBlock \/ UNCHANGED vars
        PROVE  UNCHANGED <<leases, revokedAt, leaseAccts>>
    BY <1>4 DEF EndTransaction, Solana!EndTransaction, NewBlock, vars, evmVars, solanaVars
  <1>5. QED
    BY <1>1, <1>2, <1>3, <1>4 DEF Next, Calls

LEMMA CorrespondStep ==
  EvmTypeOK /\ LeasesCorrespond /\ [Next]_vars => LeasesCorrespond'
  <1> SUFFICES ASSUME EvmTypeOK, LeasesCorrespond, [Next]_vars PROVE LeasesCorrespond'
    OBVIOUS
  <1>1. CASE UNCHANGED <<leases, revokedAt, leaseAccts>>
    BY <1>1 DEF LeasesCorrespond, Unknown, SameLease, BothRevoked
  <1>2. ASSUME NEW s \in Subjects, NEW b \in Parties, NEW scopes \in Grantable,
               NEW e \in 1..MaxTime + 1, Grant(s, b, scopes, e)
        PROVE  LeasesCorrespond'
    <2> DEFINE acct == [scopes |-> scopes, expires_at |-> e, revoked_at |-> 0]
               lease == [expiresAt |-> e, scopes |-> scopes]
    <2>1. acct \in LeaseAcct /\ acct # NoAccount
      BY GrantableScopes, EvmConstants, RegistriesConstants DEF LeaseAcct
    <2>2. /\ leases' = [leases EXCEPT ![s][b] = lease]
          /\ revokedAt' = [revokedAt EXCEPT ![s][b] = 0]
          /\ leaseAccts' = [leaseAccts EXCEPT ![s][b] = acct]
      BY <1>2 DEF Grant, GrantLease, Solana!GrantLease
    <2>3. leaseAccts' \in [Subjects -> [Parties -> LeaseAcct \cup {NoAccount}]]
      BY <2>1, <2>2 DEF LeasesCorrespond
    <2>4. ASSUME NEW t \in Subjects, NEW c \in Parties
          PROVE  (Unknown(t, c) \/ SameLease(t, c) \/ BothRevoked(t, c))'
      <3>1. CASE t = s /\ c = b
        <4>1. leases'[t][c] = lease /\ revokedAt'[t][c] = 0 /\ leaseAccts'[t][c] = acct
          BY <2>2, <3>1 DEF LeasesCorrespond, EvmTypeOK
        <4>2. QED
          BY <2>1, <4>1 DEF SameLease
      <3>2. CASE t # s \/ c # b
        <4>1. /\ leases'[t][c] = leases[t][c] /\ revokedAt'[t][c] = revokedAt[t][c]
              /\ leaseAccts'[t][c] = leaseAccts[t][c]
          BY <2>2, <3>2 DEF LeasesCorrespond, EvmTypeOK
        <4>2. QED
          BY <4>1 DEF LeasesCorrespond, Unknown, SameLease, BothRevoked
      <3>3. QED
        BY <3>1, <3>2
    <2>5. QED
      BY <2>3, <2>4 DEF LeasesCorrespond
  <1>3. ASSUME NEW s \in Subjects, NEW b \in Parties, Revoke(s, b)
        PROVE  LeasesCorrespond'
    <2>1. /\ leases' = [leases EXCEPT ![s][b] = NoLease]
          /\ revokedAt' = [revokedAt EXCEPT ![s][b] = now]
      BY <1>3 DEF Revoke, RevokeLease
    <2>2. \/ leaseAccts[s][b] = NoAccount /\ leaseAccts' = leaseAccts
          \/ /\ leaseAccts[s][b] # NoAccount
             /\ leaseAccts' = [leaseAccts EXCEPT ![s][b].revoked_at = now]
      BY <1>3 DEF Revoke, Solana!RevokeLease, solanaVars
    <2>3. now \in Nat \ {0}
      BY DEF EvmTypeOK
    <2>4. leaseAccts[s][b] # NoAccount =>
            [leaseAccts[s][b] EXCEPT !.revoked_at = now] \in LeaseAcct
      BY <2>3 DEF LeasesCorrespond, LeaseAcct
    <2>5. leaseAccts' \in [Subjects -> [Parties -> LeaseAcct \cup {NoAccount}]]
      BY <2>2, <2>4 DEF LeasesCorrespond
    <2>6. ASSUME NEW t \in Subjects, NEW c \in Parties
          PROVE  (Unknown(t, c) \/ SameLease(t, c) \/ BothRevoked(t, c))'
      <3>1. CASE t = s /\ c = b
        <4>1. leases'[t][c] = NoLease
          BY <2>1, <3>1 DEF EvmTypeOK
        <4>2. CASE leaseAccts[s][b] = NoAccount
          BY <2>2, <3>1, <4>1, <4>2 DEF Unknown
        <4>3. CASE leaseAccts[s][b] # NoAccount
          <5>1. leaseAccts'[t][c] = [leaseAccts[s][b] EXCEPT !.revoked_at = now]
            BY <2>2, <3>1, <4>3 DEF LeasesCorrespond
          <5>2. leaseAccts[s][b] \in LeaseAcct
            BY <4>3 DEF LeasesCorrespond
          <5>3. leaseAccts'[t][c] \in LeaseAcct /\ leaseAccts'[t][c].revoked_at = now
            BY <2>4, <4>3, <5>1, <5>2 DEF LeaseAcct
          <5>4. QED
            BY <2>3, <4>1, <5>3, RegistriesConstants DEF BothRevoked, LeaseAcct
        <4>4. QED
          BY <4>2, <4>3
      <3>2. CASE t # s \/ c # b
        <4>1. /\ leases'[t][c] = leases[t][c] /\ revokedAt'[t][c] = revokedAt[t][c]
              /\ leaseAccts'[t][c] = leaseAccts[t][c]
          BY <2>1, <2>2, <3>2 DEF LeasesCorrespond, EvmTypeOK
        <4>2. QED
          BY <4>1 DEF LeasesCorrespond, Unknown, SameLease, BothRevoked
      <3>3. QED
        BY <3>1, <3>2
    <2>7. QED
      BY <2>5, <2>6 DEF LeasesCorrespond
  <1>4. QED
    BY <1>1, <1>2, <1>3, LeaseSteps

LEMMA CorrespondInit == Init => LeasesCorrespond
  BY DEF Init, EvmInit, Solana!SolanaInit, LeasesCorrespond, Unknown

\* Both registries always agree on who may do what.
THEOREM RightsAgree == Spec => []SameRights
  BY EvmTyping, CorrespondInit, CorrespondStep, CorrespondingRights, PTL DEF Spec

-----------------------------------------------------------------------------
(* The contract's events.                                                  *)

\* The contract's events always tell, in their order, which records are live.
THEOREM EventsAlwaysTell == Spec => []EventsTellMemory
  <1>1. Init => EventsTellMemory
    BY EventsInit DEF Init
  <1>2. EvmTypeOK /\ EventsTellMemory /\ [Next]_vars => EventsTellMemory'
    BY EvmSteps, EventsStep
  <1>3. QED
    BY EvmTyping, <1>1, <1>2, PTL DEF Spec

-----------------------------------------------------------------------------
(* The contract's index.                                                   *)

\* However often a record is written, deleted and written again, an export holds
\* it while it is live, and the index, which is never pruned, names it once for
\* each time it came back.
THEOREM ExportsComplete == Spec => []ExportComplete
  <1>1. Init => CountInv
    BY CountInit DEF Init
  <1>2. EvmTypeOK /\ CountInv /\ [Next]_vars => CountInv'
    BY EvmSteps, CountStep
  <1>3. QED
    BY EvmTyping, <1>1, <1>2, ExportOfCount, PTL DEF Spec

-----------------------------------------------------------------------------
(* The Solana program's records.                                           *)

RecordAcct == [commitment : Commits \cup {Zeroed}, funded : BOOLEAN]

Deleted(s, r) == Emitted("MemoryDeleted", s, r) # {}

\* A paid account holds what the contract holds; one that is not paid for was
\* deleted in the transaction under way; one that is missing was deleted once,
\* unless the contract has no record either.
RecordInv(s, r) ==
  LET a == records[s][r] IN
  /\ a = NoAccount => commit[s][r] = None \/ Deleted(s, r)
  /\ a # NoAccount /\ a.funded => a.commitment = commit[s][r] /\ commit[s][r] # None
  /\ a # NoAccount /\ ~a.funded => Deleted(s, r) /\ batch > 0

RecordsInv ==
  /\ records \in [Subjects -> [Ids -> RecordAcct \cup {NoAccount}]]
  /\ batch \in Nat
  /\ \A s \in Subjects, r \in Ids : RecordInv(s, r)

\* What a record's account can be.
LEMMA AcctTyped ==
  \A v \in Commits \cup {Zeroed}, f \in BOOLEAN :
    /\ [commitment |-> v, funded |-> f] \in RecordAcct
    /\ [commitment |-> v, funded |-> f] # NoAccount
  <1>1. NoAccount \notin RecordAcct
    BY RegistriesConstants DEF RecordAcct
  <1>2. \A v \in Commits \cup {Zeroed}, f \in BOOLEAN :
          [commitment |-> v, funded |-> f] \in RecordAcct
    BY DEF RecordAcct
  <1>3. QED
    BY <1>1, <1>2

LEMMA RecordsFresh == RecordsInv => SolanaNeverStale
  <1> SUFFICES ASSUME RecordsInv, batch = 0, NEW s \in Subjects, NEW r \in Ids
               PROVE  LET a == records[s][r] IN
                      /\ a # NoAccount => a.funded /\ a.commitment = commit[s][r]
                      /\ a = NoAccount /\ commit[s][r] # None
                           => Emitted("MemoryDeleted", s, r) # {}
    BY DEF SolanaNeverStale
  <1>1. QED
    BY DEF RecordsInv, RecordInv, Deleted, RecordAcct

\* No step unsays that a record was deleted.
LEMMA DeletedStays ==
  ASSUME EvmTypeOK, [Next]_vars, NEW t \in Subjects, NEW q \in Ids, Deleted(t, q)
  PROVE  Deleted(t, q)'
  <1>1. CASE UNCHANGED events
    BY <1>1 DEF Deleted, Emitted
  <1>2. ASSUME NEW name \in EventNames, NEW c \in Parties, NEW s \in Subjects,
               NEW what \in Ids \cup Parties \cup {None}, Emit(name, c, s, what)
        PROVE  Deleted(t, q)'
    <2>1. PICK i \in 1..Len(events) : /\ events[i].name = "MemoryDeleted"
                                      /\ events[i].subject = t /\ events[i].what = q
      BY DEF Deleted, Emitted
    <2>2. /\ Len(events) \in Nat /\ Len(events') = Len(events) + 1
          /\ \A k \in 1..Len(events) : events'[k] = events[k]
      BY <1>2, EmitAppends, Zenon
    <2>3. i \in 1..Len(events') /\ events'[i] = events[i]
      BY <2>2
    <2>4. QED
      BY <2>1, <2>3 DEF Deleted, Emitted
  <1>3. ASSUME EvmCall PROVE Deleted(t, q)'
    <2>1. ASSUME NEW c \in Parties, NEW s \in Subjects, NEW r \in Ids, DeleteMemory(c, s, r)
          PROVE  Deleted(t, q)'
      BY <2>1, <1>2 DEF DeleteMemory, EventNames
    <2>2. ASSUME NEW c \in Parties, NEW s \in Subjects, NEW r \in Ids, NEW v \in Commits,
                 WriteMemory(c, s, r, v)
          PROVE  Deleted(t, q)'
      BY <2>2, <1>2 DEF WriteMemory, EventNames
    <2>3. ASSUME NEW c \in Parties, NEW s \in Subjects, AnchorMemoryRoot(c, s)
          PROVE  Deleted(t, q)'
      BY <2>3, <1>2 DEF AnchorMemoryRoot, EventNames
    <2>4. ASSUME NEW s \in Subjects, NEW b \in Parties, RevokeLease(s, b)
          PROVE  Deleted(t, q)'
      BY <2>4, <1>2, EvmConstants DEF RevokeLease, EventNames
    <2>5. ASSUME NEW s \in Subjects, NEW b \in Parties, NEW scopes, NEW e,
                 GrantLease(s, b, scopes, e)
          PROVE  Deleted(t, q)'
      BY <2>5, <1>2, EvmConstants DEF GrantLease, EventNames
    <2>6. QED
      BY <1>3, <2>1, <2>2, <2>3, <2>4, <2>5 DEF EvmCall
  <1>4. QED
    BY <1>1, <1>3, EvmSteps DEF EvmStep, evmVars

\* A write changes one record alike on both, as both let the same callers
\* write.
LEMMA WriteRecords ==
  ASSUME EvmTypeOK, SameRights, RecordsInv, [Next]_vars,
         NEW c \in Parties, NEW s \in Subjects, NEW r \in Ids, NEW v \in Commits,
         Write(c, s, r, v)
  PROVE  RecordsInv'
  <1>1. CASE UNCHANGED <<evmVars, solanaVars>>
    BY <1>1 DEF evmVars, solanaVars, RecordsInv, RecordInv, Deleted, Emitted
  <1>2. CASE WriteMemory(c, s, r, v) /\ Solana!WriteMemory(c, s, r, v)
    <2> DEFINE acct == [commitment |-> v,
                        funded |-> records[s][r] = NoAccount \/ records[s][r].funded]
    <2>1. /\ commit' = [commit EXCEPT ![s][r] = v]
          /\ records' = [records EXCEPT ![s][r] = acct]
          /\ batch' = batch + 1
      BY <1>2 DEF WriteMemory, Solana!WriteMemory, Solana!Instruction, RecordsInv
    <2>2. acct \in RecordAcct /\ acct # NoAccount
      BY AcctTyped, Zenon
    <2>3. records' \in [Subjects -> [Ids -> RecordAcct \cup {NoAccount}]] /\ batch' \in Nat
      BY <2>1, <2>2 DEF RecordsInv
    <2>4. ASSUME NEW t \in Subjects, NEW q \in Ids
          PROVE  RecordInv(t, q)'
      <3>1. CASE t = s /\ q = r
        <4>1. records'[t][q] = acct /\ commit'[t][q] = v
          BY <2>1, <3>1 DEF RecordsInv, EvmTypeOK
        <4>2. acct.commitment = v /\ v # None
          BY EvmConstants
        <4>3. ~acct.funded => Deleted(t, q)
          BY <3>1 DEF RecordsInv, RecordInv
        <4>4. ~acct.funded => Deleted(t, q)' /\ batch' > 0
          BY <2>1, <4>3, DeletedStays DEF RecordsInv
        <4>5. QED
          BY <2>2, <4>1, <4>2, <4>4 DEF RecordInv
      <3>2. CASE t # s \/ q # r
        <4>1. records'[t][q] = records[t][q] /\ commit'[t][q] = commit[t][q]
          BY <2>1, <3>2 DEF RecordsInv, EvmTypeOK
        <4>2. QED
          BY <2>1, <4>1, DeletedStays DEF RecordsInv, RecordInv
      <3>3. QED
        BY <3>1, <3>2
    <2>5. QED
      BY <2>3, <2>4 DEF RecordsInv
  <1>3. "WRITE" \in Scopes
    BY DEF Scopes
  <1>4. WriteMemory(c, s, r, v) => IsAuthorized(c, s, "WRITE")
    BY DEF WriteMemory
  <1>5. Solana!WriteMemory(c, s, r, v) => Solana!Authorize(c, s, "WRITE")
    BY DEF Solana!WriteMemory
  <1>6. QED
    BY <1>1, <1>2, <1>3, <1>4, <1>5 DEF Write, SameRights

\* A delete takes the record on both, or on the one that still has it.
LEMMA DeleteRecords ==
  ASSUME EvmTypeOK, SameRights, RecordsInv, [Next]_vars,
         NEW c \in Parties, NEW s \in Subjects, NEW r \in Ids, Delete(c, s, r)
  PROVE  RecordsInv'
  <1> DEFINE acct == [commitment |-> Zeroed, funded |-> FALSE]
  <1>1. acct \in RecordAcct /\ acct # NoAccount
    BY AcctTyped, Zenon
  <1>2. CASE UNCHANGED <<evmVars, solanaVars>>
    BY <1>2 DEF evmVars, solanaVars, RecordsInv, RecordInv, Deleted, Emitted
  <1>3. CASE DeleteMemory(c, s, r)
    <2>1. /\ commit' = [commit EXCEPT ![s][r] = None]
          /\ Emit("MemoryDeleted", c, s, r)
      BY <1>3 DEF DeleteMemory
    <2>2. Deleted(s, r)'
      <3>1. /\ Len(events) + 1 \in 1..Len(events')
            /\ events'[Len(events) + 1] =
                 [name |-> "MemoryDeleted", by |-> c, subject |-> s, what |-> r]
        BY <2>1, EmitAppends DEF EventNames
      <3>2. QED
        BY <3>1 DEF Deleted, Emitted
    <2>3. \/ /\ records' = [records EXCEPT ![s][r] = acct] /\ batch' = batch + 1
          \/ /\ records[s][r] = NoAccount /\ records' = records /\ batch' = batch
      <3>1. Solana!Authorize(c, s, "DELETE")
        BY <1>3 DEF DeleteMemory, SameRights, Scopes
      <3>2. QED
        BY <3>1 DEF Delete, Solana!DeleteMemory, Solana!Instruction, solanaVars
    <2> HIDE DEF acct
    <2>4. records' \in [Subjects -> [Ids -> RecordAcct \cup {NoAccount}]] /\ batch' \in Nat
      BY <1>1, <2>3 DEF RecordsInv
    <2>5. ASSUME NEW t \in Subjects, NEW q \in Ids
          PROVE  RecordInv(t, q)'
      <3>1. CASE t = s /\ q = r
        <4>1. \/ records'[t][q] = acct /\ batch' > 0
              \/ records'[t][q] = NoAccount
          BY <2>3, <3>1 DEF RecordsInv
        <4>2. QED
          BY <1>1, <2>2, <3>1, <4>1 DEF RecordInv, acct
      <3>2. CASE t # s \/ q # r
        <4>1. records'[t][q] = records[t][q] /\ commit'[t][q] = commit[t][q]
          BY <2>1, <2>3, <3>2 DEF RecordsInv, EvmTypeOK
        <4>2. QED
          BY <2>3, <4>1, DeletedStays DEF RecordsInv, RecordInv
      <3>3. QED
        BY <3>1, <3>2
    <2>6. QED
      BY <2>4, <2>5 DEF RecordsInv
  <1>4. CASE Solana!DeleteMemory(c, s, r) /\ UNCHANGED evmVars /\ commit[s][r] = None
    <2>1. /\ records' = [records EXCEPT ![s][r] = acct] /\ batch' = batch + 1
          /\ records[s][r] # NoAccount
      BY <1>4 DEF Solana!DeleteMemory, Solana!Instruction
    <2>2. records' \in [Subjects -> [Ids -> RecordAcct \cup {NoAccount}]] /\ batch' \in Nat
      BY <1>1, <2>1 DEF RecordsInv
    <2>3. Deleted(s, r)
      BY <1>4, <2>1 DEF RecordsInv, RecordInv, RecordAcct
    <2>4. ASSUME NEW t \in Subjects, NEW q \in Ids
          PROVE  RecordInv(t, q)'
      <3>1. CASE t = s /\ q = r
        <4>1. records'[t][q] = acct /\ batch' > 0 /\ Deleted(t, q)'
          BY <2>1, <2>3, <3>1, DeletedStays DEF RecordsInv
        <4>2. QED
          BY <1>1, <4>1 DEF RecordInv
      <3>2. CASE t # s \/ q # r
        <4>1. records'[t][q] = records[t][q] /\ commit'[t][q] = commit[t][q]
          BY <1>4, <2>1, <3>2 DEF RecordsInv, evmVars
        <4>2. QED
          BY <2>1, <4>1, DeletedStays DEF RecordsInv, RecordInv
      <3>3. QED
        BY <3>1, <3>2
    <2>5. QED
      BY <2>2, <2>4 DEF RecordsInv
  <1>5. Solana!DeleteMemory(c, s, r) => IsAuthorized(c, s, "DELETE")
    BY DEF Solana!DeleteMemory, SameRights, Scopes
  <1>6. QED
    BY <1>2, <1>3, <1>4, <1>5 DEF Delete

\* When a transaction ends, its unpaid accounts go.
LEMMA EndRecords ==
  ASSUME RecordsInv, EndTransaction
  PROVE  RecordsInv'
  <1>1. /\ batch' = 0 /\ UNCHANGED <<commit, events>>
        /\ records' = [s \in Subjects |-> [r \in Ids |->
                         IF records[s][r] # NoAccount /\ ~records[s][r].funded
                         THEN NoAccount ELSE records[s][r]]]
    BY DEF EndTransaction, Solana!EndTransaction, evmVars
  <1>2. records' \in [Subjects -> [Ids -> RecordAcct \cup {NoAccount}]]
    BY <1>1 DEF RecordsInv
  <1>3. ASSUME NEW s \in Subjects, NEW r \in Ids PROVE RecordInv(s, r)'
    <2>1. /\ Deleted(s, r)' <=> Deleted(s, r)
          /\ commit'[s][r] = commit[s][r]
      BY <1>1 DEF Deleted, Emitted
    <2>2. QED
      BY <1>1, <2>1 DEF RecordsInv, RecordInv
  <1>4. QED
    BY <1>1, <1>2, <1>3 DEF RecordsInv

LEMMA RecordsStep ==
  EvmTypeOK /\ SameRights /\ RecordsInv /\ [Next]_vars => RecordsInv'
  <1> SUFFICES ASSUME EvmTypeOK, SameRights, RecordsInv, [Next]_vars PROVE RecordsInv'
    OBVIOUS
  <1>1. ASSUME UNCHANGED <<commit, records>>, batch' \in Nat, batch' >= batch
        PROVE  RecordsInv'
    BY <1>1, DeletedStays DEF RecordsInv, RecordInv
  <1>2. ASSUME NEW c \in Parties, NEW s \in Subjects, Anchor(c, s) PROVE RecordsInv'
    BY <1>1, <1>2 DEF Anchor, AnchorMemoryRoot, evmState, solanaVars, RecordsInv
  <1>3. ASSUME NEW s \in Subjects, NEW b \in Parties, Revoke(s, b) PROVE RecordsInv'
    BY <1>1, <1>3 DEF Revoke, RevokeLease, Solana!RevokeLease, Solana!Instruction, solanaVars,
                      RecordsInv
  <1>4. ASSUME NEW s \in Subjects, NEW b \in Parties, NEW scopes, NEW e,
               Grant(s, b, scopes, e)
        PROVE  RecordsInv'
    BY <1>1, <1>4 DEF Grant, GrantLease, Solana!GrantLease, Solana!Instruction, RecordsInv
  <1>5. CASE NewBlock \/ UNCHANGED vars
    BY <1>1, <1>5 DEF NewBlock, vars, evmVars, solanaVars, RecordsInv
  <1>6. CASE Calls
    BY <1>2, <1>3, <1>4, <1>6, WriteRecords, DeleteRecords DEF Calls
  <1>7. QED
    BY <1>5, <1>6, EndRecords DEF Next

LEMMA RecordsInit == Init => RecordsInv
  BY DEF Init, EvmInit, Solana!SolanaInit, RecordsInv, RecordInv

\* Between transactions, a record on Solana is always paid for and the one the
\* contract holds; it is missing only if it was deleted before.
THEOREM SolanaStaysFresh == Spec => []SolanaNeverStale
  BY EvmTyping, RightsAgree, RecordsInit, RecordsStep, RecordsFresh, PTL DEF Spec

-----------------------------------------------------------------------------
(* The contract implements the abstract registry.                          *)

\* Every behaviour of the contract, seen as its commitments, its grants and its
\* last call, is one of the abstract registry.
THEOREM RightsRefined == Spec => RefinesMemoryRights
  <1>1. Init => Rights!Init
    BY RightsInit DEF Init
  <1>2. EvmTypeOK /\ [Next]_vars => [Rights!Next]_<<commit, Grants, LastCall, now>>
    BY EvmSteps, RightsStep
  <1>3. QED
    BY <1>1, <1>2, EvmTyping, PTL DEF Spec, RefinesMemoryRights, Rights!Spec
=============================================================================
