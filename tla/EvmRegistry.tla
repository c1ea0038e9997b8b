---------------------------- MODULE EvmRegistry -----------------------------
(***************************************************************************)
(* The registry contract (RmemMemoryRegistry.sol).  A call is one          *)
(* transaction; one that reverts changes nothing and has no action.        *)
(* keccak256 is taken to be collision-free, so a payload names its hash.   *)
(* A scope bitmap is the set of its scopes.                                *)
(***************************************************************************)
EXTENDS Integers, Sequences, FiniteSets

CONSTANTS
  Parties,   \* addresses that call
  Subjects,  \* the addresses among them that own memory
  Ids,       \* record ids
  Commits,   \* commitments
  None,      \* bytes32(0)
  MaxTime,   \* bound: the last block timestamp
  MaxCalls   \* bound: calls

ASSUME EvmConstants ==
  /\ Subjects \subseteq Parties
  /\ None \notin Commits
  /\ MaxTime \in Nat \ {0} /\ MaxCalls \in Nat

Scopes == {"READ", "WRITE", "DELETE", "EXPORT"}

VARIABLES
  commit,     \* _commit: subject -> record id -> commitment
  index,      \* _index: subject -> the ids ever pushed
  leases,     \* subject -> body -> lease
  revokedAt,  \* subject -> body -> when the lease was revoked, or 0
  events,     \* the contract's event log, each with its transaction's sender
  now         \* block.timestamp

evmState == <<commit, index, leases, revokedAt>>
evmVars  == <<commit, index, leases, revokedAt, events>>

NoLease   == [expiresAt |-> 0, scopes |-> {}]
LeaseType == {NoLease} \cup
             [expiresAt : Nat \ {0}, scopes : (SUBSET Scopes) \ {{}}]

EventNames == {"MemoryWritten", "MemoryDeleted", "LeaseGranted", "LeaseRevoked",
               "MemoryAnchored"}

\* Mutated form of Emit: the event is lost.
BugNoEvent(name, caller, s, what) == UNCHANGED events

Emit(name, caller, s, what) ==
  /\ Len(events) < MaxCalls
  /\ events' = Append(events, [name |-> name, by |-> caller, subject |-> s, what |-> what])

\* Mutated form of IsAuthorized: the lease is good at its last second.
BugInclusiveExpiry(caller, s, scope) ==
  \/ caller = s
  \/ /\ revokedAt[s][caller] = 0
     /\ leases[s][caller].expiresAt >= now
     /\ scope \in leases[s][caller].scopes

\* _isAuthorized
IsAuthorized(caller, s, scope) ==
  \/ caller = s
  \/ /\ revokedAt[s][caller] = 0
     /\ leases[s][caller].expiresAt > now
     /\ scope \in leases[s][caller].scopes

-----------------------------------------------------------------------------

\* Mutated form of WriteMemory: pushes the id of every write.
BugAlwaysPush(caller, s, r, v) ==
  /\ IsAuthorized(caller, s, "WRITE")
  /\ index' = [index EXCEPT ![s] = Append(@, r)]
  /\ commit' = [commit EXCEPT ![s][r] = v]
  /\ Emit("MemoryWritten", caller, s, r)
  /\ UNCHANGED <<leases, revokedAt>>

\* writeMemory: an absent record, new or deleted before, is pushed.
WriteMemory(caller, s, r, v) ==
  /\ IsAuthorized(caller, s, "WRITE")
  /\ index' = IF commit[s][r] = None THEN [index EXCEPT ![s] = Append(@, r)] ELSE index
  /\ commit' = [commit EXCEPT ![s][r] = v]
  /\ Emit("MemoryWritten", caller, s, r)
  /\ UNCHANGED <<leases, revokedAt>>

\* Mutated form of DeleteMemory: asks for the scope of a write.
BugWriteScope(caller, s, r) ==
  /\ IsAuthorized(caller, s, "WRITE")
  /\ commit[s][r] # None
  /\ commit' = [commit EXCEPT ![s][r] = None]
  /\ Emit("MemoryDeleted", caller, s, r)
  /\ UNCHANGED <<index, leases, revokedAt>>

\* deleteMemory: the index is not pruned.
DeleteMemory(caller, s, r) ==
  /\ IsAuthorized(caller, s, "DELETE")
  /\ commit[s][r] # None
  /\ commit' = [commit EXCEPT ![s][r] = None]
  /\ Emit("MemoryDeleted", caller, s, r)
  /\ UNCHANGED <<index, leases, revokedAt>>

\* The ids exportMemory returns: those of the index that are live, in order.
ExportMemory(s) ==
  LET exported[i \in 0..Len(index[s])] ==
        IF i = 0 THEN <<>>
        ELSE IF commit[s][index[s][i]] = None THEN exported[i - 1]
        ELSE Append(exported[i - 1], index[s][i])
  IN exported[Len(index[s])]

\* grantLease, by the subject: replaces the body's lease and its revocation.
GrantLease(s, b, scopes, expiresAt) ==
  /\ scopes # {} /\ expiresAt > now
  /\ leases' = [leases EXCEPT ![s][b] = [expiresAt |-> expiresAt, scopes |-> scopes]]
  /\ revokedAt' = [revokedAt EXCEPT ![s][b] = 0]
  /\ Emit("LeaseGranted", s, s, b)
  /\ UNCHANGED <<commit, index>>

\* Mutated form of RevokeLease: takes the scopes away, not the lease.
BugOnlyScopes(s, b) ==
  /\ revokedAt' = [revokedAt EXCEPT ![s][b] = now]
  /\ leases' = [leases EXCEPT ![s][b].scopes = {}]
  /\ Emit("LeaseRevoked", s, s, b)
  /\ UNCHANGED <<commit, index>>

\* revokeLease, by the subject, of a body with or without a lease.
RevokeLease(s, b) ==
  /\ revokedAt' = [revokedAt EXCEPT ![s][b] = now]
  /\ leases' = [leases EXCEPT ![s][b] = NoLease]
  /\ Emit("LeaseRevoked", s, s, b)
  /\ UNCHANGED <<commit, index>>

\* anchorMemoryRoot writes no state; the root is left out.
AnchorMemoryRoot(caller, s) ==
  /\ IsAuthorized(caller, s, "WRITE")
  /\ Emit("MemoryAnchored", caller, s, None)
  /\ UNCHANGED evmState

EvmInit ==
  /\ commit = [s \in Subjects |-> [r \in Ids |-> None]]
  /\ index = [s \in Subjects |-> <<>>]
  /\ leases = [s \in Subjects |-> [b \in Parties |-> NoLease]]
  /\ revokedAt = [s \in Subjects |-> [b \in Parties |-> 0]]
  /\ events = <<>>
  /\ now = 1

-----------------------------------------------------------------------------
(* Properties.                                                             *)

\* Every variable of the contract holds a value of its type; a lease is there
\* with scopes and a date, or not at all.
EvmTypeOK ==
  /\ commit \in [Subjects -> [Ids -> Commits \cup {None}]]
  /\ index \in [Subjects -> Seq(Ids)]
  /\ leases \in [Subjects -> [Parties -> LeaseType]]
  /\ revokedAt \in [Subjects -> [Parties -> Nat]]
  /\ events \in Seq([name : EventNames, by : Parties, subject : Subjects,
                     what : Ids \cup Parties \cup {None}])
  /\ now \in Nat \ {0}

Occurrences(s, r) == { i \in 1..Len(index[s]) : index[s][i] = r }
Emitted(name, s, r) ==
  { i \in 1..Len(events) :
      events[i].name = name /\ events[i].subject = s /\ events[i].what = r }

\* The event log, which off-chain indexers follow, tells the memory: a record
\* is live exactly when its last write comes after its last delete.
EventsTellMemory ==
  \A s \in Subjects, r \in Ids :
    commit[s][r] # None <=>
      \E i \in Emitted("MemoryWritten", s, r) :
        \A j \in Emitted("MemoryDeleted", s, r) : j < i

\* An export holds every live record; an id is in the index once for each time
\* it was written anew, so never more often than it was deleted, plus once.
ExportComplete ==
  \A s \in Subjects, r \in Ids :
    /\ commit[s][r] # None => \E i \in DOMAIN ExportMemory(s) : ExportMemory(s)[i] = r
    /\ Cardinality(Occurrences(s, r)) =
         Cardinality(Emitted("MemoryDeleted", s, r))
           + (IF commit[s][r] = None THEN 0 ELSE 1)

\* The grants a caller can make use of.
Grants ==
  [s \in Subjects |-> [b \in Parties |->
     IF revokedAt[s][b] # 0 THEN NoLease ELSE leases[s][b]]]

\* The last call, as its event tells it.
LastCall == IF events = <<>> THEN None ELSE events[Len(events)]

Rights ==
  INSTANCE MemoryRights WITH mem <- commit, grants <- Grants, call <- LastCall

\* The contract implements the rights ERC-8264 promises.
RefinesMemoryRights == Rights!Spec
=============================================================================
