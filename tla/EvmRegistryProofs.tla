------------------------- MODULE EvmRegistryProofs -------------------------
(***************************************************************************)
(* What holds of the contract in whatever system it is called: its types,  *)
(* its events and its promise, MemoryRights, are kept by every call.       *)
(***************************************************************************)
EXTENDS EvmRegistry, SharedFacts, FiniteSetTheorems

\* The effective calls of the contract.
EvmCall ==
  \/ \E c \in Parties, s \in Subjects, r \in Ids :
       \/ DeleteMemory(c, s, r)
       \/ \E v \in Commits : WriteMemory(c, s, r, v)
  \/ \E c \in Parties, s \in Subjects : AnchorMemoryRoot(c, s)
  \/ \E s \in Subjects, b \in Parties :
       \/ RevokeLease(s, b)
       \/ \E scopes \in SUBSET Scopes, e \in Nat : GrantLease(s, b, scopes, e)

\* What a step of a system around the contract is for the contract: a call,
\* nothing, or a block.
EvmStep ==
  \/ EvmCall /\ now' = now
  \/ UNCHANGED <<evmVars, now>>
  \/ UNCHANGED evmVars /\ now' = now + 1

-----------------------------------------------------------------------------
(* Types.                                                                  *)

\* Emitting an event keeps the type of the event log.
LEMMA EmitTyped ==
  ASSUME EvmTypeOK, NEW name \in EventNames, NEW c \in Parties, NEW s \in Subjects,
         NEW what \in Ids \cup Parties \cup {None}, Emit(name, c, s, what)
  PROVE  events' \in Seq([name : EventNames, by : Parties, subject : Subjects,
                          what : Ids \cup Parties \cup {None}])
  BY DEF EvmTypeOK, Emit

\* A call keeps the contract's types.
LEMMA EvmCallTyped == EvmTypeOK /\ EvmCall /\ now' = now => EvmTypeOK'
  <1> SUFFICES ASSUME EvmTypeOK, EvmCall, now' = now PROVE EvmTypeOK'
    OBVIOUS
  <1>1. ASSUME NEW c \in Parties, NEW s \in Subjects, NEW r \in Ids, DeleteMemory(c, s, r)
        PROVE  EvmTypeOK'
    <2>1. events' \in Seq([name : EventNames, by : Parties, subject : Subjects,
                           what : Ids \cup Parties \cup {None}])
      BY <1>1, EmitTyped DEF DeleteMemory, EventNames
    <2>2. commit' \in [Subjects -> [Ids -> Commits \cup {None}]]
      BY <1>1 DEF DeleteMemory, EvmTypeOK
    <2>3. QED
      BY <1>1, <2>1, <2>2 DEF DeleteMemory, EvmTypeOK
  <1>2. ASSUME NEW c \in Parties, NEW s \in Subjects, NEW r \in Ids, NEW v \in Commits,
               WriteMemory(c, s, r, v)
        PROVE  EvmTypeOK'
    <2>1. events' \in Seq([name : EventNames, by : Parties, subject : Subjects,
                           what : Ids \cup Parties \cup {None}])
      BY <1>2, EmitTyped DEF WriteMemory, EventNames
    <2>2. commit' \in [Subjects -> [Ids -> Commits \cup {None}]]
      BY <1>2 DEF WriteMemory, EvmTypeOK
    <2>3. index' \in [Subjects -> Seq(Ids)]
      BY <1>2 DEF WriteMemory, EvmTypeOK
    <2>4. QED
      BY <1>2, <2>1, <2>2, <2>3 DEF WriteMemory, EvmTypeOK
  <1>3. ASSUME NEW c \in Parties, NEW s \in Subjects, AnchorMemoryRoot(c, s)
        PROVE  EvmTypeOK'
    <2>1. events' \in Seq([name : EventNames, by : Parties, subject : Subjects,
                           what : Ids \cup Parties \cup {None}])
      BY <1>3, EmitTyped DEF AnchorMemoryRoot, EventNames
    <2>2. QED
      BY <1>3, <2>1 DEF AnchorMemoryRoot, evmState, EvmTypeOK
  <1>4. ASSUME NEW s \in Subjects, NEW b \in Parties, RevokeLease(s, b)
        PROVE  EvmTypeOK'
    <2>1. events' \in Seq([name : EventNames, by : Parties, subject : Subjects,
                           what : Ids \cup Parties \cup {None}])
      BY <1>4, EmitTyped, EvmConstants DEF RevokeLease, EventNames
    <2>2. leases' \in [Subjects -> [Parties -> LeaseType]]
      BY <1>4 DEF RevokeLease, EvmTypeOK, LeaseType
    <2>3. revokedAt' \in [Subjects -> [Parties -> Nat]]
      BY <1>4 DEF RevokeLease, EvmTypeOK
    <2>4. QED
      BY <1>4, <2>1, <2>2, <2>3 DEF RevokeLease, EvmTypeOK
  <1>5. ASSUME NEW s \in Subjects, NEW b \in Parties, NEW scopes \in SUBSET Scopes,
               NEW e \in Nat, GrantLease(s, b, scopes, e)
        PROVE  EvmTypeOK'
    <2>1. events' \in Seq([name : EventNames, by : Parties, subject : Subjects,
                           what : Ids \cup Parties \cup {None}])
      BY <1>5, EmitTyped, EvmConstants DEF GrantLease, EventNames
    <2>2. e \in Nat \ {0} /\ scopes \in (SUBSET Scopes) \ {{}}
      BY <1>5 DEF GrantLease, EvmTypeOK
    <2>3. [expiresAt |-> e, scopes |-> scopes] \in LeaseType
      BY <2>2 DEF LeaseType
    <2>4. leases' \in [Subjects -> [Parties -> LeaseType]]
      BY <1>5, <2>3 DEF GrantLease, EvmTypeOK
    <2>5. revokedAt' \in [Subjects -> [Parties -> Nat]]
      BY <1>5 DEF GrantLease, EvmTypeOK
    <2>6. QED
      BY <1>5, <2>1, <2>4, <2>5 DEF GrantLease, EvmTypeOK
  <1>6. QED
    BY <1>1, <1>2, <1>3, <1>4, <1>5 DEF EvmCall

LEMMA EvmTypeStep == EvmTypeOK /\ EvmStep => EvmTypeOK'
  <1> SUFFICES ASSUME EvmTypeOK, EvmStep PROVE EvmTypeOK'
    OBVIOUS
  <1>1. CASE EvmCall /\ now' = now
    BY <1>1, EvmCallTyped
  <1>2. CASE UNCHANGED evmVars /\ (now' = now \/ now' = now + 1)
    BY <1>2 DEF evmVars, EvmTypeOK
  <1>3. QED
    BY <1>1, <1>2 DEF EvmStep

LEMMA EvmTypeInit == EvmInit => EvmTypeOK
  BY DEF EvmInit, EvmTypeOK, LeaseType

-----------------------------------------------------------------------------
(* Events.                                                                 *)

\* An emitted event is the last, and those before it stay.
LEMMA EmitAppends ==
  ASSUME EvmTypeOK, NEW name \in EventNames, NEW c \in Parties, NEW s \in Subjects,
         NEW what \in Ids \cup Parties \cup {None}, Emit(name, c, s, what)
  PROVE  /\ Len(events) \in Nat /\ Len(events') = Len(events) + 1
         /\ \A i \in 1..Len(events) : events'[i] = events[i]
         /\ events'[Len(events')] = [name |-> name, by |-> c, subject |-> s, what |-> what]
  <1> DEFINE e == [name |-> name, by |-> c, subject |-> s, what |-> what]
  <1>1. Len(events) \in Nat /\ events' = Append(events, e)
    BY DEF EvmTypeOK, Emit
  <1> HIDE DEF e
  <1>2. /\ Len(events') = Len(events) + 1
        /\ \A i \in 1..Len(events) : events'[i] = events[i]
        /\ events'[Len(events) + 1] = e
    BY <1>1 DEF EvmTypeOK
  <1>3. QED
    BY <1>1, <1>2 DEF e

\* The events about a record, after one more.
LEMMA EmittedAfter ==
  ASSUME EvmTypeOK, NEW name \in EventNames, NEW c \in Parties, NEW s \in Subjects,
         NEW what \in Ids \cup Parties \cup {None}, Emit(name, c, s, what),
         NEW n \in EventNames, NEW t \in Subjects, NEW r \in Ids
  PROVE  Emitted(n, t, r)' = Emitted(n, t, r) \cup
           (IF n = name /\ t = s /\ r = what THEN {Len(events) + 1} ELSE {})
  <1>1. /\ Len(events) \in Nat /\ Len(events') = Len(events) + 1
        /\ \A i \in 1..Len(events) : events'[i] = events[i]
        /\ events'[Len(events) + 1] = [name |-> name, by |-> c, subject |-> s, what |-> what]
    BY EmitAppends
  <1>2. 1..Len(events') = 1..Len(events) \cup {Len(events) + 1}
    BY <1>1
  <1>3. /\ events'[Len(events) + 1].name = name
        /\ events'[Len(events) + 1].subject = s
        /\ events'[Len(events) + 1].what = what
    BY <1>1
  <1>4. QED
    BY <1>1, <1>2, <1>3 DEF Emitted

LEMMA EventsStep == EvmTypeOK /\ EventsTellMemory /\ EvmStep => EventsTellMemory'
  <1> SUFFICES ASSUME EvmTypeOK, EventsTellMemory, EvmStep,
                      NEW t \in Subjects, NEW q \in Ids
               PROVE  (commit[t][q] # None <=>
                        \E i \in Emitted("MemoryWritten", t, q) :
                          \A j \in Emitted("MemoryDeleted", t, q) : j < i)'
    BY DEF EventsTellMemory
  <1> DEFINE W == Emitted("MemoryWritten", t, q)
             D == Emitted("MemoryDeleted", t, q)
             Told(w, d) == \E i \in w : \A j \in d : j < i
  <1>1. commit[t][q] # None <=> Told(W, D)
    BY DEF EventsTellMemory
  <1>2. Len(events) \in Nat /\ W \subseteq 1..Len(events) /\ D \subseteq 1..Len(events)
    BY DEF EvmTypeOK, Emitted
  <1>3. CASE UNCHANGED evmVars
    <2>1. W' = W /\ D' = D /\ commit' = commit
      BY <1>3 DEF evmVars, Emitted
    <2>2. QED
      BY <1>1, <2>1
  <1>4. ASSUME NEW c \in Parties, NEW s \in Subjects, NEW r \in Ids, DeleteMemory(c, s, r)
        PROVE  (commit[t][q] # None <=> Told(W, D))'
    <2>1. Emit("MemoryDeleted", c, s, r) /\ commit' = [commit EXCEPT ![s][r] = None]
      BY <1>4 DEF DeleteMemory
    <2>2. /\ W' = W
          /\ D' = D \cup (IF t = s /\ q = r THEN {Len(events) + 1} ELSE {})
      BY <2>1, EmittedAfter DEF Emitted, EventNames
    <2>3. commit'[t][q] = IF t = s /\ q = r THEN None ELSE commit[t][q]
      BY <2>1 DEF EvmTypeOK
    <2>4. CASE t = s /\ q = r
      <3>1. Len(events) + 1 \in D' /\ \A i \in W' : ~(Len(events) + 1 < i)
        BY <1>2, <2>2, <2>4
      <3>2. QED
        BY <2>3, <2>4, <3>1
    <2>5. CASE ~(t = s /\ q = r)
      BY <1>1, <2>2, <2>3, <2>5
    <2>6. QED
      BY <2>4, <2>5
  <1>5. ASSUME NEW c \in Parties, NEW s \in Subjects, NEW r \in Ids, NEW v \in Commits,
               WriteMemory(c, s, r, v)
        PROVE  (commit[t][q] # None <=> Told(W, D))'
    <2>1. Emit("MemoryWritten", c, s, r) /\ commit' = [commit EXCEPT ![s][r] = v]
      BY <1>5 DEF WriteMemory
    <2>2. /\ W' = W \cup (IF t = s /\ q = r THEN {Len(events) + 1} ELSE {})
          /\ D' = D
      BY <2>1, EmittedAfter DEF Emitted, EventNames
    <2>3. commit'[t][q] = IF t = s /\ q = r THEN v ELSE commit[t][q]
      BY <2>1 DEF EvmTypeOK
    <2>4. CASE t = s /\ q = r
      <3>1. Len(events) + 1 \in W' /\ \A j \in D' : j < Len(events) + 1
        BY <1>2, <2>2, <2>4
      <3>2. QED
        BY <2>3, <2>4, <3>1, EvmConstants
    <2>5. CASE ~(t = s /\ q = r)
      BY <1>1, <2>2, <2>3, <2>5
    <2>6. QED
      BY <2>4, <2>5
  <1>6. ASSUME NEW name \in EventNames \ {"MemoryWritten", "MemoryDeleted"},
               NEW c \in Parties, NEW s \in Subjects,
               NEW what \in Ids \cup Parties \cup {None}, Emit(name, c, s, what), commit' = commit
        PROVE  (commit[t][q] # None <=> Told(W, D))'
    <2>1. W' = W /\ D' = D
      BY <1>6, EmittedAfter DEF Emitted, EventNames
    <2>2. QED
      BY <1>1, <1>6, <2>1
  <1>7. ASSUME NEW c \in Parties, NEW s \in Subjects, AnchorMemoryRoot(c, s)
        PROVE  (commit[t][q] # None <=> Told(W, D))'
    BY <1>6, <1>7 DEF AnchorMemoryRoot, evmState, EventNames
  <1>8. ASSUME NEW s \in Subjects, NEW b \in Parties, RevokeLease(s, b)
        PROVE  (commit[t][q] # None <=> Told(W, D))'
    BY <1>6, <1>8, EvmConstants DEF RevokeLease, EventNames
  <1>9. ASSUME NEW s \in Subjects, NEW b \in Parties, NEW scopes, NEW e,
               GrantLease(s, b, scopes, e)
        PROVE  (commit[t][q] # None <=> Told(W, D))'
    BY <1>6, <1>9, EvmConstants DEF GrantLease, EventNames
  <1>10. CASE EvmCall
    BY <1>4, <1>5, <1>7, <1>8, <1>9, <1>10 DEF EvmCall
  <1>11. QED
    BY <1>3, <1>10 DEF EvmStep

LEMMA EventsInit == EvmInit => EventsTellMemory
  BY DEF EvmInit, EventsTellMemory, Emitted

-----------------------------------------------------------------------------
(* The export.                                                             *)

\* f holds what is exported of the first ids of w, n at most, when c is what
\* they commit to.
Exports(f, w, c, n) ==
  f = [i \in 0..n |-> IF i = 0 THEN <<>>
                      ELSE IF c[w[i]] = None THEN f[i - 1] ELSE Append(f[i - 1], w[i])]

LEMMA ExportsExist ==
  ASSUME NEW w, NEW c, NEW n \in Nat
  PROVE  \E f : Exports(f, w, c, n)
  <1> DEFINE After(x, i) == IF c[w[i]] = None THEN x ELSE Append(x, w[i])
             T == { m \in Nat : \E f : Exports(f, w, c, m) }
  <1>1. 0 \in T
    <2> DEFINE f == [i \in 0..0 |-> <<>>]
    <2>1. Exports(f, w, c, 0)
      BY DEF Exports
    <2> QED
      BY <2>1
  <1>2. \A m \in T \cap Nat : m + 1 \in T
    <2> SUFFICES ASSUME NEW m \in Nat, NEW f, Exports(f, w, c, m)
                 PROVE  \E g : Exports(g, w, c, m + 1)
      OBVIOUS
    <2> DEFINE g == [i \in 0..(m + 1) |-> IF i = m + 1 THEN After(f[m], i) ELSE f[i]]
    <2>1. \A i \in 0..m : f[i] = IF i = 0 THEN <<>> ELSE After(f[i - 1], i)
      BY DEF Exports
    <2>2. g = [i \in 0..(m + 1) |-> g[i]]
      OBVIOUS
    <2> HIDE DEF After
    <2>3. \A i \in 0..(m + 1) : g[i] = IF i = 0 THEN <<>> ELSE After(g[i - 1], i)
      BY <2>1
    <2> HIDE DEF g
    <2>4. g = [i \in 0..(m + 1) |-> IF i = 0 THEN <<>> ELSE After(g[i - 1], i)]
      BY <2>2, <2>3
    <2>5. Exports(g, w, c, m + 1)
      BY <2>4 DEF Exports, After
    <2> QED
      BY <2>5
  <1> HIDE DEF T
  <1>3. n \in T
    BY <1>1, <1>2, Induction
  <1> QED
    BY <1>3 DEF T

\* What is live among the first ids is exported of them.
LEMMA ExportsHold ==
  ASSUME NEW S, NEW w \in Seq(S), NEW c, NEW f, Exports(f, w, c, Len(w))
  PROVE  /\ IsSeq(f[Len(w)])
         /\ \A i \in 1..Len(w) : c[w[i]] # None => \E k \in 1..Len(f[Len(w)]) : f[Len(w)][k] = w[i]
  <1> DEFINE n == Len(w)
             Held(x, i) == \E k \in 1..Len(x) : x[k] = w[i]
             Good(m) == IsSeq(f[m]) /\ \A i \in 1..m : c[w[i]] # None => Held(f[m], i)
             T == { m \in Nat : m <= n => Good(m) }
  <1>0. n \in Nat
    BY LenProperties
  <1>1. \A i \in 0..n : f[i] = IF i = 0 THEN <<>>
                              ELSE IF c[w[i]] = None THEN f[i - 1] ELSE Append(f[i - 1], w[i])
    BY DEF Exports
  <1> HIDE DEF n
  <1>2. 0 \in T
    <2>1. 0 \in 0..n /\ f[0] = <<>>
      BY <1>0, <1>1
    <2>2. IsSeq(<<>>)
      BY DEF IsSeq
    <2> QED
      BY <2>1, <2>2
  <1>3. \A m \in T \cap Nat : m + 1 \in T
    <2> SUFFICES ASSUME NEW m \in Nat, m + 1 <= n, IsSeq(f[m]),
                        \A i \in 1..m : c[w[i]] # None => Held(f[m], i)
                 PROVE  Good(m + 1)
      <3> HIDE DEF Good
      <3>1. SUFFICES ASSUME NEW m \in Nat, m + 1 <= n, Good(m) PROVE Good(m + 1)
        BY <1>0
      <3> QED
        BY <3>1 DEF Good
    <2>1. m + 1 \in 0..n /\ m + 1 # 0 /\ (m + 1) - 1 = m
      BY <1>0
    <2>2. \A i \in 1..(m + 1) : i \in 1..m \/ i = m + 1
      OBVIOUS
    <2>3. CASE c[w[m + 1]] = None
      <3>1. f[m + 1] = f[m]
        BY <1>1, <2>1, <2>3
      <3> QED
        BY <2>2, <2>3, <3>1
    <2>4. CASE c[w[m + 1]] # None
      <3>1. f[m + 1] = Append(f[m], w[m + 1])
        BY <1>1, <2>1, <2>4
      <3>2. /\ IsSeq(f[m + 1]) /\ Len(f[m + 1]) = Len(f[m]) + 1 /\ Len(f[m]) \in Nat
            /\ \A k \in 1..Len(f[m]) : f[m + 1][k] = f[m][k]
            /\ f[m + 1][Len(f[m]) + 1] = w[m + 1]
        BY <3>1, AppendAny
      <3>3. 1..Len(f[m]) \subseteq 1..Len(f[m + 1]) /\ Len(f[m]) + 1 \in 1..Len(f[m + 1])
        BY <3>2
      <3> QED
        BY <2>2, <3>2, <3>3
    <2> QED
      BY <2>3, <2>4
  <1> HIDE DEF T
  <1>4. n \in T
    BY <1>0, <1>2, <1>3, Induction
  <1> QED
    BY <1>0, <1>4 DEF T, n

\* An export holds every id of the index that is live.
LEMMA ExportHolds ==
  ASSUME EvmTypeOK, NEW s \in Subjects, NEW r \in Ids, commit[s][r] # None,
         NEW i \in 1..Len(index[s]), index[s][i] = r
  PROVE  \E k \in DOMAIN ExportMemory(s) : ExportMemory(s)[k] = r
  <1> DEFINE f == CHOOSE g : Exports(g, index[s], commit[s], Len(index[s]))
             e == f[Len(index[s])]
  <1>1. ExportMemory(s) = e
    BY DEF ExportMemory, Exports
  <1>2. PICK w, c : w = index[s] /\ c = commit[s]
    OBVIOUS
  <1>3. w \in Seq(Ids) /\ Len(w) \in Nat
    BY <1>2, LenProperties DEF EvmTypeOK
  <1>4. Exports(f, w, c, Len(w))
    BY <1>2, <1>3, ExportsExist
  <1> HIDE DEF f
  <1>5. IsSeq(e) /\ \A k \in 1..Len(w) : c[w[k]] # None => \E j \in 1..Len(e) : e[j] = w[k]
    <2>1. /\ IsSeq(f[Len(w)])
          /\ \A k \in 1..Len(w) : c[w[k]] # None => \E j \in 1..Len(f[Len(w)]) : f[Len(w)][j] = w[k]
      BY <1>3, <1>4, ExportsHold
    <2> QED
      BY <1>2, <2>1
  <1> HIDE DEF e
  <1>6. DOMAIN e = 1..Len(e)
    BY <1>5, LenProperties DEF IsSeq
  <1>7. i \in 1..Len(w) /\ c[w[i]] # None /\ w[i] = r
    BY <1>2
  <1> QED
    BY <1>1, <1>5, <1>6, <1>7

\* An id is in the index once for each time it was written anew.
CountInv ==
  \A s \in Subjects, r \in Ids :
    Cardinality(Occurrences(s, r)) =
      Cardinality(Emitted("MemoryDeleted", s, r)) + (IF commit[s][r] = None THEN 0 ELSE 1)

LEMMA PlacesFinite ==
  ASSUME NEW n \in Nat, NEW P \in SUBSET (1..n)
  PROVE  IsFiniteSet(P) /\ Cardinality(P) \in Nat /\ n + 1 \notin P
  <1>1. IsFiniteSet(1..n)
    BY FS_Interval
  <1>2. IsFiniteSet(P)
    BY <1>1, FS_Subset
  <1> QED
    BY <1>2, FS_CardinalityType

LEMMA ExportOfCount == EvmTypeOK /\ CountInv => ExportComplete
  <1> SUFFICES ASSUME EvmTypeOK, CountInv, NEW s \in Subjects, NEW r \in Ids, commit[s][r] # None
               PROVE  \E k \in DOMAIN ExportMemory(s) : ExportMemory(s)[k] = r
    BY DEF ExportComplete, CountInv
  <1>1. Len(events) \in Nat
    BY DEF EvmTypeOK
  <1>2. Cardinality(Emitted("MemoryDeleted", s, r)) \in Nat
    <2>1. Emitted("MemoryDeleted", s, r) \in SUBSET (1..Len(events))
      BY DEF Emitted
    <2> QED
      BY <1>1, <2>1, PlacesFinite
  <1>3. Cardinality(Occurrences(s, r)) # 0
    BY <1>2 DEF CountInv
  <1>4. PICK i : i \in Occurrences(s, r)
    BY <1>3, FS_EmptySet
  <1> QED
    BY <1>4, ExportHolds DEF Occurrences

LEMMA CountStep == EvmTypeOK /\ CountInv /\ EvmStep => CountInv'
  <1> SUFFICES ASSUME EvmTypeOK, CountInv, EvmStep, NEW t \in Subjects, NEW q \in Ids
               PROVE  (Cardinality(Occurrences(t, q)) =
                         Cardinality(Emitted("MemoryDeleted", t, q))
                           + (IF commit[t][q] = None THEN 0 ELSE 1))'
    BY DEF CountInv
  <1> DEFINE O == Occurrences(t, q)
             D == Emitted("MemoryDeleted", t, q)
             Told == Cardinality(O) = Cardinality(D) + (IF commit[t][q] = None THEN 0 ELSE 1)
  <1>1. Told
    BY DEF CountInv
  <1>2. /\ IsFiniteSet(O) /\ Cardinality(O) \in Nat /\ Len(index[t]) + 1 \notin O
        /\ IsFiniteSet(D) /\ Cardinality(D) \in Nat /\ Len(events) + 1 \notin D
    <2>1. Len(index[t]) \in Nat /\ Len(events) \in Nat
      BY DEF EvmTypeOK
    <2>2. O \in SUBSET (1..Len(index[t])) /\ D \in SUBSET (1..Len(events))
      BY DEF Occurrences, Emitted
    <2> HIDE DEF O, D
    <2> QED
      BY <2>1, <2>2, PlacesFinite
  <1>3. CASE UNCHANGED evmVars
    <2>1. O' = O /\ D' = D /\ commit' = commit
      BY <1>3 DEF evmVars, Occurrences, Emitted
    <2> QED
      BY <1>1, <2>1
  <1>4. ASSUME NEW c \in Parties, NEW s \in Subjects, NEW r \in Ids, DeleteMemory(c, s, r)
        PROVE  Told'
    <2>1. /\ Emit("MemoryDeleted", c, s, r) /\ commit' = [commit EXCEPT ![s][r] = None]
          /\ commit[s][r] # None /\ index' = index
      BY <1>4 DEF DeleteMemory
    <2>2. D' = D \cup (IF t = s /\ q = r THEN {Len(events) + 1} ELSE {})
      BY <2>1, EmittedAfter DEF EventNames
    <2>3. O' = O /\ commit'[t][q] = IF t = s /\ q = r THEN None ELSE commit[t][q]
      BY <2>1 DEF EvmTypeOK, Occurrences
    <2> HIDE DEF O, D
    <2>4. CASE t = s /\ q = r
      <3>1. Cardinality(D') = Cardinality(D) + 1
        BY <1>2, <2>2, <2>4, FS_AddElement
      <3> QED
        BY <1>1, <1>2, <2>1, <2>3, <2>4, <3>1
    <2>5. CASE ~(t = s /\ q = r)
      <3>1. D' = D /\ commit'[t][q] = commit[t][q]
        BY <2>2, <2>3, <2>5
      <3> QED
        BY <1>1, <2>3, <3>1
    <2> QED
      BY <2>4, <2>5
  <1>5. ASSUME NEW c \in Parties, NEW s \in Subjects, NEW r \in Ids, NEW v \in Commits,
               WriteMemory(c, s, r, v)
        PROVE  Told'
    <2>1. Emit("MemoryWritten", c, s, r) /\ commit' = [commit EXCEPT ![s][r] = v]
      BY <1>5 DEF WriteMemory
    <2>2. D' = D
      BY <2>1, EmittedAfter DEF EventNames
    <2>3. commit'[t][q] = IF t = s /\ q = r THEN v ELSE commit[t][q]
      BY <2>1 DEF EvmTypeOK
    <2>4. CASE t = s /\ q = r /\ commit[s][r] = None
      <3>1. index[t] \in Seq(Ids) /\ index'[t] = Append(index[t], q)
        BY <1>5, <2>4 DEF WriteMemory, EvmTypeOK
      <3>2. /\ Len(index'[t]) = Len(index[t]) + 1 /\ Len(index[t]) \in Nat
            /\ \A i \in 1..Len(index[t]) : index'[t][i] = index[t][i]
            /\ index'[t][Len(index[t]) + 1] = q
        BY <3>1, AppendProperties, LenProperties
      <3>3. \A i : i \in 1..Len(index'[t]) <=> i \in 1..Len(index[t]) \/ i = Len(index[t]) + 1
        BY <3>2
      <3>4. O' = O \cup {Len(index[t]) + 1}
        BY <3>2, <3>3 DEF Occurrences
      <3> HIDE DEF O, D
      <3>5. Cardinality(O') = Cardinality(O) + 1
        BY <1>2, <3>4, FS_AddElement
      <3> QED
        BY <1>1, <1>2, <2>2, <2>3, <2>4, <3>5, EvmConstants
    <2>5. CASE ~(t = s /\ q = r /\ commit[s][r] = None)
      <3>1. O' = O
        <4>1. CASE commit[s][r] # None
          BY <1>5, <4>1 DEF WriteMemory, Occurrences
        <4>2. CASE commit[s][r] = None /\ t # s
          BY <1>5, <4>2 DEF WriteMemory, Occurrences, EvmTypeOK
        <4>3. CASE commit[s][r] = None /\ t = s /\ q # r
          <5>1. index[t] \in Seq(Ids) /\ index'[t] = Append(index[t], r)
            BY <1>5, <4>3 DEF WriteMemory, EvmTypeOK
          <5>2. /\ Len(index'[t]) = Len(index[t]) + 1 /\ Len(index[t]) \in Nat
                /\ \A i \in 1..Len(index[t]) : index'[t][i] = index[t][i]
                /\ index'[t][Len(index[t]) + 1] = r
            BY <5>1, AppendProperties, LenProperties
          <5>3. \A i : i \in 1..Len(index'[t]) <=> i \in 1..Len(index[t]) \/ i = Len(index[t]) + 1
            BY <5>2
          <5> QED
            BY <4>3, <5>2, <5>3 DEF Occurrences
        <4> QED
          BY <2>5, <4>1, <4>2, <4>3
      <3>2. commit'[t][q] = None <=> commit[t][q] = None
        BY <2>3, <2>5, EvmConstants
      <3> HIDE DEF O, D
      <3> QED
        BY <1>1, <2>2, <3>1, <3>2
    <2> QED
      BY <2>4, <2>5
  <1>6. ASSUME NEW name \in EventNames \ {"MemoryDeleted"}, NEW c \in Parties, NEW s \in Subjects,
               NEW what \in Ids \cup Parties \cup {None}, Emit(name, c, s, what),
               UNCHANGED <<commit, index>>
        PROVE  Told'
    <2>1. O' = O /\ D' = D
      BY <1>6, EmittedAfter DEF Occurrences, EventNames
    <2> QED
      BY <1>1, <1>6, <2>1
  <1>7. ASSUME NEW c \in Parties, NEW s \in Subjects, AnchorMemoryRoot(c, s) PROVE Told'
    BY <1>6, <1>7 DEF AnchorMemoryRoot, evmState, EventNames
  <1>8. ASSUME NEW s \in Subjects, NEW b \in Parties, RevokeLease(s, b) PROVE Told'
    BY <1>6, <1>8, EvmConstants DEF RevokeLease, EventNames
  <1>9. ASSUME NEW s \in Subjects, NEW b \in Parties, NEW scopes, NEW e, GrantLease(s, b, scopes, e)
        PROVE  Told'
    BY <1>6, <1>9, EvmConstants DEF GrantLease, EventNames
  <1>10. CASE EvmCall
    BY <1>4, <1>5, <1>7, <1>8, <1>9, <1>10 DEF EvmCall
  <1> QED
    BY <1>3, <1>10 DEF EvmStep

LEMMA CountInit == EvmInit => CountInv
  <1> SUFFICES ASSUME EvmInit, NEW s \in Subjects, NEW r \in Ids
               PROVE  Cardinality(Occurrences(s, r)) =
                        Cardinality(Emitted("MemoryDeleted", s, r))
                          + (IF commit[s][r] = None THEN 0 ELSE 1)
    BY DEF CountInv
  <1>1. index[s] = <<>> /\ events = <<>> /\ commit[s][r] = None
    BY DEF EvmInit
  <1>2. Occurrences(s, r) = {} /\ Emitted("MemoryDeleted", s, r) = {}
    BY <1>1 DEF Occurrences, Emitted
  <1>3. Cardinality(Occurrences(s, r)) = 0 /\ Cardinality(Emitted("MemoryDeleted", s, r)) = 0
    BY <1>2, FS_EmptySet
  <1> QED
    BY <1>1, <1>3

-----------------------------------------------------------------------------
(* The contract implements the abstract registry.                          *)

\* What is emitted is the last call.
LEMMA EmitCalled ==
  ASSUME EvmTypeOK, NEW name \in EventNames, NEW c \in Parties, NEW s \in Subjects,
         NEW what \in Ids \cup Parties \cup {None}, Emit(name, c, s, what)
  PROVE  Rights!Called(name, c, s, what)
  <1>1. Len(<<>>) = 0
    OBVIOUS
  <1>2. /\ Len(events) \in Nat /\ Len(events') = Len(events) + 1
        /\ events'[Len(events')] = [name |-> name, by |-> c, subject |-> s, what |-> what]
    BY EmitAppends, Zenon
  <1>3. QED
    BY <1>1, <1>2 DEF LastCall, Rights!Called

\* Who the contract lets through, the abstract registry allows.
LEMMA AuthorizedAllowed ==
  ASSUME EvmTypeOK, NEW c \in Parties, NEW s \in Subjects, NEW scope \in Scopes,
         IsAuthorized(c, s, scope)
  PROVE  Rights!Allowed(c, s, scope)
  BY DEF IsAuthorized, Rights!Allowed, Grants

\* Grants follow the leases and their revocations.
LEMMA GrantsFrame == UNCHANGED <<leases, revokedAt>> => Grants' = Grants
  BY DEF Grants

\* Every call of the contract is a call of the abstract registry.
LEMMA CallStep ==
  EvmTypeOK /\ EvmCall /\ now' = now => Rights!Next
  <1> SUFFICES ASSUME EvmTypeOK, EvmCall, now' = now PROVE Rights!Next
    OBVIOUS
  <1>1. ASSUME NEW c \in Parties, NEW s \in Subjects, NEW r \in Ids, DeleteMemory(c, s, r)
        PROVE  Rights!Delete(c, s, r)
    <2>1. Rights!Called("MemoryDeleted", c, s, r)
      BY <1>1, EmitCalled DEF DeleteMemory, EventNames
    <2>2. Rights!Allowed(c, s, "DELETE")
      BY <1>1, AuthorizedAllowed DEF Scopes, DeleteMemory
    <2>3. QED
      BY <1>1, <2>1, <2>2, GrantsFrame DEF DeleteMemory, Rights!Delete
  <1>2. ASSUME NEW c \in Parties, NEW s \in Subjects, NEW r \in Ids, NEW v \in Commits,
               WriteMemory(c, s, r, v)
        PROVE  Rights!Write(c, s, r, v)
    <2>1. Rights!Called("MemoryWritten", c, s, r)
      BY <1>2, EmitCalled DEF WriteMemory, EventNames
    <2>2. Rights!Allowed(c, s, "WRITE")
      BY <1>2, AuthorizedAllowed DEF Scopes, WriteMemory
    <2>3. QED
      BY <1>2, <2>1, <2>2, GrantsFrame DEF WriteMemory, Rights!Write
  <1>3. ASSUME NEW c \in Parties, NEW s \in Subjects, AnchorMemoryRoot(c, s)
        PROVE  Rights!Anchor(c, s)
    <2>1. Rights!Called("MemoryAnchored", c, s, None)
      BY <1>3, EmitCalled DEF AnchorMemoryRoot, EventNames
    <2>2. Rights!Allowed(c, s, "WRITE")
      BY <1>3, AuthorizedAllowed DEF Scopes, AnchorMemoryRoot
    <2>3. QED
      BY <1>3, <2>1, <2>2, GrantsFrame DEF AnchorMemoryRoot, evmState, Rights!Anchor
  <1>4. ASSUME NEW s \in Subjects, NEW b \in Parties, RevokeLease(s, b)
        PROVE  Rights!Revoke(s, b)
    <2>1. /\ leases' = [leases EXCEPT ![s][b] = NoLease]
          /\ revokedAt' = [revokedAt EXCEPT ![s][b] = now]
          /\ Emit("LeaseRevoked", s, s, b) /\ commit' = commit
      BY <1>4 DEF RevokeLease
    <2>2. Grants' = [Grants EXCEPT ![s][b] = NoLease]
      BY <2>1 DEF Grants, EvmTypeOK
    <2>3. Rights!Called("LeaseRevoked", s, s, b)
      BY <2>1, EmitCalled, EvmConstants DEF EventNames
    <2>4. QED
      BY <2>1, <2>2, <2>3 DEF Rights!Revoke, Rights!NoGrant, NoLease
  <1>5. ASSUME NEW s \in Subjects, NEW b \in Parties, NEW scopes \in SUBSET Scopes,
               NEW e \in Nat, GrantLease(s, b, scopes, e)
        PROVE  Rights!Grant(s, b)
    <2> DEFINE lease == [expiresAt |-> e, scopes |-> scopes]
    <2>1. /\ leases' = [leases EXCEPT ![s][b] = lease]
          /\ revokedAt' = [revokedAt EXCEPT ![s][b] = 0]
          /\ Emit("LeaseGranted", s, s, b) /\ commit' = commit
          /\ lease.expiresAt > now
      BY <1>5 DEF GrantLease
    <2> HIDE DEF lease
    <2>2. Grants' = [Grants EXCEPT ![s][b] = lease]
      BY <2>1 DEF Grants, EvmTypeOK
    <2>3. Grants'[s][b] = lease
      BY <2>2 DEF Grants
    <2>4. Rights!Called("LeaseGranted", s, s, b)
      BY <2>1, EmitCalled, EvmConstants DEF EventNames
    <2>5. QED
      BY <2>1, <2>2, <2>3, <2>4 DEF Rights!Grant
  <1>6. QED
    BY <1>1, <1>2, <1>3, <1>4, <1>5 DEF EvmCall, Rights!Next

\* Every step of the contract, seen as its commitments, its grants and its last
\* call, is one of the abstract registry.
LEMMA RightsStep ==
  ASSUME EvmTypeOK, EvmStep
  PROVE  [Rights!Next]_<<commit, Grants, LastCall, now>>
  <1>1. CASE EvmCall /\ now' = now
    BY <1>1, CallStep
  <1>2. UNCHANGED evmVars => UNCHANGED <<commit, Grants, LastCall>>
    BY GrantsFrame DEF evmVars, LastCall
  <1>3. CASE UNCHANGED evmVars /\ now' = now
    BY <1>2, <1>3
  <1>4. CASE UNCHANGED evmVars /\ now' = now + 1
    BY <1>2, <1>4 DEF Rights!Next, Rights!Pass
  <1>5. QED
    BY <1>1, <1>3, <1>4 DEF EvmStep

LEMMA RightsInit == EvmInit => Rights!Init
  BY DEF EvmInit, Rights!Init, Grants, LastCall, Rights!NoGrant, NoLease
=============================================================================
