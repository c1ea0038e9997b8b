-------------------------- MODULE EvmClientProofs ---------------------------
(***************************************************************************)
(* Proofs about EvmClient, for any processes, parties, records and bounds. *)
(***************************************************************************)
EXTENDS EvmClient, EvmRegistryProofs, SharedFacts

LocFields == {"op", "by", "subject", "what", "val", "until", "left", "leaves", "nonce",
              "since", "after"}
States == {"idle"} \cup Running \cup Ended

\* A command that has read its nonce; an account's transactions are Past's.
Past == {"send", "wait"} \cup Ended

InChain(p) == \E i \in 1..Len(chain) : chain[i].cmd = p

\* The arguments of a command that has begun.
Args(l) ==
  /\ l.by \in Parties /\ l.subject \in Subjects
  /\ \/ l.op = "write" /\ l.what \in Ids /\ l.val \in Commits
     \/ l.op = "delete" /\ l.what \in Ids
     \/ l.op \in LeaseOps /\ l.what \in Parties /\ l.by = l.subject
     \/ l.op \in AnchorOps

Shape ==
  /\ memory \in Seq(Records) /\ Distinct(memory)
  /\ Live \subseteq drawn /\ drawn \subseteq Records
  /\ pc \in [Procs -> States]
  /\ DOMAIN loc = Procs /\ \A p \in Procs : DOMAIN loc[p] = LocFields
  /\ IsSeq(chain)
  /\ mined \in [Parties -> Nat]

CallInv(p) ==
  /\ IF pc[p] = "idle" THEN loc[p] = Blank ELSE Args(loc[p])
  /\ loc[p].nonce \in Nat /\ loc[p].until \in Nat
  /\ loc[p].after \subseteq { q \in Procs : pc[q] \in Ended }

\* What a command that reads the vault knows.
ReadInv(p) ==
  /\ pc[p] = "list" => memory \in loc[p].since /\ loc[p].leaves = <<>>
  /\ pc[p] = "read" =>
       /\ loc[p].left \in Seq(Records) /\ loc[p].left # <<>> /\ loc[p].leaves \in Seq(Records)
       /\ loc[p].leaves \o loc[p].left \in loc[p].since
  /\ pc[p] \in {"nonce"} \cup Past /\ loc[p].op \in {"anchor_vault", "also_anchor"}
       => loc[p].leaves \in loc[p].since

Base == Shape /\ \A p \in Procs : CallInv(p) /\ ReadInv(p)

-----------------------------------------------------------------------------
(* Steps.                                                                  *)

SameArgs(q) ==
  /\ loc'[q].op = loc[q].op /\ loc'[q].by = loc[q].by /\ loc'[q].subject = loc[q].subject
  /\ loc'[q].what = loc[q].what /\ loc'[q].val = loc[q].val /\ loc'[q].until = loc[q].until
  /\ loc'[q].after = loc[q].after

\* q does not move; while it reads, it may see the memory change.
Waits(q) ==
  /\ pc'[q] = pc[q] /\ DOMAIN loc'[q] = LocFields
  /\ \/ loc'[q] = loc[q] /\ memory' = memory
     \/ pc[q] \notin {"list", "read"} /\ loc'[q] = loc[q]
     \/ /\ pc[q] \in {"list", "read"}
        /\ SameArgs(q) /\ loc'[q].nonce = loc[q].nonce
        /\ loc'[q].left = loc[q].left /\ loc'[q].leaves = loc[q].leaves
        /\ loc'[q].since = loc[q].since \cup {memory'}

Starts(p) ==
  /\ pc[p] = "idle" /\ pc'[p] \in {"list", "nonce"}
  /\ Args(loc[p])' /\ loc'[p].nonce = 0 /\ loc'[p].until \in Nat
  /\ loc'[p].after = { q \in Procs : pc[q] \in Ended }
  /\ pc'[p] = "list" => memory' \in loc'[p].since /\ loc'[p].leaves = <<>>
  /\ pc'[p] = "nonce" /\ loc'[p].op \in {"anchor_vault", "also_anchor"}
       => loc'[p].leaves \in loc'[p].since
  /\ loc'[p].since \subseteq {memory'}
  /\ UNCHANGED pool

Reads(p) ==
  /\ ListRecords(p) \/ ReadFile(p)
  /\ UNCHANGED <<vault, pool>>

ReadsNonce(p) == ReadNonce(p) /\ UNCHANGED <<vault, pool>>
Sends(p)      == Send(p) /\ UNCHANGED vault

\* A command ends before it sends.
Forgets(p) ==
  /\ pc[p] \in Running \ {"wait"} /\ pc'[p] = "idle" /\ loc'[p] = Blank
  /\ UNCHANGED <<vault, pool>>

\* A command ends after it has sent.
Finishes(p) == (Receipt(p) \/ Timeout(p)) /\ UNCHANGED <<vault, pool>>

Moving(p) ==
  /\ Starts(p) \/ Reads(p) \/ ReadsNonce(p) \/ Sends(p) \/ Forgets(p) \/ Finishes(p)
  /\ pc' \in [Procs -> States]
  /\ DOMAIN loc' = Procs /\ DOMAIN loc'[p] = LocFields
  /\ \A q \in Procs \ {p} : Waits(q)
  /\ UNCHANGED <<chain, mined, evmVars, now>>

Idling ==
  /\ UNCHANGED <<pc, chain, mined, pool, evmVars, now>>
  /\ DOMAIN loc' = Procs /\ \A q \in Procs : Waits(q)

LEMMA WitnessWaits ==
  ASSUME Shape, Witness(memory'), UNCHANGED pc
  PROVE  DOMAIN loc' = Procs /\ \A q \in Procs : Waits(q)
  <1>1. DOMAIN loc' = Procs
    BY DEF Witness
  <1>2. ASSUME NEW q \in Procs PROVE Waits(q)
    <2>1. CASE pc[q] \in {"list", "read"}
      <3>1. loc'[q] = [loc[q] EXCEPT !.since = @ \cup {memory'}]
        BY <2>1 DEF Witness
      <3> QED
        BY <2>1, <3>1 DEF Shape, LocFields, Waits, SameArgs
    <2>2. CASE pc[q] \notin {"list", "read"}
      BY <2>2 DEF Witness, Shape, Waits
    <2> QED
      BY <2>1, <2>2
  <1> QED
    BY <1>1, <1>2

LEMMA GotoMoves ==
  ASSUME Shape, NEW p \in Procs, NEW next \in States, NEW l, DOMAIN l = LocFields,
         Goto(p, next, l), UNCHANGED memory
  PROVE  /\ pc'[p] = next /\ loc'[p] = l
         /\ pc' \in [Procs -> States]
         /\ DOMAIN loc' = Procs /\ DOMAIN loc'[p] = LocFields
         /\ \A q \in Procs \ {p} : Waits(q)
  BY DEF Goto, Shape, Waits

LEMMA EndMoves ==
  ASSUME Shape, NEW p \in Procs, NEW result \in Ended, End(p, result), UNCHANGED memory
  PROVE  /\ pc'[p] = result /\ loc'[p] = loc[p]
         /\ pc' \in [Procs -> States]
         /\ DOMAIN loc' = Procs /\ DOMAIN loc'[p] = LocFields
         /\ \A q \in Procs \ {p} : Waits(q)
  BY DEF End, Shape, Waits, States

LEMMA BlankFields == DOMAIN Blank = LocFields
  BY DEF Blank, LocFields

\* A command begins, all but the gateway's.
LEMMA BeginMoves ==
  ASSUME Base, NEW p \in Procs, NEW l, DOMAIN l = LocFields, Begin(p, "nonce", l),
         UNCHANGED <<vault, pool, chain, mined, evmVars, now>>,
         Args(l), l.nonce = 0, l.until \in Nat,
         l.op \in {"anchor_vault", "also_anchor"} => l.leaves \in l.since,
         l.since \subseteq {memory}
  PROVE  Moving(p)
  <1> DEFINE m == [l EXCEPT !.after = { q \in Procs : pc[q] \in Ended }]
  <1>1. /\ DOMAIN m = LocFields /\ m.after = { q \in Procs : pc[q] \in Ended }
        /\ m.op = l.op /\ m.by = l.by /\ m.subject = l.subject /\ m.what = l.what /\ m.val = l.val
        /\ m.nonce = l.nonce /\ m.until = l.until /\ m.leaves = l.leaves /\ m.since = l.since
    BY DEF LocFields
  <1>2. pc[p] = "idle" /\ Goto(p, "nonce", m)
    BY DEF Begin
  <1>5. memory' = memory
    BY DEF vault
  <1> HIDE DEF m
  <1>3. /\ pc'[p] = "nonce" /\ loc'[p] = m
        /\ pc' \in [Procs -> States]
        /\ DOMAIN loc' = Procs /\ DOMAIN loc'[p] = LocFields
        /\ \A q \in Procs \ {p} : Waits(q)
    BY <1>1, <1>2, GotoMoves DEF Base, vault, States, Running
  <1>4. Args(loc[p])'
    BY <1>1, <1>3 DEF Args
  <1> QED
    BY <1>1, <1>2, <1>3, <1>4, <1>5 DEF Moving, Starts

LEMMA AlsoAnchorMoves ==
  ASSUME Base, NEW p \in Procs, NEW caller \in Parties, NEW s \in Subjects, NEW r \in Records,
         CallAlsoAnchor(p, caller, s, r), UNCHANGED <<pool, chain, mined, evmVars, now>>
  PROVE  Moving(p)
  <1> DEFINE m == [Blank EXCEPT !.op = "also_anchor", !.by = caller, !.subject = s,
                                !.since = {memory'}, !.after = { u \in Procs : pc[u] \in Ended }]
  <1>1. /\ DOMAIN m = LocFields /\ m.after = { q \in Procs : pc[q] \in Ended }
        /\ m.op = "also_anchor" /\ m.by = caller /\ m.subject = s /\ m.leaves = <<>>
        /\ m.nonce = 0 /\ m.until = 0 /\ m.since = {memory'}
    BY DEF LocFields, Blank
  <1>2. pc[p] = "idle" /\ pc' = [pc EXCEPT ![p] = "list"] /\ DOMAIN loc' = Procs /\ loc'[p] = m
    BY DEF CallAlsoAnchor
  <1>3. ASSUME NEW q \in Procs \ {p} PROVE Waits(q)
    <2>1. pc'[q] = pc[q]
      BY <1>2 DEF Base, Shape
    <2>2. CASE pc[q] \in {"list", "read"}
      <3>1. loc'[q] = [loc[q] EXCEPT !.since = @ \cup {memory'}]
        BY <2>2 DEF CallAlsoAnchor
      <3> QED
        BY <2>1, <2>2, <3>1 DEF Base, Shape, LocFields, Waits, SameArgs
    <2>3. CASE pc[q] \notin {"list", "read"}
      <3>1. loc'[q] = loc[q]
        BY <2>3 DEF CallAlsoAnchor
      <3> QED
        BY <2>1, <2>3, <3>1 DEF Base, Shape, Waits
    <2> QED
      BY <2>2, <2>3
  <1> HIDE DEF m
  <1>4. pc' \in [Procs -> States] /\ pc'[p] = "list"
    BY <1>2 DEF Base, Shape, States, Running
  <1>5. Args(loc[p])'
    BY <1>1, <1>2 DEF Args, AnchorOps
  <1> QED
    BY <1>1, <1>2, <1>3, <1>4, <1>5 DEF Moving, Starts

LEMMA CallMoves ==
  ASSUME Base, now \in Nat, NEW p \in Procs, Call(p), UNCHANGED <<pool, chain, mined, evmVars, now>>
  PROVE  Moving(p)
  <1>1. ASSUME NEW caller \in Parties, NEW s \in Subjects, NEW r \in Ids, NEW v \in Commits,
               CallMemory(p, "write", caller, s, r, v)
        PROVE  Moving(p)
    <2> DEFINE l == [Blank EXCEPT !.op = "write", !.by = caller, !.subject = s, !.what = r, !.val = v]
    <2>1. /\ DOMAIN l = LocFields /\ l.op = "write" /\ l.by = caller /\ l.subject = s
          /\ l.what = r /\ l.val = v /\ l.nonce = 0 /\ l.until = 0 /\ l.since = {}
      BY DEF LocFields, Blank
    <2>2. Begin(p, "nonce", l) /\ UNCHANGED vault
      BY <1>1 DEF CallMemory
    <2> HIDE DEF l
    <2> QED
      BY <2>1, <2>2, BeginMoves DEF Args
  <1>2. ASSUME NEW caller \in Parties, NEW s \in Subjects, NEW r \in Ids,
               CallMemory(p, "delete", caller, s, r, None)
        PROVE  Moving(p)
    <2> DEFINE l == [Blank EXCEPT !.op = "delete", !.by = caller, !.subject = s, !.what = r, !.val = None]
    <2>1. /\ DOMAIN l = LocFields /\ l.op = "delete" /\ l.by = caller /\ l.subject = s
          /\ l.what = r /\ l.nonce = 0 /\ l.until = 0 /\ l.since = {}
      BY DEF LocFields, Blank
    <2>2. Begin(p, "nonce", l) /\ UNCHANGED vault
      BY <1>2 DEF CallMemory
    <2> HIDE DEF l
    <2> QED
      BY <2>1, <2>2, BeginMoves DEF Args
  <1>3. ASSUME NEW caller \in Parties, NEW s \in Subjects, CallAnchor(p, caller, s)
        PROVE  Moving(p)
    <2> DEFINE l == [Blank EXCEPT !.op = "anchor", !.by = caller, !.subject = s]
    <2>1. /\ DOMAIN l = LocFields /\ l.op = "anchor" /\ l.by = caller /\ l.subject = s
          /\ l.nonce = 0 /\ l.until = 0 /\ l.since = {}
      BY DEF LocFields, Blank
    <2>2. Begin(p, "nonce", l) /\ UNCHANGED vault
      BY <1>3 DEF CallAnchor
    <2> HIDE DEF l
    <2> QED
      BY <2>1, <2>2, BeginMoves DEF Args, AnchorOps
  <1>4. ASSUME NEW caller \in Parties, NEW s \in Subjects, CallAnchorVault(p, caller, s)
        PROVE  Moving(p)
    <2> DEFINE l == [Blank EXCEPT !.op = "anchor_vault", !.by = caller, !.subject = s,
                                  !.leaves = memory, !.since = {memory}]
    <2>1. /\ DOMAIN l = LocFields /\ l.op = "anchor_vault" /\ l.by = caller /\ l.subject = s
          /\ l.nonce = 0 /\ l.until = 0 /\ l.leaves \in l.since /\ l.since = {memory}
      BY DEF LocFields, Blank
    <2>2. Begin(p, "nonce", l) /\ UNCHANGED vault
      BY <1>4 DEF CallAnchorVault
    <2> HIDE DEF l
    <2> QED
      BY <2>1, <2>2, BeginMoves DEF Args, AnchorOps
  <1>5. ASSUME NEW s \in Subjects, NEW b \in Parties, CallRevoke(p, s, b)
        PROVE  Moving(p)
    <2> DEFINE l == [Blank EXCEPT !.op = "revoke", !.by = s, !.subject = s, !.what = b]
    <2>1. /\ DOMAIN l = LocFields /\ l.op = "revoke" /\ l.by = s /\ l.subject = s /\ l.what = b
          /\ l.nonce = 0 /\ l.until = 0 /\ l.since = {}
      BY DEF LocFields, Blank
    <2>2. Begin(p, "nonce", l) /\ UNCHANGED vault
      BY <1>5 DEF CallRevoke
    <2> HIDE DEF l
    <2> QED
      BY <2>1, <2>2, BeginMoves, EvmConstants DEF Args, LeaseOps
  <1>6. ASSUME NEW s \in Subjects, NEW b \in Parties, NEW h \in Hours, CallGrant(p, s, b, h)
        PROVE  Moving(p)
    <2> DEFINE l == [Blank EXCEPT !.op = "grant", !.by = s, !.subject = s, !.what = b, !.until = now + h]
    <2>1. /\ DOMAIN l = LocFields /\ l.op = "grant" /\ l.by = s /\ l.subject = s /\ l.what = b
          /\ l.nonce = 0 /\ l.until = now + h /\ l.since = {}
      BY DEF LocFields, Blank
    <2>2. Begin(p, "nonce", l) /\ UNCHANGED vault
      BY <1>6 DEF CallGrant
    <2>3. l.until \in Nat
      BY <1>6, <2>1, ClientConstants
    <2> HIDE DEF l
    <2> QED
      BY <2>1, <2>2, <2>3, BeginMoves, EvmConstants DEF Args, LeaseOps
  <1> QED
    BY <1>1, <1>2, <1>3, <1>4, <1>5, <1>6, AlsoAnchorMoves DEF Call

LEMMA CommandMoves ==
  ASSUME Base, now \in Nat, NEW p \in Procs, CommandNext(p)
  PROVE  Moving(p)
  <1>0. UNCHANGED <<chain, mined, evmVars, now>>
    BY DEF CommandNext
  <1>1. CASE Call(p) /\ UNCHANGED pool
    BY <1>0, <1>1, CallMoves
  <1>2. CASE (ListRecords(p) \/ ReadFile(p)) /\ UNCHANGED <<vault, pool>>
    <2>1. PICK next, l : next \in States /\ DOMAIN l = LocFields /\ Goto(p, next, l)
      BY <1>2 DEF ListRecords, ReadFile, Base, Shape, LocFields, States, Running
    <2> QED
      BY <1>0, <1>2, <2>1, GotoMoves DEF Moving, Reads, Base, vault
  <1>3. CASE ReadNonce(p) /\ UNCHANGED <<vault, pool>>
    <2>1. PICK next, l : next \in States /\ DOMAIN l = LocFields /\ Goto(p, next, l)
      BY <1>3 DEF ReadNonce, Base, Shape, LocFields, States, Running
    <2> QED
      BY <1>0, <1>3, <2>1, GotoMoves DEF Moving, ReadsNonce, Base, vault
  <1>4. CASE (Unconfigured(p) \/ GiveUp(p)) /\ UNCHANGED <<vault, pool>>
    <2>1. pc[p] \in Running \ {"wait"} /\ Goto(p, "idle", Blank) /\ "idle" \in States
      BY <1>4 DEF Unconfigured, GiveUp, Running, States
    <2> QED
      BY <1>0, <1>4, <2>1, GotoMoves, BlankFields DEF Moving, Forgets, Base, vault
  <1>5. CASE (Receipt(p) \/ Timeout(p)) /\ UNCHANGED <<vault, pool>>
    <2>1. PICK result \in Ended : End(p, result)
      BY <1>5 DEF Receipt, Timeout, Ended
    <2> QED
      BY <1>0, <1>5, <2>1, EndMoves DEF Moving, Finishes, Base, vault
  <1>6. CASE Send(p) /\ UNCHANGED vault
    <2>1. Goto(p, "wait", loc[p]) /\ DOMAIN loc[p] = LocFields /\ "wait" \in States
      BY <1>6 DEF Send, Base, Shape, States, Running
    <2> QED
      BY <1>0, <1>6, <2>1, GotoMoves DEF Moving, Sends, Base, vault
  <1> QED
    BY <1>1, <1>2, <1>3, <1>4, <1>5, <1>6 DEF CommandNext

\* A step moves a command, the vault or the network.
LEMMA StepCases ==
  ASSUME Base, now \in Nat, [Next]_vars
  PROVE  (\E p \in Procs : Moving(p)) \/ Idling \/ NetworkNext
  <1>1. CASE VaultNext
    <2>1. Witness(memory') /\ UNCHANGED <<pc, network, evmVars, now>>
      BY <1>1 DEF VaultNext, Put, Tombstone
    <2> QED
      BY <2>1, WitnessWaits DEF Idling, Base, network
  <1>2. CASE UNCHANGED vars
    BY <1>2 DEF vars, vault, network, Idling, Waits, Base, Shape
  <1> QED
    BY <1>1, <1>2, CommandMoves DEF Next

VaultTyped ==
  /\ memory \in Seq(Records) /\ Distinct(memory)
  /\ Live \subseteq drawn /\ drawn \subseteq Records

LEMMA AppendKept ==
  ASSUME VaultTyped, NEW r \in Records, r \notin drawn,
         memory' = Append(memory, r), drawn' = drawn \cup {r}
  PROVE  VaultTyped'
  <1>1. /\ Len(memory) \in Nat /\ Len(memory') = Len(memory) + 1 /\ memory' \in Seq(Records)
        /\ \A i \in 1..Len(memory) : memory'[i] = memory[i]
        /\ memory'[Len(memory) + 1] = r
    BY DEF VaultTyped
  <1>2. \A i \in 1..Len(memory) : memory[i] \in drawn
    BY DEF VaultTyped, Live
  <1>3. Distinct(memory)'
    BY <1>1, <1>2 DEF VaultTyped, Distinct
  <1>4. Live' \subseteq drawn'
    BY <1>1, <1>2 DEF Live
  <1> QED
    BY <1>1, <1>3, <1>4 DEF VaultTyped

LEMMA VaultStep == Base /\ [Next]_vars => VaultTyped'
  <1> SUFFICES ASSUME Base, [Next]_vars PROVE VaultTyped'
    OBVIOUS
  <1>0. VaultTyped
    BY DEF Base, Shape, VaultTyped
  <1>1. CASE UNCHANGED vault
    BY <1>0, <1>1 DEF vault, VaultTyped, Live
  <1>2. ASSUME NEW r \in Records, Put(r) PROVE VaultTyped'
    BY <1>0, <1>2, AppendKept DEF Put
  <1>3. ASSUME NEW p \in Procs, NEW caller, NEW s, NEW r \in Records, CallAlsoAnchor(p, caller, s, r)
        PROVE  VaultTyped'
    BY <1>0, <1>3, AppendKept DEF CallAlsoAnchor
  <1>4. ASSUME NEW r \in Records, Tombstone(r) PROVE VaultTyped'
    <2>1. PICK i \in 1..Len(memory) : memory[i] = r /\ memory' = RemoveAt(memory, i)
      BY <1>4 DEF Tombstone
    <2>2. /\ memory' \in Seq(Records) /\ Distinct(memory)'
          /\ Elements(memory') = Elements(memory) \ {memory[i]}
      BY <1>0, <2>1, RemoveFacts DEF VaultTyped
    <2> QED
      BY <1>0, <1>4, <2>2 DEF VaultTyped, Tombstone, Live, Elements
  <1>5. ASSUME NEW p \in Procs, CommandNext(p) PROVE VaultTyped'
    BY <1>1, <1>3, <1>5 DEF CommandNext, Call, CallMemory, CallAnchor, CallGrant, CallRevoke,
       CallAnchorVault
  <1> QED
    BY <1>1, <1>2, <1>4, <1>5 DEF Next, VaultNext, NetworkNext, vars

\* What has been sent stays as it was, and how a command ended does not change.
LEMMA SentStay ==
  ASSUME Base, NEW p \in Procs, Moving(p)
  PROVE  /\ pc[p] \notin Ended
         /\ \A q \in Procs :
              /\ pc[q] \in Ended => pc'[q] = pc[q] /\ loc'[q] = loc[q]
              /\ pc[q] = "wait" => pc'[q] \in {"wait"} \cup Ended /\ loc'[q] = loc[q]
  <1>1. pc[p] \notin Ended
    BY DEF Moving, Starts, Reads, ListRecords, ReadFile, ReadsNonce, ReadNonce, Sends, Send,
       Forgets, Finishes, Receipt, Timeout, Ended, Running
  <1>2. ASSUME NEW q \in Procs \ {p}, pc[q] \in {"wait"} \cup Ended
        PROVE  pc'[q] = pc[q] /\ loc'[q] = loc[q]
    BY <1>2 DEF Moving, Waits, Ended
  <1>3. ASSUME pc[p] = "wait" PROVE pc'[p] \in Ended /\ loc'[p] = loc[p]
    <2>1. Finishes(p)
      BY <1>3 DEF Moving, Starts, Reads, ListRecords, ReadFile, ReadsNonce, ReadNonce, Sends,
         Send, Forgets
    <2>2. PICK result \in Ended : End(p, result)
      BY <2>1 DEF Finishes, Receipt, Timeout, Ended
    <2> QED
      BY <2>2, EndMoves, <2>1 DEF Base, Finishes, vault
  <1> QED
    BY <1>1, <1>2, <1>3

\* A command that does not move keeps what is known of it.
LEMMA WaitsKept ==
  ASSUME NEW q \in Procs, Waits(q), CallInv(q), ReadInv(q),
         \A u \in Procs : pc[u] \in Ended => pc'[u] \in Ended
  PROVE  (CallInv(q) /\ ReadInv(q))'
  <1>1. CASE loc'[q] = loc[q] /\ (memory' = memory \/ pc[q] \notin {"list", "read"})
    <2>1. CallInv(q)'
      BY <1>1 DEF Waits, CallInv, Args
    <2> QED
      BY <1>1, <2>1 DEF Waits, ReadInv, Past
  <1>2. CASE /\ pc[q] \in {"list", "read"}
             /\ SameArgs(q) /\ loc'[q].nonce = loc[q].nonce
             /\ loc'[q].left = loc[q].left /\ loc'[q].leaves = loc[q].leaves
             /\ loc'[q].since = loc[q].since \cup {memory'}
    <2>1. CallInv(q)'
      BY <1>2 DEF Waits, CallInv, Args, SameArgs
    <2> QED
      BY <1>2, <2>1 DEF Waits, ReadInv, Past, Ended
  <1> QED
    BY <1>1, <1>2 DEF Waits

LEMMA MoverKept ==
  ASSUME Base, NEW p \in Procs, Moving(p)
  PROVE  (CallInv(p) /\ ReadInv(p))'
  <1>0. /\ \A u \in Procs : pc[u] \in Ended => pc'[u] \in Ended
        /\ CallInv(p) /\ ReadInv(p) /\ Shape /\ DOMAIN loc[p] = LocFields
        /\ mined \in [Parties -> Nat]
    BY SentStay DEF Base, Shape
  <1>1. CASE Starts(p)
    <2>1. CallInv(p)'
      BY <1>0, <1>1 DEF Starts, CallInv
    <2> QED
      BY <1>1, <2>1 DEF Starts, ReadInv, Past, Ended
  <1>2. CASE ListRecords(p) /\ UNCHANGED <<vault, pool>>
    <2>1. CASE memory = <<>>
      <3>1. Goto(p, "nonce", loc[p]) /\ pc[p] = "list" /\ "nonce" \in States
        BY <1>2, <2>1 DEF ListRecords, States, Running
      <3>2. pc'[p] = "nonce" /\ loc'[p] = loc[p]
        BY <1>0, <1>2, <3>1, GotoMoves DEF vault
      <3>3. CallInv(p)'
        BY <1>0, <3>1, <3>2 DEF CallInv, Args
      <3> QED
        BY <1>0, <2>1, <3>1, <3>2, <3>3 DEF ReadInv, Past, Ended
    <2>2. CASE memory # <<>>
      <3> DEFINE l == [loc[p] EXCEPT !.left = memory]
      <3>1. Goto(p, "read", l) /\ pc[p] = "list" /\ "read" \in States
        BY <1>2, <2>2 DEF ListRecords, States, Running
      <3>2. /\ DOMAIN l = LocFields /\ l.left = memory
            /\ l.op = loc[p].op /\ l.by = loc[p].by /\ l.subject = loc[p].subject
            /\ l.what = loc[p].what /\ l.val = loc[p].val /\ l.until = loc[p].until
            /\ l.nonce = loc[p].nonce /\ l.after = loc[p].after
            /\ l.leaves = loc[p].leaves /\ l.since = loc[p].since
        BY <1>0 DEF LocFields
      <3> HIDE DEF l
      <3>3. pc'[p] = "read" /\ loc'[p] = l
        BY <1>0, <1>2, <3>1, <3>2, GotoMoves DEF vault
      <3>4. CallInv(p)'
        BY <1>0, <3>1, <3>2, <3>3 DEF CallInv, Args
      <3>5. <<>> \in Seq(Records) /\ <<>> \o memory = memory /\ memory \in Seq(Records)
        BY <1>0 DEF Shape
      <3> QED
        BY <1>0, <2>2, <3>1, <3>2, <3>3, <3>4, <3>5 DEF ReadInv, Past, Ended
    <2> QED
      BY <2>1, <2>2
  <1>3. CASE ReadFile(p) /\ UNCHANGED <<vault, pool>>
    <2> DEFINE next == IF Len(loc[p].left) = 1 THEN "nonce" ELSE "read"
               l == [loc[p] EXCEPT !.left = Tail(@), !.leaves = Append(@, Head(loc[p].left))]
    <2>1. Goto(p, next, l) /\ pc[p] = "read" /\ next \in States
      BY <1>3 DEF ReadFile, States, Running
    <2>2. /\ DOMAIN l = LocFields /\ l.left = Tail(loc[p].left)
          /\ l.op = loc[p].op /\ l.by = loc[p].by /\ l.subject = loc[p].subject
          /\ l.what = loc[p].what /\ l.val = loc[p].val /\ l.until = loc[p].until
          /\ l.nonce = loc[p].nonce /\ l.after = loc[p].after
          /\ l.leaves = Append(loc[p].leaves, Head(loc[p].left)) /\ l.since = loc[p].since
      BY <1>0 DEF LocFields
    <2> HIDE DEF l
    <2>3. pc'[p] = next /\ loc'[p] = l
      BY <1>0, <1>3, <2>1, <2>2, GotoMoves DEF vault
    <2>4. CallInv(p)'
      BY <1>0, <2>1, <2>2, <2>3 DEF CallInv, Args
    <2>5. /\ loc[p].left \in Seq(Records) /\ loc[p].left # <<>> /\ loc[p].leaves \in Seq(Records)
          /\ loc[p].leaves \o loc[p].left \in loc[p].since
      BY <1>0, <2>1 DEF ReadInv
    <2>6. PICK a \in Seq(Records), b \in Seq(Records) :
            a = loc[p].leaves /\ b = loc[p].left /\ b # <<>>
      BY <2>5
    <2>7. /\ Tail(b) \in Seq(Records) /\ Append(a, Head(b)) \in Seq(Records)
          /\ Append(a, Head(b)) \o Tail(b) = a \o b
      <3>1. a \in Seq(Records) /\ b \in Seq(Records) /\ b # <<>>
        BY <2>6
      <3>2. \A x, y \in Seq(Records) : y # <<>> =>
              /\ Tail(y) \in Seq(Records) /\ Append(x, Head(y)) \in Seq(Records)
              /\ Append(x, Head(y)) \o Tail(y) = x \o y
        BY MoveHead
      <3> QED
        BY <3>1, <3>2
    <2>8. /\ Append(a, Head(b)) \o <<>> = Append(a, Head(b))
          /\ Len(b) = 1 <=> Tail(b) = <<>>
      <3>1. Append(a, Head(b)) \o <<>> = Append(a, Head(b))
        BY <2>7, ConcatEmptySeq
      <3>2. Len(Tail(b)) = Len(b) - 1 /\ Len(b) \in Nat
        BY <2>6, HeadTailProperties
      <3>3. Tail(b) = <<>> <=> Len(Tail(b)) = 0
        BY <2>7, EmptySeq
      <3> QED
        BY <3>1, <3>2, <3>3
    <2>9. /\ l.left \in Seq(Records) /\ l.leaves \in Seq(Records)
          /\ l.leaves \o l.left \in l.since
          /\ l.leaves \o <<>> = l.leaves
          /\ next = "nonce" <=> l.left = <<>>
      BY <2>2, <2>5, <2>6, <2>7, <2>8
    <2> QED
      BY <2>2, <2>3, <2>4, <2>9 DEF ReadInv, Past, Ended
  <1>4. CASE ReadsNonce(p)
    <2> DEFINE l == [loc[p] EXCEPT !.nonce = mined[loc[p].by]]
    <2>1. Goto(p, "send", l) /\ pc[p] = "nonce" /\ "send" \in States
      BY <1>4 DEF ReadsNonce, ReadNonce, States, Running
    <2>2. /\ DOMAIN l = LocFields /\ l.nonce = mined[loc[p].by]
          /\ l.op = loc[p].op /\ l.by = loc[p].by /\ l.subject = loc[p].subject
          /\ l.what = loc[p].what /\ l.val = loc[p].val /\ l.until = loc[p].until
          /\ l.after = loc[p].after
          /\ l.leaves = loc[p].leaves /\ l.since = loc[p].since
      BY <1>0 DEF LocFields
    <2> HIDE DEF l
    <2>3. pc'[p] = "send" /\ loc'[p] = l
      BY <1>0, <1>4, <2>1, <2>2, GotoMoves DEF vault, ReadsNonce
    <2>4. CallInv(p)'
      BY <1>0, <2>1, <2>2, <2>3 DEF CallInv, Args
    <2> QED
      BY <1>0, <2>1, <2>2, <2>3, <2>4 DEF ReadInv, Past, Ended
  <1>5. CASE Sends(p) \/ Finishes(p)
    <2>1. PICK result \in {"wait"} \cup Ended : pc'[p] = result /\ loc'[p] = loc[p] /\ pc[p] \in {"send", "wait"}
      BY <1>0, <1>5, GotoMoves, EndMoves
      DEF Sends, Send, Finishes, Receipt, Timeout, Goto, End, Shape, Ended, States, Running
    <2>2. CallInv(p)'
      BY <1>0, <2>1 DEF CallInv, Args, Ended
    <2> QED
      BY <1>0, <2>1, <2>2 DEF ReadInv, Past, Ended
  <1>6. CASE Forgets(p)
    <2>1. Blank.nonce = 0 /\ Blank.until = 0 /\ Blank.after = {}
      BY DEF Blank
    <2> QED
      BY <1>6, <2>1 DEF Forgets, CallInv, ReadInv, Past, Ended
  <1> QED
    BY <1>1, <1>2, <1>3, <1>4, <1>5, <1>6 DEF Moving, Reads

-----------------------------------------------------------------------------
(* The invariant.                                                          *)

\* The network: what is where, and the nonces.
NetInv ==
  /\ pool \subseteq { q \in Procs : pc[q] \in {"wait", "lost"} /\ ~InChain(q) }
  /\ \A i \in 1..Len(chain) :
       /\ chain[i].cmd \in Procs /\ pc[chain[i].cmd] \in {"wait"} \cup Ended
       /\ loc[chain[i].cmd].nonce < mined[loc[chain[i].cmd].by]
  /\ \A i, j \in 1..Len(chain) : chain[i].cmd = chain[j].cmd => i = j
  /\ \A p \in Procs : pc[p] \in Past => loc[p].nonce <= mined[loc[p].by]

\* What a command was told.
EndInv ==
  \A p \in Procs : /\ pc[p] \in {"ok", "error"} => MinedOk(p)
                   /\ pc[p] = "reverted" => Reverted(p)

\* A command's nonce is not less than those of its account's commands that had
\* ended before it began.
NonceOrder ==
  \A c \in Procs : pc[c] \in Past =>
    \A d \in loc[c].after : loc[d].by = loc[c].by => loc[d].nonce <= loc[c].nonce

SameLease(c, d) == loc[c].by = loc[d].by /\ loc[c].what = loc[d].what

\* A revocation holds until a grant of the same lease is mined.
RevInv ==
  \A i \in 1..Len(chain) :
    LET c == chain[i].cmd IN
    chain[i].ok = TRUE /\ loc[c].op = "revoke" =>
      \/ leases[loc[c].by][loc[c].what] = NoLease
      \/ \E j \in 1..Len(chain) :
           i < j /\ loc[chain[j].cmd].op = "grant" /\ SameLease(chain[j].cmd, c)

ClientInv ==
  EvmTypeOK /\ Base /\ NetInv /\ EndInv /\ NonceOrder /\ ChainKeepsOrder /\ RevInv

LEMMA NowNat == EvmTypeOK => now \in Nat
  BY DEF EvmTypeOK

\* What was sent, and how a command ended, is for good.
LEMMA SentForGood ==
  ASSUME Base, EvmTypeOK, [Next]_vars, NEW q \in Procs, pc[q] \in {"wait"} \cup Ended
  PROVE  /\ loc'[q] = loc[q] /\ pc'[q] \in {"wait"} \cup Ended
         /\ pc[q] \in Ended => pc'[q] = pc[q]
  <1>1. CASE Idling
    BY <1>1 DEF Idling, Waits, Ended
  <1>2. CASE NetworkNext
    BY <1>2 DEF NetworkNext
  <1>3. ASSUME NEW p \in Procs, Moving(p)
        PROVE  /\ loc'[q] = loc[q] /\ pc'[q] \in {"wait"} \cup Ended
               /\ pc[q] \in Ended => pc'[q] = pc[q]
    BY <1>3, SentStay
  <1> QED
    BY <1>1, <1>2, <1>3, StepCases, NowNat

LEMMA BaseStep == EvmTypeOK /\ NetInv /\ Base /\ [Next]_vars => Base'
  <1> SUFFICES ASSUME EvmTypeOK, NetInv, Base, [Next]_vars PROVE Base'
    OBVIOUS
  <1>0. VaultTyped' /\ now \in Nat
    BY VaultStep, NowNat
  <1>1. ASSUME NEW p \in Procs, Moving(p) PROVE Base'
    <2>1. \A u \in Procs : pc[u] \in Ended => pc'[u] \in Ended
      BY <1>1, SentStay
    <2>2. ASSUME NEW q \in Procs PROVE (CallInv(q) /\ ReadInv(q))' /\ DOMAIN loc'[q] = LocFields
      <3>1. CASE q = p
        BY <1>1, <3>1, MoverKept DEF Moving
      <3>2. CASE q # p
        <4>1. Waits(q) /\ CallInv(q) /\ ReadInv(q)
          BY <1>1, <3>2 DEF Moving, Base
        <4>2. (CallInv(q) /\ ReadInv(q))'
          BY <2>1, <4>1, WaitsKept, Zenon
        <4> QED
          BY <4>1, <4>2 DEF Waits
      <3> QED
        BY <3>1, <3>2
    <2>3. pc' \in [Procs -> States] /\ DOMAIN loc' = Procs /\ UNCHANGED <<chain, mined>>
      BY <1>1 DEF Moving
    <2>4. Shape'
      BY <1>0, <2>2, <2>3 DEF Base, Shape, VaultTyped
    <2> QED
      BY <2>2, <2>4 DEF Base
  <1>2. CASE Idling
    <2>1. \A u \in Procs : pc[u] \in Ended => pc'[u] \in Ended
      BY <1>2 DEF Idling
    <2>2. ASSUME NEW q \in Procs PROVE (CallInv(q) /\ ReadInv(q))' /\ DOMAIN loc'[q] = LocFields
      <3>1. Waits(q) /\ CallInv(q) /\ ReadInv(q)
        BY <1>2 DEF Idling, Base
      <3>2. (CallInv(q) /\ ReadInv(q))'
        BY <2>1, <3>1, WaitsKept, Zenon
      <3> QED
        BY <3>1, <3>2 DEF Waits
    <2>3. Shape'
      BY <1>0, <1>2, <2>2 DEF Base, Shape, VaultTyped, Idling
    <2> QED
      BY <2>2, <2>3 DEF Base
  <1>3. CASE NetworkNext
    <2>1. UNCHANGED <<memory, drawn, pc, loc>>
      BY <1>3 DEF NetworkNext, vault
    <2>2. ASSUME NEW q \in Procs PROVE (CallInv(q) /\ ReadInv(q))'
      BY <2>1 DEF Base, CallInv, Args, ReadInv
    <2>3. IsSeq(chain)' /\ mined' \in [Parties -> Nat]
      <3>1. ASSUME NEW p \in pool, NEW ok \in BOOLEAN, Mine(p, ok) PROVE IsSeq(chain)' /\ mined' \in [Parties -> Nat]
        <4>1. loc[p].by \in Parties
          BY <3>1 DEF NetInv, Base, CallInv, Args
        <4>2. mined[loc[p].by] + 1 \in Nat
          BY <4>1 DEF Base, Shape
        <4>3. IsSeq(Append(chain, [cmd |-> p, ok |-> ok]))
          BY AppendAny DEF Base, Shape
        <4> QED
          BY <3>1, <4>2, <4>3 DEF Mine, Base, Shape
      <3> QED
        BY <1>3, <3>1 DEF NetworkNext, NewBlock, Drop, network, Base, Shape
    <2>4. Shape'
      BY <1>0, <2>1, <2>3 DEF Base, Shape, VaultTyped
    <2> QED
      BY <2>2, <2>4 DEF Base
  <1> QED
    BY <1>0, <1>1, <1>2, <1>3, StepCases

\* What mining p's transaction does to the chain and the nonces.
LEMMA MineFacts ==
  ASSUME Base, NetInv, NEW p \in pool, NEW ok \in BOOLEAN, Mine(p, ok)
  PROVE  /\ p \in Procs /\ pc[p] \in {"wait", "lost"} /\ ~InChain(p) /\ Args(loc[p])
         /\ Len(chain) \in Nat /\ Len(chain') = Len(chain) + 1
         /\ \A i \in 1..Len(chain) : chain'[i] = chain[i]
         /\ chain'[Len(chain) + 1] = [cmd |-> p, ok |-> ok]
         /\ loc[p].by \in Parties /\ loc[p].nonce = mined[loc[p].by]
         /\ mined'[loc[p].by] = mined[loc[p].by] + 1
         /\ \A a \in Parties : mined[a] \in Nat /\ mined[a] <= mined'[a]
         /\ pool' = pool \ {p}
  <1>1. p \in Procs /\ pc[p] \in {"wait", "lost"} /\ ~InChain(p)
    BY DEF NetInv
  <1>2. Args(loc[p]) /\ loc[p].by \in Parties
    BY <1>1 DEF Base, CallInv, Args
  <1>3. /\ Len(chain) \in Nat /\ Len(chain') = Len(chain) + 1
        /\ \A i \in 1..Len(chain) : chain'[i] = chain[i]
        /\ chain'[Len(chain) + 1] = [cmd |-> p, ok |-> ok]
    <2> DEFINE e == [cmd |-> p, ok |-> ok]
    <2>1. IsSeq(chain)
      BY DEF Base, Shape
    <2>2. chain' = Append(chain, e)
      BY DEF Mine
    <2> HIDE DEF e
    <2>3. /\ Len(Append(chain, e)) = Len(chain) + 1 /\ Len(chain) \in Nat
          /\ \A i \in 1..Len(chain) : Append(chain, e)[i] = chain[i]
          /\ Append(chain, e)[Len(chain) + 1] = e
      BY <2>1, AppendAny
    <2> QED
      BY <2>2, <2>3 DEF e
  <1>4. /\ mined \in [Parties -> Nat] /\ loc[p].nonce = mined[loc[p].by] /\ pool' = pool \ {p}
        /\ mined' = [mined EXCEPT ![loc[p].by] = @ + 1]
    BY DEF Mine, Base, Shape
  <1> QED
    BY <1>1, <1>2, <1>3, <1>4

\* A step is a call of the contract, a block, or nothing for it.
LEMMA ContractStep == Base /\ EvmTypeOK /\ NetInv /\ [Next]_vars => EvmStep
  <1> SUFFICES ASSUME Base, EvmTypeOK, NetInv, [Next]_vars PROVE EvmStep
    OBVIOUS
  <1>1. CASE Idling
    BY <1>1 DEF Idling, EvmStep
  <1>2. ASSUME NEW p \in Procs, Moving(p) PROVE EvmStep
    BY <1>2 DEF Moving, EvmStep
  <1>3. ASSUME NEW p \in pool, NEW ok \in BOOLEAN, Mine(p, ok), UNCHANGED now PROVE EvmStep
    <2>1. Args(loc[p]) /\ loc[p].until \in Nat
      BY <1>3, MineFacts DEF Base, CallInv
    <2>2. CASE ~ok
      BY <1>3, <2>2 DEF Mine, EvmStep
    <2>3. CASE ok
      <3>1. Execute(loc[p])
        BY <1>3, <2>3 DEF Mine
      <3>2. CASE loc[p].op = "write" /\ loc[p].what \in Ids /\ loc[p].val \in Commits
        BY <1>3, <2>1, <3>1, <3>2 DEF Execute, Args, EvmCall, EvmStep, AnchorOps
      <3>3. CASE loc[p].op = "delete" /\ loc[p].what \in Ids
        BY <1>3, <2>1, <3>1, <3>3 DEF Execute, Args, EvmCall, EvmStep, AnchorOps
      <3>4. CASE loc[p].op = "grant" /\ loc[p].what \in Parties /\ loc[p].by = loc[p].subject
        <4>1. GrantLease(loc[p].by, loc[p].what, {"WRITE"}, loc[p].until)
          BY <3>1, <3>4 DEF Execute, AnchorOps
        <4>2. {"WRITE"} \in SUBSET Scopes /\ loc[p].by \in Subjects
          BY <2>1, <3>4 DEF Scopes, Args
        <4>3. EvmCall
          BY <2>1, <3>4, <4>1, <4>2 DEF EvmCall
        <4> QED
          BY <1>3, <4>3 DEF EvmStep
      <3>5. CASE loc[p].op = "revoke" /\ loc[p].what \in Parties /\ loc[p].by = loc[p].subject
        BY <1>3, <2>1, <3>1, <3>5 DEF Execute, Args, EvmCall, EvmStep, AnchorOps
      <3>6. CASE loc[p].op \in AnchorOps
        BY <1>3, <2>1, <3>1, <3>6 DEF Execute, Args, EvmCall, EvmStep, AnchorOps
      <3> QED
        BY <1>3, <2>1, <3>2, <3>3, <3>4, <3>5, <3>6 DEF Args, LeaseOps
    <2> QED
      BY <2>2, <2>3
  <1>4. CASE NetworkNext
    BY <1>3, <1>4 DEF NetworkNext, NewBlock, Drop, EvmStep
  <1> QED
    BY <1>1, <1>2, <1>4, StepCases, NowNat

LEMMA PastMoves ==
  ASSUME Base, NEW p \in Procs, Moving(p), NEW q \in Procs, pc'[q] \in Past
  PROVE  \/ pc[q] \in Past /\ loc'[q] = loc[q]
         \/ /\ loc'[q].by = loc[q].by /\ loc'[q].after = loc[q].after
            /\ loc[q].by \in Parties /\ loc'[q].nonce = mined[loc[q].by]
            /\ pc[q] = "nonce"
  <1>1. CASE q # p
    BY <1>1 DEF Moving, Waits, Past, Ended
  <1>2. CASE q = p /\ ReadsNonce(p)
    <2>1. /\ loc'[p] = [loc[p] EXCEPT !.nonce = mined[loc[p].by]]
          /\ DOMAIN loc[p] = LocFields /\ loc[p].by \in Parties /\ pc[p] = "nonce"
      BY <1>2 DEF ReadsNonce, ReadNonce, Goto, Base, Shape, CallInv, Args
    <2> QED
      BY <1>2, <2>1 DEF LocFields
  <1>3. CASE q = p /\ (Sends(p) \/ Finishes(p))
    BY <1>3, GotoMoves, EndMoves
    DEF Base, Sends, Send, Finishes, Receipt, Timeout, Goto, End, Shape, Ended, States, Running, Past
  <1>4. CASE q = p /\ (Starts(p) \/ Reads(p) \/ Forgets(p))
    BY <1>4 DEF Starts, Reads, ListRecords, ReadFile, Forgets, Goto, Base, Shape, Past, Ended
  <1> QED
    BY <1>1, <1>2, <1>3, <1>4 DEF Moving

LEMMA NetStep == Base /\ EvmTypeOK /\ NetInv /\ EndInv /\ [Next]_vars => NetInv' /\ EndInv'
  <1> SUFFICES ASSUME Base, EvmTypeOK, NetInv, EndInv, [Next]_vars PROVE NetInv' /\ EndInv'
    OBVIOUS
  <1>0. \A q \in Procs : pc[q] \in {"wait"} \cup Ended =>
          /\ loc'[q] = loc[q] /\ pc'[q] \in {"wait"} \cup Ended
          /\ pc[q] \in Ended => pc'[q] = pc[q]
    BY SentForGood
  <1>1. ASSUME NEW p \in Procs, Moving(p) PROVE NetInv' /\ EndInv'
    <2>0. UNCHANGED <<chain, mined>> /\ \A q \in Procs \ {p} : pc'[q] = pc[q]
      BY <1>1 DEF Moving, Waits
    <2>1. \A q \in Procs : InChain(q)' <=> InChain(q)
      BY <2>0 DEF InChain
    <2>2. pool' \subseteq { q \in Procs : pc[q] \in {"wait", "lost"} /\ ~InChain(q) }'
      <3>1. CASE Sends(p)
        <4>1. pool' \subseteq pool \cup {p} /\ pc'[p] = "wait" /\ pc[p] = "send"
          BY <3>1 DEF Sends, Send, Goto, Base, Shape
        <4>2. ~InChain(p)
          BY <4>1 DEF InChain, NetInv, Ended
        <4> QED
          BY <2>0, <2>1, <4>1, <4>2 DEF NetInv
      <3>2. CASE Finishes(p)
        <4>1. pool' = pool
          BY <3>2 DEF Finishes
        <4>2. p \in pool => pc'[p] = "lost"
          <5>1. MinedOk(p) \/ Reverted(p) => InChain(p)
            BY DEF MinedOk, Reverted, InChain
          <5>2. p \in pool => ~InChain(p)
            BY DEF NetInv
          <5>3. pc \in [Procs -> States]
            BY DEF Base, Shape
          <5> QED
            BY <3>2, <5>1, <5>2, <5>3 DEF Finishes, Receipt, Timeout, End
        <4> QED
          BY <2>0, <2>1, <4>1, <4>2 DEF NetInv
      <3>3. CASE Starts(p) \/ Reads(p) \/ ReadsNonce(p) \/ Forgets(p)
        <4>1. pool' = pool /\ pc[p] \notin {"wait", "lost"}
          BY <3>3 DEF Starts, Reads, ListRecords, ReadFile, ReadsNonce, ReadNonce, Forgets, Running
        <4> QED
          BY <2>0, <2>1, <4>1 DEF NetInv
      <3> QED
        BY <1>1, <3>1, <3>2, <3>3 DEF Moving
    <2>3. \A q \in Procs : pc'[q] \in Past => loc'[q].nonce <= mined'[loc'[q].by]
      <3> SUFFICES ASSUME NEW q \in Procs, pc'[q] \in Past PROVE loc'[q].nonce <= mined'[loc'[q].by]
        OBVIOUS
      <3>1. mined \in [Parties -> Nat]
        BY DEF Base, Shape
      <3> QED
        BY <1>1, <2>0, <3>1, PastMoves DEF NetInv
    <2>4. NetInv'
      BY <1>0, <2>0, <2>2, <2>3 DEF NetInv
    <2>5. ASSUME NEW q \in Procs
          PROVE  /\ pc'[q] \in {"ok", "error"} => MinedOk(q)
                 /\ pc'[q] = "reverted" => Reverted(q)
      <3>1. CASE q # p
        BY <2>0, <3>1 DEF EndInv
      <3>2. CASE q = p /\ Finishes(p)
        BY <3>2 DEF Finishes, Receipt, Timeout, End, Base, Shape
      <3>3. CASE q = p /\ ~Finishes(p)
        <4>1. pc'[p] \notin Ended
          BY <1>1, <3>3 DEF Moving, Starts, Reads, ListRecords, ReadFile, ReadsNonce, ReadNonce,
             Sends, Send, Forgets, Goto, Ended, Base, Shape
        <4> QED
          BY <3>3, <4>1 DEF Ended
      <3> QED
        BY <3>1, <3>2, <3>3
    <2>6. EndInv'
      BY <2>0, <2>5 DEF EndInv, MinedOk, Reverted
    <2> QED
      BY <2>4, <2>6
  <1>2. CASE Idling
    <2>1. UNCHANGED <<pc, chain, mined, pool>> /\ \A q \in Procs : pc[q] \in Past => loc'[q] = loc[q]
      BY <1>2 DEF Idling, Waits, Past, Ended
    <2> QED
      BY <1>0, <2>1 DEF NetInv, EndInv, InChain, MinedOk, Reverted
  <1>3. ASSUME NEW p \in pool, NEW ok \in BOOLEAN, Mine(p, ok), UNCHANGED <<pc, loc>> PROVE NetInv' /\ EndInv'
    <2>1. /\ p \in Procs /\ pc[p] \in {"wait", "lost"} /\ ~InChain(p)
          /\ Len(chain) \in Nat /\ Len(chain') = Len(chain) + 1
          /\ \A i \in 1..Len(chain) : chain'[i] = chain[i]
          /\ chain'[Len(chain) + 1].cmd = p
          /\ loc[p].by \in Parties /\ loc[p].nonce = mined[loc[p].by]
          /\ mined'[loc[p].by] = mined[loc[p].by] + 1
          /\ \A a \in Parties : mined[a] \in Nat /\ mined[a] <= mined'[a]
          /\ pool' = pool \ {p}
      <3>1. chain'[Len(chain) + 1] = [cmd |-> p, ok |-> ok]
        BY <1>3, MineFacts
      <3>2. chain'[Len(chain) + 1].cmd = p
        BY <3>1
      <3>3. /\ p \in Procs /\ pc[p] \in {"wait", "lost"} /\ ~InChain(p)
            /\ Len(chain) \in Nat /\ Len(chain') = Len(chain) + 1
            /\ \A i \in 1..Len(chain) : chain'[i] = chain[i]
            /\ loc[p].by \in Parties /\ loc[p].nonce = mined[loc[p].by]
            /\ mined'[loc[p].by] = mined[loc[p].by] + 1
            /\ \A a \in Parties : mined[a] \in Nat /\ mined[a] <= mined'[a]
            /\ pool' = pool \ {p}
        BY <1>3, MineFacts, Zenon
      <3> QED
        BY <3>2, <3>3
    <2>2. \A q \in Procs \ {p} : InChain(q)' <=> InChain(q)
      BY <2>1 DEF InChain
    <2>3. pool' \subseteq { q \in Procs : pc[q] \in {"wait", "lost"} /\ ~InChain(q) }'
      BY <1>3, <2>1, <2>2 DEF NetInv
    <2>4. \A q \in Procs : pc[q] # "idle" => loc[q].by \in Parties /\ loc[q].nonce \in Nat
      BY DEF Base, CallInv, Args
    <2>5. \A q \in Procs : pc[q] \in Past => loc[q].nonce <= mined'[loc[q].by]
      <3> SUFFICES ASSUME NEW q \in Procs, pc[q] \in Past PROVE loc[q].nonce <= mined'[loc[q].by]
        OBVIOUS
      <3>1. /\ loc[q].by \in Parties /\ loc[q].nonce \in Nat /\ loc[q].nonce <= mined[loc[q].by]
        BY <2>4 DEF NetInv, Past, Ended
      <3>2. PICK a \in Parties : a = loc[q].by
        BY <3>1
      <3>3. mined[a] \in Nat /\ mined'[a] \in Int /\ mined[a] <= mined'[a]
        BY <1>3, <2>1 DEF Mine, Base, Shape
      <3> QED
        BY <3>1, <3>2, <3>3
    <2>6. \A i \in 1..Len(chain') :
            /\ chain'[i].cmd \in Procs /\ pc[chain'[i].cmd] \in {"wait"} \cup Ended
            /\ loc[chain'[i].cmd].nonce < mined'[loc[chain'[i].cmd].by]
      <3> SUFFICES ASSUME NEW i \in 1..Len(chain')
                   PROVE  /\ chain'[i].cmd \in Procs /\ pc[chain'[i].cmd] \in {"wait"} \cup Ended
                          /\ loc[chain'[i].cmd].nonce < mined'[loc[chain'[i].cmd].by]
        OBVIOUS
      <3>1. CASE i \in 1..Len(chain)
        <4>1. /\ chain[i].cmd \in Procs /\ pc[chain[i].cmd] \in {"wait"} \cup Ended
              /\ loc[chain[i].cmd].nonce < mined[loc[chain[i].cmd].by]
              /\ chain'[i] = chain[i]
          BY <2>1, <3>1 DEF NetInv
        <4>2. PICK c \in Procs : c = chain[i].cmd
          BY <4>1
        <4>3. PICK a \in Parties : a = loc[c].by
          BY <2>4, <4>1, <4>2 DEF Ended
        <4>4. mined[a] \in Nat /\ mined'[a] \in Int /\ mined[a] <= mined'[a] /\ loc[c].nonce \in Nat
          BY <1>3, <2>1, <2>4, <4>1, <4>2 DEF Mine, Base, Shape, Ended
        <4> QED
          BY <4>1, <4>2, <4>3, <4>4
      <3>2. CASE i = Len(chain) + 1
        BY <2>1, <3>2 DEF Ended
      <3> QED
        BY <2>1, <3>1, <3>2
    <2>7. \A i, j \in 1..Len(chain') : chain'[i].cmd = chain'[j].cmd => i = j
      <3>1. \A i \in 1..Len(chain') : i \in 1..Len(chain) \/ i = Len(chain) + 1
        BY <2>1
      <3>2. \A i \in 1..Len(chain) : chain'[i].cmd = chain[i].cmd /\ chain[i].cmd # p
        BY <2>1 DEF InChain
      <3>3. \A i, j \in 1..Len(chain) : chain[i].cmd = chain[j].cmd => i = j
        BY DEF NetInv
      <3>4. chain'[Len(chain) + 1].cmd = p
        BY <2>1
      <3> QED
        BY <3>1, <3>2, <3>3, <3>4
    <2>8. NetInv'
      BY <1>3, <2>3, <2>5, <2>6, <2>7 DEF NetInv
    <2>9. EndInv'
      BY <1>3, <2>1 DEF EndInv, MinedOk, Reverted
    <2> QED
      BY <2>8, <2>9
  <1>4. CASE NetworkNext
    <2>1. ASSUME pool' \subseteq pool, UNCHANGED <<pc, loc, chain, mined>> PROVE NetInv' /\ EndInv'
      BY <2>1 DEF NetInv, EndInv, InChain, MinedOk, Reverted
    <2> QED
      BY <1>3, <1>4, <2>1 DEF NetworkNext, Drop, NewBlock, network
  <1> QED
    BY <1>1, <1>2, <1>4, StepCases, NowNat

LEMMA NonceStep == Base /\ EvmTypeOK /\ NetInv /\ NonceOrder /\ [Next]_vars => NonceOrder'
  <1> SUFFICES ASSUME Base, EvmTypeOK, NetInv, NonceOrder, [Next]_vars,
                      NEW c \in Procs, pc'[c] \in Past, NEW d \in loc'[c].after,
                      loc'[d].by = loc'[c].by
               PROVE  loc'[d].nonce <= loc'[c].nonce
    BY DEF NonceOrder
  <1>0. \A q \in Procs : pc[q] \in Ended => loc'[q] = loc[q]
    BY SentForGood
  <1>1. \A q \in Procs : loc[q].after \subseteq { u \in Procs : pc[u] \in Ended }
    BY DEF Base, CallInv
  <1>2. CASE pc[c] \in Past /\ loc'[c] = loc[c]
    BY <1>0, <1>1, <1>2 DEF NonceOrder
  <1>3. ASSUME NEW p \in Procs, Moving(p), ~(pc[c] \in Past /\ loc'[c] = loc[c])
        PROVE  loc'[d].nonce <= loc'[c].nonce
    <2>1. /\ loc'[c].by = loc[c].by /\ loc'[c].after = loc[c].after
          /\ loc[c].by \in Parties /\ loc'[c].nonce = mined[loc[c].by]
      BY <1>3, PastMoves
    <2>2. d \in Procs /\ pc[d] \in Ended /\ loc'[d] = loc[d]
      BY <1>0, <1>1, <2>1
    <2>3. loc[d].nonce <= mined[loc[d].by]
      BY <2>2 DEF NetInv, Past
    <2> QED
      BY <2>1, <2>2, <2>3
  <1>4. CASE Idling
    BY <1>2, <1>4 DEF Idling, Waits, Past, Ended
  <1>5. CASE NetworkNext
    BY <1>2, <1>5 DEF NetworkNext
  <1> QED
    BY <1>2, <1>3, <1>4, <1>5, StepCases, NowNat

\* The chain is as it was, or one transaction longer.
LEMMA ChainGrows ==
  ASSUME Base, EvmTypeOK, [Next]_vars
  PROVE  \/ UNCHANGED chain /\ UNCHANGED evmVars
         \/ \E p \in pool, ok \in BOOLEAN : Mine(p, ok) /\ UNCHANGED <<pc, loc>>
  <1>1. CASE NetworkNext
    BY <1>1 DEF NetworkNext, Drop, NewBlock, network
  <1> QED
    BY <1>1, StepCases, NowNat DEF Moving, Idling

LEMMA OrderStep ==
  Base /\ EvmTypeOK /\ NetInv /\ NonceOrder /\ ChainKeepsOrder /\ [Next]_vars => ChainKeepsOrder'
  <1> SUFFICES ASSUME Base, EvmTypeOK, NetInv, NonceOrder, ChainKeepsOrder, [Next]_vars
               PROVE  ChainKeepsOrder'
    OBVIOUS
  <1>0. \A q \in Procs : pc[q] \in {"wait"} \cup Ended =>
          /\ loc'[q] = loc[q] /\ pc'[q] \in {"wait"} \cup Ended
          /\ pc[q] \in Ended => pc'[q] = pc[q]
    BY SentForGood
  <1>1. \A i \in 1..Len(chain) : /\ chain[i].cmd \in Procs
                                 /\ pc[chain[i].cmd] \in {"wait"} \cup Ended
    BY DEF NetInv
  <1>2. CASE UNCHANGED chain
    BY <1>0, <1>1, <1>2 DEF ChainKeepsOrder, Ended
  <1>3. ASSUME NEW p \in pool, NEW ok \in BOOLEAN, Mine(p, ok), UNCHANGED <<pc, loc>> PROVE ChainKeepsOrder'
    <2>0. p \in Procs /\ pc[p] \in {"wait", "lost"} /\ loc[p].nonce = mined[loc[p].by]
      BY <1>3, MineFacts
    <2>1. /\ Len(chain) \in Nat /\ Len(chain') = Len(chain) + 1
          /\ \A i \in 1..Len(chain) : chain'[i] = chain[i]
          /\ chain'[Len(chain) + 1].cmd = p
      <3>1. chain'[Len(chain) + 1] = [cmd |-> p, ok |-> ok]
        BY <1>3, MineFacts
      <3>2. chain'[Len(chain) + 1].cmd = p
        BY <3>1
      <3> QED
        BY <1>3, <3>2, MineFacts
    <2>2. ASSUME NEW i \in 1..Len(chain), p \in loc[chain[i].cmd].after
          PROVE  loc[chain[i].cmd].by # loc[p].by /\ pc[p] = "lost"
      <3>1. PICK c \in Procs : c = chain[i].cmd
        BY <1>1
      <3>2. pc[c] \in {"wait"} \cup Ended /\ p \in loc[c].after /\ loc[c].nonce < mined[loc[c].by]
        BY <2>2, <3>1 DEF NetInv
      <3>3. pc[p] = "lost"
        BY <2>0, <3>2 DEF Base, CallInv, Ended
      <3>4. ASSUME loc[c].by = loc[p].by PROVE FALSE
        <4>1. loc[p].nonce <= loc[c].nonce
          BY <3>2, <3>4 DEF NonceOrder, Past
        <4>2. loc[p].nonce \in Nat /\ loc[c].nonce \in Nat /\ loc[c].nonce < loc[p].nonce
          BY <2>0, <3>2, <3>4 DEF Base, CallInv
        <4> QED
          BY <4>1, <4>2
      <3> QED
        BY <3>1, <3>3, <3>4
    <2>3. ASSUME NEW i \in 1..Len(chain'), NEW j \in 1..Len(chain'),
                 i < j, chain'[j].cmd \in loc[chain'[i].cmd].after
          PROVE  loc[chain'[i].cmd].by # loc[chain'[j].cmd].by /\ pc[chain'[j].cmd] = "lost"
      <3>1. i \in 1..Len(chain) /\ chain'[i] = chain[i]
        BY <2>1, <2>3
      <3>2. CASE j = Len(chain) + 1
        BY <2>1, <2>2, <2>3, <3>1, <3>2
      <3>3. CASE j \in 1..Len(chain)
        BY <2>1, <2>3, <3>1, <3>3 DEF ChainKeepsOrder
      <3> QED
        BY <2>1, <3>2, <3>3
    <2> QED
      BY <1>3, <2>3 DEF ChainKeepsOrder
  <1> QED
    BY <1>2, <1>3, ChainGrows

\* What a mined transaction does to a lease.
Affects(p, ok, s, b) ==
  \/ /\ leases'[s][b] = leases[s][b]
     /\ ~(ok = TRUE /\ loc[p].op = "revoke" /\ loc[p].by = s /\ loc[p].what = b)
  \/ leases'[s][b] = NoLease
  \/ loc[p].op = "grant" /\ loc[p].by = s /\ loc[p].what = b

LEMMA LeaseEffect ==
  ASSUME Base, EvmTypeOK, NetInv, NEW p \in pool, NEW ok \in BOOLEAN, Mine(p, ok),
         NEW s \in Subjects, NEW b \in Parties
  PROVE  Affects(p, ok, s, b)
  <1>1. Args(loc[p])
    BY MineFacts
  <1>2. leases \in [Subjects -> [Parties -> LeaseType]]
    BY DEF EvmTypeOK
  <1>3. CASE ~ok
    BY <1>3 DEF Mine, evmVars, Affects
  <1>4. CASE ok
    <2>1. Execute(loc[p])
      BY <1>4 DEF Mine
    <2>2. CASE loc[p].op \in {"write", "delete"} \cup AnchorOps
      BY <2>1, <2>2 DEF Execute, WriteMemory, DeleteMemory, AnchorMemoryRoot, evmState, AnchorOps, Affects
    <2>3. CASE loc[p].op = "grant"
      <3>1. leases' = [leases EXCEPT ![loc[p].by][loc[p].what] =
                         [expiresAt |-> loc[p].until, scopes |-> {"WRITE"}]]
        BY <2>1, <2>3 DEF Execute, GrantLease, AnchorOps
      <3> QED
        BY <1>2, <2>3, <3>1 DEF Affects
    <2>4. CASE loc[p].op = "revoke"
      <3>1. leases' = [leases EXCEPT ![loc[p].by][loc[p].what] = NoLease]
        BY <2>1, <2>4 DEF Execute, RevokeLease, AnchorOps
      <3> QED
        BY <1>2, <2>4, <3>1 DEF Affects
    <2> QED
      BY <1>1, <2>2, <2>3, <2>4 DEF Args, LeaseOps
  <1> QED
    BY <1>3, <1>4

LEMMA RevStep == Base /\ EvmTypeOK /\ NetInv /\ RevInv /\ [Next]_vars => RevInv'
  <1> SUFFICES ASSUME Base, EvmTypeOK, NetInv, RevInv, [Next]_vars PROVE RevInv'
    OBVIOUS
  <1>0. /\ \A q \in Procs : pc[q] \in {"wait"} \cup Ended => loc'[q] = loc[q]
        /\ \A i \in 1..Len(chain) : /\ chain[i].cmd \in Procs
                                    /\ pc[chain[i].cmd] \in {"wait"} \cup Ended
    BY SentForGood DEF NetInv
  <1>1. CASE UNCHANGED chain /\ UNCHANGED evmVars
    BY <1>0, <1>1 DEF RevInv, SameLease, evmVars
  <1>2. ASSUME NEW p \in pool, NEW ok \in BOOLEAN, Mine(p, ok), UNCHANGED <<pc, loc>> PROVE RevInv'
    <2>1. /\ p \in Procs /\ pc[p] \in {"wait", "lost"} /\ Len(chain) \in Nat /\ Len(chain') = Len(chain) + 1
          /\ \A i \in 1..Len(chain) : chain'[i] = chain[i]
          /\ chain'[Len(chain) + 1].cmd = p
          /\ chain'[Len(chain) + 1].ok = ok
      <3>1. chain'[Len(chain) + 1] = [cmd |-> p, ok |-> ok]
        BY <1>2, MineFacts
      <3>2. /\ chain'[Len(chain) + 1].cmd = p
            /\ chain'[Len(chain) + 1].ok = ok
        BY <3>1
      <3> QED
        BY <1>2, <3>2, MineFacts
    <2>2. ASSUME NEW i \in 1..Len(chain'), NEW c, c = chain'[i].cmd,
                 chain'[i].ok = TRUE, loc[c].op = "revoke"
          PROVE  \/ leases'[loc[c].by][loc[c].what] = NoLease
                 \/ \E j \in 1..Len(chain') :
                      i < j /\ loc[chain'[j].cmd].op = "grant" /\ SameLease(chain'[j].cmd, c)
      <3>1. c \in Procs /\ pc[c] # "idle"
        <4>1. CASE i \in 1..Len(chain)
          BY <1>0, <2>1, <2>2, <4>1 DEF Ended
        <4>2. CASE i = Len(chain) + 1
          BY <2>1, <2>2, <4>2
        <4> QED
          BY <2>1, <4>1, <4>2
      <3>2. PICK s \in Subjects, b \in Parties : s = loc[c].by /\ b = loc[c].what
        BY <2>2, <3>1 DEF Base, CallInv, Args, AnchorOps
      <3>3. CASE leases'[s][b] = NoLease
        BY <3>2, <3>3
      <3>4. CASE loc[p].op = "grant" /\ loc[p].by = s /\ loc[p].what = b
        <4>1. i # Len(chain) + 1
          BY <2>1, <2>2, <3>4
        <4>2. i < Len(chain) + 1 /\ Len(chain) + 1 \in 1..Len(chain')
          BY <2>1, <4>1
        <4> QED
          BY <2>1, <3>2, <3>4, <4>2 DEF SameLease
      <3>5. CASE /\ leases'[s][b] = leases[s][b]
                 /\ ~(ok = TRUE /\ loc[p].op = "revoke" /\ loc[p].by = s /\ loc[p].what = b)
        <4>1. i \in 1..Len(chain) /\ chain'[i] = chain[i]
          BY <2>1, <2>2, <3>2, <3>5
        <4>2. CASE leases[s][b] = NoLease
          BY <3>2, <3>5, <4>2
        <4>3. CASE \E j \in 1..Len(chain) :
                     i < j /\ loc[chain[j].cmd].op = "grant" /\ SameLease(chain[j].cmd, c)
          <5>1. PICK j \in 1..Len(chain) :
                  i < j /\ loc[chain[j].cmd].op = "grant" /\ SameLease(chain[j].cmd, c)
            BY <4>3
          <5>2. j \in 1..Len(chain') /\ chain'[j] = chain[j]
            BY <2>1
          <5> QED
            BY <5>1, <5>2
        <4>4. chain[i].cmd = c /\ chain[i].ok = TRUE
          BY <2>2, <4>1
        <4>5. \/ leases[loc[c].by][loc[c].what] = NoLease
              \/ \E j \in 1..Len(chain) :
                   i < j /\ loc[chain[j].cmd].op = "grant" /\ SameLease(chain[j].cmd, c)
          BY <2>2, <4>1, <4>4 DEF RevInv
        <4> QED
          BY <3>2, <4>2, <4>3, <4>5
      <3> QED
        <4>1. Affects(p, ok, s, b)
          BY <1>2, LeaseEffect, Zenon
        <4> QED
          BY <3>3, <3>4, <3>5, <4>1 DEF Affects
    <2>3. \A i \in 1..Len(chain') :
            chain'[i].ok = TRUE /\ loc[chain'[i].cmd].op = "revoke" =>
              \/ leases'[loc[chain'[i].cmd].by][loc[chain'[i].cmd].what] = NoLease
              \/ \E j \in 1..Len(chain') :
                   /\ i < j /\ loc[chain'[j].cmd].op = "grant"
                   /\ SameLease(chain'[j].cmd, chain'[i].cmd)
      BY <2>2
    <2>4. loc' = loc
      BY <1>2
    <2> QED
      BY <2>3, <2>4 DEF RevInv, SameLease
  <1> QED
    BY <1>1, <1>2, ChainGrows

LEMMA InitClient == Init => ClientInv
  <1> SUFFICES ASSUME Init PROVE ClientInv
    OBVIOUS
  <1>1. EvmTypeOK
    BY EvmTypeInit DEF Init
  <1>2. IsSeq(<<>>) /\ Len(<<>>) = 0 /\ <<>> \in Seq(Records)
    <2>1. <<>> \in Seq({}) /\ Len(<<>>) = 0
      OBVIOUS
    <2> QED
      BY <2>1 DEF IsSeq
  <1>3. \A p \in Procs : pc[p] = "idle" /\ loc[p] = Blank
    BY DEF Init
  <1>4. Blank.nonce = 0 /\ Blank.until = 0 /\ Blank.after = {} /\ DOMAIN Blank = LocFields
    BY BlankFields DEF Blank
  <1>5. Shape
    BY <1>2, <1>3, <1>4 DEF Init, Shape, States, Distinct, Live
  <1>6. \A p \in Procs : CallInv(p) /\ ReadInv(p)
    BY <1>3, <1>4 DEF CallInv, ReadInv, Past, Ended
  <1>7. NetInv /\ EndInv /\ NonceOrder /\ ChainKeepsOrder /\ RevInv
    BY <1>2, <1>3 DEF Init, NetInv, EndInv, NonceOrder, ChainKeepsOrder, RevInv, Past, Ended
  <1> QED
    BY <1>1, <1>5, <1>6, <1>7 DEF ClientInv, Base

LEMMA ClientStep == ClientInv /\ [Next]_vars => ClientInv'
  BY ContractStep, EvmTypeStep, BaseStep, NetStep, NonceStep, OrderStep, RevStep DEF ClientInv

-----------------------------------------------------------------------------
(* What it shows.                                                          *)

LEMMA SentIsPast ==
  ASSUME Base, NetInv, NEW p \in Procs, Sent(p)
  PROVE  pc[p] \in {"wait"} \cup Ended
  BY DEF Sent, NetInv, MinedOk, Reverted, Ended

LEMMA TypesOfInv == ClientInv => ClientTypeOK
  <1> SUFFICES ASSUME ClientInv PROVE ClientTypeOK
    OBVIOUS
  <1>1. \A p \in Procs : pc[p] = "idle" <=> loc[p].op = "none"
    BY DEF ClientInv, Base, CallInv, Args, AnchorOps, LeaseOps, Blank
  <1>2. pool \subseteq { p \in Procs : pc[p] \in {"wait", "lost"} /\ ~MinedOk(p) /\ ~Reverted(p) }
    BY DEF ClientInv, NetInv, InChain, MinedOk, Reverted
  <1> QED
    BY <1>1, <1>2 DEF ClientInv, ClientTypeOK, Base, Shape, CallInv, NetInv, States

LEMMA TruthOfInv == ClientInv => ToldTruth
  <1> SUFFICES ASSUME ClientInv, NEW p \in Procs, pc[p] = "reverted"
               PROVE  ~MinedOk(p) /\ p \notin pool
    BY DEF ToldTruth, ClientInv, EndInv
  <1>1. PICK i \in 1..Len(chain) : chain[i] = [cmd |-> p, ok |-> FALSE]
    BY DEF ClientInv, EndInv, Reverted
  <1>2. chain[i].cmd = p /\ chain[i].ok = FALSE
    BY <1>1
  <1>3. ASSUME NEW j \in 1..Len(chain), chain[j] = [cmd |-> p, ok |-> TRUE] PROVE FALSE
    <2>1. chain[j].cmd = p /\ chain[j].ok = TRUE
      BY <1>3
    <2> QED
      BY <1>2, <2>1 DEF ClientInv, NetInv
  <1>4. p \notin pool
    BY <1>2 DEF ClientInv, NetInv, InChain
  <1> QED
    BY <1>3, <1>4 DEF MinedOk

LEMMA RevocationOfInv == ClientInv => RevocationHolds
  <1> SUFFICES ASSUME ClientInv, NEW p \in Procs, pc[p] = "ok", loc[p].op = "revoke",
                      \A q \in Procs :
                        loc[q].op = "grant" /\ loc[q].by = loc[p].by /\ loc[q].what = loc[p].what
                          => q \in loc[p].after
               PROVE  leases[loc[p].by][loc[p].what] = NoLease
    BY DEF RevocationHolds
  <1>1. PICK i \in 1..Len(chain) : chain[i] = [cmd |-> p, ok |-> TRUE]
    BY DEF ClientInv, EndInv, MinedOk
  <1>2. chain[i].cmd = p /\ chain[i].ok = TRUE
    BY <1>1
  <1>3. ASSUME NEW j \in 1..Len(chain), i < j, loc[chain[j].cmd].op = "grant",
               SameLease(chain[j].cmd, p)
        PROVE  FALSE
    <2>1. chain[j].cmd \in loc[p].after
      BY <1>3 DEF ClientInv, NetInv, SameLease
    <2> QED
      BY <1>2, <1>3, <2>1 DEF ClientInv, ChainKeepsOrder, SameLease
  <1> QED
    BY <1>2, <1>3 DEF ClientInv, RevInv

LEMMA AnchoredOfInv == ClientInv => AnchoredWasLive
  <1> SUFFICES ASSUME ClientInv, NEW p \in Procs, Sent(p),
                      loc[p].op \in {"anchor_vault", "also_anchor"}
               PROVE  loc[p].leaves \in loc[p].since
    BY DEF AnchoredWasLive
  <1>1. pc[p] \in Past
    BY SentIsPast DEF ClientInv, Past
  <1> QED
    BY <1>1 DEF ClientInv, Base, ReadInv

LEMMA ClientInvariant == Spec => []ClientInv
  <1>1. Init => ClientInv
    BY InitClient
  <1>2. ClientInv /\ [Next]_vars => ClientInv'
    BY ClientStep
  <1> QED
    BY <1>1, <1>2, PTL DEF Spec

\* Every reachable state is typed, whatever the parties, commands and bounds.
THEOREM ClientTyping == Spec => []ClientTypeOK
  BY ClientInvariant, TypesOfInv, PTL

\* What a command tells its user of its transaction is true, and stays true
\* however many other commands share the account.
THEOREM EndingsAreTrue == Spec => []ToldTruth
  BY ClientInvariant, TruthOfInv, PTL

\* The nonce keeps an account's commands in order: whatever is dropped,
\* replaced or mined late, no transaction overtakes that of a command begun
\* after its own had ended.
THEOREM OrderKept == Spec => []ChainKeepsOrder
  <1>1. ClientInv => ChainKeepsOrder
    BY DEF ClientInv
  <1> QED
    BY <1>1, ClientInvariant, PTL

\* A lease whose revocation was reported done is not brought back by a grant
\* that was still waiting.
THEOREM RevocationsHold == Spec => []RevocationHolds
  BY ClientInvariant, RevocationOfInv, PTL

\* What anchor-vault and `write --also-anchor` commit to was the vault's memory
\* at one moment since they began.
THEOREM AnchorsWereLive == Spec => []AnchoredWasLive
  BY ClientInvariant, AnchoredOfInv, PTL

\* The contract keeps its promise behind these clients: every transaction they
\* have mined, at whatever moment, is a step the abstract registry allows.
THEOREM ClientRefinesRights == Spec => RefinesMemoryRights
  <1>1. Init => Rights!Init
    BY RightsInit DEF Init
  <1>2. ClientInv /\ [Next]_vars => [Rights!Next]_<<commit, Grants, LastCall, now>>
    BY ContractStep, RightsStep DEF ClientInv
  <1> QED
    BY <1>1, <1>2, ClientInvariant, PTL DEF Spec, RefinesMemoryRights, Rights!Spec
-----------------------------------------------------------------------------
(* The memory a root stands for.                                           *)

\* A memory a command has seen names no record twice.
SeenInv(p) == \A m \in loc[p].since : m \in Seq(Records) /\ Distinct(m)

LEMMA SeenStep ==
  ASSUME ClientInv, \A p \in Procs : SeenInv(p), [Next]_vars, NEW q \in Procs
  PROVE  SeenInv(q)'
  <1>1. /\ memory' \in Seq(Records) /\ Distinct(memory')
        /\ DOMAIN loc[q] = LocFields /\ SeenInv(q)
    BY VaultStep DEF ClientInv, VaultTyped, Base, Shape
  <1>2. CASE loc'[q].since \subseteq loc[q].since \cup {memory'}
    BY <1>1, <1>2 DEF SeenInv
  <1>3. CASE Waits(q)
    BY <1>2, <1>3 DEF Waits
  <1>4. CASE NetworkNext
    BY <1>2, <1>4 DEF NetworkNext
  <1>5. CASE Moving(q)
    <2>1. CASE Starts(q)
      BY <1>2, <2>1 DEF Starts
    <2>2. CASE Reads(q)
      <3>1. loc'[q].since = loc[q].since
        BY <1>1, <2>2 DEF Reads, ListRecords, ReadFile, Goto, Base, Shape, ClientInv, LocFields
      <3> QED
        BY <1>2, <3>1
    <2>3. CASE ReadsNonce(q)
      <3>1. loc'[q].since = loc[q].since
        BY <1>1, <2>3 DEF ReadsNonce, ReadNonce, Goto, Base, Shape, ClientInv, LocFields
      <3> QED
        BY <1>2, <3>1
    <2>4. CASE Sends(q)
      <3>1. loc'[q].since = loc[q].since
        BY <2>4 DEF Sends, Send, Goto, Base, Shape, ClientInv
      <3> QED
        BY <1>2, <3>1
    <2>5. CASE Forgets(q)
      BY <2>5 DEF Forgets, Blank, SeenInv
    <2>6. CASE Finishes(q)
      BY <1>2, <2>6 DEF Finishes, Receipt, Timeout, End
    <2> QED
      BY <1>5, <2>1, <2>2, <2>3, <2>4, <2>5, <2>6 DEF Moving
  <1>6. (\E p \in Procs : Moving(p)) \/ Idling \/ NetworkNext
    BY StepCases, NowNat DEF ClientInv
  <1> QED
    BY <1>3, <1>4, <1>5, <1>6 DEF Moving, Idling

\* What keeps rmem-evm.py's roots apart, for it hashes payloads and pairs of
\* hashes alike and gives no memory the hash of no bytes: no payload is two
\* hashes in a row or empty, and two hashes in a row are not empty.
PayloadsApart ==
  /\ HashOfNothing \notin Records
  /\ \A h \in Records \cup {HashOfNothing} : \A x, y : h # <<x, y>>

\* A memory's plain root is a payload's hash, the hash of nothing or of a pair,
\* and which of them tells how many records it has.
LEMMA PlainRootInjective ==
  ASSUME PayloadsApart, NEW s \in Seq(Records), NEW t \in Seq(Records),
         Distinct(s), Distinct(t), PlainRoot(s) = PlainRoot(t)
  PROVE  s = t
  <1>1. ASSUME NEW u \in Seq(Records), u # <<>>
        PROVE  PlainRoot(u) = Reduce(u) /\ u[1] \in Records /\ Reduce(u) # HashOfNothing
    <2>1. IsSeq(u) /\ Len(u) \in Nat /\ PlainRoot(u) = Reduce(u)
      BY <1>1, LenProperties DEF IsSeq, PlainRoot
    <2> DEFINE n == Len(u)
    <2>2. n \in Nat /\ n # 0
      BY <1>1, <2>1, EmptySeq
    <2>3. u[1] \in Records
      <3>1. 1 \in 1..n
        <4> HIDE DEF n
        <4> QED
          BY <2>2
      <3> QED
        BY <3>1, ElementOfSeq
    <2>4. n = 1 => Reduce(u) = u[1]
      BY <2>1, ReduceOne
    <2>5. n > 1 => \E x, y : Reduce(u) = <<x, y>>
      BY <2>1, ReducePair
    <2> HIDE DEF n
    <2>6. n = 1 \/ n > 1
      BY <2>2
    <2> QED
      BY <2>1, <2>3, <2>4, <2>5, <2>6 DEF PayloadsApart
  <1>2. CASE s # <<>> /\ t # <<>>
    <2>1. Comparable(s, t)
      BY DEF Comparable, IsSeq
    <2>2. Reduce(s) = Reduce(t) /\ s[1] \in Records /\ t[1] \in Records
      BY <1>1, <1>2
    <2>3. \A x, y : s[1] # <<x, y>> /\ t[1] # <<x, y>>
      BY <2>2 DEF PayloadsApart
    <2> QED
      BY <1>2, <2>1, <2>2, <2>3, ReduceInjective
  <1>3. PlainRoot(<<>>) = HashOfNothing
    BY DEF PlainRoot
  <1> QED
    BY <1>1, <1>2, <1>3

LEMMA RootOfInv ==
  ASSUME PayloadsApart, ClientInv, \A p \in Procs : SeenInv(p)
  PROVE  RootTellsMemory
  <1> SUFFICES ASSUME NEW p \in Procs, NEW q \in Procs, Sent(p), Sent(q),
                      loc[p].op \in {"anchor_vault", "also_anchor"}, loc[q].op = loc[p].op,
                      Root(loc[p]) = Root(loc[q])
               PROVE  loc[p].leaves = loc[q].leaves
    BY DEF RootTellsMemory
  <1>1. loc[p].leaves \in loc[p].since /\ loc[q].leaves \in loc[q].since
    BY AnchoredOfInv DEF AnchoredWasLive
  <1>2. PICK s, t : s = loc[p].leaves /\ t = loc[q].leaves
    OBVIOUS
  <1>3. s \in Seq(Records) /\ t \in Seq(Records) /\ Distinct(s) /\ Distinct(t)
    BY <1>1, <1>2 DEF SeenInv
  <1>4. CASE loc[p].op = "also_anchor"
    <2>1. Comparable(s, t)
      BY <1>3 DEF Comparable, IsSeq
    <2>2. MerkleRoot(s) = MerkleRoot(t)
      BY <1>2, <1>4 DEF Root
    <2> QED
      BY <1>2, <2>1, <2>2, MerkleInjective
  <1>5. CASE loc[p].op = "anchor_vault"
    <2>1. PlainRoot(s) = PlainRoot(t)
      BY <1>2, <1>5 DEF Root
    <2> QED
      BY <1>2, <1>3, <2>1, PlainRootInjective
  <1> QED
    BY <1>4, <1>5

\* An anchored root stands for one memory: two anchors of one command with the
\* same root are of the same records in the same order.  Both commands need
\* that no memory holds a payload twice, or [a, b, b] and [a, b, b, b] would
\* share a root; with the prefixes of rmem_hashes.py `write --also-anchor`
\* needs nothing more, anchor-vault needs PayloadsApart as well.
THEOREM RootsTellMemory == ASSUME PayloadsApart PROVE Spec => []RootTellsMemory
  <1>1. Init => \A p \in Procs : SeenInv(p)
    BY DEF Init, SeenInv, Blank
  <1>2. ClientInv /\ (\A p \in Procs : SeenInv(p)) /\ [Next]_vars => (\A p \in Procs : SeenInv(p))'
    BY SeenStep
  <1>3. ClientInv /\ (\A p \in Procs : SeenInv(p)) => RootTellsMemory
    BY RootOfInv
  <1> QED
    BY <1>1, <1>2, <1>3, ClientInvariant, PTL DEF Spec
=============================================================================
