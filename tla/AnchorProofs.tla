---------------------------- MODULE AnchorProofs ----------------------------
(***************************************************************************)
(* Proofs about Anchor, for any processes and records, any deposit, fee    *)
(* and dust limit, and any bound.                                          *)
(***************************************************************************)
EXTENDS Anchor, SharedFacts, FiniteSetTheorems

LocFields == {"left", "leaves", "since", "root", "coins", "tx", "anchor", "height"}
RowFields == {"tx", "root", "domain", "status", "height"}

-----------------------------------------------------------------------------
(* Sequences.                                                              *)

\* mark_anchor_verified's UPDATE of row a.
Marked(s, a, h) == [s EXCEPT ![a].status = "verified", ![a].height = h]

LEMMA MarkRow ==
  ASSUME NEW s, IsSeq(s), NEW a \in 1..Len(s), NEW h,
         \A i \in 1..Len(s) : DOMAIN s[i] = RowFields,
         NEW t, t = Marked(s, a, h)
  PROVE  /\ IsSeq(t) /\ Len(t) = Len(s)
         /\ \A i \in 1..Len(s) : i # a => t[i] = s[i]
         /\ t[a].status = "verified" /\ t[a].height = h
         /\ t[a].tx = s[a].tx /\ t[a].root = s[a].root /\ t[a].domain = s[a].domain
         /\ DOMAIN t[a] = RowFields
  <1>1. PICK S : s \in Seq(S)
    BY DEF IsSeq
  <1> DEFINE x == [s[a] EXCEPT !.status = "verified"]
             y == [x EXCEPT !.height = h]
             T == S \cup {x, y}
             u == [s EXCEPT ![a] = x]
             v == [u EXCEPT ![a] = y]
  <1>2. s \in Seq(T) /\ x \in T /\ y \in T
    BY <1>1, SeqMonotonic
  <1>3. u \in Seq(T) /\ Len(u) = Len(s) /\ \A i \in 1..Len(s) : u[i] = IF i = a THEN x ELSE s[i]
    <2> HIDE DEF x, y, T
    <2> QED
      BY <1>2, ExceptSeq
  <1>4. v \in Seq(T) /\ Len(v) = Len(s) /\ \A i \in 1..Len(s) : v[i] = IF i = a THEN y ELSE u[i]
    <2> HIDE DEF x, y, T, u
    <2> QED
      BY <1>2, <1>3, ExceptSeq
  <1>5. DOMAIN s[a] = RowFields
    OBVIOUS
  <1>6. /\ DOMAIN y = RowFields /\ y.status = "verified" /\ y.height = h
        /\ y.tx = s[a].tx /\ y.root = s[a].root /\ y.domain = s[a].domain
    BY <1>5 DEF RowFields
  <1>7. t = v
    <2>1. DOMAIN s = 1..Len(s) /\ u[a] = x
      BY <1>1, <1>3, LenProperties
    <2> QED
      BY <2>1 DEF Marked
  <1> HIDE DEF v, u, x, y, T
  <1> QED
    BY <1>3, <1>4, <1>6, <1>7 DEF IsSeq

-----------------------------------------------------------------------------
(* The invariant.                                                          *)

States == {"idle", "read", "fetch", "send", "record", "mark"}

Shape ==
  /\ memory \in Seq(Records) /\ Distinct(memory)
  /\ purged \subseteq Records \ Live(memory)
  /\ pc \in [Procs -> States]
  /\ DOMAIN loc = Procs /\ \A p \in Procs : DOMAIN loc[p] = LocFields
  /\ IsSeq(chain) /\ IsSeq(anchors) /\ IsSeq(audit)
  /\ \A a \in 1..Len(anchors) : DOMAIN anchors[a] = RowFields
  /\ calls \in 0..MaxCalls /\ lost \in Nat

\* What the network knows: all it holds was accepted, all in the chain has been
\* in a block of that height.
NetInv ==
  /\ mempool \subseteq accepted
  /\ \A i \in 1..Len(chain) : chain[i] \in accepted /\ <<i, chain[i]>> \in blocks
  /\ \A t \in accepted : t.spends # {}

TrueHeight(h, t) == h \in Nat \cup {Nil} /\ (h # Nil => <<h, t>> \in blocks)

RowInv(a) ==
  /\ anchors[a].status \in {"broadcast", "verified"}
  /\ anchors[a].tx \in accepted
  /\ VerifyAnchorDigest(anchors[a].tx, anchors[a].root, anchors[a].domain)
  /\ TrueHeight(anchors[a].height, anchors[a].tx)

\* What a command knows at each step.  While it reads, what it has read and
\* what it has still to read make up the memory it listed.
ProcInv(p) ==
  /\ pc[p] = "read" =>
       /\ loc[p].left \in Seq(Records) /\ loc[p].left # <<>> /\ loc[p].leaves \in Seq(Records)
       /\ loc[p].leaves \o loc[p].left \in loc[p].since
  /\ pc[p] = "fetch" => \E m \in loc[p].since : loc[p].root = MerkleRoot(m)
  /\ pc[p] = "send" => loc[p].coins # {}
  /\ pc[p] = "record" =>
       loc[p].tx \in accepted /\ VerifyAnchorDigest(loc[p].tx, loc[p].root, Domain)
  /\ pc[p] = "mark" =>
       loc[p].anchor \in 1..Len(anchors) /\ TrueHeight(loc[p].height, anchors[loc[p].anchor].tx)

Facts ==
  /\ Shape /\ NetInv
  /\ \A a \in 1..Len(anchors) : RowInv(a)
  /\ \A p \in Procs : ProcInv(p)

-----------------------------------------------------------------------------
(* Steps.                                                                  *)

Quiet(p) ==
  /\ \/ ListRecords(p) \/ Kill(p)
     \/ (ReadFile(p) \/ FetchUtxos(p)) /\ UNCHANGED lost
     \/ \E a \in 1..Len(anchors) : VerifyFetch(p, a)
  /\ UNCHANGED <<vault, network, table>>

Sending(p)   == Broadcast(p) /\ UNCHANGED <<vault, table>>
Recording(p) == RecordAnchor(p) /\ UNCHANGED <<vault, network, lost>>
Marking(p)   == MarkVerified(p) /\ UNCHANGED <<vault, network, lost>>

Moving(p) == Quiet(p) \/ Sending(p) \/ Recording(p) \/ Marking(p)

LEMMA StepCases ==
  ASSUME [Next]_vars
  PROVE  \/ VaultNext \/ NetworkNext \/ UNCHANGED vars
         \/ \E p \in Procs : Moving(p)
  BY DEF Next, CommandNext, Moving, Quiet, Sending, Recording, Marking, network, table

\* A command's step moves that command alone.
LEMMA Moves ==
  ASSUME Shape, NEW p \in Procs, Moving(p)
  PROVE  /\ pc' \in [Procs -> States]
         /\ DOMAIN loc' = Procs /\ \A q \in Procs : DOMAIN loc'[q] = LocFields
         /\ \A q \in Procs \ {p} : pc'[q] = pc[q] /\ loc'[q] = loc[q]
         /\ calls' \in 0..MaxCalls /\ lost' \in Nat
  <1> DEFINE Move(next, l) ==
               /\ pc' = [pc EXCEPT ![p] = next] /\ loc' = [loc EXCEPT ![p] = l]
               /\ calls' \in 0..MaxCalls
             Good == \E next \in States : \E l : DOMAIN l = LocFields /\ Move(next, l)
  <1>1. DOMAIN loc[p] = LocFields /\ DOMAIN Blank = LocFields
    BY DEF Shape, Blank, LocFields
  <1>2. \A next \in States : \A l : DOMAIN l = LocFields /\ (Begin(p, next, l) \/ Goto(p, next, l)) => Good
    BY AnchorConstants DEF Begin, Goto, Shape
  <1>3. End(p) => Good
    BY <1>1, <1>2 DEF End, States
  <1>4. \A l : DOMAIN Hashed(l) = LocFields
    BY <1>1 DEF Hashed
  <1>5. Good /\ lost' \in Nat
    <2>1. CASE ListRecords(p)
      <3>1. DOMAIN [Blank EXCEPT !.left = memory, !.since = {memory}] = LocFields
        BY <1>1
      <3>2. lost' = lost
        BY <2>1 DEF ListRecords, Begin
      <3> QED
        BY <2>1, <1>2, <1>4, <3>1, <3>2 DEF ListRecords, States, Shape
    <2>2. CASE ReadFile(p) /\ UNCHANGED lost
      <3> DEFINE l == [loc[p] EXCEPT !.left = Tail(@), !.leaves = Append(@, Head(loc[p].left))]
      <3>1. DOMAIN l = LocFields
        BY <1>1
      <3>2. End(p) \/ Goto(p, "read", l) \/ Goto(p, "fetch", Hashed(l))
        BY <2>2 DEF ReadFile
      <3> QED
        BY <2>2, <1>2, <1>3, <1>4, <3>1, <3>2 DEF States, Shape
    <2>3. CASE FetchUtxos(p) /\ UNCHANGED lost
      <3>1. DOMAIN [loc[p] EXCEPT !.coins = Unspent, !.since = {}] = LocFields
        BY <1>1
      <3> QED
        BY <2>3, <1>2, <1>3, <3>1 DEF FetchUtxos, States, Shape
    <2>4. CASE Kill(p)
      BY <2>4, <1>3 DEF Kill, Shape
    <2>5. ASSUME NEW a \in 1..Len(anchors), VerifyFetch(p, a) PROVE Good /\ lost' \in Nat
      <3>1. DOMAIN [Blank EXCEPT !.anchor = a, !.height = FoundHeight(anchors[a].tx)] = LocFields
        BY <1>1
      <3>2. lost' = lost
        BY <2>5 DEF VerifyFetch, Begin
      <3> QED
        BY <2>5, <1>2, <3>1, <3>2 DEF VerifyFetch, States, Shape
    <2>6. CASE Broadcast(p)
      <3>1. DOMAIN [loc[p] EXCEPT !.tx = AnchorTx(loc[p])] = LocFields
        BY <1>1
      <3>2. Goto(p, "record", [loc[p] EXCEPT !.tx = AnchorTx(loc[p])]) \/ End(p)
        BY <2>6 DEF Broadcast
      <3>3. lost' = lost \/ lost' = lost + 1
        BY <2>6 DEF Broadcast
      <3> QED
        BY <1>2, <1>3, <3>1, <3>2, <3>3 DEF States, Shape
    <2>7. CASE RecordAnchor(p) /\ UNCHANGED lost
      BY <2>7, <1>3 DEF RecordAnchor, Shape
    <2>8. CASE MarkVerified(p) /\ UNCHANGED lost
      BY <2>8, <1>3 DEF MarkVerified, Shape
    <2> QED
      BY <2>1, <2>2, <2>3, <2>4, <2>5, <2>6, <2>7, <2>8
      DEF Moving, Quiet, Sending, Recording, Marking
  <1>6. PICK next \in States : \E l : DOMAIN l = LocFields /\ Move(next, l)
    BY <1>5
  <1>7. PICK l : DOMAIN l = LocFields /\ Move(next, l)
    BY <1>6
  <1> QED
    BY <1>5, <1>7 DEF Shape

\* What a step may do to the table and to what the network has known.
Grows ==
  /\ accepted \subseteq accepted' /\ blocks \subseteq blocks'
  /\ IsSeq(anchors') /\ Len(anchors) <= Len(anchors')
  /\ Len(anchors) \in Nat /\ Len(anchors') \in Nat
  /\ \A a \in 1..Len(anchors') : DOMAIN anchors'[a] = RowFields
  /\ \A a \in 1..Len(anchors) :
       /\ anchors'[a].tx = anchors[a].tx /\ anchors'[a].root = anchors[a].root
       /\ anchors'[a].domain = anchors[a].domain
       /\ anchors[a].status = "verified" => anchors'[a].status = "verified"

LEMMA TableUnchanged ==
  ASSUME Shape, UNCHANGED anchors, accepted \subseteq accepted', blocks \subseteq blocks'
  PROVE  Grows
  BY LenNat DEF Grows, Shape

LEMMA Growing ==
  ASSUME Facts, [Next]_vars
  PROVE  Grows
  <1>1. CASE VaultNext \/ UNCHANGED vars
    BY <1>1, TableUnchanged DEF VaultNext, vars, network, table, Facts
  <1>2. CASE NetworkNext
    BY <1>2, TableUnchanged DEF NetworkNext, Confirm, Evict, Reorg, table, Facts
  <1>3. ASSUME NEW p \in Procs, Quiet(p) PROVE Grows
    BY <1>3, TableUnchanged DEF Quiet, network, table, Facts
  <1>4. ASSUME NEW p \in Procs, Sending(p) PROVE Grows
    BY <1>4, TableUnchanged DEF Sending, Broadcast, Submit, Take, network, table, Facts
  <1>5. ASSUME NEW p \in Procs, Recording(p) PROVE Grows
    <2>1. anchors' = Append(anchors, NewRow(loc[p])) /\ UNCHANGED network
      BY <1>5 DEF Recording, RecordAnchor
    <2>2. DOMAIN NewRow(loc[p]) = RowFields
      BY DEF NewRow, RowFields
    <2>3. /\ IsSeq(anchors') /\ Len(anchors') = Len(anchors) + 1 /\ Len(anchors) \in Nat
          /\ \A a \in 1..Len(anchors) : anchors'[a] = anchors[a]
          /\ anchors'[Len(anchors) + 1] = NewRow(loc[p])
      BY <2>1, AppendAny DEF Facts, Shape
    <2>4. ASSUME NEW a \in 1..Len(anchors') PROVE DOMAIN anchors'[a] = RowFields
      <3>1. a \in 1..Len(anchors) \/ a = Len(anchors) + 1
        BY <2>3
      <3> QED
        BY <3>1, <2>2, <2>3 DEF Facts, Shape
    <2> QED
      BY <2>1, <2>3, <2>4 DEF Grows, network
  <1>6. ASSUME NEW p \in Procs, Marking(p) PROVE Grows
    <2> DEFINE a == loc[p].anchor
    <2>1. /\ anchors' = [anchors EXCEPT ![a].status = "verified", ![a].height = loc[p].height]
          /\ UNCHANGED network
      BY <1>6 DEF Marking, MarkVerified
    <2>2. a \in 1..Len(anchors)
      BY <1>6 DEF Marking, MarkVerified, Facts, ProcInv
    <2> HIDE DEF a
    <2>3. /\ IsSeq(anchors') /\ Len(anchors') = Len(anchors)
          /\ \A i \in 1..Len(anchors) : i # a => anchors'[i] = anchors[i]
          /\ anchors'[a].status = "verified" /\ anchors'[a].tx = anchors[a].tx
          /\ anchors'[a].root = anchors[a].root /\ anchors'[a].domain = anchors[a].domain
          /\ DOMAIN anchors'[a] = RowFields
      <3>1. IsSeq(anchors) /\ \A i \in 1..Len(anchors) : DOMAIN anchors[i] = RowFields
        BY DEF Facts, Shape
      <3>2. anchors' = Marked(anchors, a, loc[p].height)
        BY <2>1 DEF Marked
      <3> QED
        BY <2>2, <3>1, <3>2, MarkRow
    <2> QED
      BY <2>1, <2>2, <2>3, LenNat DEF Grows, network, Facts, Shape
  <1> QED
    BY <1>1, <1>2, <1>3, <1>4, <1>5, <1>6, StepCases DEF Moving

LEMMA ShapeKept ==
  ASSUME Facts, [Next]_vars
  PROVE  Shape'
  <1>0. Grows /\ Shape
    BY Growing DEF Facts
  <1>1. CASE UNCHANGED vars
    BY <1>0, <1>1 DEF Shape, vars, vault, network, table, Live
  <1>2. CASE VaultNext
    <2>1. memory' \in Seq(Records) /\ Distinct(memory') /\ purged' \subseteq Records \ Live(memory')
      <3>1. ASSUME NEW r \in Records, Put(r) PROVE <2>1
        <4>1. /\ memory' \in Seq(Records) /\ Len(memory') = Len(memory) + 1 /\ Len(memory) \in Nat
              /\ \A i \in 1..Len(memory) : memory'[i] = memory[i]
              /\ memory'[Len(memory) + 1] = r
          BY <3>1, <1>0, AppendProperties, LenProperties DEF Put, Shape
        <4>2. \A i \in 1..Len(memory') : i \in 1..Len(memory) \/ i = Len(memory) + 1
          BY <4>1
        <4>3. \A i \in 1..Len(memory) : memory[i] # r
          BY <3>1 DEF Put, Live
        <4>4. Distinct(memory')
          BY <1>0, <4>1, <4>2, <4>3 DEF Distinct, Shape
        <4>5. Live(memory') \subseteq Live(memory) \cup {r}
          BY <4>1, <4>2 DEF Live
        <4> QED
          BY <3>1, <1>0, <4>1, <4>4, <4>5 DEF Put, Shape
      <3>2. ASSUME NEW r \in Records, Tombstone(r) PROVE <2>1
        <4>1. PICK i \in 1..Len(memory) : memory[i] = r /\ memory' = RemoveAt(memory, i)
          BY <3>2 DEF Tombstone
        <4>2. /\ memory' \in Seq(Records) /\ Distinct(memory')
              /\ Live(memory') = Live(memory) \ {r}
          BY <1>0, <4>1, RemoveFacts DEF Shape, Live, Elements
        <4> QED
          BY <3>2, <1>0, <4>2 DEF Tombstone, Shape
      <3> QED
        BY <1>2, <3>1, <3>2 DEF VaultNext
    <2>2. DOMAIN loc' = Procs /\ \A p \in Procs : DOMAIN loc'[p] = LocFields
      BY <1>0, <1>2 DEF VaultNext, Put, Tombstone, Witness, Shape
    <2> QED
      BY <1>0, <1>2, <2>1, <2>2 DEF VaultNext, network, table, Shape, Grows
  <1>3. CASE NetworkNext
    <2>1. IsSeq(chain')
      <3>1. ASSUME NEW t \in mempool, Confirm(t) PROVE IsSeq(chain')
        BY <1>0, <3>1, AppendAny DEF Confirm, Shape
      <3>2. ASSUME NEW t \in mempool, Evict(t) PROVE IsSeq(chain')
        BY <1>0, <3>2 DEF Evict, Shape
      <3>3. CASE Reorg
        <4>1. PICK S : chain \in Seq(S)
          BY <1>0 DEF Shape, IsSeq
        <4>2. Len(chain) \in Nat /\ \A i \in 1..Len(chain) - 1 : chain[i] \in S
          BY <4>1, LenProperties, ElementOfSeq
        <4>3. SubSeq(chain, 1, Len(chain) - 1) \in Seq(S)
          BY <4>2, SubSeqProperties
        <4> QED
          BY <3>3, <4>3 DEF Reorg, IsSeq
      <3> QED
        BY <1>3, <3>1, <3>2, <3>3 DEF NetworkNext
    <2> QED
      BY <1>0, <1>3, <2>1 DEF NetworkNext, vault, table, Shape, Live
  <1>4. ASSUME NEW p \in Procs, Moving(p) PROVE Shape'
    <2>1. UNCHANGED <<memory, purged, chain>>
      BY <1>4 DEF Moving, Quiet, Sending, Recording, Marking, vault, network, Broadcast, Submit, Take
    <2>2. IsSeq(audit')
      <3>1. CASE Quiet(p) \/ Sending(p)
        BY <3>1, <1>0 DEF Quiet, Sending, table, Shape
      <3>2. CASE Recording(p) \/ Marking(p)
        <4>1. \E e : audit' = Append(audit, e)
          BY <3>2 DEF Recording, Marking, RecordAnchor, MarkVerified, Log
        <4> QED
          BY <4>1, <1>0, AppendAny DEF Shape
      <3> QED
        BY <1>4, <3>1, <3>2 DEF Moving
    <2> QED
      BY <1>0, <1>4, <2>1, <2>2, Moves DEF Shape, Grows, Live
  <1> QED
    BY <1>1, <1>2, <1>3, <1>4, StepCases

LEMMA NetInvKept ==
  ASSUME Facts, [Next]_vars
  PROVE  NetInv'
  <1>0. NetInv /\ IsSeq(chain) /\ Len(chain) \in Nat
    BY LenNat DEF Facts, Shape
  <1>1. CASE VaultNext \/ UNCHANGED vars
    BY <1>0, <1>1 DEF VaultNext, vars, network, NetInv
  <1>2. CASE NetworkNext
    <2>1. ASSUME NEW t \in mempool, Confirm(t) PROVE NetInv'
      <3>1. /\ Len(chain') = Len(chain) + 1 /\ chain'[Len(chain) + 1] = t
            /\ \A i \in 1..Len(chain) : chain'[i] = chain[i]
        BY <1>0, <2>1, AppendAny DEF Confirm
      <3>2. \A i \in 1..Len(chain') : i \in 1..Len(chain) \/ i = Len(chain) + 1
        BY <1>0, <3>1
      <3> QED
        BY <1>0, <2>1, <3>1, <3>2 DEF Confirm, NetInv
    <2>2. ASSUME NEW t \in mempool, Evict(t) PROVE NetInv'
      BY <1>0, <2>2 DEF Evict, NetInv
    <2>3. CASE Reorg
      <3>1. PICK S : chain \in Seq(S)
        BY <1>0 DEF IsSeq
      <3>2. chain[Len(chain)] \in accepted
        <4>1. Len(chain) \in Nat \ {0}
          BY <2>3, <3>1, EmptySeq DEF Reorg
        <4>2. Len(chain) \in 1..Len(chain)
          BY <4>1
        <4> QED
          BY <1>0, <4>2 DEF NetInv
      <3>3. 1 \in Int /\ Len(chain) - 1 \in Int /\ \A i \in 1..Len(chain) - 1 : chain[i] \in S
        BY <1>0, <3>1, ElementOfSeq
      <3>4. /\ Len(chain') = IF 1 <= Len(chain) - 1 THEN (Len(chain) - 1) - 1 + 1 ELSE 0
            /\ \A i \in 1..((Len(chain) - 1) - 1 + 1) : chain'[i] = chain[1 + i - 1]
        BY <2>3, <3>3, SubSeqProperties DEF Reorg
      <3>5. ASSUME NEW i \in 1..Len(chain') PROVE i \in 1..Len(chain) /\ chain'[i] = chain[i]
        BY <1>0, <3>4
      <3> QED
        BY <1>0, <2>3, <3>2, <3>5 DEF Reorg, NetInv
    <2> QED
      BY <1>2, <2>1, <2>2, <2>3 DEF NetworkNext
  <1>3. ASSUME NEW p \in Procs, Quiet(p) \/ Recording(p) \/ Marking(p) PROVE NetInv'
    BY <1>0, <1>3 DEF Quiet, Recording, Marking, network, NetInv
  <1>4. ASSUME NEW p \in Procs, Sending(p) PROVE NetInv'
    <2>1. UNCHANGED network \/ Take(AnchorTx(loc[p]))
      BY <1>4 DEF Sending, Broadcast, Submit
    <2>2. AnchorTx(loc[p]).spends # {}
      BY <1>4 DEF Sending, Broadcast, AnchorTx, Facts, ProcInv
    <2> HIDE DEF AnchorTx
    <2>3. CASE UNCHANGED network
      BY <1>0, <2>3 DEF network, NetInv
    <2>4. CASE ~UNCHANGED network /\ Take(AnchorTx(loc[p]))
      BY <1>0, <2>2, <2>4 DEF Take, NetInv
    <2> QED
      BY <2>1, <2>3, <2>4
  <1> QED
    BY <1>1, <1>2, <1>3, <1>4, StepCases DEF Moving

LEMMA HeightStays ==
  ASSUME Grows, NEW h, NEW t, TrueHeight(h, t)
  PROVE  h \in Nat \cup {Nil} /\ (h # Nil => <<h, t>> \in blocks')
  BY DEF Grows, TrueHeight

LEMMA RowsKept ==
  ASSUME Facts, [Next]_vars, NEW a \in 1..Len(anchors')
  PROVE  RowInv(a)'
  <1>0. Grows /\ Shape /\ \A i \in 1..Len(anchors) : RowInv(i)
    BY Growing DEF Facts
  <1>1. ASSUME a \in 1..Len(anchors), anchors'[a] = anchors[a] PROVE RowInv(a)'
    <2>1. RowInv(a)
      BY <1>0, <1>1
    <2>2. /\ anchors'[a].height \in Nat \cup {Nil}
          /\ anchors'[a].height # Nil => <<anchors'[a].height, anchors'[a].tx>> \in blocks'
      BY <1>0, <1>1, <2>1, HeightStays DEF RowInv
    <2> QED
      BY <1>0, <1>1, <2>1, <2>2 DEF RowInv, TrueHeight, Grows
  <1>2. CASE VaultNext \/ NetworkNext \/ UNCHANGED vars
    BY <1>1, <1>2 DEF VaultNext, NetworkNext, vars, table
  <1>3. ASSUME NEW p \in Procs, Quiet(p) \/ Sending(p) PROVE RowInv(a)'
    BY <1>1, <1>3 DEF Quiet, Sending, table
  <1>4. ASSUME NEW p \in Procs, Recording(p) PROVE RowInv(a)'
    <2>1. /\ Len(anchors') = Len(anchors) + 1 /\ Len(anchors) \in Nat
          /\ \A i \in 1..Len(anchors) : anchors'[i] = anchors[i]
          /\ anchors'[Len(anchors) + 1] = NewRow(loc[p])
      BY <1>0, <1>4, AppendAny DEF Shape, Recording, RecordAnchor
    <2>2. CASE a \in 1..Len(anchors)
      BY <1>1, <2>1, <2>2
    <2>3. CASE a = Len(anchors) + 1
      <3>1. loc[p].tx \in accepted /\ VerifyAnchorDigest(loc[p].tx, loc[p].root, Domain)
        BY <1>4 DEF Recording, RecordAnchor, Facts, ProcInv
      <3> QED
        BY <1>0, <2>1, <2>3, <3>1 DEF NewRow, RowInv, TrueHeight, Grows
    <2> QED
      BY <2>1, <2>2, <2>3
  <1>5. ASSUME NEW p \in Procs, Marking(p) PROVE RowInv(a)'
    <2> DEFINE i == loc[p].anchor
    <2>1. anchors' = Marked(anchors, i, loc[p].height)
      BY <1>5 DEF Marking, MarkVerified, Marked
    <2>2. i \in 1..Len(anchors) /\ TrueHeight(loc[p].height, anchors[i].tx)
      BY <1>5 DEF Marking, MarkVerified, Facts, ProcInv
    <2> HIDE DEF i
    <2>3. /\ Len(anchors') = Len(anchors)
          /\ \A j \in 1..Len(anchors) : j # i => anchors'[j] = anchors[j]
          /\ anchors'[i].status = "verified" /\ anchors'[i].tx = anchors[i].tx
          /\ anchors'[i].root = anchors[i].root /\ anchors'[i].domain = anchors[i].domain
          /\ anchors'[i].height = loc[p].height
      BY <1>0, <2>1, <2>2, MarkRow DEF Shape
    <2>4. CASE a # i
      BY <1>1, <2>3, <2>4
    <2>5. CASE a = i
      <3>1. /\ loc[p].height \in Nat \cup {Nil}
            /\ loc[p].height # Nil => <<loc[p].height, anchors[i].tx>> \in blocks'
        BY <1>0, <2>2, HeightStays
      <3> QED
        BY <1>0, <2>2, <2>3, <2>5, <3>1 DEF RowInv, TrueHeight, Grows
    <2> QED
      BY <2>4, <2>5
  <1> QED
    BY <1>2, <1>3, <1>4, <1>5, StepCases DEF Moving

\* A command that does not move knows what it knew.
LEMMA Waits ==
  ASSUME Facts, Grows, NEW q \in Procs, pc'[q] = pc[q], loc'[q] = loc[q]
  PROVE  ProcInv(q)'
  <1>1. ProcInv(q)
    BY DEF Facts
  <1>2. ASSUME pc[q] = "mark"
        PROVE  /\ loc[q].anchor \in 1..Len(anchors') 
               /\ loc[q].height \in Nat \cup {Nil}
               /\ loc[q].height # Nil => <<loc[q].height, anchors'[loc[q].anchor].tx>> \in blocks'
    BY <1>1, <1>2 DEF ProcInv, Grows, TrueHeight
  <1> QED
    BY <1>1, <1>2 DEF ProcInv, Grows, TrueHeight

LEMMA Idles ==
  ASSUME NEW q \in Procs, pc'[q] = "idle"
  PROVE  ProcInv(q)'
  BY DEF ProcInv

LEMMA KnowledgeKept ==
  ASSUME Facts, [Next]_vars, NEW q \in Procs
  PROVE  ProcInv(q)'
  <1>0. Grows /\ Shape /\ ProcInv(q)
    BY Growing DEF Facts
  <1>1. CASE UNCHANGED vars
    BY <1>0, <1>1, Waits DEF vars
  <1>2. CASE VaultNext
    <2>1. \E m : Witness(m) /\ UNCHANGED <<network, table, pc>>
      BY <1>2 DEF VaultNext, Put, Tombstone
    <2>2. PICK m : Witness(m) /\ UNCHANGED <<network, table, pc>>
      BY <2>1
    <2>3. CASE pc[q] = "read"
      <3>1. loc'[q] = [loc[q] EXCEPT !.since = @ \cup {m}] /\ pc'[q] = "read"
        BY <2>2, <2>3 DEF Witness
      <3>2. /\ loc'[q].left = loc[q].left /\ loc'[q].leaves = loc[q].leaves
            /\ loc'[q].since = loc[q].since \cup {m}
        BY <1>0, <3>1 DEF Shape, LocFields
      <3> QED
        BY <1>0, <2>3, <3>1, <3>2 DEF ProcInv
    <2>4. CASE pc[q] # "read"
      <3>1. loc'[q] = loc[q] /\ pc'[q] = pc[q]
        BY <2>2, <2>4 DEF Witness
      <3> QED
        BY <1>0, <3>1, Waits
    <2> QED
      BY <2>3, <2>4
  <1>3. CASE NetworkNext
    BY <1>0, <1>3, Waits DEF NetworkNext
  <1>4. ASSUME NEW p \in Procs, Moving(p), p # q PROVE ProcInv(q)'
    BY <1>0, <1>4, Moves, Waits
  <1>5. CASE Moving(q)
    <2>0. /\ q \in DOMAIN pc /\ q \in DOMAIN loc
          /\ DOMAIN loc[q] = LocFields /\ DOMAIN Blank = LocFields
      BY <1>0 DEF Shape, Blank, LocFields
    <2>a. ASSUME NEW l, NEW s, Begin(q, s, l) \/ Goto(q, s, l) PROVE pc'[q] = s /\ loc'[q] = l
      BY <2>0, <2>a DEF Begin, Goto
    <2>b. ASSUME End(q) PROVE ProcInv(q)'
      BY <2>a, <2>b, Idles DEF End
    <2>1. CASE ListRecords(q)
      <3>1. CASE memory = <<>>
        <4> DEFINE l == [Blank EXCEPT !.left = memory, !.since = {memory}]
        <4>1. pc'[q] = "fetch" /\ loc'[q] = Hashed(l)
          BY <2>1, <2>a, <3>1 DEF ListRecords
        <4>2. l.leaves = <<>> /\ l.since = {<<>>}
          BY <3>1 DEF Blank
        <4> HIDE DEF l
        <4>3. loc'[q].root = MerkleRoot(<<>>) /\ loc'[q].since = {<<>>}
          BY <2>0, <4>1, <4>2 DEF Hashed, LocFields
        <4> QED
          BY <4>1, <4>3 DEF ProcInv
      <3>2. CASE memory # <<>>
        <4> DEFINE l == [Blank EXCEPT !.left = memory, !.since = {memory}]
        <4>1. pc'[q] = "read" /\ loc'[q] = l
          BY <2>1, <2>a, <3>2 DEF ListRecords
        <4>2. l.leaves = <<>> /\ l.left = memory /\ l.since = {memory}
          BY DEF Blank
        <4>3. <<>> \o memory = memory /\ <<>> \in Seq(Records)
          BY <1>0, ConcatEmptySeq, EmptySeq DEF Shape
        <4> HIDE DEF l
        <4> QED
          BY <1>0, <3>2, <4>1, <4>2, <4>3 DEF ProcInv, Shape
      <3> QED
        BY <3>1, <3>2
    <2>2. CASE ReadFile(q)
      <3> DEFINE l == [loc[q] EXCEPT !.left = Tail(@), !.leaves = Append(@, Head(loc[q].left))]
      <3>1. /\ loc[q].left \in Seq(Records) /\ loc[q].left # <<>> /\ loc[q].leaves \in Seq(Records)
            /\ loc[q].leaves \o loc[q].left \in loc[q].since
        BY <1>0, <2>2 DEF ReadFile, ProcInv
      <3>2. /\ l.left = Tail(loc[q].left) /\ l.leaves = Append(loc[q].leaves, Head(loc[q].left))
            /\ l.since = loc[q].since
        BY <2>0 DEF LocFields
      <3>3. \/ End(q)
            \/ l.left # <<>> /\ Goto(q, "read", l)
            \/ l.left = <<>> /\ Goto(q, "fetch", Hashed(l))
        BY <2>2 DEF ReadFile
      <3> HIDE DEF l
      <3>4. /\ l.left \in Seq(Records) /\ l.leaves \in Seq(Records)
            /\ l.leaves \o l.left \in l.since /\ l.leaves \o <<>> = l.leaves
        <4>1. l.left \in Seq(Records) /\ l.leaves \in Seq(Records)
              /\ l.leaves \o l.left = loc[q].leaves \o loc[q].left
          <5> DEFINE a == loc[q].leaves
                     b == loc[q].left
          <5>1. a \in Seq(Records) /\ b \in Seq(Records) /\ b # <<>>
            BY <3>1
          <5>2. l.left = Tail(b) /\ l.leaves = Append(a, Head(b))
            BY <3>2
          <5> HIDE DEF a, b
          <5>3. /\ Tail(b) \in Seq(Records) /\ Append(a, Head(b)) \in Seq(Records)
                /\ Append(a, Head(b)) \o Tail(b) = a \o b
            BY <5>1, MoveHead
          <5> QED
            BY <5>2, <5>3 DEF a, b
        <4>2. l.leaves \o <<>> = l.leaves
          BY <4>1, ConcatEmptySeq
        <4> QED
          BY <3>1, <3>2, <4>1, <4>2
      <3>5. CASE l.left # <<>> /\ Goto(q, "read", l)
        <4>1. pc'[q] = "read" /\ loc'[q] = l
          BY <2>a, <3>5
        <4> QED
          BY <3>4, <3>5, <4>1 DEF ProcInv
      <3>6. CASE l.left = <<>> /\ Goto(q, "fetch", Hashed(l))
        <4>1. pc'[q] = "fetch" /\ loc'[q] = Hashed(l)
          BY <2>a, <3>6
        <4>2. Hashed(l).root = MerkleRoot(l.leaves) /\ Hashed(l).since = l.since
          BY <2>0 DEF Hashed, LocFields
        <4>3. l.leaves \in l.since
          BY <3>4, <3>6
        <4> QED
          BY <4>1, <4>2, <4>3 DEF ProcInv
      <3> QED
        BY <2>b, <3>3, <3>5, <3>6
    <2>3. CASE FetchUtxos(q)
      <3> DEFINE l == [loc[q] EXCEPT !.coins = Unspent, !.since = {}]
      <3>1. l.coins = Unspent
        BY <2>0 DEF LocFields
      <3>2. End(q) \/ (Unspent # {} /\ Goto(q, "send", l))
        BY <2>3 DEF FetchUtxos
      <3> HIDE DEF l
      <3>3. CASE Unspent # {} /\ Goto(q, "send", l)
        <4>1. pc'[q] = "send" /\ loc'[q] = l
          BY <2>a, <3>3
        <4> QED
          BY <3>1, <3>3, <4>1 DEF ProcInv
      <3> QED
        BY <2>b, <3>2, <3>3
    <2>4. CASE Kill(q) \/ RecordAnchor(q) \/ MarkVerified(q)
      BY <2>b, <2>4 DEF Kill, RecordAnchor, MarkVerified
    <2>5. ASSUME NEW a \in 1..Len(anchors), VerifyFetch(q, a), UNCHANGED <<network, table>>
          PROVE  ProcInv(q)'
      <3> DEFINE l == [Blank EXCEPT !.anchor = a, !.height = FoundHeight(anchors[a].tx)]
      <3>1. l.anchor = a /\ l.height = FoundHeight(anchors[a].tx)
        BY <2>0 DEF LocFields
      <3>2. pc'[q] = "mark" /\ loc'[q] = l
        BY <2>a, <2>5 DEF VerifyFetch
      <3> HIDE DEF l
      <3>3. TrueHeight(FoundHeight(anchors[a].tx), anchors[a].tx)
        BY LenNat DEF FoundHeight, Height, TrueHeight, Facts, NetInv, Shape
      <3> QED
        BY <2>5, <3>1, <3>2, <3>3 DEF ProcInv, TrueHeight, network, table
    <2>6. CASE Broadcast(q)
      <3> DEFINE t == AnchorTx(loc[q])
                 l == [loc[q] EXCEPT !.tx = t]
      <3>1. l.tx = t /\ l.root = loc[q].root
        BY <2>0 DEF LocFields
      <3>2. End(q) \/ (Take(t) /\ Goto(q, "record", l))
        BY <2>6 DEF Broadcast, Submit
      <3>3. t.payload = CaapPayload(loc[q].root, "memory_root", Domain)
        BY DEF AnchorTx
      <3>4. VerifyAnchorDigest(t, loc[q].root, Domain)
        BY <3>3 DEF VerifyAnchorDigest, CaapPayload
      <3> HIDE DEF l, t
      <3>5. CASE Take(t) /\ Goto(q, "record", l)
        <4>1. t \in accepted'
          BY <3>5 DEF Take, network, Facts, NetInv
        <4>2. pc'[q] = "record" /\ loc'[q] = l
          BY <2>a, <3>5
        <4> QED
          BY <3>1, <3>4, <4>1, <4>2 DEF ProcInv, VerifyAnchorDigest
      <3> QED
        BY <2>b, <3>2, <3>5
    <2> QED
      BY <1>5, <2>1, <2>2, <2>3, <2>4, <2>5, <2>6 DEF Moving, Quiet, Sending, Recording, Marking
  <1> QED
    BY <1>1, <1>2, <1>3, <1>4, <1>5, StepCases

LEMMA FactsHold == Spec => []Facts
  <1>1. Init => Facts
    <2> SUFFICES ASSUME Init PROVE Facts
      OBVIOUS
    <2>1. <<>> \in Seq(Records) /\ IsSeq(<<>>) /\ Len(<<>>) = 0
      BY EmptySeq DEF IsSeq
    <2>2. Shape
      BY <2>1, AnchorConstants DEF Init, Shape, Distinct, Live, States, Blank, LocFields
    <2> QED
      BY <2>1, <2>2 DEF Init, Facts, NetInv, ProcInv
  <1>2. Facts /\ [Next]_vars => Facts'
    BY ShapeKept, NetInvKept, RowsKept, KnowledgeKept DEF Facts
  <1> QED
    BY <1>1, <1>2, PTL DEF Spec

-----------------------------------------------------------------------------
(* Counting.                                                               *)

Running == { p \in Procs : pc[p] # "idle" }

\* Each command that ran has been started, and loses one transaction at most.
CountInv == IsFiniteSet(Running) /\ lost + Cardinality(Running) <= calls

\* A command starts, goes on, or ends.
LEMMA CountStep ==
  ASSUME Facts, NEW p \in Procs, Moving(p)
  PROVE  \/ pc[p] = "idle" /\ pc'[p] # "idle" /\ calls' = calls + 1 /\ lost' = lost
         \/ pc[p] # "idle" /\ pc'[p] # "idle" /\ calls' = calls /\ lost' = lost
         \/ pc[p] # "idle" /\ pc'[p] = "idle" /\ calls' = calls /\ lost' \in {lost, lost + 1}
  <1>0. p \in DOMAIN pc
    BY DEF Facts, Shape
  <1>a. ASSUME NEW s, NEW l, Begin(p, s, l)
        PROVE pc[p] = "idle" /\ pc'[p] = s /\ calls' = calls + 1 /\ lost' = lost
    BY <1>0, <1>a DEF Begin
  <1>b. ASSUME NEW s, NEW l, Goto(p, s, l) PROVE pc'[p] = s /\ calls' = calls
    BY <1>0, <1>b DEF Goto
  <1>c. ASSUME End(p) PROVE pc'[p] = "idle" /\ calls' = calls
    BY <1>b, <1>c DEF End
  <1>1. CASE ListRecords(p)
    BY <1>1, <1>a DEF ListRecords
  <1>2. CASE ReadFile(p) /\ UNCHANGED lost
    <2> DEFINE l == [loc[p] EXCEPT !.left = Tail(@), !.leaves = Append(@, Head(loc[p].left))]
    <2>1. pc[p] = "read" /\ (End(p) \/ Goto(p, "read", l) \/ Goto(p, "fetch", Hashed(l)))
      BY <1>2 DEF ReadFile
    <2> HIDE DEF l
    <2> QED
      BY <2>1, <1>2, <1>b, <1>c
  <1>3. CASE FetchUtxos(p) /\ UNCHANGED lost
    BY <1>3, <1>b, <1>c DEF FetchUtxos
  <1>4. CASE Kill(p)
    BY <1>4, <1>c DEF Kill
  <1>5. ASSUME NEW a \in 1..Len(anchors), VerifyFetch(p, a)
        PROVE pc[p] = "idle" /\ pc'[p] # "idle" /\ calls' = calls + 1 /\ lost' = lost
    BY <1>5, <1>a DEF VerifyFetch
  <1>6. CASE Broadcast(p)
    BY <1>6, <1>b, <1>c DEF Broadcast
  <1>7. CASE (RecordAnchor(p) \/ MarkVerified(p)) /\ UNCHANGED lost
    BY <1>7, <1>c DEF RecordAnchor, MarkVerified
  <1> QED
    BY <1>1, <1>2, <1>3, <1>4, <1>5, <1>6, <1>7 DEF Moving, Quiet, Sending, Recording, Marking

LEMMA CountKept ==
  ASSUME Facts, CountInv, [Next]_vars
  PROVE  CountInv'
  <1>0. calls \in Nat /\ lost \in Nat /\ Cardinality(Running) \in Nat
    BY AnchorConstants, FS_CardinalityType DEF Facts, Shape, CountInv
  <1>1. CASE VaultNext \/ NetworkNext \/ UNCHANGED vars
    <2>1. UNCHANGED <<pc, calls, lost>>
      BY <1>1 DEF VaultNext, NetworkNext, vars
    <2>2. Running' = Running
      BY <2>1 DEF Running
    <2> QED
      BY <2>1, <2>2 DEF CountInv
  <1>2. ASSUME NEW p \in Procs, Moving(p) PROVE CountInv'
    <2>0. \A q \in Procs \ {p} : pc'[q] = pc[q]
      BY <1>2, Moves DEF Facts
    <2>1. CASE pc[p] = "idle" /\ pc'[p] # "idle" /\ calls' = calls + 1 /\ lost' = lost
      <3>1. Running' = Running \cup {p} /\ p \notin Running
        BY <2>0, <2>1 DEF Running
      <3>2. IsFiniteSet(Running \cup {p}) /\ Cardinality(Running \cup {p}) = Cardinality(Running) + 1
        BY <3>1, FS_AddElement DEF CountInv
      <3> QED
        BY <1>0, <2>1, <3>1, <3>2 DEF CountInv
    <2>2. CASE pc[p] # "idle" /\ pc'[p] # "idle" /\ calls' = calls /\ lost' = lost
      <3>1. Running' = Running
        BY <2>0, <2>2 DEF Running
      <3> QED
        BY <2>2, <3>1 DEF CountInv
    <2>3. CASE pc[p] # "idle" /\ pc'[p] = "idle" /\ calls' = calls /\ lost' \in {lost, lost + 1}
      <3>1. Running' = Running \ {p} /\ p \in Running
        BY <2>0, <2>3 DEF Running
      <3>2. IsFiniteSet(Running \ {p}) /\ Cardinality(Running \ {p}) = Cardinality(Running) - 1
        BY <3>1, FS_RemoveElement DEF CountInv
      <3> QED
        BY <1>0, <2>3, <3>1, <3>2 DEF CountInv
    <2> QED
      BY <1>2, <2>1, <2>2, <2>3, CountStep
  <1> QED
    BY <1>1, <1>2, StepCases

-----------------------------------------------------------------------------
(* The audit log.                                                          *)

AuditNames == \A i \in 1..Len(audit) : audit[i].anchor \in 1..Len(anchors)

Of(a) == { i \in 1..Len(audit) : audit[i].anchor = a }

\* The first entry about an anchor is its broadcast; all others verify it.
OpeningOf(a) ==
  \E i \in Of(a) :
    /\ audit[i].event = "anchor.broadcast"
    /\ \A j \in Of(a) : i <= j /\ (j # i => audit[j].event = "anchor.verified")

VerifiedOf(a) ==
  anchors[a].status = "verified" <=> \E i \in Of(a) : audit[i].event = "anchor.verified"

LastOf(a) ==
  \E i \in Of(a) : audit[i].height = anchors[a].height /\ \A j \in Of(a) : j <= i

AuditInv ==
  AuditNames /\ \A a \in 1..Len(anchors) : OpeningOf(a) /\ VerifiedOf(a) /\ LastOf(a)

LEMMA AuditKept ==
  ASSUME Facts, AuditInv, [Next]_vars
  PROVE  AuditInv'
  <1>0. /\ IsSeq(anchors) /\ IsSeq(audit) /\ Len(anchors) \in Nat /\ Len(audit) \in Nat
        /\ \A a \in 1..Len(anchors) : DOMAIN anchors[a] = RowFields
    BY LenNat DEF Facts, Shape
  <1>1. ASSUME UNCHANGED table PROVE AuditInv'
    BY <1>1 DEF table, AuditInv, AuditNames, OpeningOf, VerifiedOf, LastOf, Of
  <1>2. CASE VaultNext \/ NetworkNext \/ UNCHANGED vars
    BY <1>1, <1>2 DEF VaultNext, NetworkNext, vars
  <1>3. ASSUME NEW p \in Procs, Quiet(p) \/ Sending(p) PROVE AuditInv'
    BY <1>1, <1>3 DEF Quiet, Sending, table
  <1>4. ASSUME NEW e, audit' = Append(audit, e)
        PROVE  /\ Len(audit') = Len(audit) + 1 /\ audit'[Len(audit) + 1] = e
               /\ \A i \in 1..Len(audit) : audit'[i] = audit[i]
               /\ \A a : Of(a)' = IF a = e.anchor THEN Of(a) \cup {Len(audit) + 1} ELSE Of(a)
    <2>1. /\ Len(audit') = Len(audit) + 1 /\ audit'[Len(audit) + 1] = e
          /\ \A i \in 1..Len(audit) : audit'[i] = audit[i]
      BY <1>0, <1>4, AppendAny
    <2>2. 1..Len(audit') = 1..Len(audit) \cup {Len(audit) + 1} /\ Len(audit) + 1 \notin 1..Len(audit)
      BY <1>0, <2>1
    <2> QED
      BY <2>1, <2>2 DEF Of
  <1>5. ASSUME NEW p \in Procs, Recording(p) PROVE AuditInv'
    <2>0. PICK n \in Nat : n = Len(anchors) + 1
      BY <1>0
    <2> DEFINE e == [event |-> "anchor.broadcast", anchor |-> n, height |-> Nil]
    <2>1. audit' = Append(audit, e)
      BY <1>5, <2>0 DEF Recording, RecordAnchor, Log
    <2>2. /\ Len(audit') = Len(audit) + 1 /\ audit'[Len(audit) + 1] = e
          /\ \A i \in 1..Len(audit) : audit'[i] = audit[i]
          /\ \A a : Of(a)' = IF a = n THEN Of(a) \cup {Len(audit) + 1} ELSE Of(a)
      BY <1>4, <2>1
    <2>3. /\ Len(anchors') = n /\ anchors'[n] = NewRow(loc[p])
          /\ \A a \in 1..Len(anchors) : anchors'[a] = anchors[a]
      BY <1>0, <1>5, <2>0, AppendAny DEF Recording, RecordAnchor
    <2>4. Of(n) = {}
      BY <1>0, <2>0 DEF Of, AuditInv, AuditNames
    <2>5. AuditNames'
      <3>1. ASSUME NEW i \in 1..Len(audit') PROVE audit'[i].anchor \in 1..Len(anchors')
        <4>1. i \in 1..Len(audit) \/ i = Len(audit) + 1
          BY <1>0, <2>2
        <4> QED
          BY <1>0, <2>0, <2>2, <2>3, <4>1 DEF AuditInv, AuditNames
      <3> QED
        BY <3>1 DEF AuditNames
    <2>6. ASSUME NEW a \in 1..Len(anchors) PROVE (OpeningOf(a) /\ VerifiedOf(a) /\ LastOf(a))'
      <3>1. /\ Of(a)' = Of(a) /\ anchors'[a] = anchors[a] /\ \A i \in Of(a) : audit'[i] = audit[i]
        BY <1>0, <2>0, <2>2, <2>3 DEF Of
      <3> QED
        BY <3>1 DEF OpeningOf, VerifiedOf, LastOf, AuditInv
    <2>7. (OpeningOf(n) /\ VerifiedOf(n) /\ LastOf(n))'
      <3>1. Of(n)' = {Len(audit) + 1}
        BY <2>2, <2>4
      <3>2. /\ audit'[Len(audit) + 1].event = "anchor.broadcast"
            /\ audit'[Len(audit) + 1].height = Nil
            /\ anchors'[n].status = "broadcast" /\ anchors'[n].height = Nil
        BY <2>2, <2>3 DEF NewRow
      <3> HIDE DEF e
      <3> QED
        BY <1>0, <3>1, <3>2 DEF OpeningOf, VerifiedOf, LastOf
    <2>8. \A a \in 1..Len(anchors') : a \in 1..Len(anchors) \/ a = n
      BY <1>0, <2>0, <2>3
    <2> QED
      BY <2>5, <2>6, <2>7, <2>8 DEF AuditInv
  <1>6. ASSUME NEW p \in Procs, Marking(p) PROVE AuditInv'
    <2>3. loc[p].anchor \in 1..Len(anchors)
      BY <1>6 DEF Marking, MarkVerified, Facts, ProcInv
    <2>0. PICK k \in 1..Len(anchors) : k = loc[p].anchor
      BY <2>3
    <2> DEFINE e == [event |-> "anchor.verified", anchor |-> k, height |-> loc[p].height]
    <2>1. audit' = Append(audit, e) /\ anchors' = Marked(anchors, k, loc[p].height)
      BY <1>6, <2>0 DEF Marking, MarkVerified, Log, Marked
    <2>2. /\ Len(audit') = Len(audit) + 1 /\ audit'[Len(audit) + 1] = e
          /\ \A i \in 1..Len(audit) : audit'[i] = audit[i]
          /\ \A a : Of(a)' = IF a = k THEN Of(a) \cup {Len(audit) + 1} ELSE Of(a)
      BY <1>4, <2>1
    <2>4. /\ Len(anchors') = Len(anchors)
          /\ \A a \in 1..Len(anchors) : a # k => anchors'[a] = anchors[a]
          /\ anchors'[k].status = "verified" /\ anchors'[k].height = loc[p].height
      <3> HIDE DEF e
      <3> QED
        BY <1>0, <2>1, MarkRow
    <2>5. AuditNames'
      <3>1. ASSUME NEW i \in 1..Len(audit') PROVE audit'[i].anchor \in 1..Len(anchors')
        <4>1. i \in 1..Len(audit) \/ i = Len(audit) + 1
          BY <1>0, <2>2
        <4> QED
          BY <2>2, <2>4, <4>1 DEF AuditInv, AuditNames
      <3> QED
        BY <3>1 DEF AuditNames
    <2>6. ASSUME NEW a \in 1..Len(anchors), a # k PROVE (OpeningOf(a) /\ VerifiedOf(a) /\ LastOf(a))'
      <3>1. /\ Of(a)' = Of(a) /\ anchors'[a] = anchors[a] /\ \A i \in Of(a) : audit'[i] = audit[i]
        BY <2>2, <2>4, <2>6 DEF Of
      <3> QED
        BY <3>1 DEF OpeningOf, VerifiedOf, LastOf, AuditInv
    <2>7. (OpeningOf(k) /\ VerifiedOf(k) /\ LastOf(k))'
      <3>0. PICK z \in Nat : z = Len(audit) + 1
        BY <1>0
      <3>1. /\ Of(k)' = Of(k) \cup {z} /\ \A i \in Of(k) : audit'[i] = audit[i]
            /\ \A i \in Of(k) : i < z /\ i \in Nat
        BY <1>0, <2>2, <3>0 DEF Of
      <3>2. audit'[z].event = "anchor.verified" /\ audit'[z].height = loc[p].height
        BY <2>2, <3>0
      <3>3. OpeningOf(k)
        BY DEF AuditInv
      <3> HIDE DEF e
      <3>5. OpeningOf(k)'
        <4>1. PICK i \in Of(k) : /\ audit[i].event = "anchor.broadcast"
                                /\ \A j \in Of(k) : i <= j /\ (j # i => audit[j].event = "anchor.verified")
          BY <3>3 DEF OpeningOf
        <4>2. i \in Of(k)' /\ audit'[i].event = "anchor.broadcast"
          BY <3>1, <4>1
        <4>3. ASSUME NEW j \in Of(k)' PROVE i <= j /\ (j # i => audit'[j].event = "anchor.verified")
          BY <3>1, <3>2, <4>1
        <4> QED
          BY <4>2, <4>3 DEF OpeningOf
      <3>6. VerifiedOf(k)'
        BY <2>4, <3>1, <3>2 DEF VerifiedOf
      <3>7. LastOf(k)'
        <4>1. ASSUME NEW j \in Of(k)' PROVE j <= z
          BY <3>1
        <4> QED
          BY <2>4, <3>1, <3>2, <4>1 DEF LastOf
      <3> QED
        BY <3>5, <3>6, <3>7
    <2> QED
      BY <2>4, <2>5, <2>6, <2>7 DEF AuditInv
  <1> QED
    BY <1>2, <1>3, <1>5, <1>6, StepCases DEF Moving

LEMMA AuditHolds == Spec => []AuditInv
  <1>1. Init => AuditInv
    BY DEF Init, AuditInv, AuditNames
  <1>2. Facts /\ AuditInv /\ [Next]_vars => AuditInv'
    BY AuditKept
  <1> QED
    BY <1>1, <1>2, FactsHold, PTL DEF Spec

-----------------------------------------------------------------------------
(* Theorems.                                                               *)

\* Every variable of Anchor holds a value of its type, and the rows carry the
\* digests of what they say they anchor.
THEOREM AnchorTyping == Spec => []AnchorTypeOK
  <1>1. Init => CountInv
    <2> SUFFICES ASSUME Init PROVE CountInv
      OBVIOUS
    <2>1. Running = {} /\ lost = 0 /\ calls = 0
      BY DEF Init, Running
    <2> QED
      BY <2>1, FS_EmptySet DEF CountInv
  <1>2. Facts /\ CountInv /\ [Next]_vars => CountInv'
    BY CountKept
  <1>3. Facts /\ CountInv /\ AuditInv => AnchorTypeOK
    <2> SUFFICES ASSUME Facts, CountInv, AuditInv PROVE AnchorTypeOK
      OBVIOUS
    <2>1. calls \in Nat /\ lost \in Nat /\ Cardinality(Running) \in Nat
      BY AnchorConstants, FS_CardinalityType DEF Facts, Shape, CountInv
    <2>2. lost \in 0..calls
      BY <2>1 DEF CountInv
    <2>3. Live(memory) \subseteq Records
      BY ElementOfSeq DEF Live, Facts, Shape
    <2> QED
      BY <2>2, <2>3 DEF AnchorTypeOK, Facts, Shape, NetInv, RowInv, TrueHeight, AuditInv, AuditNames, States
  <1> QED
    BY <1>1, <1>2, <1>3, FactsHold, AuditHolds, PTL DEF Spec

\* A root is that of a memory that was live at one moment while it was read.
THEOREM RootsWereLive == Spec => []RootWasLive
  <1>1. Facts => RootWasLive
    BY DEF Facts, ProcInv, RootWasLive
  <1> QED
    BY <1>1, FactsHold, PTL

\* A height in the anchors table is one the transaction did have.
THEOREM HeightsTrue == Spec => []HeightsAreTrue
  <1>1. Facts => HeightsAreTrue
    BY DEF Facts, RowInv, TrueHeight, HeightsAreTrue
  <1> QED
    BY <1>1, FactsHold, PTL

\* No row of the anchors table goes, changes what it anchors or loses its
\* verification.
THEOREM AnchorsAreForGood == Spec => AnchorsStay
  <1>1. Facts /\ [Next]_vars =>
          [\A a \in 1..Len(anchors) :
             /\ a <= Len(anchors')
             /\ anchors'[a].tx = anchors[a].tx /\ anchors'[a].root = anchors[a].root
             /\ anchors[a].status = "verified" => anchors'[a].status = "verified"]_anchors
    <2> SUFFICES ASSUME Facts, [Next]_vars, NEW a \in 1..Len(anchors)
                 PROVE  /\ a <= Len(anchors')
                        /\ anchors'[a].tx = anchors[a].tx /\ anchors'[a].root = anchors[a].root
                        /\ anchors[a].status = "verified" => anchors'[a].status = "verified"
      OBVIOUS
    <2> QED
      BY Growing DEF Grows
  <1> QED
    BY <1>1, FactsHold, PTL DEF Spec, AnchorsStay

\* The audit log tells the anchors table.
THEOREM AuditTells == Spec => []AuditTellsAnchors
  <1>1. ASSUME Facts, AuditInv, NEW a \in 1..Len(anchors)
        PROVE  LET entries == { i \in 1..Len(audit) : audit[i].anchor = a }
                   Told(e) == { i \in entries : audit[i].event = e } IN
               /\ Cardinality(Told("anchor.broadcast")) = 1
               /\ audit[Min(entries)].event = "anchor.broadcast"
               /\ anchors[a].status = "verified" <=> Told("anchor.verified") # {}
               /\ anchors[a].height = audit[Max(entries)].height
    <2> DEFINE Told(e) == { i \in Of(a) : audit[i].event = e }
    <2>0. Of(a) \subseteq Nat
      BY <1>1, LenNat DEF Of, Facts, Shape
    <2>1. PICK i \in Of(a) : /\ audit[i].event = "anchor.broadcast"
                            /\ \A j \in Of(a) : i <= j /\ (j # i => audit[j].event = "anchor.verified")
      BY <1>1 DEF AuditInv, OpeningOf
    <2>2. PICK l \in Of(a) : audit[l].height = anchors[a].height /\ \A j \in Of(a) : j <= l
      BY <1>1 DEF AuditInv, LastOf
    <2>3. Told("anchor.broadcast") = {i}
      BY <2>1
    <2>4. Cardinality({i}) = 1
      BY FS_Singleton
    <2>5. Min(Of(a)) = i
      BY <2>0, <2>1 DEF Min
    <2>6. Max(Of(a)) = l
      BY <2>0, <2>2 DEF Max
    <2>7. anchors[a].status = "verified" <=> Told("anchor.verified") # {}
      BY <1>1 DEF AuditInv, VerifiedOf
    <2> HIDE DEF Told
    <2>8. /\ Cardinality(Told("anchor.broadcast")) = 1
          /\ audit[Min(Of(a))].event = "anchor.broadcast"
          /\ anchors[a].status = "verified" <=> Told("anchor.verified") # {}
          /\ anchors[a].height = audit[Max(Of(a))].height
      BY <2>1, <2>2, <2>3, <2>4, <2>5, <2>6, <2>7
    <2> QED
      BY <2>8, Zenon DEF Told, Of
  <1>2. Facts /\ AuditInv => AuditTellsAnchors
    BY <1>1, Zenon DEF AuditTellsAnchors
  <1> QED
    BY <1>2, FactsHold, AuditHolds, PTL

-----------------------------------------------------------------------------
(* Paid for and recorded.                                                  *)

Recorded == { anchors[a].tx : a \in 1..Len(anchors) }
Pending  == { loc[p].tx : p \in { q \in Procs : pc[q] = "record" } }
Unknown  == accepted \ (Recorded \cup Pending)

UnknownInv == IsFiniteSet(Unknown) /\ Cardinality(Unknown) <= lost

\* A step that makes no transaction unknown, or one at the cost of a loss.
LEMMA UnknownStep ==
  ASSUME UnknownInv, lost \in Nat, lost' \in Nat,
         \/ Unknown' \subseteq Unknown /\ lost <= lost'
         \/ lost' = lost + 1 /\ \E t : Unknown' \subseteq Unknown \cup {t}
  PROVE  UnknownInv'
  <1>0. IsFiniteSet(Unknown) /\ Cardinality(Unknown) \in Nat /\ Cardinality(Unknown) <= lost
    BY FS_CardinalityType DEF UnknownInv
  <1>1. CASE Unknown' \subseteq Unknown /\ lost <= lost'
    <2>1. IsFiniteSet(Unknown') /\ Cardinality(Unknown') <= Cardinality(Unknown)
      BY <1>0, <1>1, FS_Subset
    <2>2. Cardinality(Unknown') \in Nat
      BY <2>1, FS_CardinalityType
    <2> QED
      BY <1>0, <1>1, <2>1, <2>2 DEF UnknownInv
  <1>2. ASSUME NEW t, lost' = lost + 1, Unknown' \subseteq Unknown \cup {t} PROVE UnknownInv'
    <2>1. /\ IsFiniteSet(Unknown \cup {t}) /\ Cardinality(Unknown \cup {t}) \in Nat
          /\ Cardinality(Unknown \cup {t}) <= Cardinality(Unknown) + 1
      BY <1>0, FS_AddElement
    <2>2. IsFiniteSet(Unknown') /\ Cardinality(Unknown') <= Cardinality(Unknown \cup {t})
      BY <1>2, <2>1, FS_Subset
    <2>3. Cardinality(Unknown') \in Nat
      BY <2>2, FS_CardinalityType
    <2> QED
      BY <1>0, <1>2, <2>1, <2>2, <2>3 DEF UnknownInv
  <1> QED
    BY <1>1, <1>2

LEMMA UnknownKept ==
  ASSUME Facts, UnknownInv, [Next]_vars
  PROVE  UnknownInv'
  <1>0. Grows /\ Shape /\ Shape' /\ lost \in Nat /\ lost' \in Nat
    BY Growing, ShapeKept DEF Facts, Shape
  <1>1. Recorded \subseteq Recorded'
    BY <1>0 DEF Grows, Recorded
  <1>2. CASE VaultNext \/ NetworkNext \/ UNCHANGED vars
    <2>1. UNCHANGED <<accepted, pc, lost>>
      BY <1>2 DEF VaultNext, NetworkNext, vars, network, Confirm, Evict, Reorg
    <2>2. \A p \in Procs : pc[p] = "record" => loc'[p] = loc[p]
      <3>1. CASE VaultNext
        BY <3>1 DEF VaultNext, Put, Tombstone, Witness
      <3>2. CASE NetworkNext \/ UNCHANGED vars
        BY <3>2 DEF NetworkNext, vars
      <3> QED
        BY <1>2, <3>1, <3>2
    <2>3. Pending' = Pending
      BY <2>1, <2>2 DEF Pending
    <2>4. Unknown' \subseteq Unknown
      BY <1>1, <2>1, <2>3 DEF Unknown
    <2> QED
      BY <1>0, <2>1, <2>4, UnknownStep
  <1>3. ASSUME NEW p \in Procs, Moving(p) PROVE UnknownInv'
    <2>0. \A q \in Procs \ {p} : pc'[q] = pc[q] /\ loc'[q] = loc[q]
      BY <1>0, <1>3, Moves
    <2>1. Pending \subseteq Pending' \cup {loc[p].tx}
      BY <2>0 DEF Pending
    <2>2. pc[p] # "record" => Pending \subseteq Pending'
      BY <2>0 DEF Pending
    <2>3. lost <= lost'
      BY <1>0, <1>3, CountStep
    <2>4. CASE UNCHANGED accepted /\ pc[p] # "record"
      <3>1. Unknown' \subseteq Unknown
        BY <1>1, <2>2, <2>4 DEF Unknown
      <3> QED
        BY <1>0, <2>3, <3>1, UnknownStep
    <2>5. CASE Kill(p) /\ UNCHANGED network /\ pc[p] = "record"
      <3>1. Unknown' \subseteq Unknown \cup {loc[p].tx} /\ lost' = lost + 1
        BY <1>1, <2>1, <2>5 DEF Unknown, network, Kill
      <3> QED
        BY <1>0, <3>1, UnknownStep
    <2>6. CASE Recording(p)
      <3>1. loc[p].tx \in Recorded'
        <4>1. /\ Len(anchors') = Len(anchors) + 1 /\ anchors'[Len(anchors) + 1] = NewRow(loc[p])
              /\ Len(anchors) \in Nat
          BY <1>0, <2>6, AppendAny DEF Shape, Recording, RecordAnchor
        <4>2. anchors'[Len(anchors')].tx = loc[p].tx /\ Len(anchors') \in 1..Len(anchors')
          BY <4>1 DEF NewRow
        <4> QED
          BY <4>2 DEF Recorded
      <3>2. Unknown' \subseteq Unknown
        BY <1>1, <2>1, <2>6, <3>1 DEF Unknown, Recording, network
      <3> QED
        BY <1>0, <2>3, <3>2, UnknownStep
    <2>7. CASE Sending(p)
      <3> DEFINE t == AnchorTx(loc[p])
                 l == [loc[p] EXCEPT !.tx = t]
      <3>0. pc[p] = "send" /\ l.tx = t
        BY <1>0, <2>7 DEF Sending, Broadcast, Shape, LocFields
      <3>1. \/ UNCHANGED network
            \/ Take(t) /\ Goto(p, "record", l)
            \/ Take(t) /\ lost' = lost + 1
        BY <2>7 DEF Sending, Broadcast, Submit
      <3> HIDE DEF t, l
      <3>2. CASE UNCHANGED network
        BY <2>4, <3>0, <3>2 DEF network
      <3>3. ASSUME Take(t) PROVE accepted' \subseteq accepted \cup {t}
        BY <3>3 DEF Take, network
      <3>4. CASE Take(t) /\ Goto(p, "record", l)
        <4>1. pc'[p] = "record" /\ loc'[p].tx = t
          BY <1>0, <3>0, <3>4 DEF Goto, Shape
        <4>2. t \in Pending'
          BY <4>1 DEF Pending
        <4>3. Unknown' \subseteq Unknown
          BY <1>1, <2>2, <3>0, <3>3, <3>4, <4>2 DEF Unknown
        <4> QED
          BY <1>0, <2>3, <4>3, UnknownStep
      <3>5. CASE Take(t) /\ lost' = lost + 1
        <4>1. Unknown' \subseteq Unknown \cup {t}
          BY <1>1, <2>2, <3>0, <3>3, <3>5 DEF Unknown
        <4> QED
          BY <1>0, <3>5, <4>1, UnknownStep
      <3> QED
        BY <3>1, <3>2, <3>4, <3>5
    <2>8. CASE Marking(p)
      BY <2>4, <2>8 DEF Marking, MarkVerified, network
    <2>9. CASE Quiet(p)
      <3>1. UNCHANGED network /\ (Kill(p) \/ pc[p] # "record")
        BY <2>9 DEF Quiet, ListRecords, ReadFile, FetchUtxos, VerifyFetch, Begin
      <3> QED
        BY <2>4, <2>5, <3>1 DEF network
    <2> QED
      BY <1>3, <2>6, <2>7, <2>8, <2>9 DEF Moving
  <1> QED
    BY <1>2, <1>3, StepCases

\* A transaction the network took is in the anchors table or about to be, up to
\* one for each command that was killed or lost its answer.
THEOREM PaidIsRecorded == Spec => []RecordedUnlessLost
  <1>1. Init => UnknownInv
    <2> SUFFICES ASSUME Init PROVE UnknownInv
      OBVIOUS
    <2>1. Unknown = {} /\ lost = 0
      BY DEF Init, Unknown
    <2> QED
      BY <2>1, FS_EmptySet DEF UnknownInv
  <1>2. Facts /\ UnknownInv /\ [Next]_vars => UnknownInv'
    BY UnknownKept
  <1>3. UnknownInv => RecordedUnlessLost
    BY DEF UnknownInv, RecordedUnlessLost, Unknown, Recorded, Pending
  <1> QED
    BY <1>1, <1>2, <1>3, FactsHold, PTL DEF Spec

-----------------------------------------------------------------------------
(* The coins at the address.  The network's transactions form a line: each *)
(* spends the one coin the one before left, the first the deposit.         *)

\* What is left after i transactions.
Left(i) == Funds - i * Fee

Coin(path, i) == IF i = 0 THEN Deposit ELSE path[i]

Step(path, i) ==
  /\ path[i].spends = {Coin(path, i - 1)} /\ Coin(path, i - 1).change = Left(i - 1)
  /\ path[i].change = Change(Left(i - 1)) /\ Left(i) \in Nat

\* The transactions in the network, in order, the chain's first.
Line(path) ==
  /\ IsSeq(path) /\ Distinct(path) /\ Len(chain) <= Len(path)
  /\ \A i \in 1..Len(chain) : chain[i] = path[i]
  /\ mempool = { path[i] : i \in (Len(chain) + 1)..Len(path) }
  /\ \A i \in 1..Len(path) : Step(path, i)

InLine == \E path : Line(path)

LEMMA LeftFacts ==
  ASSUME NEW i \in Nat
  PROVE  Left(i) \in Int /\ Left(0) = Funds /\ Left(i + 1) = Left(i) - Fee
  BY AnchorConstants DEF Left

LEMMA InNetworkIsPath ==
  ASSUME IsSeq(chain), NEW path, Line(path)
  PROVE  InNetwork = Elements(path)
  <1> DEFINE n == Len(path)
             k == Len(chain)
  <1>1. n \in Nat /\ k \in Nat /\ k <= n
    BY LenNat DEF Line
  <1>2. { chain[i] : i \in 1..k } = { path[i] : i \in 1..k }
    BY DEF Line
  <1>3. mempool = { path[i] : i \in (k + 1)..n } /\ Elements(path) = { path[i] : i \in 1..n }
    BY DEF Line, Elements
  <1>4. InNetwork = { chain[i] : i \in 1..k } \cup mempool
    BY DEF InNetwork
  <1> HIDE DEF n, k
  <1>5. \A i : i \in 1..n <=> i \in 1..k \/ i \in (k + 1)..n
    BY <1>1
  <1> QED
    BY <1>2, <1>3, <1>4, <1>5

\* The coins along the path differ from each other.
LEMMA CoinsDiffer ==
  ASSUME NEW path, Line(path), NEW i \in 0..Len(path), NEW j \in 0..Len(path),
         Coin(path, i) = Coin(path, j)
  PROVE  i = j
  <1>1. Len(path) \in Nat
    BY LenNat DEF Line
  <1>2. ASSUME NEW m \in 1..Len(path) PROVE path[m] # Deposit
    <2>1. path[m].spends # {} /\ Deposit.spends = {}
      BY DEF Line, Step, Deposit
    <2> QED
      BY <2>1
  <1>3. \A m \in 0..Len(path) : m = 0 \/ m \in 1..Len(path)
    BY <1>1
  <1> QED
    BY <1>2, <1>3 DEF Coin, Line, Distinct

\* The coins spent and unspent.
LEMMA PathCoins ==
  ASSUME IsSeq(chain), NEW path, Line(path), NEW n, n = Len(path), NEW c, c = Coin(path, n)
  PROVE  /\ n \in Nat /\ Left(n) \in Nat
         /\ c.change = Nil => Unspent = {} /\ Left(n) < Dust
         /\ c.change # Nil => Unspent = {c} /\ c.change = Left(n)
  <1>1. n \in Nat
    BY LenNat DEF Line
  <1> DEFINE K(i) == Coin(path, i)
  <1>2. UNION { t.spends : t \in InNetwork } = { K(i) : i \in 0..(n - 1) }
    <2>1. UNION { t.spends : t \in InNetwork } = UNION { path[i].spends : i \in 1..n }
      BY InNetworkIsPath DEF Elements
    <2>2. UNION { path[i].spends : i \in 1..n } = { K(i - 1) : i \in 1..n }
      BY DEF Line, Step
    <2>3. ASSUME NEW x PROVE x \in { K(i - 1) : i \in 1..n } <=> x \in { K(i) : i \in 0..(n - 1) }
      <3> HIDE DEF K
      <3>1. ASSUME NEW i \in 1..n, x = K(i - 1) PROVE x \in { K(j) : j \in 0..(n - 1) }
        <4>1. i - 1 \in 0..(n - 1)
          BY <1>1
        <4> QED
          BY <3>1, <4>1
      <3>2. ASSUME NEW i \in 0..(n - 1), x = K(i) PROVE x \in { K(j - 1) : j \in 1..n }
        <4>1. i + 1 \in 1..n /\ (i + 1) - 1 = i
          BY <1>1
        <4> QED
          BY <3>2, <4>1
      <3> QED
        BY <3>1, <3>2
    <2> HIDE DEF K
    <2> QED
      BY <2>1, <2>2, <2>3
  <1>3. \A x : x \in Outputs <=> \E i \in 0..n : x = K(i) /\ x.change # Nil
    <2>1. Deposit.change # Nil
      BY AnchorConstants DEF Deposit
    <2>2. \A i : i \in 0..n <=> i = 0 \/ i \in 1..n
      BY <1>1
    <2>3. K(0) = Deposit /\ \A i \in 1..n : K(i) = path[i]
      BY <1>1 DEF Coin
    <2>4. InNetwork = { path[i] : i \in 1..n }
      BY InNetworkIsPath DEF Elements
    <2> HIDE DEF K
    <2> QED
      BY <2>1, <2>2, <2>3, <2>4 DEF Outputs
  <1>4. \A i, j \in 0..n : K(i) = K(j) => i = j
    BY CoinsDiffer
  <1>5. \A x : x \in Unspent <=> x = K(n) /\ x.change # Nil
    <2> HIDE DEF K
    <2>1. \A i : i \in 0..n <=> i \in 0..(n - 1) \/ i = n
      BY <1>1
    <2>2. n \notin 0..(n - 1)
      BY <1>1
    <2>3. ASSUME NEW x PROVE x \in Unspent <=> x \in Outputs /\ \A i \in 0..(n - 1) : x # K(i)
      BY <1>2 DEF Unspent
    <2>4. \A x \in Unspent : x = K(n) /\ x.change # Nil
      BY <1>3, <2>1, <2>3
    <2>5. n \in 0..n /\ \A i \in 0..(n - 1) : K(n) # K(i)
      BY <1>1, <1>4, <2>1, <2>2
    <2>6. ASSUME NEW x, x = K(n), x.change # Nil PROVE x \in Unspent
      <3>1. x \in Outputs
        BY <1>3, <2>5, <2>6
      <3> QED
        BY <2>3, <2>5, <2>6, <3>1
    <2> QED
      BY <2>4, <2>6
  <1>6. CASE n = 0
    <2>1. Left(n) = Funds /\ c.change = Funds /\ Funds # Nil /\ Funds \in Nat
      BY <1>6, LeftFacts, AnchorConstants DEF Coin, Deposit
    <2> QED
      BY <1>1, <1>5, <2>1
  <1>7. CASE n # 0
    <2>1. n \in 1..n /\ n - 1 \in Nat /\ c = path[n]
      BY <1>1, <1>7 DEF Coin
    <2>2. c.change = Change(Left(n - 1)) /\ Left(n) \in Nat
      BY <2>1 DEF Line, Step
    <2>3. Left(n) = Left(n - 1) - Fee
      <3>1. (n - 1) + 1 = n
        BY <1>1
      <3> QED
        BY <2>1, <3>1, LeftFacts
    <2>4. c.change = IF Left(n) >= Dust THEN Left(n) ELSE Nil
      BY <2>2, <2>3 DEF Change
    <2>5. Nil # Left(n) /\ Dust \in Nat
      BY <2>2, AnchorConstants
    <2> QED
      BY <1>1, <1>5, <2>2, <2>4, <2>5
  <1> QED
    BY <1>6, <1>7
LEMMA SumOne ==
  ASSUME NEW x, x.change \in Nat
  PROVE  MapThenSumSet(Value, {}) = 0 /\ MapThenSumSet(Value, {x}) = x.change
  <1> DEFINE Body(s, g) == IF s = {} THEN 0
                           ELSE LET y == CHOOSE y \in s : TRUE IN Value(y) + g[s \ {y}]
             Sum(S) == CHOOSE g : g = [s \in SUBSET S |-> Body(s, g)]
  <1>1. \A S : MapThenSumSet(Value, S) = Sum(S)[S]
    BY DEF MapThenSumSet, MapThenFoldSet
  <1>2. ASSUME NEW S, S \in {{}, {x}} PROVE Sum(S) = [s \in SUBSET S |-> Body(s, Sum(S))]
    <2> DEFINE sums == [s \in SUBSET S |-> IF s = {} THEN 0 ELSE x.change]
    <2>1. ASSUME NEW s \in SUBSET S PROVE sums[s] = Body(s, sums)
      <3>1. CASE s = {}
        BY <3>1
      <3>2. CASE s # {}
        <4>1. s = {x} /\ (CHOOSE y \in s : TRUE) = x /\ s \ {x} = {}
          BY <1>2, <3>2
        <4>2. sums[{}] = 0 /\ sums[s] = x.change
          BY <3>2
        <4> HIDE DEF sums
        <4> QED
          BY <3>2, <4>1, <4>2 DEF Value
      <3> QED
        BY <3>1, <3>2
    <2> HIDE DEF Body
    <2>2. sums = [s \in SUBSET S |-> Body(s, sums)]
      BY <2>1
    <2> HIDE DEF sums
    <2> QED
      BY <2>2
  <1>3. Sum({})[{}] = 0 /\ Sum({x})[{}] = 0
    <2> HIDE DEF Sum
    <2> QED
      BY <1>2
  <1>4. Sum({x})[{x}] = x.change
    <2> HIDE DEF Sum
    <2>1. Sum({x})[{x}] = Body({x}, Sum({x}))
      BY <1>2
    <2>2. (CHOOSE y \in {x} : TRUE) = x /\ {x} \ {x} = {} /\ {x} # {}
      OBVIOUS
    <2> QED
      BY <1>3, <2>1, <2>2 DEF Value
  <1> QED
    BY <1>1, <1>3, <1>4

LEMMA LineAccounts ==
  ASSUME IsSeq(chain), NEW path, Line(path)
  PROVE  FundsAccounted
  <1> DEFINE n == Len(path)
             c == Coin(path, n)
             held == MapThenSumSet(Value, Unspent)
             paid == Fee * Cardinality(InNetwork)
  <1>1. /\ n \in Nat /\ Left(n) \in Nat
        /\ c.change = Nil => Unspent = {} /\ Left(n) < Dust
        /\ c.change # Nil => Unspent = {c} /\ c.change = Left(n)
    BY PathCoins
  <1>2. Cardinality(InNetwork) = n
    BY InNetworkIsPath, DistinctCard DEF Line, IsSeq
  <1>3. Left(n) = Funds - paid
    BY <1>1, <1>2, AnchorConstants DEF Left
  <1>4. paid \in Nat /\ Funds \in Nat /\ Dust \in Nat \ {0}
    BY <1>1, <1>2, AnchorConstants
  <1>5. CASE c.change = Nil
    <2>1. held = 0
      <3>1. [change |-> 0].change \in Nat
        OBVIOUS
      <3> QED
        BY <1>1, <1>5, <3>1, SumOne
    <2> HIDE DEF held, paid
    <2>2. held + paid <= Funds /\ Funds - (held + paid) < Dust
      BY <1>1, <1>3, <1>4, <1>5, <2>1
    <2> QED
      BY <2>2 DEF FundsAccounted, held, paid
  <1>6. CASE c.change # Nil
    <2>1. held = Left(n)
      <3> HIDE DEF c, n
      <3> QED
        BY <1>1, <1>6, SumOne
    <2> HIDE DEF held, paid
    <2>2. held + paid <= Funds /\ Funds - (held + paid) < Dust
      BY <1>1, <1>3, <1>4, <2>1
    <2> QED
      BY <2>2 DEF FundsAccounted, held, paid
  <1> QED
    BY <1>5, <1>6

\* A transaction that spends the last coin joins the line.
LEMMA LineGrows ==
  ASSUME IsSeq(chain), NEW path, Line(path), NEW n, n = Len(path),
         NEW c, c = Coin(path, n), c.change # Nil, c.change >= Fee,
         NEW t, t.spends = {c}, t.change = Change(c.change),
         UNCHANGED chain, mempool' = mempool \cup {t}
  PROVE  Line(Append(path, t))'
  <1> DEFINE q == Append(path, t)
             k == Len(chain)
  <1>1. n \in Nat /\ c.change = Left(n) /\ Left(n) \in Nat
    BY PathCoins
  <1>2. /\ IsSeq(q) /\ Len(q) = n + 1 /\ q[n + 1] = t
        /\ \A i \in 1..n : q[i] = path[i]
    BY AppendAny DEF Line
  <1>3. k \in Nat /\ k <= n /\ \A i \in 1..k : chain[i] = path[i]
    BY LenNat DEF Line
  <1>4. mempool = { path[i] : i \in (k + 1)..n }
    BY DEF Line
  <1>5. \A i \in 1..n : Step(path, i)
    BY DEF Line
  <1>6. ASSUME NEW i \in 1..n PROVE t # path[i]
    <2>1. i - 1 \in 0..n /\ n \in 0..n /\ i - 1 # n
      BY <1>1
    <2>2. Coin(path, i - 1) # c
      BY <2>1, CoinsDiffer
    <2>3. path[i].spends = {Coin(path, i - 1)}
      BY <1>5 DEF Step
    <2> QED
      BY <2>2, <2>3
  <1>7. \A i, j \in 1..n : path[i] = path[j] => i = j
    BY DEF Line, Distinct
  <1> HIDE DEF q, k
  <1>8. \A i \in 1..(n + 1) : i \in 1..n \/ i = n + 1
    BY <1>1
  <1>9. Distinct(q)
    BY <1>2, <1>6, <1>7, <1>8 DEF Distinct
  <1>10. mempool' = { q[i] : i \in (k + 1)..(n + 1) }
    <2>1. \A i : i \in (k + 1)..(n + 1) <=> i \in (k + 1)..n \/ i = n + 1
      BY <1>1, <1>3
    <2>2. (k + 1)..n \subseteq 1..n
      BY <1>3
    <2> QED
      BY <1>2, <1>4, <2>1, <2>2
  <1>11. ASSUME NEW i \in 1..(n + 1) PROVE Step(q, i)
    <2>1. ASSUME NEW j \in 0..n PROVE Coin(q, j) = Coin(path, j)
      <3>1. j = 0 \/ j \in 1..n
        BY <1>1
      <3> QED
        BY <3>1, <1>2 DEF Coin
    <2>2. CASE i \in 1..n
      <3>1. i - 1 \in 0..n
        BY <2>2, <1>1
      <3> QED
        BY <2>1, <2>2, <3>1, <1>2, <1>5 DEF Step
    <2>3. CASE i = n + 1
      <3>1. i - 1 = n /\ n \in 0..n
        BY <2>3, <1>1
      <3>2. Left(n + 1) = Left(n) - Fee /\ Left(n) >= Fee /\ Fee \in Nat
        BY <1>1, LeftFacts, AnchorConstants
      <3>3. Left(i) \in Nat
        BY <1>1, <2>3, <3>2
      <3> QED
        BY <1>1, <1>2, <2>1, <2>3, <3>1, <3>3 DEF Step
    <2> QED
      BY <1>8, <2>2, <2>3
  <1>12. k <= n + 1 /\ 1..k \subseteq 1..n
    BY <1>1, <1>3
  <1>13. /\ Len(chain') <= Len(q) /\ \A i \in 1..Len(chain') : chain'[i] = q[i]
         /\ mempool' = { q[i] : i \in (Len(chain') + 1)..Len(q) }
         /\ \A i \in 1..Len(q) : Step(q, i)
    BY <1>2, <1>3, <1>10, <1>11, <1>12 DEF k
  <1> QED
    BY <1>2, <1>9, <1>13 DEF Line, q

\* What is evicted is the last of the line.
LEMMA LineShrinks ==
  ASSUME IsSeq(chain), NEW path, Line(path), NEW t \in mempool, Evict(t)
  PROVE  InLine'
  <1> DEFINE n == Len(path)
             k == Len(chain)
             q == SubSeq(path, 1, n - 1)
  <1>1. n \in Nat /\ k \in Nat /\ k <= n /\ \A i \in 1..k : chain[i] = path[i]
    BY LenNat DEF Line
  <1>2. mempool = { path[i] : i \in (k + 1)..n } /\ \A i \in 1..n : Step(path, i)
    BY DEF Line
  <1>3. \A i, j \in 1..n : path[i] = path[j] => i = j
    BY DEF Line, Distinct
  <1>4. PICK S : path \in Seq(S)
    BY DEF Line, IsSeq
  <1>5. PICK m \in (k + 1)..n : t = path[m]
    BY <1>2
  <1>6. m = n
    <2>1. CASE m < n
      <3> HIDE DEF n, k
      <3>1. m + 1 \in (k + 1)..n /\ m + 1 \in 1..n /\ (m + 1) - 1 = m /\ m # 0
        BY <2>1, <1>1
      <3>2. t \in path[m + 1].spends
        BY <1>2, <1>5, <3>1 DEF Step, Coin
      <3>3. path[m + 1] \in mempool
        BY <1>2, <3>1
      <3> QED
        BY <3>2, <3>3 DEF Evict
    <2> QED
      BY <2>1, <1>1
  <1>7. 1 \in Int /\ n - 1 \in Nat /\ k <= n - 1 /\ n \in 1..n
    BY <1>1, <1>5, <1>6
  <1>8. q \in Seq(S) /\ Len(q) = n - 1 /\ \A i \in 1..(n - 1) : q[i] = path[i]
    <2>1. \A i \in 1..(n - 1) : path[i] \in S
      BY <1>1, <1>4, ElementOfSeq
    <2>2. /\ q \in Seq(S) /\ Len(q) = IF 1 <= n - 1 THEN (n - 1) - 1 + 1 ELSE 0
          /\ \A i \in 1..((n - 1) - 1 + 1) : q[i] = path[1 + i - 1]
      BY <1>7, <2>1, SubSeqProperties
    <2> HIDE DEF n, q
    <2> QED
      BY <1>7, <2>2
  <1> HIDE DEF n, k, q
  <1>9. Distinct(q)
    <2>1. 1..(n - 1) \subseteq 1..n
      BY <1>7
    <2> QED
      BY <1>3, <1>8, <2>1 DEF Distinct
  <1>10. mempool' = { q[i] : i \in (k + 1)..(n - 1) }
    <2>1. mempool' = { path[i] : i \in (k + 1)..n } \ {path[n]}
      BY <1>2, <1>5, <1>6 DEF Evict
    <2>2. \A i : i \in (k + 1)..(n - 1) <=> i \in (k + 1)..n /\ i # n
      BY <1>1, <1>7
    <2>3. (k + 1)..n \subseteq 1..n /\ (k + 1)..(n - 1) \subseteq 1..(n - 1)
      BY <1>1
    <2>4. ASSUME NEW x PROVE x \in mempool' <=> \E i \in (k + 1)..(n - 1) : x = path[i]
      BY <1>3, <1>7, <2>1, <2>2, <2>3
    <2> QED
      BY <1>8, <2>3, <2>4
  <1>11. ASSUME NEW i \in 1..(n - 1) PROVE Step(q, i)
    <2>1. i \in 1..n /\ (i - 1 = 0 \/ i - 1 \in 1..(n - 1))
      BY <1>7
    <2> QED
      BY <1>2, <1>8, <2>1 DEF Step, Coin
  <1>12. 1..k \subseteq 1..(n - 1)
    BY <1>7, <1>1
  <1>13. /\ Len(chain') <= Len(q) /\ \A i \in 1..Len(chain') : chain'[i] = q[i]
         /\ mempool' = { q[i] : i \in (Len(chain') + 1)..Len(q) }
         /\ \A i \in 1..Len(q) : Step(q, i)
    <2>1. chain' = chain
      BY DEF Evict
    <2> QED
      BY <2>1, <1>1, <1>7, <1>8, <1>10, <1>11, <1>12 DEF k
  <1>14. IsSeq(q)
    BY <1>8 DEF IsSeq
  <1> QED
    BY <1>9, <1>13, <1>14 DEF InLine, Line

\* A block takes the first that waits; undoing one gives it back.
LEMMA LineMoves ==
  ASSUME IsSeq(chain), NEW path, Line(path), (\E t \in mempool : Confirm(t)) \/ Reorg
  PROVE  Line(path)'
  <1> DEFINE n == Len(path)
             k == Len(chain)
  <1>1. n \in Nat /\ k \in Nat /\ k <= n /\ \A i \in 1..k : chain[i] = path[i]
    BY LenNat DEF Line
  <1>2. mempool = { path[i] : i \in (k + 1)..n } /\ \A i \in 1..n : Step(path, i)
    BY DEF Line
  <1>3. \A i, j \in 1..n : path[i] = path[j] => i = j
    BY DEF Line, Distinct
  <1> DEFINE Good == /\ Len(chain') <= n /\ \A i \in 1..Len(chain') : chain'[i] = path[i]
                     /\ mempool' = { path[i] : i \in (Len(chain') + 1)..n }
  <1>4. ASSUME NEW t \in mempool, Confirm(t) PROVE Good
    <2>1. PICK m \in (k + 1)..n : t = path[m]
      BY <1>2
    <2>2. /\ Len(chain') = k + 1 /\ chain'[k + 1] = t /\ \A i \in 1..k : chain'[i] = chain[i]
      BY <1>4, AppendAny DEF Confirm
    <2>3. mempool' = mempool \ {t} /\ t.spends \cap mempool = {}
      BY <1>4 DEF Confirm
    <2> HIDE DEF n, k
    <2>4. m = k + 1
      <3>1. CASE m > k + 1
        <4>1. m - 1 \in (k + 1)..n /\ m \in 1..n /\ m - 1 # 0
          BY <3>1, <1>1
        <4>2. path[m - 1] \in t.spends
          BY <1>2, <2>1, <4>1 DEF Step, Coin
        <4>3. path[m - 1] \in mempool
          BY <1>2, <4>1
        <4> QED
          BY <2>3, <4>2, <4>3
      <3> QED
        BY <3>1, <1>1
    <2>5. \A i : i \in (k + 2)..n <=> i \in (k + 1)..n /\ i # k + 1
      BY <1>1
    <2>6. (k + 1)..n \subseteq 1..n /\ k + 1 <= n /\ k + 1 \in 1..n
      BY <1>1, <2>1, <2>4
    <2>7. mempool' = { path[i] : i \in (k + 2)..n }
      <3>1. ASSUME NEW x PROVE x \in mempool' <=> \E i \in (k + 2)..n : x = path[i]
        BY <1>2, <1>3, <2>1, <2>3, <2>4, <2>5, <2>6
      <3> QED
        BY <3>1
    <2>8. (k + 1) + 1 = k + 2 /\ \A i \in 1..(k + 1) : i \in 1..k \/ i = k + 1
      BY <1>1
    <2>9. \A i \in 1..(k + 1) : chain'[i] = path[i]
      BY <1>1, <2>1, <2>2, <2>4, <2>8
    <2>10. Len(chain') <= n
      BY <2>2, <2>6
    <2> QED
      BY <2>2, <2>7, <2>8, <2>9, <2>10
  <1>5. ASSUME Reorg PROVE Good
    <2>1. PICK S : chain \in Seq(S)
      BY DEF IsSeq
    <2>2. k # 0
      BY <1>5, <2>1, EmptySeq DEF Reorg
    <2>3. 1 \in Int /\ k - 1 \in Nat /\ k \in 1..k
      BY <1>1, <2>2
    <2>4. Len(chain') = k - 1 /\ \A i \in 1..(k - 1) : chain'[i] = chain[i]
      <3>1. \A i \in 1..(k - 1) : chain[i] \in S
        BY <1>1, <2>1, ElementOfSeq
      <3>2. /\ Len(chain') = IF 1 <= k - 1 THEN (k - 1) - 1 + 1 ELSE 0
            /\ \A i \in 1..((k - 1) - 1 + 1) : chain'[i] = chain[1 + i - 1]
        BY <1>5, <2>3, <3>1, SubSeqProperties DEF Reorg
      <3> DEFINE kk == Len(chain')
      <3> HIDE DEF k, kk
      <3>3. kk = k - 1 /\ \A i \in 1..(k - 1) : chain'[i] = chain[i]
        BY <2>3, <3>2 DEF kk
      <3> QED
        BY <3>3 DEF kk
    <2>5. mempool' = mempool \cup {path[k]}
      BY <1>1, <1>5, <2>3 DEF Reorg
    <2> HIDE DEF n, k
    <2>6. \A i : i \in k..n <=> i \in (k + 1)..n \/ i = k
      BY <1>1
    <2>7. mempool' = { path[i] : i \in k..n }
      BY <1>2, <2>5, <2>6
    <2>8. (k - 1) + 1 = k /\ k - 1 <= n /\ 1..(k - 1) \subseteq 1..k
      BY <1>1, <2>3
    <2>9. \A i \in 1..(k - 1) : chain'[i] = path[i]
      BY <1>1, <2>4, <2>8
    <2> QED
      BY <2>4, <2>7, <2>8, <2>9
  <1> HIDE DEF Good
  <1>6. Good
    BY <1>4, <1>5
  <1>7. IsSeq(path) /\ Distinct(path)
    BY DEF Line
  <1> QED
    BY <1>2, <1>6, <1>7 DEF Good, Line

LEMMA InLineKept ==
  ASSUME Facts, InLine, [Next]_vars
  PROVE  InLine'
  <1>0. IsSeq(chain)
    BY DEF Facts, Shape
  <1>1. PICK path : Line(path)
    BY DEF InLine
  <1>2. CASE UNCHANGED network
    BY <1>1, <1>2 DEF InLine, Line, network
  <1>3. CASE NetworkNext
    BY <1>0, <1>1, <1>3, LineShrinks, LineMoves DEF NetworkNext, InLine
  <1>4. ASSUME NEW p \in Procs, Sending(p), ~UNCHANGED network PROVE InLine'
    <2>0. PICK t : t = AnchorTx(loc[p])
      OBVIOUS
    <2> DEFINE n == Len(path)
               c == Coin(path, n)
               total == MapThenSumSet(Value, loc[p].coins)
    <2>1. ~(total < Fee) /\ Take(t)
      BY <1>4, <2>0 DEF Sending, Broadcast, Submit
    <2>2. t.spends # {} /\ t.spends = loc[p].coins /\ t.change = Change(total)
      BY <1>4, <2>0 DEF Sending, Broadcast, AnchorTx, Facts, ProcInv
    <2>3. t.spends \subseteq Unspent /\ mempool' = mempool \cup {t} /\ UNCHANGED chain
      BY <1>4, <2>1 DEF Take
    <2>4. /\ Left(n) \in Nat
          /\ c.change = Nil => Unspent = {}
          /\ c.change # Nil => Unspent = {c} /\ c.change = Left(n)
      BY <1>0, <1>1, PathCoins
    <2>5. c.change # Nil /\ t.spends = {c} /\ c.change \in Nat
      BY <2>2, <2>3, <2>4
    <2>6. total = c.change
      <3> HIDE DEF c
      <3> QED
        BY <2>2, <2>5, SumOne
    <2>7. c.change >= Fee
      BY <2>1, <2>5, <2>6, AnchorConstants
    <2>8. Line(Append(path, t))'
      <3>1. n = Len(path) /\ c = Coin(path, n)
        OBVIOUS
      <3> HIDE DEF n, c
      <3> QED
        BY <3>1, <1>0, <1>1, <2>2, <2>3, <2>5, <2>6, <2>7, LineGrows
    <2> QED
      BY <2>8 DEF InLine
  <1>5. VaultNext \/ UNCHANGED vars => UNCHANGED network
    BY DEF VaultNext, vars
  <1>6. ASSUME NEW p \in Procs, Quiet(p) \/ Recording(p) \/ Marking(p) PROVE UNCHANGED network
    BY <1>6 DEF Quiet, Recording, Marking
  <1> QED
    BY <1>2, <1>3, <1>4, <1>5, <1>6, StepCases DEF Moving

\* The coins at the address and the fees paid add up to the deposit, short of
\* less than the dust limit, however commands race for the same coins: the
\* transactions in the network form one line, from the deposit to the one coin
\* that is left, whatever is evicted, confirmed or undone.
THEOREM FundsAdd == Spec => []FundsAccounted
  <1>1. Init => InLine
    <2>1. IsSeq(<<>>) /\ Len(<<>>) = 0
      BY DEF IsSeq
    <2>2. Init => Line(<<>>)
      BY <2>1 DEF Init, Line, Distinct
    <2> QED
      BY <2>2 DEF InLine
  <1>2. Facts /\ InLine /\ [Next]_vars => InLine'
    BY InLineKept
  <1>3. Facts /\ InLine => FundsAccounted
    BY LineAccounts DEF InLine, Facts, Shape
  <1> QED
    BY <1>1, <1>2, <1>3, FactsHold, PTL DEF Spec
=============================================================================
