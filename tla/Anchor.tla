------------------------------- MODULE Anchor -------------------------------
(***************************************************************************)
(* Anchoring one soul's live memory to Bitcoin (rmem-anchor.py): a command *)
(* hashes the live records, spends every coin of the anchor address into   *)
(* one OP_RETURN output and change, and only then records the anchor in    *)
(* the vault; a second command looks the transaction up again and marks    *)
(* the anchor verified.  Meanwhile records are put and tombstoned,         *)
(* transactions are confirmed, evicted and reorganised out of the chain,   *)
(* answers are lost and commands killed.                                   *)
(*                                                                         *)
(* A transaction is its own txid: what it spends, its OP_RETURN payload    *)
(* and its change.  All commands use one --fee and one network.            *)
(***************************************************************************)
EXTENDS Merkle, FiniteSets, FiniteSetsExt, SequencesExt

CONSTANTS
  Procs,     \* CLI processes
  Records,   \* record ids; also, as chunk hashes, what their files hold
  Nil,       \* SQL NULL; no change, no transaction
  Domain,    \* NETWORK_DOMAIN of the network
  Funds,     \* sats the anchor address was funded with
  Fee,       \* --fee
  Dust,      \* change below this many sats is not returned
  MaxCalls   \* bound: commands started

ASSUME AnchorConstants ==
  /\ Funds \in Nat /\ Fee \in Nat \ {0} /\ Dust \in Nat \ {0} /\ MaxCalls \in Nat
  /\ Nil \notin Nat

VARIABLES
  memory,    \* live records, oldest first
  purged,    \* records tombstoned, their files purged
  mempool,   \* transactions waiting
  chain,     \* transactions confirmed, one a block
  accepted,  \* history: transactions the network ever took
  blocks,    \* history: <<height, transaction>> ever confirmed
  anchors,   \* the anchors table
  audit,     \* audit entries about anchors
  pc, loc,   \* where each command is, and its local variables
  calls,     \* commands started
  lost       \* history: commands killed, or left without an answer, after
             \* their transaction was taken

vault   == <<memory, purged>>
network == <<mempool, chain, accepted, blocks>>
table   == <<anchors, audit>>
vars    == <<vault, network, table, pc, loc, calls, lost>>

Live(m) == { m[i] : i \in 1..Len(m) }
Blank   == [left |-> <<>>, leaves |-> <<>>, since |-> {}, root |-> Nil, coins |-> {},
            tx |-> Nil, anchor |-> 0, height |-> Nil]

Begin(p, next, l) ==
  /\ pc[p] = "idle" /\ calls < MaxCalls
  /\ calls' = calls + 1
  /\ pc' = [pc EXCEPT ![p] = next]
  /\ loc' = [loc EXCEPT ![p] = l]
  /\ UNCHANGED lost

Goto(p, next, l) ==
  /\ pc' = [pc EXCEPT ![p] = next]
  /\ loc' = [loc EXCEPT ![p] = l]
  /\ UNCHANGED calls

End(p) == Goto(p, "idle", Blank)

-----------------------------------------------------------------------------
(* The vault.  The purge of a tombstoned record's file is taken together   *)
(* with the commit: a file read in between is read as it was before.       *)

\* History: what was live since a command that still reads began.
Witness(m) ==
  loc' = [p \in Procs |-> IF pc[p] = "read"
                          THEN [loc[p] EXCEPT !.since = @ \cup {m}] ELSE loc[p]]

\* put_record
Put(r) ==
  /\ r \notin Live(memory) \cup purged
  /\ memory' = Append(memory, r)
  /\ UNCHANGED purged
  /\ Witness(memory')

\* tombstone_record
Tombstone(r) ==
  /\ \E i \in 1..Len(memory) : memory[i] = r /\ memory' = RemoveAt(memory, i)
  /\ purged' = purged \cup {r}
  /\ Witness(memory')

-----------------------------------------------------------------------------
(* The network.  A coin is the transaction whose change it is; the deposit  *)
(* that funded the address is taken to be buried too deep to be undone.    *)

InNetwork  == mempool \cup { chain[i] : i \in 1..Len(chain) }
Deposit    == [spends |-> {}, payload |-> Nil, change |-> Funds]
Value(c)   == c.change
Outputs    == {Deposit} \cup { t \in InNetwork : t.change # Nil }
Unspent    == Outputs \ UNION { t.spends : t \in InNetwork }
Height(t)  == IF \E i \in 1..Len(chain) : chain[i] = t
              THEN CHOOSE i \in 1..Len(chain) : chain[i] = t ELSE Nil

Confirm(t) ==
  /\ t \in mempool /\ t.spends \cap mempool = {}
  /\ mempool' = mempool \ {t}
  /\ chain' = Append(chain, t)
  /\ blocks' = blocks \cup {<<Len(chain) + 1, t>>}
  /\ UNCHANGED accepted

\* A transaction leaves the mempool unconfirmed, after those that spend it.
Evict(t) ==
  /\ t \in mempool /\ \A u \in mempool : t \notin u.spends
  /\ mempool' = mempool \ {t}
  /\ UNCHANGED <<chain, accepted, blocks>>

\* The last block is undone, its transaction waits again.
Reorg ==
  /\ chain # <<>>
  /\ chain' = SubSeq(chain, 1, Len(chain) - 1)
  /\ mempool' = mempool \cup {chain[Len(chain)]}
  /\ UNCHANGED <<accepted, blocks>>

-----------------------------------------------------------------------------
(* anchor-memory.                                                          *)

\* All is read: the root of what was read.
Hashed(l) == [Blank EXCEPT !.root = MerkleRoot(l.leaves), !.since = l.since]

\* compute_memory_root lists the live records...
ListRecords(p) ==
  LET l == [Blank EXCEPT !.left = memory, !.since = {memory}] IN
  IF memory = <<>> THEN Begin(p, "fetch", Hashed(l)) ELSE Begin(p, "read", l)

\* Mutated form of ReadFile: skips a file that has gone.
BugSkipMissing(p) ==
  LET r == Head(loc[p].left)
      l == [loc[p] EXCEPT !.left = Tail(@),
                          !.leaves = IF r \in Live(memory) THEN Append(@, r) ELSE @] IN
  /\ pc[p] = "read"
  /\ IF l.left = <<>> THEN Goto(p, "fetch", Hashed(l)) ELSE Goto(p, "read", l)

\* ...and reads their files one by one; a file purged meanwhile ends it.
ReadFile(p) ==
  LET r == Head(loc[p].left)
      l == [loc[p] EXCEPT !.left = Tail(@), !.leaves = Append(@, r)] IN
  /\ pc[p] = "read"
  /\ CASE r \notin Live(memory) -> End(p)
       [] r \in Live(memory) /\ l.left # <<>> -> Goto(p, "read", l)
       [] r \in Live(memory) /\ l.left = <<>> -> Goto(p, "fetch", Hashed(l))

FetchUtxos(p) ==
  /\ pc[p] = "fetch"
  /\ IF Unspent = {} THEN End(p)
     ELSE Goto(p, "send", [loc[p] EXCEPT !.coins = Unspent, !.since = {}])

\* Mutated form of Change: returned only above the dust limit.
BugStrictDust(total) == IF total - Fee > Dust THEN total - Fee ELSE Nil

Change(total) == IF total - Fee >= Dust THEN total - Fee ELSE Nil

\* anchor_digest, of a root and the network's domain.
AnchorDigest(root, domain) == [root |-> root, domain |-> domain]

\* build_caap_payload: what the OP_RETURN output carries.
CaapPayload(root, commit_type, domain) ==
  [commit_type |-> commit_type, digest |-> AnchorDigest(root, domain)]

\* build_anchor_tx spends every coin found.
AnchorTx(l) ==
  [spends |-> l.coins, payload |-> CaapPayload(l.root, "memory_root", Domain),
   change |-> Change(MapThenSumSet(Value, l.coins))]

\* The network takes a transaction whose coins are unspent, or has it already.
Take(t) ==
  \/ t \in mempool /\ UNCHANGED network
  \/ /\ t.spends \subseteq Unspent
     /\ mempool' = mempool \cup {t}
     /\ accepted' = accepted \cup {t}
     /\ UNCHANGED <<chain, blocks>>

\* broadcast_tx, broadcast_via_knots_rpc: the txid is answered; the answer is
\* lost or too late; or the transaction is refused or does not arrive.
Submit(t, answer) ==
  \/ Take(t) /\ answer \in {"txid", "lost"}
  \/ UNCHANGED network /\ answer = "refused"

\* The transaction is built and signed, if the coins pay for it, and sent; only
\* a txid goes on to be recorded.
Broadcast(p) ==
  LET t == AnchorTx(loc[p]) IN
  /\ pc[p] = "send"
  /\ IF MapThenSumSet(Value, loc[p].coins) < Fee THEN End(p) /\ UNCHANGED <<network, lost>>
     ELSE \/ Submit(t, "txid") /\ Goto(p, "record", [loc[p] EXCEPT !.tx = t]) /\ UNCHANGED lost
          \/ Submit(t, "lost") /\ End(p) /\ lost' = lost + 1
          \/ Submit(t, "refused") /\ End(p) /\ UNCHANGED lost

NewRow(l) == [tx |-> l.tx, root |-> l.root, domain |-> Domain,
              status |-> "broadcast", height |-> Nil]

Log(event, a, h) == audit' = Append(audit, [event |-> event, anchor |-> a, height |-> h])

\* Mutated form of RecordAnchor: one row for each root.
BugOncePerRoot(p) ==
  /\ pc[p] = "record"
  /\ IF \E a \in 1..Len(anchors) : anchors[a].root = loc[p].root
     THEN UNCHANGED table
     ELSE /\ anchors' = Append(anchors, NewRow(loc[p]))
          /\ Log("anchor.broadcast", Len(anchors) + 1, Nil)
  /\ End(p)

\* Mutated form of RecordAnchor: the entry names the anchor before.
BugWrongAnchor(p) ==
  /\ pc[p] = "record"
  /\ anchors' = Append(anchors, NewRow(loc[p]))
  /\ Log("anchor.broadcast", Len(anchors), Nil)
  /\ End(p)

\* record_anchor: the row and its audit entry, in one transaction.
RecordAnchor(p) ==
  /\ pc[p] = "record"
  /\ anchors' = Append(anchors, NewRow(loc[p]))
  /\ Log("anchor.broadcast", Len(anchors) + 1, Nil)
  /\ End(p)

-----------------------------------------------------------------------------
(* verify.                                                                 *)

\* Mutated form of FoundHeight: a waiting transaction is taken to be in the
\* next block.
BugNextHeight(t) == IF t \in mempool THEN Len(chain) + 1 ELSE Height(t)

\* The block_height fetch_tx reports, none for a transaction that waits.
FoundHeight(t) == Height(t)

\* parse_caap_payload and verify_anchor_digest, of the OP_RETURN of t.
VerifyAnchorDigest(t, root, domain) ==
  /\ t.payload.commit_type \in {"capsule_root", "memory_root"}
  /\ t.payload.digest = AnchorDigest(root, domain)

\* verify_anchor_onchain, of a row: its transaction is found and carries its
\* digest.
VerifyAnchorOnchain(row) ==
  /\ row.tx \in InNetwork
  /\ VerifyAnchorDigest(row.tx, row.root, row.domain)

\* cmd_verify; what does not verify ends it.
VerifyFetch(p, a) ==
  /\ a \in 1..Len(anchors)
  /\ VerifyAnchorOnchain(anchors[a])
  /\ Begin(p, "mark", [Blank EXCEPT !.anchor = a, !.height = FoundHeight(anchors[a].tx)])

\* Mutated form of MarkVerified: keeps the row of an anchor not in a block.
BugKeepsStatus(p) ==
  LET a == loc[p].anchor IN
  /\ pc[p] = "mark"
  /\ anchors' = [anchors EXCEPT ![a].height = loc[p].height,
                                ![a].status = IF loc[p].height = Nil THEN @ ELSE "verified"]
  /\ Log("anchor.verified", a, loc[p].height)
  /\ End(p)

\* Mutated form of MarkVerified: an anchor not in a block is not verified.
BugUnverifies(p) ==
  LET a == loc[p].anchor IN
  /\ pc[p] = "mark"
  /\ anchors' = [anchors EXCEPT ![a].height = loc[p].height,
                    ![a].status = IF loc[p].height = Nil THEN "broadcast" ELSE "verified"]
  /\ Log("anchor.verified", a, loc[p].height)
  /\ End(p)

\* mark_anchor_verified, with the height that was fetched.
MarkVerified(p) ==
  LET a == loc[p].anchor IN
  /\ pc[p] = "mark"
  /\ anchors' = [anchors EXCEPT ![a].status = "verified", ![a].height = loc[p].height]
  /\ Log("anchor.verified", a, loc[p].height)
  /\ End(p)

\* A command is killed.
Kill(p) ==
  /\ pc[p] # "idle"
  /\ lost' = IF pc[p] = "record" THEN lost + 1 ELSE lost
  /\ End(p)

-----------------------------------------------------------------------------

Init ==
  /\ memory = <<>> /\ purged = {}
  /\ mempool = {} /\ chain = <<>> /\ accepted = {} /\ blocks = {}
  /\ anchors = <<>> /\ audit = <<>>
  /\ pc = [p \in Procs |-> "idle"] /\ loc = [p \in Procs |-> Blank]
  /\ calls = 0 /\ lost = 0

VaultNext ==
  /\ \E r \in Records : Put(r) \/ Tombstone(r)
  /\ UNCHANGED <<network, table, pc, calls, lost>>

NetworkNext ==
  /\ (\E t \in mempool : Confirm(t) \/ Evict(t)) \/ Reorg
  /\ UNCHANGED <<vault, table, pc, loc, calls, lost>>

CommandNext(p) ==
  /\ \/ ListRecords(p) /\ UNCHANGED <<network, table>>
     \/ (ReadFile(p) \/ FetchUtxos(p)) /\ UNCHANGED <<network, table, lost>>
     \/ Broadcast(p) /\ UNCHANGED table
     \/ RecordAnchor(p) /\ UNCHANGED <<network, lost>>
     \/ (\E a \in 1..Len(anchors) : VerifyFetch(p, a)) /\ UNCHANGED <<network, table>>
     \/ MarkVerified(p) /\ UNCHANGED <<network, lost>>
     \/ Kill(p) /\ UNCHANGED <<network, table>>
  /\ UNCHANGED vault

Next == VaultNext \/ NetworkNext \/ \E p \in Procs : CommandNext(p)

Spec == Init /\ [][Next]_vars

-----------------------------------------------------------------------------
(* Properties.                                                             *)

\* Every variable holds a value of its type; the rows of the anchors table
\* name transactions that exist and carry their digests, and its audit entries
\* anchors that exist.
AnchorTypeOK ==
  /\ Live(memory) \subseteq Records /\ purged \subseteq Records \ Live(memory)
  /\ mempool \subseteq accepted /\ (\A i \in 1..Len(chain) : chain[i] \in accepted)
  /\ \A t \in accepted : t.spends # {}
  /\ \A i \in 1..Len(anchors) :
       /\ anchors[i].status \in {"broadcast", "verified"}
       /\ anchors[i].height \in Nat \cup {Nil}
       /\ anchors[i].tx \in accepted
       /\ VerifyAnchorDigest(anchors[i].tx, anchors[i].root, anchors[i].domain)
  /\ \A i \in 1..Len(audit) : audit[i].anchor \in 1..Len(anchors)
  /\ pc \in [Procs -> {"idle", "read", "fetch", "send", "record", "mark"}]
  /\ calls \in 0..MaxCalls /\ lost \in 0..calls

\* The root a command computes is that of a memory that was live at one moment
\* while it read: never of a mixture of two, though the records are read one by
\* one while others are put and tombstoned.
RootWasLive ==
  \A p \in Procs : pc[p] = "fetch" => \E m \in loc[p].since : loc[p].root = MerkleRoot(m)

\* A transaction the network took is in the anchors table, or its command is
\* about to record it, unless a command was killed or lost its answer: at most
\* one transaction for each.
RecordedUnlessLost ==
  LET recorded == { anchors[i].tx : i \in 1..Len(anchors) }
      pending  == { loc[p].tx : p \in { q \in Procs : pc[q] = "record" } } IN
  Cardinality(accepted \ (recorded \cup pending)) <= lost

\* The coins at the address and the fees paid add up to the deposit, short of
\* less than the dust limit, however commands race for the same coins.
FundsAccounted ==
  LET held == MapThenSumSet(Value, Unspent)
      paid == Fee * Cardinality(InNetwork) IN
  /\ held + paid <= Funds
  /\ Funds - (held + paid) < Dust

\* A height in the anchors table is one the transaction did have.
HeightsAreTrue ==
  \A i \in 1..Len(anchors) :
    anchors[i].height # Nil => <<anchors[i].height, anchors[i].tx>> \in blocks

\* The audit log tells the anchors table: each anchor was broadcast once,
\* before it was ever verified; it is verified exactly when an entry says so,
\* at the height the last such entry gives.
AuditTellsAnchors ==
  \A a \in 1..Len(anchors) :
    LET entries == { i \in 1..Len(audit) : audit[i].anchor = a }
        Told(e) == { i \in entries : audit[i].event = e } IN
    /\ Cardinality(Told("anchor.broadcast")) = 1
    /\ audit[Min(entries)].event = "anchor.broadcast"
    /\ anchors[a].status = "verified" <=> Told("anchor.verified") # {}
    /\ anchors[a].height = audit[Max(entries)].height

\* Anchors are for good: no row goes, changes what it commits to, or loses
\* its verification, whatever becomes of its transaction.
AnchorsStay ==
  [][\A a \in 1..Len(anchors) :
       /\ a <= Len(anchors')
       /\ anchors'[a].tx = anchors[a].tx /\ anchors'[a].root = anchors[a].root
       /\ anchors[a].status = "verified" => anchors'[a].status = "verified"]_anchors
=============================================================================
