----------------------------- MODULE EvmClient ------------------------------
(***************************************************************************)
(* The EVM client of rmem-evm.py, and the gateway's `write --also-anchor`, *)
(* in front of the registry contract.  Any number of commands share the    *)
(* account keys: each reads the account's nonce, sends one transaction and *)
(* waits for its receipt.  A transaction may be replaced or dropped while  *)
(* it waits, the contract may refuse it by the time it is mined, and a     *)
(* command may fail, time out or be killed at any step.                    *)
(*                                                                         *)
(* A process runs one command, so a transaction is named by the process    *)
(* that sent it.  Blocks are final.  Operations of rmem-evm.py that send   *)
(* nothing (supports, commitment, get-lease) change nothing and have no    *)
(* action.  The gateway's authorisation of a write is Gateway's, the       *)
(* vault's own steps are VaultStore's: here a put or tombstone is one step.*)
(***************************************************************************)
EXTENDS EvmRegistry, Merkle, SequencesExt

CONSTANTS
  Procs,         \* CLI processes
  Records,       \* record ids of the vault; also the hashes of their payloads
  Hours,         \* --hours of a lease
  HashOfNothing  \* sha256(b"")

ASSUME ClientConstants == Hours \subseteq Nat \ {0}

VARIABLES
  memory,    \* the soul's live records, oldest first
  drawn,     \* record ids ever drawn
  pc, loc,   \* where each command is or how it ended, and its local variables
  pool,      \* transactions waiting
  chain,     \* transactions mined, in order, each with its receipt's status
  mined      \* account -> transactions mined: its next nonce

vault   == <<memory, drawn>>
network == <<pool, chain, mined>>
vars    == <<vault, pc, loc, network, evmVars, now>>

\* What a command asks of the contract, and what it needs for it.
AnchorOps == {"anchor", "anchor_vault", "also_anchor"}
LeaseOps  == {"grant", "revoke"}
Blank == [op |-> "none", by |-> None, subject |-> None, what |-> None, val |-> None,
          until |-> 0, left |-> <<>>, leaves |-> <<>>, nonce |-> 0,
          since |-> {}, after |-> {}]

Running == {"list", "read", "nonce", "send", "wait"}

\* ok: reported done.  reverted: told that the transaction failed.  lost: no
\* receipt in time, or killed.  error: failed after a receipt of success.
Ended == {"ok", "reverted", "lost", "error"}

Goto(p, next, l) ==
  /\ pc' = [pc EXCEPT ![p] = next]
  /\ loc' = [loc EXCEPT ![p] = l]

End(p, result) == pc' = [pc EXCEPT ![p] = result] /\ UNCHANGED loc

-----------------------------------------------------------------------------
(* The vault, and the memory roots over it.                                *)

Live == { memory[i] : i \in 1..Len(memory) }

\* History: a command that has yet to read all its payloads sees the change.
Witness(m) ==
  loc' = [p \in Procs |-> IF pc[p] \in {"list", "read"}
                          THEN [loc[p] EXCEPT !.since = @ \cup {m}] ELSE loc[p]]

\* put_record by another command
Put(r) ==
  /\ r \notin drawn
  /\ memory' = Append(memory, r)
  /\ drawn' = drawn \cup {r}
  /\ Witness(memory')

\* tombstone_record
Tombstone(r) ==
  /\ \E i \in 1..Len(memory) : memory[i] = r /\ memory' = RemoveAt(memory, i)
  /\ Witness(memory')
  /\ UNCHANGED drawn

\* Mutated form of PlainRoot: the loop ends at two hashes.
BugStopsAtTwo(hashes) ==
  LET level[k \in 0..Len(hashes)] ==
        IF k = 0 THEN hashes
        ELSE IF Len(level[k - 1]) > 2 THEN Combine(level[k - 1])
        ELSE level[k - 1]
  IN IF hashes = <<>> THEN HashOfNothing ELSE level[Len(hashes)][1]

\* cmd_anchor_vault's Merkle root: no prefixes, no leaf hash.
PlainRoot(hashes) == IF hashes = <<>> THEN HashOfNothing ELSE Reduce(hashes)

\* The root a command anchors: `anchor` is given one and reads no record.
Root(l) == IF l.op = "also_anchor" THEN MerkleRoot(l.leaves) ELSE PlainRoot(l.leaves)

-----------------------------------------------------------------------------
(* The contract, called by a transaction.                                  *)

\* The call of l does not revert.
Accepted(l) ==
  CASE l.op = "write"   -> IsAuthorized(l.by, l.subject, "WRITE")
    [] l.op = "delete"  -> /\ IsAuthorized(l.by, l.subject, "DELETE")
                           /\ commit[l.subject][l.what] # None
    [] l.op = "grant"   -> l.until > now
    [] l.op = "revoke"  -> TRUE
    [] l.op \in AnchorOps -> IsAuthorized(l.by, l.subject, "WRITE")

Execute(l) ==
  CASE l.op = "write"   -> WriteMemory(l.by, l.subject, l.what, l.val)
    [] l.op = "delete"  -> DeleteMemory(l.by, l.subject, l.what)
    [] l.op = "grant"   -> GrantLease(l.by, l.what, {"WRITE"}, l.until)
    [] l.op = "revoke"  -> RevokeLease(l.by, l.what)
    [] l.op \in AnchorOps -> AnchorMemoryRoot(l.by, l.subject)

-----------------------------------------------------------------------------
(* The network.                                                            *)

\* The transaction of p is mined, its receipt ok or not.  One that is ok is
\* accepted by the contract as it now stands; one that is accepted may fail all
\* the same, for the gas estimated on an earlier block need not do on this one.
Mine(p, ok) ==
  /\ p \in pool
  /\ loc[p].nonce = mined[loc[p].by]
  /\ IF ok THEN Accepted(loc[p]) /\ Execute(loc[p]) ELSE UNCHANGED evmVars
  /\ chain' = Append(chain, [cmd |-> p, ok |-> ok])
  /\ mined' = [mined EXCEPT ![loc[p].by] = @ + 1]
  /\ pool' = pool \ {p}

\* A waiting transaction is forgotten.
Drop(p) ==
  /\ p \in pool
  /\ pool' = pool \ {p}
  /\ UNCHANGED <<chain, mined, evmVars>>

NewBlock == now < MaxTime /\ now' = now + 1

MinedOk(p) == \E i \in 1..Len(chain) : chain[i] = [cmd |-> p, ok |-> TRUE]
Reverted(p) == \E i \in 1..Len(chain) : chain[i] = [cmd |-> p, ok |-> FALSE]

-----------------------------------------------------------------------------
(* Commands.                                                               *)

\* p starts a command and goes on at next, with what follows from its
\* arguments.
Begin(p, next, l) ==
  /\ pc[p] = "idle"
  /\ Goto(p, next, [l EXCEPT !.after = { q \in Procs : pc[q] \in Ended }])

\* cmd_write, cmd_delete
CallMemory(p, op, caller, s, r, v) ==
  /\ op \in {"write", "delete"}
  /\ Begin(p, "nonce", [Blank EXCEPT !.op = op, !.by = caller, !.subject = s, !.what = r, !.val = v])
  /\ UNCHANGED vault

\* cmd_anchor is given the root.
CallAnchor(p, caller, s) ==
  /\ Begin(p, "nonce", [Blank EXCEPT !.op = "anchor", !.by = caller, !.subject = s])
  /\ UNCHANGED vault

\* cmd_grant_lease fixes the lease's end before the transaction is sent.  The
\* lease here is for WRITE.
CallGrant(p, s, b, h) ==
  /\ Begin(p, "nonce", [Blank EXCEPT !.op = "grant", !.by = s, !.subject = s, !.what = b, !.until = now + h])
  /\ UNCHANGED vault

\* cmd_revoke_lease
CallRevoke(p, s, b) ==
  /\ Begin(p, "nonce", [Blank EXCEPT !.op = "revoke", !.by = s, !.subject = s, !.what = b])
  /\ UNCHANGED vault

\* cmd_anchor_vault takes the payload hashes from the index, in one SELECT.
CallAnchorVault(p, caller, s) ==
  /\ Begin(p, "nonce", [Blank EXCEPT !.op = "anchor_vault", !.by = caller, !.subject = s,
                                     !.leaves = memory, !.since = {memory}])
  /\ UNCHANGED vault

\* `write --also-anchor`: the gateway's write is committed first.
CallAlsoAnchor(p, caller, s, r) ==
  /\ r \notin drawn
  /\ memory' = Append(memory, r)
  /\ drawn' = drawn \cup {r}
  /\ pc[p] = "idle"
  /\ pc' = [pc EXCEPT ![p] = "list"]
  /\ loc' = [q \in Procs |->
       IF q = p
       THEN [Blank EXCEPT !.op = "also_anchor", !.by = caller, !.subject = s, !.since = {memory'},
                          !.after = { u \in Procs : pc[u] \in Ended }]
       ELSE IF pc[q] \in {"list", "read"} THEN [loc[q] EXCEPT !.since = @ \cup {memory'}]
       ELSE loc[q]]

\* _also_anchor lists the live records...
ListRecords(p) ==
  /\ pc[p] = "list"
  /\ IF memory = <<>> THEN Goto(p, "nonce", loc[p])
     ELSE Goto(p, "read", [loc[p] EXCEPT !.left = memory])

\* Mutated form of ReadFile: skips a file that has gone.
BugSkipMissing(p) ==
  LET r == Head(loc[p].left) IN
  /\ pc[p] = "read"
  /\ Goto(p, IF Len(loc[p].left) = 1 THEN "nonce" ELSE "read",
          [loc[p] EXCEPT !.left = Tail(@),
                         !.leaves = IF r \in Live THEN Append(@, r) ELSE @])

\* ...and reads their files one by one.  One purged meanwhile ends the command.
ReadFile(p) ==
  LET r == Head(loc[p].left) IN
  /\ pc[p] = "read"
  /\ r \in Live
  /\ Goto(p, IF Len(loc[p].left) = 1 THEN "nonce" ELSE "read",
          [loc[p] EXCEPT !.left = Tail(@), !.leaves = Append(@, r)])

\* get_transaction_count, of the latest block.
ReadNonce(p) ==
  /\ pc[p] = "nonce"
  /\ Goto(p, "send", [loc[p] EXCEPT !.nonce = mined[loc[p].by]])

\* Those that wait with the account and nonce of p.
Rivals(p) == { q \in pool : loc[q].by = loc[p].by /\ loc[q].nonce = loc[p].nonce }

\* Mutated form of Send: does not wait for the receipt.
BugNoWait(p) ==
  /\ pc[p] = "send"
  /\ Accepted(loc[p])
  /\ loc[p].nonce >= mined[loc[p].by]
  /\ pool' = (pool \ Rivals(p)) \cup {p}
  /\ End(p, "ok")

\* build_transaction, whose gas estimate runs the call on the latest block,
\* and send_raw_transaction, which replaces a rival it outbids.
Send(p) ==
  /\ pc[p] = "send"
  /\ Accepted(loc[p])
  /\ loc[p].nonce >= mined[loc[p].by]
  /\ pool' = (pool \ Rivals(p)) \cup {p}
  /\ Goto(p, "wait", loc[p])

\* With the root computed, _also_anchor is missing a URL, registry, key or subject.
Unconfigured(p) ==
  /\ pc[p] = "nonce" /\ loc[p].op = "also_anchor"
  /\ Goto(p, "idle", Blank)

\* A command ends before it has sent anything: no key, registry or connection,
\* a payload file gone, a call the estimate refuses, a nonce used meanwhile, a
\* rival it does not outbid; or it is killed.  The process runs another.
GiveUp(p) ==
  /\ pc[p] \in Running \ {"wait"}
  /\ Goto(p, "idle", Blank)

\* Mutated form of Receipt: the status is not looked at.
BugStatusUnchecked(p) ==
  /\ pc[p] = "wait"
  /\ MinedOk(p) \/ Reverted(p)
  /\ End(p, IF loc[p].op = "also_anchor" THEN "error" ELSE "ok")

\* wait_for_transaction_receipt.  With a receipt of success _also_anchor goes
\* on to name a variable there is not (leaves).
Receipt(p) ==
  /\ pc[p] = "wait"
  /\ \/ Reverted(p) /\ End(p, "reverted")
     \/ MinedOk(p) /\ End(p, IF loc[p].op = "also_anchor" THEN "error" ELSE "ok")

\* Mutated form of Timeout: sends again, with the next nonce.
BugResend(p) ==
  /\ pc[p] = "wait" /\ p \in pool
  /\ Goto(p, "lost", [loc[p] EXCEPT !.nonce = @ + 1])

\* No answer or no receipt after 180 seconds, or the command is killed; the
\* transaction may be mined all the same.
Timeout(p) == pc[p] = "wait" /\ End(p, "lost")

-----------------------------------------------------------------------------

Init ==
  /\ EvmInit
  /\ memory = <<>> /\ drawn = {}
  /\ pc = [p \in Procs |-> "idle"] /\ loc = [p \in Procs |-> Blank]
  /\ pool = {} /\ chain = <<>> /\ mined = [a \in Parties |-> 0]

VaultNext ==
  /\ \E r \in Records : Put(r) \/ Tombstone(r)
  /\ UNCHANGED <<pc, network, evmVars, now>>

NetworkNext ==
  /\ \/ (\E p \in pool : Drop(p) \/ \E ok \in BOOLEAN : Mine(p, ok)) /\ UNCHANGED now
     \/ NewBlock /\ UNCHANGED <<network, evmVars>>
  /\ UNCHANGED <<vault, pc, loc>>

Call(p) ==
  \/ \E caller \in Parties, s \in Subjects :
       \/ \E r \in Ids :
            \/ \E v \in Commits : CallMemory(p, "write", caller, s, r, v)
            \/ CallMemory(p, "delete", caller, s, r, None)
       \/ CallAnchor(p, caller, s)
       \/ CallAnchorVault(p, caller, s)
       \/ \E r \in Records : CallAlsoAnchor(p, caller, s, r)
  \/ \E s \in Subjects, b \in Parties :
       CallRevoke(p, s, b) \/ \E h \in Hours : CallGrant(p, s, b, h)

CommandNext(p) ==
  /\ \/ Call(p) /\ UNCHANGED pool
     \/ (ListRecords(p) \/ ReadFile(p) \/ ReadNonce(p) \/ Unconfigured(p) \/ GiveUp(p) \/ Receipt(p) \/ Timeout(p))
        /\ UNCHANGED <<vault, pool>>
     \/ Send(p) /\ UNCHANGED vault
  /\ UNCHANGED <<chain, mined, evmVars, now>>

Next == VaultNext \/ NetworkNext \/ \E p \in Procs : CommandNext(p)

Spec == Init /\ [][Next]_vars

-----------------------------------------------------------------------------
(* Properties.                                                             *)

\* Every variable holds a value of its type; a transaction is in one place,
\* and the registry is typed.
ClientTypeOK ==
  /\ EvmTypeOK
  /\ Live \subseteq drawn /\ drawn \subseteq Records
  /\ pc \in [Procs -> {"idle"} \cup Running \cup Ended]
  /\ \A p \in Procs :
       /\ pc[p] = "idle" <=> loc[p].op = "none"
       /\ loc[p].nonce \in Nat /\ loc[p].until \in Nat
       /\ loc[p].after \subseteq { q \in Procs : pc[q] \in Ended }
  /\ pool \subseteq { p \in Procs : pc[p] \in {"wait", "lost"} /\ ~MinedOk(p) /\ ~Reverted(p) }
  /\ \A i, j \in 1..Len(chain) : chain[i].cmd = chain[j].cmd => i = j
  /\ mined \in [Parties -> Nat]

\* A command's ending tells what became of it: one that reports success has its
\* transaction in the chain, carried out, and so has a `write --also-anchor` that
\* fails after its receipt; one that reports a revert has no effect, now or later.
ToldTruth ==
  \A p \in Procs :
    /\ pc[p] \in {"ok", "error"} => MinedOk(p)
    /\ pc[p] = "reverted" => ~MinedOk(p) /\ p \notin pool

\* The chain keeps the order of an account's commands: one that began after
\* another had ended, by timeout or kill even, is never overtaken by it.
ChainKeepsOrder ==
  \A i, j \in 1..Len(chain) :
    LET c == chain[i].cmd
        d == chain[j].cmd
    IN i < j /\ d \in loc[c].after => loc[c].by # loc[d].by /\ pc[d] = "lost"

\* A revocation that was reported done holds: no grant of that lease that had
\* ended before it began, its transaction still waiting perhaps, comes into
\* force after it.
RevocationHolds ==
  \A p \in Procs :
    /\ pc[p] = "ok" /\ loc[p].op = "revoke"
    /\ \A q \in Procs :
         loc[q].op = "grant" /\ loc[q].by = loc[p].by /\ loc[q].what = loc[p].what
           => q \in loc[p].after
    => leases[loc[p].by][loc[p].what] = NoLease

Sent(p) == p \in pool \/ MinedOk(p) \/ Reverted(p)

\* The memory whose root a command anchors was the vault's memory at one moment
\* since the command began and, for `write --also-anchor`, since its write.
AnchoredWasLive ==
  \A p \in Procs :
    Sent(p) /\ loc[p].op \in {"anchor_vault", "also_anchor"}
      => loc[p].leaves \in loc[p].since

\* An anchored root stands for one memory, though rmem-evm.py hashes without
\* prefixes: two anchors of one command with the same root are of the same
\* records in the same order.
RootTellsMemory ==
  \A p, q \in Procs :
    /\ Sent(p) /\ Sent(q)
    /\ loc[p].op \in {"anchor_vault", "also_anchor"} /\ loc[q].op = loc[p].op
    /\ Root(loc[p]) = Root(loc[q])
    => loc[p].leaves = loc[q].leaves
=============================================================================
