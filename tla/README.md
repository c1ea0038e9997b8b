# RMEM gateway: TLA+ models and proofs

The RMEM gateway keeps the memory of an agent (a *soul*) in a vault its owner
controls.  The owner, or a body that holds a lease the owner signed, reads,
writes, deletes and exports records through it; the memory's root is anchored
to Bitcoin or to an EVM contract; a capsule carries the memory to another
vault.  This directory models that program in TLA+, checks the models with TLC
on small instances and proves every safety property of every part, for every
instance, with TLAPS.

To check: `tlc -config <run>.cfg MC<module>.tla`, with the runs below; to prove:
`tlapm VaultStoreProofs.tla`, and so `GatewayProofs`, `CapsuleProofs`,
`AnchorProofs`, `RegistryProofs` and `EvmClientProofs`, with the lemmas they share
in `EvmRegistryProofs` and `SharedFacts`.
`PROJECT.json` lists the components, the runs, a mutated form of the code for each
property that breaks it, the source lines of each definition, the findings, the
hazards and the theorems.

## Inventory

Every command is a process of its own.  Processes share nothing but the vault's
directory, the SQLite database in it, and whatever they reach over the network.
There are no threads, no daemons and no locks but SQLite's.

| Component | State | Operations | Interacts with |
|---|---|---|---|
| Vault (`rmem-vault.py`) | `vault.db`: records, hash-chained `audit_log`, meta; `records/*.enc` | init, put, get, list, tombstone, audit, verify chain | called by everything below; two stores (database, files) kept in step by hand |
| Leases (`rmem-lease.py`) | `leases` table; lease documents in the bodies' hands | sign, store, revoke, list, verify a document, verify a body's request | vault (database, audit log), the clock |
| Gateway (`rmem-gateway.py`) | none of its own | read, write, delete, export, each authorised by an owner's message or (read, write) under a lease; `--also-anchor` | vault, leases, the clock, capsule, EVM client |
| Capsule (`rmem-gateway.py`, `rmem-migrate.py`) | a directory: manifest and payload copies; the target vault | export, verify, mount | source vault (read), target vault (written), the way in between |
| Freeze flag (`rmem-migrate.py`) | a row of `meta` | freeze, unfreeze, status | nothing reads it but its own command |
| Bitcoin anchoring (`rmem-anchor.py`) | `anchors` table | anchor-memory, verify, list | vault, a Bitcoin node or explorer |
| Hashes (`rmem_hashes.py`) | none | tagged hashes, Merkle root, capsule root | capsule, anchoring, gateway |
| EVM registry (`contracts/src`) | commitments, index, leases, revocations, events | write, delete, export, grant, revoke, anchor | the EVM client, indexers |
| Solana registry (`solana-program`) | an account a record, an account a lease | write, delete, grant, revoke | its clients |
| EVM client (`rmem-evm.py`; `_also_anchor` of `rmem-gateway.py`) | none of its own: an account's nonce and its waiting transactions, at the node | sends the registry's calls and waits for the receipt; anchors a vault | EVM registry, vault, an EVM node |

What is hard in this code, and the property that makes each part correct:

* **Vault.**  A record is a row, a file and an audit entry, written in several
  steps by processes that interleave, fail and are killed.  The row, the file
  and the log must agree; a deleted payload must go; the chain must verify.
  SQLite locks at the first INSERT or UPDATE and not at a SELECT, so it matters
  in which statement a call takes the lock.
* **Leases and gateway.**  Authorisation is checked against the clock, the vault
  and two signed documents, step by step, and used afterwards.  Every effect
  must be covered by a signature, and for that very soul; revocation and deletion
  must bind later calls; a lease must not come back.
* **Capsule.**  It is written file by file from a vault that changes, it
  travels, it is read twice, and it is mounted file by file.  What verifies must
  be what was exported; what is mounted must be what verified.
* **Anchoring.**  Coins, transaction and table are three stores without a common
  transaction, over a network that forgets.  The root must be that of a real
  state; what was paid for must be known; heights must be true.
* **Registries.**  Two programs in two languages for two machines are to grant
  the same rights and hold the same records, through expiry, revocation and
  regrant; events and export must tell the storage.

* **EVM client.**  Commands of one account take their nonce from the latest block
  and send; two may take the same, one replaces the other, a receipt may come too
  late, and the contract may refuse by the time a block is made what it would have
  taken when it was asked.  What a command reports must be true, an account's
  commands must take effect in their order, and a root must be that of a memory
  the vault had.

The hazards, each at its line and with the properties that cover it, are in
`PROJECT.json`.

## Modules

    AuditedIndex <--refines-- VaultStore <-- VaultStoreProofs
       ^      ^
       |uses  '--refines-- Capsule --> Merkle <-- Anchor <-- AnchorProofs
    Gateway --> Lease         ^          ^
       ^               CapsuleProofs     |
       |               MemoryRights   EvmClient <-------- EvmClientProofs
    GatewayProofs           ^ refines    |                       |
                            '------- EvmRegistry <-- EvmRegistryProofs
                                         ^                       ^
                  SolanaRegistry <-- Registries <-------- RegistryProofs

    Merkle <-- SharedFacts <-- AnchorProofs, CapsuleProofs, EvmRegistryProofs, EvmClientProofs

Each module with a run has an `MC...` module beside it, with its small sets and
its symmetry.  A definition called `Bug...` is a mutated form of the definition
after it; no specification uses it.

**`AuditedIndex`** says what a vault promises: an index of records and a log that
change together.  A record is put once, by one soul; a tombstone is final; all
that is logged happened.  Two callers may each be told they tombstoned a
record, and a read that found a record may be logged after its tombstone: the
code allows both.

**`VaultStore`** is the vault.  `db` says how far `init` has come, `rows` is the
records table, `files` the payload directory, `audit` the log.  `pc` and `loc`
are the processes.  A step is what another process can see: one statement in
autocommit, one committed transaction, one file operation.  put, tombstone and
init read the last hash after their first INSERT or UPDATE, under the lock, and
are one step; `get_record` reads it by a SELECT before any lock, and is two
(`GetLastHash`, `GetAppend`).  A transaction may fail (`PutTxnFails`), a process
may be killed at any step (`Crash`), a payload may be damaged (`BitRot`).  Hash
chaining is modelled by position: `prev` is the entry whose hash was read.

**`Lease`** is the leases table and the checks of a lease document; **`Gateway`**
extends it with the calls.  A message or document is a record with the address
its signature recovers to; those that exist are constants, forgeries among
them.  `typed` is Null for a text signed under EIP-191, and for typed data the type
and the domain it was signed under: `_authorise_712` asks for the operation's own
type and the gateway's domain, and a body's message is never typed data.  An owner's call checks all at once (it reads only the clock); a call under
a lease asks for the lease's expiry, then the vault for a revocation, then for
the message's expiry, three steps in which time passes and others act.  The soul acted
on is an argument of the call: an owner's message must name it, a lease is not
compared with it (`AuthoriseViaLease`), as in the code.  The
vault is `AuditedIndex`, used through its actions, which `VaultStore` implements:
`Vault!Put` is a whole `put_record`.  `done` is a history of the calls carried
out, each with what authorised it and when it was checked.

**`MemoryRights`** says what a registry promises on chain: who may change what at
which moment.  It keeps the last call with its sender; without the sender, a
change could always be accounted to the subject, and the promise would be empty.
**`EvmRegistry`** is the contract, one action per function that changes state or
emits an event.  **`SolanaRegistry`** is the program, one action per instruction,
with batches: an account without lamports lives until its transaction ends.
**`Registries`** gives each call to both; a registry that refuses stays as it is.

**`EvmClient`** puts the commands of `rmem-evm.py`, and the gateway's `write
--also-anchor`, in front of the contract.  `pc` and `loc` are the commands: each
reads what it needs of the vault (`anchor-vault` in one SELECT, `--also-anchor` file
by file), then the account's nonce, sends, and waits.  `pool`, `chain` and `mined`
are the node's: a transaction is named by the command that sent it, a rival with
the same nonce replaces it (`Rivals`), a block takes the one with the account's
next nonce and gives it its status (`Mine`), and it may be forgotten (`Drop`).
`Accepted` is at once the gas estimate of the latest block, in `Send`, and the
contract's own check, in `Mine`; one the contract would accept may still fail
there, for the estimate is of an earlier block and the gas may not do.  How a command ended is kept as its `pc`: "ok",
"reverted", "lost" (no receipt, or killed), or "error" (after a receipt of success,
where `_also_anchor` names a variable there is not).  `since` and `after` are
histories: the memories live since the command began to read, and the commands
that had ended when it began.

**`Merkle`** is the tree, over terms in place of hashes.  **`Capsule`** is export,
verification and mount: payload copied by payload, manifest last; `VerifyCapsule`
field by field; target made, then for each record a file and a transaction.
`frozen` is the source vault's flag for the soul, which no action reads; `kind` is
what an entry says of layer and type, which no hash covers.  An export copies a
payload in three steps, since another may write to the directory between any two:
`shutil.copyfile` opens both files and empties the copy (`CopyOpen`), and writes it
(`CopyFill`); then the copy is read back and hashed (`CopyHash`).  The manifest is
opened (`OpenManifest`) and written (`WriteManifest`) in two.  `Damaged` stands for
a file that is empty or partial, too.  Three variables are histories: `written`, the
manifests; `lone`, the export under way that has overlapped no other so far, if
there is one; `alone`, the manifests of exports that ended so.  **`Anchor`** is anchor-memory and verify against a mempool and a
chain.  A transaction is its own txid; it carries its OP_RETURN payload, whose
digest binds the root to the network's domain, and verify recomputes it.  `blocks`,
`accepted` and `lost` are histories.

## Runs

| Run | Module | Question and answer |
|---|---|---|
| `vault` | VaultStore | Do index, files and log agree whatever fails?  Yes; and the vault refines `AuditedIndex`.  Where nothing is killed, does every begun init, put and tombstone come to its end?  Yes. |
| `vault_chain_fork` | VaultStore | Does the chain verify with readers?  **No**: two reads may chain to one entry. |
| `vault_killed` | VaultStore | Is a tombstoned payload purged though a process is killed?  **No**, and a retry is refused. |
| `gateway` | Gateway | Is every effect asked for by a valid message for that operation, do revocation and deletion bind later calls, do leases and log agree?  Yes. |
| `gateway_soul` | Gateway | Is it asked for on behalf of the soul whose memory it is?  **No**: a lease is not compared with the soul acted on. |
| `gateway_replay` | Gateway | Is a signature single-use?  **No**: nonces are not remembered. |
| `capsule` | Capsule | Does an export that overlapped no other verify, is what verifies an export, is what is mounted what was exported?  Yes; and a mounted vault refines `AuditedIndex`. |
| `capsule_712` | Capsule | Does an EIP-712 export verify?  **No**, never. |
| `anchor` | Anchor | Are roots, coins, heights, table and log true to the network?  Yes. |
| `registries` | Registries | Do both registries grant the same rights, do events and export tell the contract's memory?  Yes; and the contract refines `MemoryRights`. |
| `evm_client` | EvmClient | Do commands tell the truth about their transactions, is an account's order kept, do revocations hold, are anchored roots those of a memory that was?  Yes. |
| `solana_batch` | Registries | Do both registries hold the same records?  **No**, not after a delete and a write in one transaction. |

The findings in `PROJECT.json` quote the document or comment each "no" disagrees
with.

### Bounds, and why they are enough

`MaxCalls` bounds the calls started, `MaxFaults` the faults, `MaxTime` the clock,
`MaxBatch` the instructions of a Solana transaction.  They are guards of the
actions that count; nothing else is cut off, so each run explores its bounded
system to the end.

* `vault` has two processes, both of them readers, two records, souls and keys,
  four calls and two faults: two processes are enough for any pair of steps to
  interleave, two records for one process's cleanup to meet the other's file, four
  calls for init, put, tombstone and one that races them.  Two faults let one
  process be killed and another's transaction fail or a file be damaged.
  `vault_killed` needs one record, no readers, one fault and six calls, the last of
  them the refused retry.  The theorems take the bounds away.
* `gateway` has two owners (one the wrong one), one body, two processes, three
  lease documents (a generous one, one with the default cosign list, one the
  body forged) and eleven messages, some signed by the wrong party or for the
  wrong lease, some typed data of the wrong type or domain.  Two instants are enough for both kinds of expiry, at which the
  code differs (a lease is good at its last instant, a message is not), four calls
  for store, revoke, and two that use the lease: 726,944 states.  `gateway_soul` has
  the same instance, in which the lease of one owner's soul meets the other's.
* `registries` has a subject and a body, two records, two commitments, two block
  times and four calls, in Solana transactions of one or two: grant, use, revoke
  and regrant, at and after the expiry.
* `capsule` has two processes, two records, three commands and one fault (345,269
  states): an export and then two that overlap in the same directory, two mounts
  into one target, an export that a mount reads meanwhile.  A freeze counts as a
  command, a put or tombstone does not; they are bounded by the records.
  `capsule_712` has both signature schemes, and two commands.
* `evm_client` has two commands of any kind, an owner and a body, a lease of one
  hour for WRITE, two records, two block times and two events: two commands are
  what any race for a nonce, any overtaking and any revocation takes.  Each process
  runs one command, so there are as many transactions as processes, and blocks are
  final.  Three commands of one account, with one record and no body, were checked
  apart (2.7 million states, no error); the theorems take the bounds away.
* `anchor` has three commands by two processes on a deposit of three with fee one
  and a dust limit of two, so that change falls on, above and below the limit.
  Blocks and evictions are bounded by the transactions; reorganisations are not.

Symmetry is used over processes and over records, souls, keys and commitments
where nothing distinguishes them, and never in a run with liveness properties.
`CHECK_DEADLOCK FALSE` is said in every run: a system whose commands have all been
given has nothing to do, and the bound on calls brings it there.

### Fairness

Only `vault` and `vault_killed` state liveness.  They assume
`WF_vars(Step(p))` for each process: a command that has begun and is not killed
runs to its end, because the operating system runs it and no step waits for
another process (SQLite's busy timeout ends in a failed transaction, which is a
step).  Nobody is assumed to start a call, and a kill, which takes a process to
`idle`, is never forced: the leads-to properties of `vault` hold "unless
faults > 0", which is as soon as anything was killed or a transaction failed.  Of
the kills, `vault_killed` shows what that of a tombstone does; a put killed between
its file and its row leaves the file, and an init killed half way leaves a vault
that every later init refuses.  No document promises otherwise, and no property
is about these two.

## What is proved

`VaultStoreProofs` proves, for any number of processes, records, souls, keys,
calls and faults:

| Theorem | Says of `Spec` |
|---|---|
| `Typing` | `[]TypeOK` |
| `ActiveRecordsHaveFiles` | an active record always has its payload file |
| `AuditAccountsForIndex` | the log accounts exactly for the index |
| `ChainForksOnlyAtReads` | only a read forks the chain |
| `WritersKeepChain` | with `Readers = {}` the chain always verifies |
| `StrayFilesArePending` | a file without an active record is a running call's to deal with, unless something was killed |
| `InitHappensOnce` | racing inits set the vault up once |
| `Refinement` | the vault implements `AuditedIndex` |

The only assumption is `VaultConstants`: `Null` is no record and no soul, no key
is one of the markers for "no file" and "damaged file".

The argument: `ActiveHasFile` is not inductive alone.  A `PutTxn` makes a record
active and must know that its file is still there; a `PutUndo` removes a file and
must know that it belongs to no active record.  Both follow from `ProcInv`, what
each process knows of the record in its `loc`: between writing a payload and
indexing it the record has no row, has its file, and is no other process's to put
(`Fresh` demands that no call is about it); a tombstone under way has a row of its
soul; one about to unlink has a tombstoned row; a read holds a row of its soul.
`AuditAgreesWithIndex` uses the same facts for what `GetAppend` and `TombTxn` log.
The invariant `IInv` is `TypeOK`, `ProcInv`, `ForksOnlyAtReads`, `ActiveHasFile`
and `AuditAgreesWithIndex`; `Inductive` proves it, one step per action, and the
first five theorems are its parts.  `StrayFilesPending` and `InitOnce` are
invariants of their own kind, with an inductive form for each, on top of `IInv`.
`Refinement` maps the initial state and each action: `PutTxn` to `Put`, `TombTxn`
to `Tombstone`, `GetAppend` to `Read`, `InitMeta` to `SetUp` (by `InitHappensOnce`,
at most once), everything else to a stutter.

`GatewayProofs` proves, for any processes, parties, documents, messages, records,
payloads, times and calls, of `Gateway`'s `Spec`:

| Theorem | Says |
|---|---|
| `GatewayTyping` | `[]TypeOK` |
| `LeaseLogCorrect` | the leases table and the audit log agree |
| `Authorization` | every put, tombstone and read logged was asked for by a message for that operation, valid at one moment, of the owner or under a lease (`OperationsAuthorized`) |
| `Revocation` | a call that began after its lease was revoked is not carried out |
| `Deletion` | a call that began after a record was tombstoned neither reads nor tombstones it |

They assume `LeaseConstants` (signed documents of one id are one document, for ids
are random; `Null` is nothing else) and `GatewayConstants`; nothing is assumed of
which messages and documents exist, forged ones included.

`Authorization` is as strong as the code allows: for an owner's message it says that
it is about the soul whose memory it is, for a lease that it is signed by its own
subject and covers the operation, and not that the subject is that soul.  That is
`AuthorizationNotBypassed`, which `gateway_soul` finds violated.

The argument: authorisation is a matter of one process, for what it checked is
kept in its `loc`.  `Known` says that a call past its first check was `Asked` for,
by the owner or under a lease, and that a read or delete about to commit is of a
row of its soul.  Revocation and deletion are a matter of two processes.
`LeaseLogAgrees` is inductive once a revoker is known to have seen a row; with it, a
process that finds its lease not revoked finds no entry in the log that revokes it,
and entries added later come after `since`.  `InTime` carries that from the check
to the commit; for deletion, `RowsLogged` does for the index what `LeaseLogAgrees`
does for the leases.  `Rightful` says of a call carried out what the three
properties ask of it and stays true, because the log only grows and a record once
put keeps its content (`Passing`).  The invariant is `TypeOK`, `Known`,
`LeaseLogAgrees` and `History`.  A step is a `Quiet` one of one process, a call
`CarriedOut`, or one of the leases'; each preserves each part in a lemma of its own.

`RegistryProofs` proves, for any subjects, bodies, records and commitments, of
`Registries`' `Spec`:

| Theorem | Says |
|---|---|
| `EvmTyping` | `[]EvmTypeOK` |
| `RightsAgree` | both registries grant the same rights |
| `EventsAlwaysTell` | the contract's events tell which records are live |
| `SolanaStaysFresh` | a Solana record is the contract's and paid for, and missing only if it was deleted |
| `RightsRefined` | the contract implements `MemoryRights` |
| `ExportsComplete` | an export holds every live record; the index names an id as often as it was written anew |

They assume `EvmConstants` and `RegistriesConstants`: the marker for a missing
account is no account.  The argument: an account of a lease and the contract's
lease correspond in one of three ways (`LeasesCorrespond`): neither is known, both
hold the same scopes and window, or both are revoked, where the contract has
cleared its lease and the program has set a field.  Each call preserves that, and in each of the three the rights
are equal.  The records need a relation that holds inside a batch too, where an
account can be without lamports (`RecordsInv`).  Events are appended by the call that changes
what they tell.  For the refinement, each function maps to one call of
`MemoryRights`, whose sender is the function's.  `ExportsComplete` is two counts.
`CountInv` says that an id occurs in the index once for each of its deletions, and
once more while it is live: a write of a dead id adds an occurrence, a delete adds
an event, a write of a live id neither.  `Exports` says of `exportMemory`'s loop
that each position of the array it returns came from one position of the index.
What is true of the contract in
any system around it (its types, its events, the refinement of one call) is in
`EvmRegistryProofs`, lemmas about `EvmCall` and `EvmStep`; `EvmClientProofs` uses
them again.

`AnchorProofs` proves, for any processes, records, fees and dust limits, of
`Anchor`'s `Spec`:

| Theorem | Says |
|---|---|
| `AnchorTyping` | `[]AnchorTypeOK` |
| `RootsWereLive` | a root is that of a memory live at one moment while it was read |
| `HeightsTrue` | a height in the table is one the transaction did have |
| `AnchorsAreForGood` | no row goes, changes what it anchors or loses its verification |
| `AuditTells` | the audit log tells the table |
| `PaidIsRecorded` | an accepted transaction is in the table or about to be, up to one for each command that was lost |
| `FundsAdd` | coins and fees add up to what the address was funded with, short of less than the dust limit |

They assume `AnchorConstants`: fee and dust limit are positive, and `Nil` is no
number.  The argument: `Facts` says of the vault, the network
and the table what shape they have, and of each process what it knows: that the
records it has read, followed by those it has still to read, were the memory at
one moment since it began.  A file it can still read has not been purged, so the
loop keeps that sequence (`MoveHead`), and at its end it is the leaves.  The log
tells the table by the first and the last entry about a row.  `PaidIsRecorded` is
a count: the transactions nobody knows are no more than the commands lost, since a
step that makes one unknown loses its command, and a set that grows by one element
grows by one.  `FundsAdd` needs the shape of the network: its transactions form a
line (`InLine`), the chain's first, each spending the one coin that the one before
left, the first the deposit.  A broadcast lengthens the line, an eviction takes its
last, a block and a reorganisation only move the place where the chain ends.  So
at most one coin is unspent, the last one's, and the i-th transaction has left what
i fees leave, or has given up less than the dust limit, and then it is the last.

`EvmClientProofs` proves, for any commands, parties, records and bounds, of
`EvmClient`'s `Spec`:

| Theorem | Says |
|---|---|
| `ClientTyping` | `[]ClientTypeOK` |
| `EndingsAreTrue` | what a command reports of its transaction is true and stays true |
| `OrderKept` | no transaction overtakes that of a command of the same account begun after its own had ended |
| `RevocationsHold` | no grant that was still waiting undoes a revocation reported done |
| `AnchorsWereLive` | what is anchored was the vault's memory at one moment |
| `RootsTellMemory` | an anchored root stands for one memory |
| `ClientRefinesRights` | behind these clients the contract still implements `MemoryRights` |

They assume `EvmConstants` and `ClientConstants`, and `RootsTellMemory` also
`PayloadsApart`: no payload is empty or two hashes in a row.  `rmem-evm.py` needs
that, whose tree hashes payloads and pairs of hashes alike and whose root of no
records is the hash of no bytes.  The payloads of this vault meet it: what
is hashed is nonce, ciphertext and tag (rmem-vault.py:245), never empty, and with a
random nonce never two hashes in a row but by chance.  Nothing in `rmem-evm.py`
sees to it, so it is said as a hypothesis.

The argument is about nonces.  A
command's nonce is never more than its account's next one (`NetInv`), and so not
less than those of the commands that had ended when it read it (`NonceOrder`); a
transaction in the chain has a nonce that is used up.  So one that is mined after
another of its account has a greater nonce, and cannot be of a command the other
waited for.  For revocations, `RevInv` says that a mined revocation holds until a
later grant of the same lease is mined, which the order rules out for a grant that
had ended before it.  For roots, what a process has read has no repetitions
(`SeenInv`), and over such sequences both trees are injective.  `ClientInv` is the conjunction; a step is one command's
(`Moving`), the vault's (`Idling`) or the network's, and each part has a lemma.

`CapsuleProofs` proves, for any processes, records, commands and faults, of
`Capsule`'s `Spec`:

| Theorem | Says |
|---|---|
| `CapsuleTyping` | `[]CapsuleTypeOK` |
| `ExportsVerify` | with `Schemes = {"eip191"}`, the manifest of an export that overlapped no other verifies, undamaged, except while some export is at a file |
| `VerifiedAsWritten` | what verifies is an export that was written, in every payload and hashed field |
| `MountsFaithful` | what a mount put into its target decrypts to what the source held |
| `OneMounts` | two mounts never both go on into one target |
| `MountsAudited` | the target implements `AuditedIndex` |

They assume `CapsuleConstants`.  That `ExportsVerify` needs a hypothesis is the
finding of `capsule_712`: with EIP-712 it is false.  The argument: `CapsuleInv` is of
three parts.  `ExportInv` says what an export under way has collected (`Exporting`:
honest entries, and no record twice among those collected and those left) and that
the manifest on disk is `Derived`, field by field, from one that was `Original`,
that is, as `NewManifest` makes it from honest entries.  A derived manifest that
verifies has an undamaged root, and from an equal root equal chunks follow
(`MerkleInjective`), so every hashed field is the original's: `VerifiedWritten`.
`Undamaged` says that without faults a payload in the directory is the source's
unless some export has it open (`CopiesWhole`), that none is lost from the directory
(`Kept`), and that an export which has overlapped no other has hashed whole payloads
(`Copied`): `Alone` says that nobody else has one open then.  Exports that come later
copy the same bytes, so the manifest verifies again when they are done.  `MountInv`
ties what is logged in the target, followed by what is left, to one manifest that
was written, and says that one process at most is past the making of the target.

`SharedFacts` has what the others need of sequences, and of the Merkle tree:

| Theorem | Says |
|---|---|
| `MerkleInjective` | leaves of one root are the same, if neither list repeats one or both have one length |

A lone last node is paired with itself, so `<<a, b, b>>` and `<<a, b, b, b>>` do have
one root; the hypothesis excludes that, and no more.  Capsules and memories satisfy
it, for a record is listed once.

Inductions over data (the levels of the tree, the positions of a loop) are made over
a set in place of a predicate: a set of naturals with 0 and every successor is
all of them (`Induction`, from the well-foundedness of `<`).  A recursive function
is used through its equations, once a function that satisfies them is shown to
exist.  For that `Reduce` and `ExportMemory` are written as recursive functions,
level by level and position by position, as the loops of the code are.

## Only model-checked

Liveness is out of the prover's reach: the vault's leads-to properties
`PurgeUnlessKilled`, `PutSettles` and `InitCompletes`.  Every other property of a
run that passes is a theorem's.  The runs that expect a violation show one
counterexample each, for which a small instance is enough.

## Abstractions and assumptions

* Hashes are collision-free, signatures are not forged, AES-GCM decrypts what was
  encrypted under the same key for the same record and soul, and nothing else;
  random ids (`new_record_id`, lease ids) never repeat.
* Of an owner's own call: the caller derives soul and owner address from one key, as
  the comment of `verify_owner_signature` requires, and a soul is named by its
  address.  Of a call under a lease nothing of the kind is assumed.
* EIP-191 and EIP-712 messages carry the same fields; of what typed data adds,
  `Gateway` keeps the primary type and whether the domain is the gateway's.
* A body's message names a layer for a write; for a read it need not, and then
  the lease's scope is checked without one.  `"proposal"` is a lease scope and
  not a layer of the vault, so such a write passes the lease and fails in `put`.
* `verify_capsule` reads manifest and payloads at one moment; `mount_capsule` reads
  the payloads again later, one by one, as in the code.  A payload is lost from the
  directory only while no export has one open: an open file would be written to
  nowhere.
* `DamageManifest` changes one field.  Who changes an entry and recomputes
  `merkle_root`, which no signature covers, makes a manifest that verifies, although
  rmem-migrate.py:13-14 says that a "tampered manifest is rejected up front":
  `VerifiedIsExport` is about damage and not about that.
* A kill loses a process and what it held in memory, not what it wrote.
* In `Anchor` all commands use one fee and one network; the coins are the anchor
  address's, and nobody else spends them.  The purge of a tombstoned payload is
  one step with the commit there, and in `Capsule`: the two steps are
  `VaultStore`'s subject.
* In `EvmClient` a record's id stands for the hash of its payload, a body's lease is
  for WRITE, a put or tombstone is one step (the two steps are `VaultStore`'s), and
  the fee a replacement needs is left to chance.
* In `Registries` both chains tell the same time and see the calls in one order.

## Not modelled

* Commands that only read: `list` and `status` commands, the EVM client's `supports`,
  `commitment` and `get-lease`, `list_leases`.  The cosign helpers of `rmem-lease.py`
  (a `BODY_ACTION` digest signed by the owner) are called by no other file.
* Of anchoring: rows from before version 2, and several networks in one table.
* Power loss: a payload file is not fsynced before the row that names it, so after
  one an indexed payload may be missing.  A kill in the models keeps the page cache.
* The entry `set_frozen` adds to the source vault's audit log, in its own transaction.
* Disagreements noticed that no run states.  The docstring of `_also_anchor` says it
  mirrors `rmem-evm.py anchor-vault`, and a comment there that its root matches
  `rmem-anchor.py`'s `merkle_root`; the three roots are over different leaves, with
  different prefixes.  `_also_anchor` fails after every successful anchor
  (rmem-gateway.py:829): the anchor stands, the command reports an error.
  SPEC_v0.1.md:189 has a freeze "stop durable writes"; no writer looks at the flag.
  rmem-migrate.py:10 has a mount decrypt nothing "whose on-disk hash does not match";
  `mount_capsule` hashes a payload in `verify_capsule`, reads it again at line 268 and
  does not hash what it then decrypts: AES-GCM alone keeps `MountFaithful` true there.
  Two exports into one directory may leave a capsule that never verifies, with nothing
  damaged: one empties the copy (rmem-gateway.py:500) that the other is about to
  read back and hash (line 501), and the other's manifest is written last.  No
  document says that exports may overlap; `ExportVerifies` is of those that do not.
  After a delete and a new write the contract's index holds the id twice
  (RmemMemoryRegistry.sol:119, `ExportComplete` counts it), so `exportMemory` lists the
  record twice and is longer than the "live count" its comment at line 158 names.
* Bytes: payload layout, canonical JSON, PSBT signing, address and account
  derivation, ERC-165, the CLI and its output.

## Plan

The order is that of importance.  Done: the vault, the leases and the gateway,
anchoring, the registries, the EVM client and capsules, with their proofs.  Left:

1. **`GatewayProofs`.**  That `Gateway` with `VaultStore`'s steps in place of
   `AuditedIndex`'s actions implements `Gateway`, so that its theorems hold of the
   vault as it is, kills included.
2. **A composition of `Capsule` with `VaultStore`'s two-step tombstone**, to see an
   export copy a file that is about to go, with the source's audit log and the
   entry `set_frozen` makes in it.
