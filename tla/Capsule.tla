------------------------------ MODULE Capsule -------------------------------
(***************************************************************************)
(* A memory capsule's way from one vault to another: exportMemory copies   *)
(* one soul's live payloads to a directory and writes the manifest last    *)
(* (rmem-gateway.py); verify_capsule checks the directory, and             *)
(* mount_capsule decrypts each payload, encrypts it under the new vault's  *)
(* key and puts it into a fresh vault (rmem-migrate.py).  Exports share a  *)
(* directory, mounts share a target, the source changes meanwhile, files   *)
(* are damaged or lost on the way and commands are killed.                 *)
(*                                                                         *)
(* A payload encrypted under a key is the pair of record and key, and is   *)
(* its own hash.  The owner's authorisation of the export is Gateway's.    *)
(***************************************************************************)
EXTENDS Merkle, FiniteSets, SequencesExt

CONSTANTS
  Procs,      \* CLI processes
  Records,    \* record ids
  Schemes,    \* sig_scheme: "eip191", "eip712"
  OldKey,     \* the source vault's key
  NewKey,     \* the target vault's
  Keys,       \* keys given as --old-vault-key
  Null,       \* no soul, no record, nothing
  Soul,       \* the soul exported
  Absent,     \* no file
  Damaged,    \* bytes other than those written
  Garbled,    \* a field of the manifest that says something else
  MaxCalls,   \* bound: commands started
  MaxFaults   \* bound: files damaged or lost, commands killed

Enc(r, k) == [rec |-> r, key |-> k]

\* A payload is told from what stands for no payload or for another one.
ASSUME CapsuleConstants ==
  /\ OldKey \in Keys /\ MaxCalls \in Nat /\ MaxFaults \in Nat
  /\ Soul # Null /\ Null \notin Records \cup Procs \cup {Absent, Damaged} /\ Absent # Damaged
  /\ Garbled \notin {"eip191", Absent, Damaged}
  /\ \A r \in Records \cup {Damaged}, k \in Keys \cup {NewKey} :
       Enc(r, k) \notin {Null, Absent, Damaged, Garbled}

VARIABLES
  memory,    \* the source vault's live records, oldest first
  source,    \* its payload files; Null for a record not put yet
  frozen,    \* its freeze flag for the soul
  capsule,   \* the capsule's payload files
  manifest,  \* the capsule's manifest.json: none, if missing or unreadable, or one
  written,   \* history: every manifest written
  lone,      \* history: the export, if any, that began with no other under way, and
             \* during which none has begun since
  alone,     \* history: the manifests written by such exports
  db,        \* the target's vault.db: absent, half set up, ready
  rows,      \* the target's records table
  files,     \* the target's payload files
  log,       \* the target's audit log
  pc, loc,   \* where each command is, and its local variables
  calls, faults

target == <<db, rows, files, log>>
history == <<written, lone, alone>>
vars   == <<memory, source, frozen, capsule, manifest, history, target, pc, loc, calls, faults>>

Blank == [left |-> <<>>, entries |-> <<>>, sig |-> "", key |-> Null, bytes |-> Null]

Begin(p, next, l) ==
  /\ pc[p] = "idle" /\ calls < MaxCalls
  /\ calls' = calls + 1
  /\ pc' = [pc EXCEPT ![p] = next]
  /\ loc' = [loc EXCEPT ![p] = l]

Goto(p, next, l) ==
  /\ pc' = [pc EXCEPT ![p] = next]
  /\ loc' = [loc EXCEPT ![p] = l]
  /\ UNCHANGED calls

End(p) == Goto(p, "idle", Blank)

Fault == faults < MaxFaults /\ faults' = faults + 1

-----------------------------------------------------------------------------
(* The source vault; a record id is never drawn twice, so a tombstoned     *)
(* record's file is gone for good.  Its audit log is VaultStore's.         *)

Live == { memory[i] : i \in 1..Len(memory) }

\* put_record, before or while a capsule is exported.
Put(r) ==
  /\ source[r] = Null
  /\ memory' = Append(memory, r)
  /\ source' = [source EXCEPT ![r] = Enc(r, OldKey)]

\* tombstone_record
Tombstone(r) ==
  /\ \E i \in 1..Len(memory) : memory[i] = r /\ memory' = RemoveAt(memory, i)
  /\ source' = [source EXCEPT ![r] = Absent]

\* set_frozen.  No command but is-frozen reads the flag.
SetFrozen(flag) ==
  /\ calls < MaxCalls /\ calls' = calls + 1
  /\ frozen' = flag

-----------------------------------------------------------------------------
(* exportMemory.                                                           *)

\* Where an export is: about to copy a payload, with the copy opened and empty,
\* with the copy written, about to open the manifest, with it opened and empty.
ExportSteps == {"copy", "fill", "hash", "manifest", "write"}

\* capsule_merkle_root: the manifest's metadata, the chunks, the graph.
CapsuleRoot(meta, chunks, graph) == MerkleRoot(<<meta>> \o chunks \o <<graph>>)

\* Lists the live records; without any the export exits.
ListForExport(p, sig) ==
  /\ memory # <<>>
  /\ Begin(p, "copy", [Blank EXCEPT !.left = memory, !.sig = sig])
  /\ lone' = IF \E q \in Procs : pc[q] \in ExportSteps THEN Null ELSE p

\* A record's entry: payload_hash is the row's, chunk_hash that of the copy as
\* read back; kind stands for the row's layer and type.
Entry(r) == [rec |-> r, payload |-> Enc(r, OldKey), chunk |-> capsule[r], kind |-> "own"]

\* copyfile opens a payload, which can be read to its end from now on, and the
\* copy, which is empty then.  One purged since the list ends the export.
CopyOpen(p) ==
  LET r == Head(loc[p].left) IN
  /\ pc[p] = "copy"
  /\ IF source[r] = Absent THEN End(p) /\ UNCHANGED capsule
     ELSE /\ capsule' = [capsule EXCEPT ![r] = Damaged]
          /\ Goto(p, "fill", [loc[p] EXCEPT !.bytes = source[r]])

\* Mutated form of CopyFill: the copy is not flushed before it is read back.
BugNoFlush(p) ==
  /\ pc[p] = "fill"
  /\ UNCHANGED capsule
  /\ Goto(p, "hash", [loc[p] EXCEPT !.bytes = Null])

\* copyfile writes the copy.
CopyFill(p) ==
  /\ pc[p] = "fill"
  /\ capsule' = [capsule EXCEPT ![Head(loc[p].left)] = loc[p].bytes]
  /\ Goto(p, "hash", [loc[p] EXCEPT !.bytes = Null])

\* The file of the copy is read back and hashed: empty, perhaps, for another
\* export opened it meanwhile.
CopyHash(p) ==
  LET r == Head(loc[p].left)
      l == [loc[p] EXCEPT !.left = Tail(@), !.entries = Append(@, Entry(r))] IN
  /\ pc[p] = "hash"
  /\ IF capsule[r] = Absent THEN End(p)
     ELSE Goto(p, IF l.left = <<>> THEN "manifest" ELSE "copy", l)

\* The provenance graph lists the records and has no edges.
Graph(entries) == [i \in 1..Len(entries) |-> entries[i].rec]

\* capsule_merkle_root over the entries of a manifest
NewManifest(sig, e) ==
  [meta |-> sig, sig |-> sig, entries |-> e, graph |-> Graph(e),
   root |-> CapsuleRoot(sig, [i \in 1..Len(e) |-> e[i].chunk], Graph(e))]

\* write_text opens manifest.json, which is empty then...
OpenManifest(p) ==
  /\ pc[p] = "manifest"
  /\ manifest' = {}
  /\ Goto(p, "write", loc[p])

\* ...and writes it.  Over what another export wrote since, a longer text leaves
\* its end behind, and the file cannot be read.
WriteManifest(p) ==
  LET m == NewManifest(loc[p].sig, loc[p].entries) IN
  /\ pc[p] = "write"
  /\ \/ manifest' = {m}
     \/ manifest # {} /\ manifest' = {}
  /\ written' = written \cup {m}
  /\ alone' = IF lone = p THEN alone \cup {m} ELSE alone
  /\ End(p)

-----------------------------------------------------------------------------
(* verify_capsule and mount_capsule.                                       *)

\* _verify_owner_sig takes the message for a text, which that of an EIP-712
\* export is not.
OwnerSigned(m) == m.sig = "eip191"

\* Mutated form of VerifyCapsule: trusts the root the manifest gives.
BugRootUnchecked(m) ==
  /\ OwnerSigned(m)
  /\ \A i \in 1..Len(m.entries) :
       LET e == m.entries[i] IN
       capsule[e.rec] # Absent /\ capsule[e.rec] = e.payload /\ capsule[e.rec] = e.chunk

\* verify_capsule, of the manifest read
VerifyCapsule(m) ==
  /\ OwnerSigned(m)
  /\ \A i \in 1..Len(m.entries) :
       LET e == m.entries[i] IN
       capsule[e.rec] # Absent /\ capsule[e.rec] = e.payload /\ capsule[e.rec] = e.chunk
  /\ m.root = CapsuleRoot(m.meta, [i \in 1..Len(m.entries) |-> capsule[m.entries[i].rec]],
                          m.graph)

\* Verifies the capsule and finds no target; a mount that does not exits.
BeginMount(p, key) ==
  /\ db = "absent"
  /\ \E m \in manifest :
       /\ VerifyCapsule(m)
       /\ Begin(p, "init", [Blank EXCEPT !.left = Graph(m.entries), !.key = key])

\* Mutated form of InitTarget: takes a vault that is there by now.
BugInitAgain(p) ==
  /\ pc[p] = "init"
  /\ db' = "ready"
  /\ log' = IF db = "absent" THEN <<[op |-> "vault.init", soul |-> Null, rec |-> Null]>> ELSE log
  /\ Goto(p, "mount", loc[p])
  /\ UNCHANGED <<rows, files>>

\* Mutated form of InitTarget: does not log.
BugInitUnlogged(p) ==
  /\ pc[p] = "init"
  /\ IF db = "absent"
     THEN db' = "ready" /\ Goto(p, "mount", loc[p]) /\ UNCHANGED <<rows, files, log>>
     ELSE End(p) /\ UNCHANGED target

\* target.init(), which exits if the target has come into being meanwhile.
InitTarget(p) ==
  /\ pc[p] = "init"
  /\ IF db = "absent"
     THEN /\ db' = "ready"
          /\ log' = <<[op |-> "vault.init", soul |-> Null, rec |-> Null]>>
          /\ Goto(p, "mount", loc[p])
          /\ UNCHANGED <<rows, files>>
     ELSE End(p) /\ UNCHANGED target

\* Mutated form of Decrypt: without authentication, yields a wrong plaintext.
BugUnauthenticated(content, r, key) ==
  IF content = Absent THEN Null ELSE IF content = Enc(r, key) THEN r ELSE Damaged

\* AES-GCM with record and soul as associated data: yields the plaintext of the
\* payload encrypted for this record under this key, and of nothing else.
Decrypt(content, r, key) == IF content = Enc(r, key) THEN r ELSE Null

\* Reads a payload again, encrypts it anew and writes it, never over a file;
\* a failure ends the mount and leaves the target as it is.
MountFile(p) ==
  LET r         == Head(loc[p].left)
      plaintext == Decrypt(capsule[r], r, loc[p].key) IN
  /\ pc[p] = "mount"
  /\ IF plaintext # Null /\ files[r] = Absent
     THEN /\ files' = [files EXCEPT ![r] = Enc(plaintext, NewKey)]
          /\ Goto(p, "insert", loc[p])
     ELSE End(p) /\ UNCHANGED files
  /\ UNCHANGED <<db, rows, log>>

\* Mutated form of MountInsert: no audit entry.
BugNotAudited(p) ==
  LET r == Head(loc[p].left) IN
  /\ pc[p] = "insert"
  /\ rows' = [rows EXCEPT ![r] = [status |-> "active", soul |-> Soul]]
  /\ IF Len(loc[p].left) = 1 THEN End(p)
     ELSE Goto(p, "mount", [loc[p] EXCEPT !.left = Tail(@)])
  /\ UNCHANGED <<db, files, log>>

\* The row and its audit entry, in one transaction.
MountInsert(p) ==
  LET r == Head(loc[p].left) IN
  /\ pc[p] = "insert"
  /\ rows' = [rows EXCEPT ![r] = [status |-> "active", soul |-> Soul]]
  /\ log' = Append(log, [op |-> "record.mount", soul |-> Soul, rec |-> r])
  /\ IF Len(loc[p].left) = 1 THEN End(p)
     ELSE Goto(p, "mount", [loc[p] EXCEPT !.left = Tail(@)])
  /\ UNCHANGED <<db, files>>

-----------------------------------------------------------------------------
(* Faults.                                                                 *)

\* A payload is damaged, in the source or in the capsule, or lost on the way
\* while no copy is being written.
DamagePayload(r) ==
  /\ Fault
  /\ \/ /\ source[r] \notin {Null, Absent}
        /\ source' = [source EXCEPT ![r] = Damaged]
        /\ UNCHANGED capsule
     \/ /\ capsule[r] # Absent
        /\ \E c \in {Absent, Damaged} :
             /\ c = Absent => \A p \in Procs : pc[p] # "fill"
             /\ capsule' = [capsule EXCEPT ![r] = c]
        /\ UNCHANGED source

\* The manifest with one field that says something else.
Garblings(m) ==
  { [m EXCEPT !.meta = Garbled], [m EXCEPT !.sig = Garbled], [m EXCEPT !.graph = Garbled],
    [m EXCEPT !.root = LeafHash(Garbled)], [m EXCEPT !.entries[1].payload = Garbled],
    [m EXCEPT !.entries[1].chunk = Garbled], [m EXCEPT !.entries[1].kind = Garbled] }

\* One field of the manifest is damaged, or all is lost.
DamageManifest ==
  /\ Fault
  /\ \E m \in manifest : manifest' \in {{}} \cup { {d} : d \in Garblings(m) }

\* A command is killed; what it was writing may be written in part.  The files
\* of the capsule are so already.
Kill(p) ==
  /\ Fault
  /\ pc[p] # "idle"
  /\ End(p)
  /\ \/ UNCHANGED target
     \/ /\ pc[p] = "init" /\ db = "absent"
        /\ db' = "partial"
        /\ UNCHANGED <<rows, files, log>>
     \/ /\ pc[p] = "mount" /\ files[Head(loc[p].left)] = Absent
        /\ files' = [files EXCEPT ![Head(loc[p].left)] = Damaged]
        /\ UNCHANGED <<db, rows, log>>

-----------------------------------------------------------------------------

Init ==
  /\ memory = <<>> /\ source = [r \in Records |-> Null] /\ frozen = FALSE
  /\ capsule = [r \in Records |-> Absent] /\ manifest = {} /\ written = {}
  /\ lone = Null /\ alone = {}
  /\ db = "absent" /\ rows = [r \in Records |-> [status |-> "none", soul |-> Null]]
  /\ files = [r \in Records |-> Absent] /\ log = <<>>
  /\ pc = [p \in Procs |-> "idle"] /\ loc = [p \in Procs |-> Blank]
  /\ calls = 0 /\ faults = 0

SourceNext ==
  /\ \/ (\E r \in Records : Put(r) \/ Tombstone(r)) /\ UNCHANGED <<frozen, calls>>
     \/ (\E flag \in BOOLEAN : SetFrozen(flag)) /\ UNCHANGED <<memory, source>>
  /\ UNCHANGED <<capsule, manifest, history, target, pc, loc, faults>>

ExportNext(p) ==
  /\ \/ /\ \E sig \in Schemes : ListForExport(p, sig)
        /\ UNCHANGED <<capsule, manifest, written, alone>>
     \/ (CopyOpen(p) \/ CopyFill(p)) /\ UNCHANGED <<manifest, history>>
     \/ CopyHash(p) /\ UNCHANGED <<capsule, manifest, history>>
     \/ OpenManifest(p) /\ UNCHANGED <<capsule, history>>
     \/ WriteManifest(p) /\ UNCHANGED <<capsule, lone>>
  /\ UNCHANGED <<memory, source, frozen, target, faults>>

MountNext(p) ==
  /\ \/ (\E key \in Keys : BeginMount(p, key)) /\ UNCHANGED target
     \/ InitTarget(p) \/ MountFile(p)
     \/ MountInsert(p)
  /\ UNCHANGED <<memory, source, frozen, capsule, manifest, history, faults>>

FaultNext ==
  \/ /\ \E r \in Records : DamagePayload(r)
     /\ UNCHANGED <<memory, frozen, manifest, history, target, pc, loc, calls>>
  \/ /\ DamageManifest
     /\ UNCHANGED <<memory, source, frozen, capsule, history, target, pc, loc, calls>>
  \/ /\ \E p \in Procs : Kill(p)
     /\ UNCHANGED <<memory, source, frozen, capsule, manifest, history>>

Next == SourceNext \/ FaultNext \/ \E p \in Procs : ExportNext(p) \/ MountNext(p)

Spec == Init /\ [][Next]_vars

-----------------------------------------------------------------------------
(* Properties.                                                             *)

Contents == [rec : Records \cup {Damaged}, key : {OldKey, NewKey}] \cup {Absent, Damaged}

\* Every variable holds a value of its type; the source has a payload file for
\* each live record, and the manifests written have one entry a record.
CapsuleTypeOK ==
  /\ \A r \in Records : r \in Live <=> source[r] \in Contents \ {Absent}
  /\ capsule \in [Records -> Contents] /\ files \in [Records -> Contents]
  /\ \A m \in written : /\ Len(m.entries) = Cardinality({ m.graph[i] : i \in 1..Len(m.graph) })
                        /\ \A i \in 1..Len(m.entries) : m.entries[i].chunk \in Contents \ {Absent}
  /\ db \in {"absent", "partial", "ready"}
  /\ rows \in [Records -> [status : {"none", "active"}, soul : {Null, Soul}]]
  /\ db = "ready" <=> log # <<>>
  /\ pc \in [Procs -> {"idle", "init", "mount", "insert"} \cup ExportSteps]
  /\ calls \in 0..MaxCalls /\ faults \in 0..MaxFaults

\* What an export leaves verifies, though records were put and tombstoned
\* meanwhile, if it overlapped no other export and nothing was damaged or
\* killed.  It still does when later exports into the same directory, overlapping
\* or broken off, have copied payloads over its own, except while one is at a
\* file.  (Two that overlap may leave a manifest that never verifies, for one
\* empties the other's copy before it is hashed.)
ExportVerifies ==
  faults = 0 /\ (\A p \in Procs : pc[p] # "fill")
    => \A m \in manifest \cap alone : VerifyCapsule(m)

\* The entries without layer and type, which no hash covers.
Unlabelled(entries) ==
  [i \in 1..Len(entries) |-> [entries[i] EXCEPT !.kind = Null]]

\* A capsule that verifies is one an export wrote, in every field but the layer
\* and type of a record, with every payload as the source vault had it, whatever
\* was damaged since.
VerifiedIsExport ==
  \A m \in manifest : VerifyCapsule(m) =>
    /\ \E w \in written : /\ Unlabelled(m.entries) = Unlabelled(w.entries)
                          /\ m = [w EXCEPT !.entries = m.entries]
    /\ \A i \in 1..Len(m.entries) :
         LET r == m.entries[i].rec IN capsule[r] = Enc(r, OldKey)

\* A mounted record has its payload in the target, under the new key and with
\* its plaintext, even if the capsule was damaged after it was verified or the
\* key was wrong.
MountFaithful ==
  \A r \in Records : rows[r].status = "active" => files[r] = Enc(r, NewKey)

\* One command at most mounts into a target, and what the target holds are the
\* first records of one capsule, in its order.
OneMount ==
  /\ Cardinality({ p \in Procs : pc[p] \in {"mount", "insert"} }) <= 1
  /\ log # <<>> =>
       \E m \in written : \E k \in 0..Len(m.entries) :
         /\ Len(log) = k + 1
         /\ \A i \in 1..k : log[i + 1].rec = m.entries[i].rec

\* What is mounted counts as put.
AsPut(entry) == IF entry.op = "record.mount" THEN [entry EXCEPT !.op = "put"] ELSE entry

TargetVault ==
  INSTANCE AuditedIndex
    WITH Souls <- {Soul}, ReadOps <- {}, index <- rows,
         log <- [i \in 1..Len(log) |-> AsPut(log[i])]

\* Mounting keeps the promise of the vault: no record appears in the target
\* without the audit entry that accounts for it.
MountRefinesAuditedIndex == TargetVault!Spec
=============================================================================
