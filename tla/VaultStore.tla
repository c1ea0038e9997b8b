----------------------------- MODULE VaultStore -----------------------------
(***************************************************************************)
(* The owner-controlled memory vault of rmem-vault.py: an SQLite database  *)
(* (the record index and the hash-chained audit log) beside a directory of *)
(* encrypted payload files.  Every call is a CLI process of its own; any   *)
(* number of them share one vault root and synchronise only through        *)
(* SQLite's write lock.                                                    *)
(*                                                                         *)
(* A step is what another process can observe: one SQLite statement run in *)
(* autocommit, one committed transaction, or one file operation.  Python's *)
(* sqlite3 opens a transaction (and takes the write lock) at the first     *)
(* INSERT or UPDATE of a `with conn:` block, never at a SELECT.  So put,   *)
(* tombstone and init, whose blocks begin with an INSERT or UPDATE, read   *)
(* the end of the audit log under the lock and are one step; get, whose    *)
(* block begins with the SELECT of _last_audit_hash, reads the end of the  *)
(* log in one step and appends to it in another.                           *)
(*                                                                         *)
(* A call that exits before it changes anything (vault already             *)
(* initialised, record not found, record already tombstoned, bad layer,    *)
(* type or key length) is a stuttering step, so it has no action: its      *)
(* condition is the negation of a guard below.                             *)
(*                                                                         *)
(* A definition named Bug... is a mutated form of the one after it, used   *)
(* only to show that a property notices the mistake.                       *)
(***************************************************************************)
EXTENDS Integers, Sequences, FiniteSets

CONSTANTS
  Procs,       \* CLI processes
  Readers,     \* the processes that may call get_record
  Records,     \* record ids new_record_id may draw
  Souls,       \* soul ids
  Keys,        \* vault keys of the right length
  NoKey,       \* get_record called with key=None
  Null,        \* SQL NULL; no record, no soul
  MaxCalls,    \* bound: calls started in a behaviour
  MaxFaults    \* bound: processes killed, transactions failed, files damaged

ASSUME VaultConstants ==
  /\ Readers \subseteq Procs
  /\ NoKey \notin Keys /\ "absent" \notin Keys /\ "damaged" \notin Keys
  /\ Null \notin Records /\ Null \notin Souls
  /\ MaxCalls \in Nat /\ MaxFaults \in Nat

VARIABLES
  db,       \* how far init has come on disk
  rows,     \* the records table: record id -> its status and soul
  files,    \* the records directory: record id -> what its .enc file holds
  audit,    \* the audit_log table in id order
  pc,       \* where each process is in its call
  loc,      \* its local variables: record, soul, key, the op to log, last hash
  calls,    \* calls started so far
  faults    \* faults so far

vars == <<db, rows, files, audit, pc, loc, calls, faults>>

-----------------------------------------------------------------------------
(* State on disk.                                                          *)

\* Nothing; directories only; an empty vault.db; some tables; all tables;
\* all tables and the meta rows.
DbStages == {"absent", "dirs", "bare", "partial", "schema", "ready"}

\* What a .enc file holds: the payload under the key it was encrypted with,
\* or bytes that no longer hash to payload_hash.
Absent  == "absent"
Damaged == "damaged"
Files   == {Absent, Damaged} \cup Keys

\* One row of the records table; status "none" stands for no row.
NoRow   == [status |-> "none", soul |-> Null]
RowType == [status : {"none", "active", "tombstoned"}, soul : Souls \cup {Null}]

\* Mutated form of RowFor: the SELECT forgets AND soul_id = ?.
BugAnySoul(r, s) == rows[r].status # "none"

\* The records SELECT sees with WHERE record_id = r AND soul_id = s.
RowFor(r, s) == rows[r].status # "none" /\ rows[r].soul = s

\* list_records
ListRecords(s, include_tombstoned) ==
  { r \in Records : RowFor(r, s)
                    /\ (rows[r].status = "active" \/ include_tombstoned) }

ReadOps  == {"read.tombstoned", "read.hash_mismatch", "read.ciphertext",
             "read.decrypt_fail", "read.decrypted"}
WriteOps == {"vault.init", "put", "tombstone"}

\* An audit entry.  Hashes are taken to be collision-free: this_hash of the
\* i-th entry is named by i, ZERO_HASH by 0, so prev is the position the
\* entry was chained to.
Entry == [op   : ReadOps \cup WriteOps,
          soul : Souls \cup {Null},
          rec  : Records \cup {Null},
          prev : Nat]

\* Mutated form of LastHash: the entry before the last.
BugSecondLastHash == Len(audit) - 1

\* _last_audit_hash
LastHash == Len(audit)

\* _append_audit, given the hash its SELECT returned
AppendAudit(op, s, r, prev) ==
  audit' = Append(audit, [op |-> op, soul |-> s, rec |-> r, prev |-> prev])

\* verify_audit_chain: walks the log and expects each prev_hash to be the
\* hash of the entry before it.
VerifyAuditChain == \A i \in 1..Len(audit) : audit[i].prev = i - 1

\* The tables a statement needs exist.
Tables == db \in {"schema", "ready"}

\* connect: sqlite3.connect creates an empty database file where the
\* directory exists and none is there yet.
Connect == IF db = "dirs" THEN "bare" ELSE db

-----------------------------------------------------------------------------
(* Processes.                                                              *)

PCs == {"idle", "init_connect", "init_script", "init_tables", "init_meta",
        "put_txn", "put_undo", "get_file", "get_last", "get_append",
        "tomb_txn", "tomb_unlink"}

NoLoc   == [rec |-> Null, soul |-> Null, key |-> NoKey, op |-> "none", prev |-> 0]
LocType == [rec  : Records \cup {Null},
            soul : Souls \cup {Null},
            key  : Keys \cup {NoKey},
            op   : ReadOps \cup {"none"},
            prev : Nat]

\* p begins a call and goes on at l with locals lv.
Begin(p, l, lv) ==
  /\ pc[p] = "idle"
  /\ calls < MaxCalls
  /\ calls' = calls + 1
  /\ pc' = [pc EXCEPT ![p] = l]
  /\ loc' = [loc EXCEPT ![p] = lv]
  /\ UNCHANGED faults

\* p goes from one point of its call to another.
Goto(p, from, to) ==
  /\ pc[p] = from
  /\ pc' = [pc EXCEPT ![p] = to]
  /\ UNCHANGED <<calls, faults>>

\* p's call ends, by returning or by an uncaught exception.
Return(p, from) == Goto(p, from, "idle") /\ loc' = [loc EXCEPT ![p] = NoLoc]

-----------------------------------------------------------------------------
(* init                                                                    *)

\* vault.db does not exist: make the directories.
InitMkdir(p) ==
  /\ db \in {"absent", "dirs"}
  /\ db' = "dirs"
  /\ Begin(p, "init_connect", NoLoc)
  /\ UNCHANGED <<rows, files, audit>>

\* Mutated form of InitConnect: looks for vault.db again before connecting.
BugInitRechecks(p) ==
  \/ /\ Goto(p, "init_connect", "init_script")
     /\ db = "dirs"
     /\ db' = Connect
     /\ UNCHANGED <<rows, files, audit, loc>>
  \/ /\ Return(p, "init_connect")
     /\ db # "dirs"
     /\ UNCHANGED <<db, rows, files, audit>>

InitConnect(p) ==
  /\ Goto(p, "init_connect", "init_script")
  /\ db' = Connect
  /\ UNCHANGED <<rows, files, audit, loc>>

\* Mutated form of InitScript: CREATE TABLE IF NOT EXISTS.
BugInitIfNotExists(p) ==
  /\ Goto(p, "init_script", "init_tables")
  /\ db' = IF db = "bare" THEN "partial" ELSE db
  /\ UNCHANGED <<rows, files, audit, loc>>

\* executescript commits statement by statement; its first CREATE TABLE
\* fails when another init got there before.
InitScript(p) ==
  \/ /\ db = "bare"
     /\ db' = "partial"
     /\ Goto(p, "init_script", "init_tables")
     /\ UNCHANGED <<rows, files, audit, loc>>
  \/ /\ db # "bare"
     /\ Return(p, "init_script")
     /\ UNCHANGED <<db, rows, files, audit>>

InitTables(p) ==
  /\ Goto(p, "init_tables", "init_meta")
  /\ db' = "schema"
  /\ UNCHANGED <<rows, files, audit, loc>>

\* The meta rows and the first audit entry, in one transaction.
InitMeta(p) ==
  /\ Return(p, "init_meta")
  /\ db' = "ready"
  /\ AppendAudit("vault.init", Null, Null, LastHash)
  /\ UNCHANGED <<rows, files>>

-----------------------------------------------------------------------------
(* put_record                                                              *)

\* new_record_id never returns an id twice: r names no row, no file, and no
\* record a call under way is about.
Fresh(r) ==
  /\ rows[r].status = "none"
  /\ files[r] = Absent
  /\ \A q \in Procs : loc[q].rec # r

\* The payload file is created ("xb") and written before the index knows it.
PutWriteFile(p, s, r, k) ==
  /\ db # "absent"
  /\ Fresh(r)
  /\ files' = [files EXCEPT ![r] = k]
  /\ Begin(p, "put_txn", [NoLoc EXCEPT !.rec = r, !.soul = s, !.key = k])
  /\ UNCHANGED <<db, rows, audit>>

\* INSERT the row, append the audit entry, commit.
PutTxn(p) ==
  /\ Tables
  /\ Return(p, "put_txn")
  /\ rows' = [rows EXCEPT ![loc[p].rec] = [status |-> "active", soul |-> loc[p].soul]]
  /\ AppendAudit("put", loc[p].soul, loc[p].rec, LastHash)
  /\ UNCHANGED <<db, files>>

\* Mutated form of PutTxnFails: the row was inserted outside the transaction.
BugNoRollback(p) ==
  /\ pc[p] = "put_txn"
  /\ Tables
  /\ faults < MaxFaults
  /\ faults' = faults + 1
  /\ rows' = [rows EXCEPT ![loc[p].rec] = [status |-> "active", soul |-> loc[p].soul]]
  /\ pc' = [pc EXCEPT ![p] = "put_undo"]
  /\ UNCHANGED <<db, files, audit, loc, calls>>

\* Mutated form of PutTxnFails: the exception leaves without the unlink.
BugNoUnlink(p) ==
  /\ Return(p, "put_txn")
  /\ ~Tables
  /\ db' = Connect
  /\ UNCHANGED <<rows, files, audit>>

\* The transaction raises (no such table, database is locked, disk full) and
\* is rolled back.
PutTxnFails(p) ==
  /\ pc[p] = "put_txn"
  /\ pc' = [pc EXCEPT ![p] = "put_undo"]
  /\ \/ ~Tables /\ UNCHANGED faults
     \/ Tables /\ faults < MaxFaults /\ faults' = faults + 1
  /\ db' = Connect
  /\ UNCHANGED <<rows, files, audit, loc, calls>>

\* except Exception: target.unlink(missing_ok=True); raise
PutUndo(p) ==
  /\ Return(p, "put_undo")
  /\ files' = [files EXCEPT ![loc[p].rec] = Absent]
  /\ UNCHANGED <<db, rows, audit>>

-----------------------------------------------------------------------------
(* get_record                                                              *)

\* SELECT the row of (r, s).  A tombstoned record is only logged; the file of
\* an active one is read next.
GetSelect(p, s, r, k) ==
  /\ p \in Readers
  /\ Tables
  /\ RowFor(r, s)
  /\ \/ /\ rows[r].status = "tombstoned"
        /\ Begin(p, "get_last", [rec |-> r, soul |-> s, key |-> k,
                                 op |-> "read.tombstoned", prev |-> 0])
     \/ /\ rows[r].status = "active"
        /\ Begin(p, "get_file", [NoLoc EXCEPT !.rec = r, !.soul = s, !.key = k])
  /\ UNCHANGED <<db, rows, files, audit>>

\* Which audit op the bytes read and the key given lead to.
ReadOutcome(content, k) ==
  CASE content = Damaged -> "read.hash_mismatch"
    [] content # Damaged /\ k = NoKey -> "read.ciphertext"
    [] content # Damaged /\ k # NoKey /\ k # content -> "read.decrypt_fail"
    [] content # Damaged /\ k # NoKey /\ k = content -> "read.decrypted"

\* Read, hash and decrypt the payload file.
GetFile(p) ==
  /\ Goto(p, "get_file", "get_last")
  /\ files[loc[p].rec] # Absent
  /\ loc' = [loc EXCEPT ![p].op = ReadOutcome(files[loc[p].rec], loc[p].key)]
  /\ UNCHANGED <<db, rows, files, audit>>

\* The file is gone: read_bytes raises FileNotFoundError and nothing is logged.
GetFileMissing(p) ==
  /\ Return(p, "get_file")
  /\ files[loc[p].rec] = Absent
  /\ UNCHANGED <<db, rows, files, audit>>

\* _last_audit_hash, a SELECT outside any transaction.
GetLastHash(p) ==
  /\ Goto(p, "get_last", "get_append")
  /\ loc' = [loc EXCEPT ![p].prev = LastHash]
  /\ UNCHANGED <<db, rows, files, audit>>

\* INSERT the audit entry, commit, and deliver the result.
GetAppend(p) ==
  /\ Return(p, "get_append")
  /\ AppendAudit(loc[p].op, loc[p].soul, loc[p].rec, loc[p].prev)
  /\ UNCHANGED <<db, rows, files>>

-----------------------------------------------------------------------------
(* tombstone_record                                                        *)

\* SELECT the row: it is there and not tombstoned.
TombSelect(p, s, r) ==
  /\ Tables
  /\ RowFor(r, s)
  /\ rows[r].status = "active"
  /\ Begin(p, "tomb_txn", [NoLoc EXCEPT !.rec = r, !.soul = s])
  /\ UNCHANGED <<db, rows, files, audit>>

\* Mutated form of TombTxn: reads the last hash before the lock is taken, when
\* the row was selected.
BugTombStaleHash(p) ==
  /\ Goto(p, "tomb_txn", "tomb_unlink")
  /\ rows' = [rows EXCEPT ![loc[p].rec].status = "tombstoned"]
  /\ AppendAudit("tombstone", loc[p].soul, loc[p].rec, loc[p].prev)
  /\ UNCHANGED <<db, files, loc>>

\* Mutated form of TombTxn: returns after the commit.
BugTombKeepsFile(p) ==
  /\ Return(p, "tomb_txn")
  /\ rows' = [rows EXCEPT ![loc[p].rec].status = "tombstoned"]
  /\ AppendAudit("tombstone", loc[p].soul, loc[p].rec, LastHash)
  /\ UNCHANGED <<db, files>>

\* UPDATE by record_id alone, whatever the status is by now, and log it.
TombTxn(p) ==
  /\ Goto(p, "tomb_txn", "tomb_unlink")
  /\ rows' = [rows EXCEPT ![loc[p].rec].status = "tombstoned"]
  /\ AppendAudit("tombstone", loc[p].soul, loc[p].rec, LastHash)
  /\ UNCHANGED <<db, files, loc>>

\* unlink(missing_ok=True), after the commit.
TombUnlink(p) ==
  /\ Return(p, "tomb_unlink")
  /\ files' = [files EXCEPT ![loc[p].rec] = Absent]
  /\ UNCHANGED <<db, rows, audit>>

-----------------------------------------------------------------------------
(* The environment.                                                        *)

\* Any other call on a vault whose directories exist but whose database does
\* not (list, get, tombstone, audit): connect leaves an empty vault.db behind
\* and the query fails.
StrayConnect(p) ==
  /\ db = "dirs"
  /\ db' = Connect
  /\ Begin(p, "idle", NoLoc)
  /\ UNCHANGED <<rows, files, audit>>

\* The process is killed, loses power, or dies of an exception the call does
\* not handle (a locked database in get, tombstone or init).
Crash(p) ==
  /\ pc[p] # "idle"
  /\ faults < MaxFaults
  /\ faults' = faults + 1
  /\ pc' = [pc EXCEPT ![p] = "idle"]
  /\ loc' = [loc EXCEPT ![p] = NoLoc]
  /\ UNCHANGED <<db, rows, files, audit, calls>>

\* A payload file is damaged on disk.
BitRot(r) ==
  /\ files[r] \in Keys
  /\ faults < MaxFaults
  /\ faults' = faults + 1
  /\ files' = [files EXCEPT ![r] = Damaged]
  /\ UNCHANGED <<db, rows, audit, pc, loc, calls>>

-----------------------------------------------------------------------------

Init ==
  /\ db = "absent"
  /\ rows = [r \in Records |-> NoRow]
  /\ files = [r \in Records |-> Absent]
  /\ audit = <<>>
  /\ pc = [p \in Procs |-> "idle"]
  /\ loc = [p \in Procs |-> NoLoc]
  /\ calls = 0
  /\ faults = 0

\* A call a client makes.
Call(p) ==
  \/ InitMkdir(p)
  \/ StrayConnect(p)
  \/ \E s \in Souls, r \in Records, k \in Keys : PutWriteFile(p, s, r, k)
  \/ \E s \in Souls, r \in Records, k \in Keys \cup {NoKey} : GetSelect(p, s, r, k)
  \/ \E s \in Souls, r \in Records : TombSelect(p, s, r)

\* The rest of a call under way.
Step(p) ==
  \/ InitConnect(p) \/ InitScript(p) \/ InitTables(p) \/ InitMeta(p)
  \/ PutTxn(p) \/ PutTxnFails(p) \/ PutUndo(p)
  \/ GetFile(p) \/ GetFileMissing(p) \/ GetLastHash(p) \/ GetAppend(p)
  \/ TombTxn(p) \/ TombUnlink(p)

Next ==
  \/ \E p \in Procs : Call(p) \/ Step(p) \/ Crash(p)
  \/ \E r \in Records : BitRot(r)

Spec == Init /\ [][Next]_vars

\* A process that is not killed runs its call to the end.
FairSpec == Spec /\ \A p \in Procs : WF_vars(Step(p))

-----------------------------------------------------------------------------
(* Properties.                                                             *)

\* Every variable holds a value of its type.
TypeOK ==
  /\ db \in DbStages
  /\ rows \in [Records -> RowType]
  /\ files \in [Records -> Files]
  /\ audit \in Seq(Entry)
  /\ pc \in [Procs -> PCs]
  /\ loc \in [Procs -> LocType]
  /\ calls \in Nat
  /\ faults \in Nat

\* The audit log verifies (verify_audit_chain returns True), whatever the
\* processes' interleaving.
ChainOK == VerifyAuditChain

\* The chain can only break at a read: an entry whose transaction takes the
\* write lock first (init, put, tombstone) is always chained to the entry
\* before it, and no entry is chained to a later one.
ForksOnlyAtReads ==
  \A i \in 1..Len(audit) :
    /\ audit[i].prev < i
    /\ audit[i].op \in WriteOps => audit[i].prev = i - 1

\* An active record has its payload file, so get never fails on a record that
\* is neither damaged nor deleted: put never indexes a payload it has not
\* stored, its cleanup never removes a payload it has indexed, and no
\* tombstone purges the file of another record.
ActiveHasFile ==
  \A r \in Records : rows[r].status = "active" => files[r] # Absent

Entries(op, r) == { i \in 1..Len(audit) : audit[i].op = op /\ audit[i].rec = r }

AccountedFor(r) ==
  /\ rows[r].status # "none" <=> Entries("put", r) # {}
  /\ rows[r].status = "tombstoned" <=> Entries("tombstone", r) # {}
  /\ \A i, j \in Entries("put", r) : i = j
  /\ \A j \in 1..Len(audit) :
       audit[j].rec = r => /\ audit[j].soul = rows[r].soul
                           /\ \E i \in Entries("put", r) : i <= j

\* The audit log accounts for the index: a record has a row exactly when it
\* has one put entry, is tombstoned exactly when a tombstone entry says so,
\* and everything logged about it comes after its put and names its soul.
AuditAgreesWithIndex == \A r \in Records : AccountedFor(r)

\* A payload file without an active record is being dealt with by a call under
\* way (a put that will index or remove it, a tombstone that will purge it),
\* unless some process was killed.
StrayFilesPending ==
  \A r \in Records :
    files[r] # Absent /\ rows[r].status # "active" =>
      \/ faults > 0
      \/ \E p \in Procs : loc[p].rec = r
                          /\ pc[p] \in {"put_txn", "put_undo", "tomb_unlink"}

InitEntries == { i \in 1..Len(audit) : audit[i].op = "vault.init" }

\* Racing inits set the vault up once: one of them at a time is past the first
\* CREATE TABLE, and vault.init is logged once, when the vault becomes ready.
InitOnce ==
  /\ \A p, q \in Procs :
       pc[p] \in {"init_tables", "init_meta"} /\ pc[q] \in {"init_tables", "init_meta"}
         => p = q
  /\ db = "ready" <=> InitEntries # {}
  /\ \A i, j \in InitEntries : i = j

\* The log as its readers see it, without the chain.
Unchained(e) == [op |-> e.op, soul |-> e.soul, rec |-> e.rec]
AuditLog == [i \in 1..Len(audit) |-> Unchained(audit[i])]

\* What the vault promises: an index and a log that change together.
Abstract == INSTANCE AuditedIndex WITH index <- rows, log <- AuditLog

\* The vault, seen without its files, its chain and its processes, is an
\* audited index.
RefinesAuditedIndex == Abstract!Spec

\* A tombstoned record's payload is purged.
DeletionIsReal ==
  \A r \in Records : rows[r].status = "tombstoned" ~> files[r] = Absent

\* It is, whatever other calls race the tombstone, where nothing is killed.
PurgeUnlessKilled ==
  \A r \in Records :
    rows[r].status = "tombstoned" ~> files[r] = Absent \/ faults > 0

\* A payload file without a row is indexed or removed, where nothing is killed.
PutSettles ==
  \A r \in Records :
    files[r] # Absent /\ rows[r].status = "none"
      ~> rows[r].status # "none" \/ files[r] = Absent \/ faults > 0

\* An init that is begun makes the vault ready, whatever other inits race it,
\* where nothing is killed.
InitCompletes == db # "absent" ~> db = "ready" \/ faults > 0
=============================================================================
