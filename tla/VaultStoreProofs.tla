-------------------------- MODULE VaultStoreProofs --------------------------
(***************************************************************************)
(* Proofs about VaultStore, for any number of processes, records, souls    *)
(* and keys, and any bound on calls and faults.                            *)
(***************************************************************************)
EXTENDS VaultStore, TLAPS

(***************************************************************************)
(* What each process knows.  A put owns its record until it commits: the   *)
(* record has no row, and no other call is about it.  A get or tombstone   *)
(* has seen a row, and rows never go away or change soul.                  *)
(***************************************************************************)
IdlePCs == {"idle", "init_connect", "init_script", "init_tables", "init_meta"}
PutPCs  == {"put_txn", "put_undo"}
GetPCs  == {"get_last", "get_append"}
RowPCs  == {"get_file", "get_last", "get_append", "tomb_txn", "tomb_unlink"}

LocalInv(p) ==
  /\ pc[p] \in IdlePCs => loc[p].rec = Null
  /\ pc[p] \notin IdlePCs => loc[p].rec \in Records /\ loc[p].soul \in Souls
  /\ pc[p] \in PutPCs => /\ rows[loc[p].rec].status = "none"
                         /\ \A q \in Procs : loc[q].rec = loc[p].rec => q = p
  /\ pc[p] = "put_txn" => files[loc[p].rec] # Absent
  /\ pc[p] \in RowPCs => RowFor(loc[p].rec, loc[p].soul)
  /\ pc[p] = "tomb_unlink" => rows[loc[p].rec].status = "tombstoned"
  /\ pc[p] \in GetPCs => loc[p].op \in ReadOps
  /\ pc[p] \in GetPCs /\ loc[p].op = "read.tombstoned"
       => rows[loc[p].rec].status = "tombstoned"
  /\ pc[p] = "get_append" => loc[p].prev <= Len(audit)

ProcInv == \A p \in Procs : LocalInv(p)

\* The inductive invariant of the index, the files and the log.
IInv ==
  /\ TypeOK
  /\ ProcInv
  /\ ForksOnlyAtReads
  /\ ActiveHasFile
  /\ AuditAgreesWithIndex

-----------------------------------------------------------------------------
(* Type correctness.                                                       *)

\* Appending an entry to the log keeps its type.
LEMMA AppendTyped ==
  ASSUME NEW op \in ReadOps \cup WriteOps, NEW s \in Souls \cup {Null},
         NEW r \in Records \cup {Null}, NEW prev \in Nat,
         audit \in Seq(Entry), AppendAudit(op, s, r, prev)
  PROVE  audit' \in Seq(Entry)
  <1>1. [op |-> op, soul |-> s, rec |-> r, prev |-> prev] \in Entry
    BY DEF Entry
  <1>2. QED
    BY <1>1 DEF AppendAudit



\* Beginning, continuing and ending a call keep the processes' types.
LEMMA BeginTyped ==
  ASSUME TypeOK, NEW p \in Procs, NEW l \in PCs, NEW lv \in LocType, Begin(p, l, lv)
  PROVE  /\ pc' \in [Procs -> PCs] /\ loc' \in [Procs -> LocType]
         /\ calls' \in Nat /\ faults' \in Nat
  BY DEF TypeOK, Begin

\* Going on within a call keeps the type of pc.
LEMMA GotoTyped ==
  ASSUME TypeOK, NEW p \in Procs, NEW from, NEW to \in PCs, Goto(p, from, to)
  PROVE  pc' \in [Procs -> PCs] /\ calls' \in Nat /\ faults' \in Nat
  BY DEF TypeOK, Goto

\* The locals of a process between calls are of their types.
LEMMA NoLocTyped == NoLoc \in LocType
  BY DEF NoLoc, LocType

\* Ending a call keeps the types of pc and loc.
LEMMA ReturnTyped ==
  ASSUME TypeOK, NEW p \in Procs, NEW from, Return(p, from)
  PROVE  /\ pc' \in [Procs -> PCs] /\ loc' \in [Procs -> LocType]
         /\ calls' \in Nat /\ faults' \in Nat
  <1>1. "idle" \in PCs /\ Goto(p, from, "idle")
    BY DEF PCs, Return
  <1>2. loc' \in [Procs -> LocType]
    BY NoLocTyped DEF TypeOK, Return
  <1>3. QED
    BY <1>1, <1>2, GotoTyped

\* The locals of a process: record, soul, key, op and hash are of their types.
LEMMA LocTyped ==
  ASSUME TypeOK, NEW p \in Procs
  PROVE  /\ loc[p] \in LocType
         /\ loc[p].rec \in Records \cup {Null} /\ loc[p].soul \in Souls \cup {Null}
         /\ loc[p].op \in ReadOps \cup {"none"} /\ loc[p].prev \in Nat
         /\ loc[p].key \in Keys \cup {NoKey}
  BY DEF TypeOK, LocType

\* The end of the log is named by a natural number.
LEMMA LastHashTyped == audit \in Seq(Entry) => LastHash \in Nat
  BY DEF LastHash

\* A step keeps every variable in its type.  GetAppend logs the op a process
\* holds, so this needs ProcInv.
LEMMA TypeStep == TypeOK /\ ProcInv /\ [Next]_vars => TypeOK'
  <1> SUFFICES ASSUME TypeOK, ProcInv, [Next]_vars PROVE TypeOK'
    OBVIOUS
  <1>1. ASSUME NEW p \in Procs, InitMkdir(p) \/ StrayConnect(p) PROVE TypeOK'
    <2>1. "init_connect" \in PCs /\ "idle" \in PCs
      BY DEF PCs
    <2>2. QED
      BY <1>1, <2>1, BeginTyped, NoLocTyped
      DEF InitMkdir, StrayConnect, TypeOK, DbStages, Connect
  <1>2. ASSUME NEW p \in Procs, InitConnect(p) \/ InitTables(p) PROVE TypeOK'
    <2>1. "init_script" \in PCs /\ "init_meta" \in PCs
      BY DEF PCs
    <2>2. QED
      BY <1>2, <2>1, GotoTyped DEF InitConnect, InitTables, TypeOK, DbStages, Connect
  <1>3. ASSUME NEW p \in Procs, InitScript(p) PROVE TypeOK'
    <2>1. "init_tables" \in PCs
      BY DEF PCs
    <2>2. QED
      BY <1>3, <2>1, GotoTyped, ReturnTyped DEF InitScript, TypeOK, DbStages
  <1>4. ASSUME NEW p \in Procs, InitMeta(p) PROVE TypeOK'
    <2>1. audit' \in Seq(Entry)
      BY <1>4, AppendTyped, LastHashTyped DEF InitMeta, WriteOps, TypeOK
    <2>2. QED
      BY <1>4, <2>1, ReturnTyped DEF InitMeta, TypeOK, DbStages
  <1>5. ASSUME NEW p \in Procs, NEW s \in Souls, NEW r \in Records, NEW k \in Keys,
               PutWriteFile(p, s, r, k)
        PROVE  TypeOK'
    <2>1. "put_txn" \in PCs /\ [NoLoc EXCEPT !.rec = r, !.soul = s, !.key = k] \in LocType
      BY DEF PCs, NoLoc, LocType
    <2>2. files' \in [Records -> Files]
      BY <1>5 DEF PutWriteFile, TypeOK, Files
    <2>3. QED
      BY <1>5, <2>1, <2>2, BeginTyped DEF PutWriteFile, TypeOK
  <1>6. ASSUME NEW p \in Procs, PutTxn(p) PROVE TypeOK'
    <2>1. rows' \in [Records -> RowType]
      BY <1>6, LocTyped DEF PutTxn, TypeOK, RowType
    <2>2. audit' \in Seq(Entry)
      BY <1>6, LocTyped, AppendTyped, LastHashTyped DEF PutTxn, WriteOps, TypeOK
    <2>3. QED
      BY <1>6, <2>1, <2>2, ReturnTyped DEF PutTxn, TypeOK
  <1>7. ASSUME NEW p \in Procs, PutTxnFails(p) PROVE TypeOK'
    BY <1>7 DEF PutTxnFails, TypeOK, PCs, DbStages, Connect
  <1>8. ASSUME NEW p \in Procs, PutUndo(p) \/ TombUnlink(p) PROVE TypeOK'
    BY <1>8, ReturnTyped DEF PutUndo, TombUnlink, TypeOK, Files
  <1>9. ASSUME NEW p \in Procs, NEW s \in Souls, NEW r \in Records,
               NEW k \in Keys \cup {NoKey}, GetSelect(p, s, r, k)
        PROVE  TypeOK'
    <2>1. /\ "get_last" \in PCs /\ "get_file" \in PCs
          /\ [rec |-> r, soul |-> s, key |-> k, op |-> "read.tombstoned",
              prev |-> 0] \in LocType
          /\ [NoLoc EXCEPT !.rec = r, !.soul = s, !.key = k] \in LocType
      BY DEF PCs, NoLoc, LocType, ReadOps
    <2>2. QED
      BY <1>9, <2>1, BeginTyped DEF GetSelect, TypeOK
  <1>10. ASSUME NEW p \in Procs, GetFile(p) PROVE TypeOK'
    <2>1. "get_last" \in PCs
      BY DEF PCs
    <2>2. ReadOutcome(files[loc[p].rec], loc[p].key) \in ReadOps
      BY DEF ReadOutcome, ReadOps
    <2>3. loc' \in [Procs -> LocType]
      BY <1>10, <2>2, LocTyped DEF GetFile, TypeOK, LocType
    <2>4. QED
      BY <1>10, <2>1, <2>3, GotoTyped DEF GetFile, TypeOK
  <1>11. ASSUME NEW p \in Procs, GetFileMissing(p) PROVE TypeOK'
    BY <1>11, ReturnTyped DEF GetFileMissing, TypeOK
  <1>12. ASSUME NEW p \in Procs, GetLastHash(p) PROVE TypeOK'
    <2>1. "get_append" \in PCs
      BY DEF PCs
    <2>2. loc' \in [Procs -> LocType]
      BY <1>12, LastHashTyped DEF GetLastHash, TypeOK, LocType
    <2>3. QED
      BY <1>12, <2>1, <2>2, GotoTyped DEF GetLastHash, TypeOK
  <1>13. ASSUME NEW p \in Procs, GetAppend(p) PROVE TypeOK'
    <2>1. loc[p].op \in ReadOps
      BY <1>13 DEF GetAppend, Return, Goto, ProcInv, LocalInv, GetPCs
    <2>2. audit' \in Seq(Entry)
      BY <1>13, <2>1, LocTyped, AppendTyped DEF GetAppend, TypeOK
    <2>3. QED
      BY <1>13, <2>2, ReturnTyped DEF GetAppend, TypeOK
  <1>14. ASSUME NEW p \in Procs, NEW s \in Souls, NEW r \in Records,
                TombSelect(p, s, r)
         PROVE  TypeOK'
    <2>1. "tomb_txn" \in PCs /\ [NoLoc EXCEPT !.rec = r, !.soul = s] \in LocType
      BY DEF PCs, NoLoc, LocType
    <2>2. QED
      BY <1>14, <2>1, BeginTyped DEF TombSelect, TypeOK
  <1>15. ASSUME NEW p \in Procs, TombTxn(p) PROVE TypeOK'
    <2>1. rows' \in [Records -> RowType]
      BY <1>15, LocTyped DEF TombTxn, TypeOK, RowType
    <2>2. audit' \in Seq(Entry)
      BY <1>15, LocTyped, AppendTyped, LastHashTyped DEF TombTxn, WriteOps, TypeOK
    <2>3. "tomb_unlink" \in PCs
      BY DEF PCs
    <2>4. QED
      BY <1>15, <2>1, <2>2, <2>3, GotoTyped DEF TombTxn, TypeOK
  <1>16. ASSUME NEW p \in Procs, Crash(p) PROVE TypeOK'
    BY <1>16, NoLocTyped DEF Crash, TypeOK, PCs
  <1>17. ASSUME NEW r \in Records, BitRot(r) PROVE TypeOK'
    BY <1>17 DEF BitRot, TypeOK, Files
  <1>18. CASE UNCHANGED vars
    BY <1>18 DEF vars, TypeOK
  <1>19. QED
    BY <1>1, <1>2, <1>3, <1>4, <1>5, <1>6, <1>7, <1>8, <1>9, <1>10, <1>11,
       <1>12, <1>13, <1>14, <1>15, <1>16, <1>17, <1>18 DEF Next, Call, Step

-----------------------------------------------------------------------------
(* What the processes know.                                                *)

\* Rows are never removed, change no soul, and stay tombstoned.
RowsGrow ==
  \A r \in Records :
    /\ rows[r].status # "none" =>
         rows'[r].status # "none" /\ rows'[r].soul = rows[r].soul
    /\ rows[r].status = "tombstoned" => rows'[r].status = "tombstoned"

\* A process that does not move keeps what it knows when rows and log only
\* grow and nobody touches the record it is putting.
LEMMA KeepLocal ==
  ASSUME NEW q \in Procs, LocalInv(q), RowsGrow, TypeOK,
         pc'[q] = pc[q], loc'[q] = loc[q],
         Len(audit') \in Nat, Len(audit) <= Len(audit'),
         pc[q] \in PutPCs => /\ rows'[loc[q].rec] = rows[loc[q].rec]
                             /\ files'[loc[q].rec] = Absent => files[loc[q].rec] = Absent
                             /\ \A x \in Procs : loc'[x].rec = loc[q].rec => x = q
  PROVE  LocalInv(q)'
  <1>1. loc[q].prev \in Nat /\ Len(audit) \in Nat
    BY LocTyped DEF TypeOK
  <1>2. (pc[q] \in RowPCs => RowFor(loc[q].rec, loc[q].soul))'
    BY DEF LocalInv, RowFor, RowsGrow, RowPCs, IdlePCs
  <1>3. (pc[q] = "tomb_unlink" => rows[loc[q].rec].status = "tombstoned")'
    BY DEF LocalInv, RowsGrow, IdlePCs
  <1>4. (pc[q] \in GetPCs /\ loc[q].op = "read.tombstoned"
           => rows[loc[q].rec].status = "tombstoned")'
    BY DEF LocalInv, RowsGrow, IdlePCs, GetPCs
  <1>5. (pc[q] \in PutPCs => /\ rows[loc[q].rec].status = "none"
                             /\ \A x \in Procs : loc[x].rec = loc[q].rec => x = q)'
    BY DEF LocalInv
  <1>6. (pc[q] = "put_txn" => files[loc[q].rec] # Absent)'
    BY DEF LocalInv, PutPCs, Absent
  <1>7. (pc[q] = "get_append" => loc[q].prev <= Len(audit))'
    BY <1>1 DEF LocalInv
  <1>8. QED
    BY <1>2, <1>3, <1>4, <1>5, <1>6, <1>7 DEF LocalInv

\* A record being put belongs to one call.
LEMMA PutOwner ==
  ASSUME ProcInv, NEW p \in Procs, NEW q \in Procs, p # q, pc[q] \in PutPCs
  PROVE  loc[p].rec # loc[q].rec
  BY DEF ProcInv, LocalInv

\* A step of p that keeps its distance from the records others are putting.
LEMMA ProcFrame ==
  ASSUME TypeOK, ProcInv, NEW p \in Procs, RowsGrow, LocalInv(p)',
         Len(audit') \in Nat, Len(audit) <= Len(audit'),
         \A q \in Procs \ {p} : pc'[q] = pc[q] /\ loc'[q] = loc[q],
         \A q \in Procs \ {p} : pc[q] \in PutPCs =>
           /\ rows'[loc[q].rec] = rows[loc[q].rec]
           /\ files'[loc[q].rec] = Absent => files[loc[q].rec] = Absent
           /\ loc'[p].rec # loc[q].rec
  PROVE  ProcInv'
  <1>1. SUFFICES ASSUME NEW q \in Procs \ {p} PROVE LocalInv(q)'
    BY DEF ProcInv
  <1>2. pc[q] \in PutPCs => \A x \in Procs : loc'[x].rec = loc[q].rec => x = q
    BY PutOwner
  <1>3. QED
    BY <1>2, KeepLocal DEF ProcInv

\* Beginning a call about nothing, about a record with a row, or about a fresh
\* one, and ending a call, keep clear of the records others are putting.
LEMMA BeginFrame ==
  ASSUME TypeOK, NEW p \in Procs, NEW l, NEW lv, Begin(p, l, lv)
  PROVE  /\ pc[p] = "idle" /\ pc'[p] = l /\ loc'[p] = lv
         /\ \A q \in Procs \ {p} : pc'[q] = pc[q] /\ loc'[q] = loc[q]
  BY DEF TypeOK, Begin

\* Going on within a call moves only its process.
LEMMA GotoFrame ==
  ASSUME TypeOK, NEW p \in Procs, NEW from, NEW to, Goto(p, from, to)
  PROVE  pc[p] = from /\ pc'[p] = to /\ \A q \in Procs \ {p} : pc'[q] = pc[q]
  BY DEF TypeOK, Goto

\* Ending a call moves only its process, and leaves it about no record.
LEMMA ReturnFrame ==
  ASSUME TypeOK, NEW p \in Procs, NEW from, Return(p, from)
  PROVE  /\ pc[p] = from /\ pc'[p] = "idle" /\ loc'[p] = NoLoc
         /\ \A q \in Procs \ {p} : pc'[q] = pc[q] /\ loc'[q] = loc[q]
  BY GotoFrame DEF TypeOK, Return

\* A process between calls, or in init, knows nothing.
LEMMA IdleLocal ==
  ASSUME NEW p \in Procs, pc'[p] \in IdlePCs, loc'[p].rec = Null
  PROVE  LocalInv(p)'
  BY DEF LocalInv, IdlePCs, PutPCs, GetPCs, RowPCs

\* A process between calls is about no record.
LEMMA NoLocRec == NoLoc.rec = Null
  BY DEF NoLoc

\* Appending makes the log one entry longer.
LEMMA AppendLen ==
  ASSUME TypeOK, NEW op, NEW s, NEW r, NEW prev, AppendAudit(op, s, r, prev)
  PROVE  Len(audit') = Len(audit) + 1
  BY DEF TypeOK, AppendAudit

\* No key is mistaken for a missing file.
LEMMA KeyNotAbsent == \A k \in Keys : k # Absent
  BY VaultConstants DEF Absent

\* A call about a record has a real one; a put under way has a record without
\* a row.
LEMMA PutLocal ==
  ASSUME ProcInv, NEW q \in Procs, pc[q] \in PutPCs
  PROVE  loc[q].rec \in Records /\ loc[q].rec # Null /\ rows[loc[q].rec].status = "none"
  BY VaultConstants DEF ProcInv, LocalInv, PutPCs, IdlePCs

\* A step keeps what the processes know.
LEMMA ProcStep == TypeOK /\ TypeOK' /\ ProcInv /\ [Next]_vars => ProcInv'
  <1> SUFFICES ASSUME TypeOK, TypeOK', ProcInv, [Next]_vars PROVE ProcInv'
    OBVIOUS
  <1>n. Len(audit) \in Nat /\ Len(audit') \in Nat
    BY DEF TypeOK
  <1>u. UNCHANGED rows => RowsGrow
    BY DEF RowsGrow
  <1>1. ASSUME NEW p \in Procs, InitMkdir(p) \/ StrayConnect(p) PROVE ProcInv'
    <2>1. \E l \in {"init_connect", "idle"} : Begin(p, l, NoLoc)
      BY <1>1 DEF InitMkdir, StrayConnect
    <2>2. pc'[p] \in IdlePCs /\ loc'[p] = NoLoc
          /\ \A q \in Procs \ {p} : pc'[q] = pc[q] /\ loc'[q] = loc[q]
      BY <2>1, BeginFrame DEF IdlePCs
    <2>3. rows' = rows /\ files' = files /\ audit' = audit
      BY <1>1 DEF InitMkdir, StrayConnect
    <2>4. LocalInv(p)'
      BY <2>2, NoLocRec, IdleLocal
    <2>5. QED
      BY <1>n, <1>u, <2>2, <2>3, <2>4, ProcFrame, PutLocal, NoLocRec
  <1>2. ASSUME NEW p \in Procs, InitConnect(p) \/ InitScript(p) \/ InitTables(p)
                                \/ InitMeta(p)
        PROVE ProcInv'
    <2>1. loc[p].rec = Null
      BY <1>2 DEF InitConnect, InitScript, InitTables, InitMeta, Return, Goto,
         ProcInv, LocalInv, IdlePCs
    <2>2. /\ pc'[p] \in IdlePCs /\ loc'[p].rec = Null
          /\ \A q \in Procs \ {p} : pc'[q] = pc[q] /\ loc'[q] = loc[q]
      BY <1>2, <2>1, GotoFrame, ReturnFrame, NoLocRec
      DEF InitConnect, InitScript, InitTables, InitMeta, IdlePCs
    <2>3. rows' = rows /\ files' = files /\ Len(audit) <= Len(audit')
      BY <1>2, <1>n, AppendLen DEF InitConnect, InitScript, InitTables, InitMeta
    <2>4. LocalInv(p)'
      BY <2>2, IdleLocal
    <2>5. QED
      BY <1>n, <1>u, <2>2, <2>3, <2>4, ProcFrame, PutLocal
  <1>3. ASSUME NEW p \in Procs, NEW s \in Souls, NEW r \in Records, NEW k \in Keys,
               PutWriteFile(p, s, r, k)
        PROVE  ProcInv'
    <2> DEFINE lv == [NoLoc EXCEPT !.rec = r, !.soul = s, !.key = k]
    <2>1. lv.rec = r /\ lv.soul = s
      BY DEF NoLoc
    <2>2. /\ pc[p] = "idle" /\ pc'[p] = "put_txn" /\ loc'[p].rec = r /\ loc'[p].soul = s
          /\ \A q \in Procs \ {p} : pc'[q] = pc[q] /\ loc'[q] = loc[q]
      BY <1>3, <2>1, BeginFrame DEF PutWriteFile
    <2>3. rows' = rows /\ audit' = audit /\ files' = [files EXCEPT ![r] = k]
          /\ Fresh(r) /\ rows[r].status = "none"
      BY <1>3 DEF PutWriteFile, Fresh
    <2>4. \A q \in Procs \ {p} : loc'[q].rec # r
      BY <2>2, <2>3 DEF Fresh
    <2>5. files'[r] # Absent
      BY <1>3, KeyNotAbsent DEF PutWriteFile, TypeOK
    <2>6. LocalInv(p)'
      BY <2>2, <2>3, <2>4, <2>5 DEF LocalInv, IdlePCs, PutPCs, GetPCs, RowPCs
    <2>7. \A q \in Procs \ {p} : pc[q] \in PutPCs => files'[loc[q].rec] = files[loc[q].rec]
      BY <2>2, <2>3, <2>4, PutLocal DEF TypeOK
    <2>8. QED
      BY <1>n, <1>u, <2>2, <2>3, <2>4, <2>6, <2>7, ProcFrame
  <1>4. ASSUME NEW p \in Procs, PutTxn(p) PROVE ProcInv'
    <2>1. pc[p] \in PutPCs /\ rows[loc[p].rec].status = "none"
      BY <1>4, PutLocal DEF PutTxn, Return, Goto, PutPCs
    <2>2. rows' = [rows EXCEPT ![loc[p].rec] = [status |-> "active", soul |-> loc[p].soul]]
          /\ files' = files /\ Len(audit) <= Len(audit')
      BY <1>4, <1>n, AppendLen DEF PutTxn
    <2>3. RowsGrow
      BY <2>1, <2>2 DEF RowsGrow, TypeOK
    <2>4. /\ pc'[p] = "idle" /\ loc'[p] = NoLoc
          /\ \A q \in Procs \ {p} : pc'[q] = pc[q] /\ loc'[q] = loc[q]
      BY <1>4, ReturnFrame DEF PutTxn
    <2>5. LocalInv(p)'
      BY <2>4, NoLocRec, IdleLocal DEF IdlePCs
    <2>6. \A q \in Procs \ {p} : pc[q] \in PutPCs => rows'[loc[q].rec] = rows[loc[q].rec]
      BY <2>2, PutOwner, PutLocal DEF TypeOK
    <2>7. QED
      BY <1>n, <2>2, <2>3, <2>4, <2>5, <2>6, ProcFrame, PutLocal, NoLocRec
  <1>5. ASSUME NEW p \in Procs, PutTxnFails(p) PROVE ProcInv'
    <2>1. /\ pc[p] = "put_txn" /\ pc'[p] = "put_undo" /\ loc' = loc
          /\ rows' = rows /\ files' = files /\ audit' = audit
          /\ \A q \in Procs \ {p} : pc'[q] = pc[q]
      BY <1>5 DEF PutTxnFails, TypeOK
    <2>2. LocalInv(p)'
      BY <2>1 DEF ProcInv, LocalInv, IdlePCs, PutPCs, GetPCs, RowPCs
    <2>3. QED
      BY <1>n, <1>u, <2>1, <2>2, ProcFrame, PutOwner
  <1>6. ASSUME NEW p \in Procs, PutUndo(p) \/ TombUnlink(p) PROVE ProcInv'
    <2>1. /\ pc'[p] = "idle" /\ loc'[p] = NoLoc
          /\ \A q \in Procs \ {p} : pc'[q] = pc[q] /\ loc'[q] = loc[q]
      BY <1>6, ReturnFrame DEF PutUndo, TombUnlink
    <2>2. /\ rows' = rows /\ audit' = audit
          /\ files' = [files EXCEPT ![loc[p].rec] = Absent]
      BY <1>6 DEF PutUndo, TombUnlink
    <2>3. LocalInv(p)'
      BY <2>1, NoLocRec, IdleLocal DEF IdlePCs
    <2>4. \A q \in Procs \ {p} : pc[q] \in PutPCs => files'[loc[q].rec] = files[loc[q].rec]
      BY <2>2, PutOwner, PutLocal DEF TypeOK
    <2>5. QED
      BY <1>n, <1>u, <2>1, <2>2, <2>3, <2>4, ProcFrame, PutLocal, NoLocRec
  <1>7. ASSUME NEW p \in Procs, NEW s \in Souls, NEW r \in Records,
               NEW k \in Keys \cup {NoKey}, GetSelect(p, s, r, k)
        PROVE  ProcInv'
    <2> DEFINE lv == [NoLoc EXCEPT !.rec = r, !.soul = s, !.key = k]
               lt == [rec |-> r, soul |-> s, key |-> k,
                      op |-> "read.tombstoned", prev |-> 0]
    <2>0. \/ rows[r].status = "tombstoned" /\ Begin(p, "get_last", lt)
          \/ Begin(p, "get_file", lv)
      BY <1>7 DEF GetSelect
    <2>1. /\ lv.rec = r /\ lv.soul = s
          /\ lt.rec = r /\ lt.soul = s /\ lt.op = "read.tombstoned"
      BY DEF NoLoc
    <2> HIDE DEF lv, lt
    <2>2. /\ loc'[p].rec = r /\ loc'[p].soul = s
          /\ \/ pc'[p] = "get_file"
             \/ /\ pc'[p] = "get_last"
                /\ loc'[p].op = "read.tombstoned"
                /\ rows[r].status = "tombstoned"
          /\ \A q \in Procs \ {p} : pc'[q] = pc[q] /\ loc'[q] = loc[q]
      BY <2>0, <2>1, BeginFrame
    <2>3. rows' = rows /\ files' = files /\ audit' = audit /\ RowFor(r, s)
      BY <1>7 DEF GetSelect
    <2>4. LocalInv(p)'
      BY <2>2, <2>3 DEF LocalInv, IdlePCs, PutPCs, GetPCs, RowPCs, RowFor, ReadOps
    <2>5. QED
      BY <1>n, <1>u, <2>2, <2>3, <2>4, ProcFrame, PutLocal DEF RowFor
  <1>8. ASSUME NEW p \in Procs, GetFile(p) PROVE ProcInv'
    <2>1. ReadOutcome(files[loc[p].rec], loc[p].key) \in ReadOps \ {"read.tombstoned"}
      BY DEF ReadOutcome, ReadOps
    <2>2. /\ loc'[p].rec = loc[p].rec /\ loc'[p].soul = loc[p].soul
          /\ loc'[p].op \in ReadOps \ {"read.tombstoned"}
          /\ \A q \in Procs \ {p} : loc'[q] = loc[q]
      BY <1>8, <2>1, LocTyped DEF GetFile, TypeOK, LocType
    <2>3. /\ pc[p] = "get_file" /\ pc'[p] = "get_last"
          /\ \A q \in Procs \ {p} : pc'[q] = pc[q]
      BY <1>8, GotoFrame DEF GetFile
    <2>4. rows' = rows /\ files' = files /\ audit' = audit
      BY <1>8 DEF GetFile
    <2>5. LocalInv(p)'
      BY <2>2, <2>3, <2>4 DEF ProcInv, LocalInv, IdlePCs, PutPCs, GetPCs, RowPCs, RowFor
    <2>6. QED
      BY <1>n, <1>u, <2>2, <2>3, <2>4, <2>5, ProcFrame, PutOwner
  <1>9. ASSUME NEW p \in Procs, GetFileMissing(p) \/ GetAppend(p) PROVE ProcInv'
    <2>1. /\ pc'[p] = "idle" /\ loc'[p] = NoLoc
          /\ \A q \in Procs \ {p} : pc'[q] = pc[q] /\ loc'[q] = loc[q]
      BY <1>9, ReturnFrame DEF GetFileMissing, GetAppend
    <2>2. rows' = rows /\ files' = files /\ Len(audit) <= Len(audit')
      BY <1>9, <1>n, AppendLen DEF GetFileMissing, GetAppend
    <2>3. LocalInv(p)'
      BY <2>1, NoLocRec, IdleLocal DEF IdlePCs
    <2>4. QED
      BY <1>n, <1>u, <2>1, <2>2, <2>3, ProcFrame, PutLocal, NoLocRec
  <1>10. ASSUME NEW p \in Procs, GetLastHash(p) PROVE ProcInv'
    <2>1. /\ loc'[p].rec = loc[p].rec /\ loc'[p].soul = loc[p].soul
          /\ loc'[p].op = loc[p].op /\ loc'[p].prev = Len(audit)
          /\ \A q \in Procs \ {p} : loc'[q] = loc[q]
      BY <1>10, LocTyped DEF GetLastHash, TypeOK, LocType, LastHash
    <2>2. /\ pc[p] = "get_last" /\ pc'[p] = "get_append"
          /\ \A q \in Procs \ {p} : pc'[q] = pc[q]
      BY <1>10, GotoFrame DEF GetLastHash
    <2>3. rows' = rows /\ files' = files /\ audit' = audit
      BY <1>10 DEF GetLastHash
    <2>4. LocalInv(p)'
      BY <1>n, <2>1, <2>2, <2>3 DEF ProcInv, LocalInv, IdlePCs, PutPCs, GetPCs,
         RowPCs, RowFor
    <2>5. QED
      BY <1>n, <1>u, <2>1, <2>2, <2>3, <2>4, ProcFrame, PutOwner
  <1>11. ASSUME NEW p \in Procs, NEW s \in Souls, NEW r \in Records, TombSelect(p, s, r)
         PROVE  ProcInv'
    <2> DEFINE lv == [NoLoc EXCEPT !.rec = r, !.soul = s]
    <2>0. Begin(p, "tomb_txn", lv)
      BY <1>11 DEF TombSelect
    <2>1. lv.rec = r /\ lv.soul = s
      BY DEF NoLoc
    <2> HIDE DEF lv
    <2>2. /\ loc'[p].rec = r /\ loc'[p].soul = s /\ pc'[p] = "tomb_txn"
          /\ \A q \in Procs \ {p} : pc'[q] = pc[q] /\ loc'[q] = loc[q]
      BY <2>0, <2>1, BeginFrame
    <2>3. rows' = rows /\ files' = files /\ audit' = audit /\ RowFor(r, s)
      BY <1>11 DEF TombSelect
    <2>4. LocalInv(p)'
      BY <2>2, <2>3 DEF LocalInv, IdlePCs, PutPCs, GetPCs, RowPCs, RowFor
    <2>5. QED
      BY <1>n, <1>u, <2>2, <2>3, <2>4, ProcFrame, PutLocal DEF RowFor
  <1>12. ASSUME NEW p \in Procs, TombTxn(p) PROVE ProcInv'
    <2>1. /\ pc[p] = "tomb_txn" /\ pc'[p] = "tomb_unlink" /\ loc' = loc
          /\ \A q \in Procs \ {p} : pc'[q] = pc[q]
      BY <1>12, GotoFrame DEF TombTxn
    <2>2. loc[p].rec \in Records /\ RowFor(loc[p].rec, loc[p].soul)
          /\ loc[p].soul \in Souls
      BY <2>1 DEF ProcInv, LocalInv, IdlePCs, RowPCs
    <2>3. rows' = [rows EXCEPT ![loc[p].rec].status = "tombstoned"]
          /\ files' = files /\ Len(audit) <= Len(audit')
      BY <1>12, <1>n, AppendLen DEF TombTxn
    <2>4. RowsGrow /\ rows'[loc[p].rec].status = "tombstoned"
          /\ rows'[loc[p].rec].soul = rows[loc[p].rec].soul
      BY <2>2, <2>3 DEF RowsGrow, TypeOK, RowType
    <2>5. LocalInv(p)'
      BY <2>1, <2>2, <2>4 DEF LocalInv, IdlePCs, PutPCs, GetPCs, RowPCs, RowFor
    <2>6. \A q \in Procs \ {p} : pc[q] \in PutPCs => rows'[loc[q].rec] = rows[loc[q].rec]
      BY <2>2, <2>3, PutOwner, PutLocal DEF TypeOK
    <2>7. QED
      BY <1>n, <2>1, <2>3, <2>4, <2>5, <2>6, ProcFrame, PutOwner
  <1>13. ASSUME NEW p \in Procs, Crash(p) PROVE ProcInv'
    <2>1. /\ pc'[p] = "idle" /\ loc'[p] = NoLoc
          /\ rows' = rows /\ files' = files /\ audit' = audit
          /\ \A q \in Procs \ {p} : pc'[q] = pc[q] /\ loc'[q] = loc[q]
      BY <1>13 DEF Crash, TypeOK
    <2>2. LocalInv(p)'
      BY <2>1, NoLocRec, IdleLocal DEF IdlePCs
    <2>3. QED
      BY <1>n, <1>u, <2>1, <2>2, ProcFrame, PutLocal, NoLocRec
  <1>14. ASSUME NEW r \in Records, BitRot(r) PROVE ProcInv'
    <2>1. /\ pc' = pc /\ loc' = loc /\ rows' = rows /\ audit' = audit
          /\ files' = [files EXCEPT ![r] = Damaged]
      BY <1>14 DEF BitRot
    <2>2. \A x \in Records : files'[x] = Absent => files[x] = Absent
      BY <2>1 DEF TypeOK, Damaged, Absent
    <2>3. SUFFICES ASSUME NEW q \in Procs PROVE LocalInv(q)'
      BY DEF ProcInv
    <2>4. pc[q] \in PutPCs => \A x \in Procs : loc'[x].rec = loc[q].rec => x = q
      BY <2>1, PutOwner
    <2>5. QED
      BY <1>n, <1>u, <2>1, <2>2, <2>4, KeepLocal, PutLocal DEF ProcInv
  <1>15. CASE UNCHANGED vars
    <2>1. pc' = pc /\ loc' = loc /\ rows' = rows /\ audit' = audit /\ files' = files
      BY <1>15 DEF vars
    <2>2. SUFFICES ASSUME NEW q \in Procs PROVE LocalInv(q)'
      BY DEF ProcInv
    <2>3. QED
      BY <1>n, <1>u, <2>1, KeepLocal, PutOwner DEF ProcInv
  <1>16. QED
    BY <1>1, <1>2, <1>3, <1>4, <1>5, <1>6, <1>7, <1>8, <1>9, <1>10, <1>11,
       <1>12, <1>13, <1>14, <1>15 DEF Next, Call, Step

-----------------------------------------------------------------------------
(* The log.                                                                *)

\* What appending does to the entries.
LEMMA AppendAt ==
  ASSUME TypeOK, NEW op, NEW s, NEW r, NEW prev, AppendAudit(op, s, r, prev)
  PROVE  /\ Len(audit) \in Nat
         /\ Len(audit') = Len(audit) + 1
         /\ \A i \in 1..Len(audit) : audit'[i] = audit[i]
         /\ audit'[Len(audit) + 1] = [op |-> op, soul |-> s, rec |-> r, prev |-> prev]
  BY DEF TypeOK, AppendAudit

\* The four steps that write to the log.
LEMMA LogSteps ==
  ASSUME TypeOK, [Next]_vars
  PROVE  \/ audit' = audit
         \/ \E p \in Procs : InitMeta(p) \/ PutTxn(p) \/ GetAppend(p) \/ TombTxn(p)
  BY DEF Next, Call, Step, vars, InitMkdir, StrayConnect, InitConnect, InitScript,
     InitTables, PutWriteFile, PutTxnFails, PutUndo, GetSelect, GetFile,
     GetFileMissing, GetLastHash, TombSelect, TombUnlink, Crash, BitRot

\* The two steps that write to the index.
LEMMA RowSteps ==
  ASSUME [Next]_vars
  PROVE  rows' = rows \/ \E p \in Procs : PutTxn(p) \/ TombTxn(p)
  BY DEF Next, Call, Step, vars, InitMkdir, StrayConnect, InitConnect, InitScript,
     InitTables, InitMeta, PutWriteFile, PutTxnFails, PutUndo, GetSelect, GetFile,
     GetFileMissing, GetLastHash, GetAppend, TombSelect, TombUnlink, Crash, BitRot

\* The steps that write to the records directory.
LEMMA FileSteps ==
  ASSUME [Next]_vars
  PROVE  \/ files' = files
         \/ \E p \in Procs : PutUndo(p) \/ TombUnlink(p)
         \/ \E p \in Procs, s \in Souls, r \in Records, k \in Keys : PutWriteFile(p, s, r, k)
         \/ \E r \in Records : BitRot(r)
  BY DEF Next, Call, Step, vars, InitMkdir, StrayConnect, InitConnect, InitScript,
     InitTables, InitMeta, PutTxn, PutTxnFails, GetSelect, GetFile, GetFileMissing,
     GetLastHash, GetAppend, TombSelect, TombTxn, Crash

\* A writer chains its entry to the last one, a reader to an earlier one.
LEMMA ChainStep == TypeOK /\ ProcInv /\ ForksOnlyAtReads /\ [Next]_vars => ForksOnlyAtReads'
  <1> SUFFICES ASSUME TypeOK, ProcInv, ForksOnlyAtReads, [Next]_vars
               PROVE  ForksOnlyAtReads'
    OBVIOUS
  <1>1. ASSUME NEW op, NEW s, NEW r, NEW prev \in Nat, AppendAudit(op, s, r, prev),
               prev <= Len(audit), op \in WriteOps => prev = Len(audit)
        PROVE  ForksOnlyAtReads'
    <2>1. SUFFICES ASSUME NEW i \in 1..Len(audit')
                   PROVE  /\ audit'[i].prev < i
                          /\ audit'[i].op \in WriteOps => audit'[i].prev = i - 1
      BY DEF ForksOnlyAtReads
    <2>2. /\ Len(audit) \in Nat
          /\ Len(audit') = Len(audit) + 1
          /\ \A k \in 1..Len(audit) : audit'[k] = audit[k]
          /\ audit'[Len(audit) + 1] = [op |-> op, soul |-> s, rec |-> r, prev |-> prev]
      BY <1>1, AppendAt
    <2>3. CASE i \in 1..Len(audit)
      BY <2>2, <2>3 DEF ForksOnlyAtReads
    <2>4. CASE i = Len(audit) + 1
      BY <1>1, <2>2, <2>4
    <2>5. QED
      BY <2>2, <2>3, <2>4
  <1>2. ASSUME NEW p \in Procs, InitMeta(p) \/ PutTxn(p) \/ TombTxn(p)
        PROVE  ForksOnlyAtReads'
    <2>1. Len(audit) \in Nat
      BY DEF TypeOK
    <2>2. PICK op, s, r : AppendAudit(op, s, r, Len(audit))
      BY <1>2 DEF InitMeta, PutTxn, TombTxn, LastHash
    <2>3. QED
      BY <1>1, <2>1, <2>2
  <1>3. ASSUME NEW p \in Procs, GetAppend(p) PROVE ForksOnlyAtReads'
    <2>1. loc[p].op \in ReadOps /\ loc[p].prev <= Len(audit) /\ loc[p].prev \in Nat
      BY <1>3, LocTyped DEF GetAppend, Return, Goto, ProcInv, LocalInv, GetPCs
    <2>2. loc[p].op \notin WriteOps
      BY <2>1 DEF ReadOps, WriteOps
    <2>3. QED
      BY <1>1, <1>3, <2>1, <2>2 DEF GetAppend
  <1>4. CASE audit' = audit
    BY <1>4 DEF ForksOnlyAtReads
  <1>5. QED
    BY <1>2, <1>3, <1>4, LogSteps

\* What appending does to the entries of a kind about a record.
LEMMA EntriesAppend ==
  ASSUME TypeOK, NEW op, NEW s, NEW r, NEW prev, AppendAudit(op, s, r, prev),
         NEW o, NEW x
  PROVE  Entries(o, x)' = Entries(o, x) \cup
           (IF op = o /\ r = x THEN {Len(audit) + 1} ELSE {})
  <1>0. /\ Len(audit) \in Nat
        /\ Len(audit') = Len(audit) + 1
        /\ \A i \in 1..Len(audit) : audit'[i] = audit[i]
        /\ audit'[Len(audit) + 1] = [op |-> op, soul |-> s, rec |-> r, prev |-> prev]
    BY AppendAt
  <1>1. 1..Len(audit') = 1..Len(audit) \cup {Len(audit) + 1}
    BY <1>0
  <1>2. Len(audit) + 1 \notin 1..Len(audit)
    BY <1>0
  <1>3. Entries(o, x)' = { i \in 1..Len(audit') : audit'[i].op = o /\ audit'[i].rec = x }
    BY DEF Entries
  <1>4. audit'[Len(audit) + 1].op = op /\ audit'[Len(audit) + 1].rec = r
    BY <1>0
  <1>5. QED
    BY <1>0, <1>1, <1>2, <1>3, <1>4 DEF Entries

\* Logging keeps a record accounted for when the row and the entry go together.
LEMMA LogOther ==
  ASSUME TypeOK, NEW x \in Records, AccountedFor(x), rows'[x] = rows[x],
         NEW op, NEW s, NEW r, NEW prev, AppendAudit(op, s, r, prev),
         r # x \/ (op \in ReadOps /\ s = rows[x].soul /\ rows[x].status # "none")
  PROVE  AccountedFor(x)'
  <1>1. /\ Len(audit) \in Nat
        /\ Len(audit') = Len(audit) + 1
        /\ \A k \in 1..Len(audit) : audit'[k] = audit[k]
        /\ audit'[Len(audit) + 1] = [op |-> op, soul |-> s, rec |-> r, prev |-> prev]
    BY AppendAt
  <1>2. Entries("put", x)' = Entries("put", x) /\ Entries("tombstone", x)' = Entries("tombstone", x)
    <2>1. \A o : Entries(o, x)' = Entries(o, x) \cup
                   (IF op = o /\ r = x THEN {Len(audit) + 1} ELSE {})
      BY EntriesAppend
    <2>2. r = x => op # "put" /\ op # "tombstone"
      BY DEF ReadOps
    <2>3. QED
      BY <2>1, <2>2
  <1>3. ASSUME NEW j \in 1..Len(audit'), audit'[j].rec = x
        PROVE  audit'[j].soul = rows'[x].soul /\ \E i \in Entries("put", x)' : i <= j
    <2>1. CASE j \in 1..Len(audit)
      BY <1>1, <1>2, <1>3, <2>1 DEF AccountedFor
    <2>2. CASE j = Len(audit) + 1
      <3>1. s = rows[x].soul /\ rows[x].status # "none"
        BY <1>1, <1>3, <2>2
      <3>2. PICK i \in Entries("put", x) : TRUE
        BY <3>1 DEF AccountedFor
      <3>3. i <= j
        BY <1>1, <2>2 DEF Entries
      <3>4. QED
        BY <1>1, <1>2, <2>2, <3>1, <3>2, <3>3
    <2>3. QED
      BY <1>1, <2>1, <2>2
  <1>4. QED
    BY <1>2, <1>3 DEF AccountedFor


\* A step keeps the log and the index in agreement.
LEMMA AgreeStep ==
  TypeOK /\ ProcInv /\ AuditAgreesWithIndex /\ [Next]_vars => AuditAgreesWithIndex'
  <1> SUFFICES ASSUME TypeOK, ProcInv, AuditAgreesWithIndex, [Next]_vars,
                      NEW x \in Records
               PROVE  AccountedFor(x)'
    BY DEF AuditAgreesWithIndex
  <1>a. AccountedFor(x)
    BY DEF AuditAgreesWithIndex
  <1>1. ASSUME NEW p \in Procs, InitMeta(p) PROVE AccountedFor(x)'
    <2>1. Null # x
      BY VaultConstants
    <2>2. rows' = rows /\ AppendAudit("vault.init", Null, Null, LastHash)
      BY <1>1 DEF InitMeta
    <2>3. QED
      BY <1>a, <2>1, <2>2, LogOther
  <1>2. ASSUME NEW p \in Procs, GetAppend(p) PROVE AccountedFor(x)'
    <2>1. pc[p] = "get_append"
      BY <1>2 DEF GetAppend, Return, Goto
    <2>2. RowFor(loc[p].rec, loc[p].soul) /\ loc[p].op \in ReadOps
      BY <2>1 DEF ProcInv, LocalInv, RowPCs, GetPCs
    <2>3. rows' = rows /\ AppendAudit(loc[p].op, loc[p].soul, loc[p].rec, loc[p].prev)
      BY <1>2 DEF GetAppend
    <2>4. loc[p].rec # x \/ (loc[p].op \in ReadOps /\ loc[p].soul = rows[x].soul
                              /\ rows[x].status # "none")
      BY <2>2 DEF RowFor
    <2>5. QED
      BY <1>a, <2>3, <2>4, LogOther
  <1>3. ASSUME NEW p \in Procs, PutTxn(p) PROVE AccountedFor(x)'
    <2> DEFINE s == loc[p].soul
    <2>1. pc[p] \in PutPCs
      BY <1>3 DEF PutTxn, Return, Goto, PutPCs
    <2>2. loc[p].rec \in Records /\ rows[loc[p].rec].status = "none"
      BY <2>1, PutLocal
    <2>3. /\ rows' = [rows EXCEPT ![loc[p].rec] = [status |-> "active", soul |-> s]]
          /\ AppendAudit("put", s, loc[p].rec, LastHash)
      BY <1>3 DEF PutTxn
    <2>4. CASE x # loc[p].rec
      <3>1. rows'[x] = rows[x]
        BY <2>2, <2>3, <2>4 DEF TypeOK
      <3>2. QED
        BY <1>a, <2>3, <2>4, <3>1, LogOther
    <2>5. CASE x = loc[p].rec
      <3>1. Entries("put", x) = {} /\ Entries("tombstone", x) = {}
            /\ \A j \in 1..Len(audit) : audit[j].rec # x
        BY <1>a, <2>2, <2>5 DEF AccountedFor
      <3>2. Entries("put", x)' = {Len(audit) + 1} /\ Entries("tombstone", x)' = {}
        BY <2>3, <2>5, <3>1, EntriesAppend
      <3>3. rows'[x].status = "active" /\ rows'[x].soul = s
        BY <2>2, <2>3, <2>5 DEF TypeOK
      <3>4. /\ Len(audit) \in Nat
            /\ Len(audit') = Len(audit) + 1
            /\ \A k \in 1..Len(audit) : audit'[k] = audit[k]
            /\ audit'[Len(audit) + 1].soul = s
        <4>1. audit'[Len(audit) + 1] = [op |-> "put", soul |-> s, rec |-> loc[p].rec,
                                        prev |-> LastHash]
          BY <2>3, AppendAt
        <4>2. QED
          BY <2>3, <4>1, AppendAt
      <3>5. \A j \in 1..Len(audit') : audit'[j].rec = x =>
              audit'[j].soul = s /\ j = Len(audit) + 1
        BY <3>1, <3>4
      <3>6. QED
        BY <3>2, <3>3, <3>4, <3>5 DEF AccountedFor
    <2>6. QED
      BY <2>4, <2>5
  <1>4. ASSUME NEW p \in Procs, TombTxn(p) PROVE AccountedFor(x)'
    <2>1. pc[p] = "tomb_txn"
      BY <1>4 DEF TombTxn, Goto
    <2>2. loc[p].rec \in Records /\ RowFor(loc[p].rec, loc[p].soul)
      BY <2>1 DEF ProcInv, LocalInv, RowPCs, IdlePCs
    <2>3. /\ rows' = [rows EXCEPT ![loc[p].rec].status = "tombstoned"]
          /\ AppendAudit("tombstone", loc[p].soul, loc[p].rec, LastHash)
      BY <1>4 DEF TombTxn
    <2>4. CASE x # loc[p].rec
      <3>1. rows'[x] = rows[x]
        BY <2>2, <2>3, <2>4 DEF TypeOK
      <3>2. QED
        BY <1>a, <2>3, <2>4, <3>1, LogOther
    <2>5. CASE x = loc[p].rec
      <3>1. rows[x].status # "none" /\ rows[x].soul = loc[p].soul
        BY <2>2, <2>5 DEF RowFor
      <3>2. Entries("put", x)' = Entries("put", x)
            /\ Entries("tombstone", x)' = Entries("tombstone", x) \cup {Len(audit) + 1}
        <4>1. \A o : Entries(o, x)' = Entries(o, x) \cup
                       (IF "tombstone" = o /\ loc[p].rec = x THEN {Len(audit) + 1} ELSE {})
          BY <2>3, EntriesAppend
        <4>2. QED
          BY <2>5, <4>1
      <3>3. rows'[x].status = "tombstoned" /\ rows'[x].soul = rows[x].soul
        BY <2>2, <2>3, <2>5 DEF TypeOK, RowType
      <3>4. PICK i \in Entries("put", x) : TRUE
        BY <1>a, <3>1 DEF AccountedFor
      <3>5. i \in 1..Len(audit) /\ Len(audit) \in Nat
        BY DEF Entries, TypeOK
      <3>6. /\ Len(audit') = Len(audit) + 1
            /\ \A k \in 1..Len(audit) : audit'[k] = audit[k]
            /\ audit'[Len(audit) + 1].soul = loc[p].soul
        <4>1. audit'[Len(audit) + 1] = [op |-> "tombstone", soul |-> loc[p].soul,
                                        rec |-> loc[p].rec, prev |-> LastHash]
          BY <2>3, AppendAt
        <4>2. QED
          BY <2>3, <4>1, AppendAt
      <3>7. ASSUME NEW j \in 1..Len(audit'), audit'[j].rec = x
            PROVE  audit'[j].soul = rows'[x].soul /\ \E k \in Entries("put", x)' : k <= j
        <4>1. CASE j \in 1..Len(audit)
          BY <1>a, <3>2, <3>3, <3>6, <3>7, <4>1 DEF AccountedFor
        <4>2. CASE j = Len(audit) + 1
          BY <3>1, <3>2, <3>3, <3>4, <3>5, <3>6, <4>2
        <4>3. QED
          BY <3>5, <3>6, <4>1, <4>2
      <3>8. QED
        BY <1>a, <3>1, <3>2, <3>3, <3>7 DEF AccountedFor
    <2>6. QED
      BY <2>4, <2>5
  <1>5. CASE audit' = audit /\ rows' = rows
    BY <1>5, <1>a DEF AccountedFor, Entries
  <1>6. rows' = rows \/ \E p \in Procs : PutTxn(p) \/ TombTxn(p)
    BY RowSteps
  <1>7. QED
    BY <1>1, <1>2, <1>3, <1>4, <1>5, <1>6, LogSteps

-----------------------------------------------------------------------------
(* The files.                                                              *)

\* A step keeps every active record's payload file: only an undone put and a
\* tombstone remove files, and neither is about an active record.
LEMMA FileStep ==
  TypeOK /\ ProcInv /\ ActiveHasFile /\ [Next]_vars => ActiveHasFile'
  <1> SUFFICES ASSUME TypeOK, ProcInv, ActiveHasFile, [Next]_vars,
                      NEW r \in Records, rows'[r].status = "active"
               PROVE  files'[r] # Absent
    BY DEF ActiveHasFile
  <1>1. ASSUME NEW p \in Procs, PutTxn(p) PROVE files'[r] # Absent
    <2>1. pc[p] = "put_txn" /\ files' = files
          /\ rows' = [rows EXCEPT ![loc[p].rec] = [status |-> "active", soul |-> loc[p].soul]]
      BY <1>1 DEF PutTxn, Return, Goto
    <2>2. files[loc[p].rec] # Absent
      BY <2>1 DEF ProcInv, LocalInv
    <2>3. QED
      BY <2>1, <2>2 DEF ActiveHasFile, TypeOK
  <1>2. ASSUME NEW p \in Procs, TombTxn(p) PROVE files'[r] # Absent
    BY <1>2 DEF TombTxn, ActiveHasFile, TypeOK, RowType
  <1>3. ASSUME rows' = rows PROVE files'[r] # Absent
    <2>1. rows[r].status = "active" /\ files[r] # Absent
      BY <1>3 DEF ActiveHasFile
    <2>2. ASSUME NEW p \in Procs, PutUndo(p) \/ TombUnlink(p) PROVE files'[r] # Absent
      <3>1. pc[p] = "put_undo" \/ pc[p] = "tomb_unlink"
        BY <2>2 DEF PutUndo, TombUnlink, Return, Goto
      <3>2. rows[loc[p].rec].status \in {"none", "tombstoned"}
        BY <3>1 DEF ProcInv, LocalInv, PutPCs
      <3>3. QED
        BY <2>1, <2>2, <3>2 DEF PutUndo, TombUnlink, TypeOK
    <2>3. ASSUME NEW p \in Procs, NEW s \in Souls, NEW x \in Records, NEW k \in Keys,
                 PutWriteFile(p, s, x, k)
          PROVE  files'[r] # Absent
      BY <2>1, <2>3, KeyNotAbsent DEF PutWriteFile, TypeOK
    <2>4. ASSUME NEW x \in Records, BitRot(x) PROVE files'[r] # Absent
      BY <2>1, <2>4 DEF BitRot, TypeOK, Damaged, Absent
    <2>5. CASE files' = files
      BY <2>1, <2>5
    <2>6. QED
      BY <2>2, <2>3, <2>4, <2>5, FileSteps
  <1>4. QED
    BY <1>1, <1>2, <1>3, RowSteps

-----------------------------------------------------------------------------
(* The theorems.                                                           *)

\* The inductive invariant holds of a vault that does not exist yet.
LEMMA InitIInv == Init => IInv
  <1> SUFFICES ASSUME Init PROVE IInv
    OBVIOUS
  <1>1. TypeOK
    BY VaultConstants DEF Init, TypeOK, DbStages, RowType, NoRow, Files, Absent,
       PCs, NoLoc, LocType
  <1>2. ProcInv
    BY NoLocRec DEF Init, ProcInv, LocalInv, IdlePCs, PutPCs, GetPCs, RowPCs
  <1>3. Len(audit) = 0 /\ \A o, x : Entries(o, x) = {}
    BY DEF Init, Entries
  <1>4. ForksOnlyAtReads /\ ActiveHasFile /\ AuditAgreesWithIndex
    BY <1>3 DEF Init, NoRow, ForksOnlyAtReads, ActiveHasFile, AuditAgreesWithIndex,
       AccountedFor
  <1>5. QED
    BY <1>1, <1>2, <1>4 DEF IInv

\* Every step keeps the inductive invariant.
LEMMA StepIInv == IInv /\ [Next]_vars => IInv'
  BY TypeStep, ProcStep, ChainStep, FileStep, AgreeStep DEF IInv

\* The inductive invariant (types, what processes know, the chain, the files and
\* the log against the index) holds in every reachable state.
THEOREM Inductive == Spec => []IInv
  BY InitIInv, StepIInv, PTL DEF Spec

\* Every variable always holds a value of its type.
THEOREM Typing == Spec => []TypeOK
  BY Inductive, PTL DEF IInv

\* However calls interleave, fail and crash, init, put and tombstone chain
\* their audit entries to the entry before: only a read can fork the chain.
THEOREM ChainForksOnlyAtReads == Spec => []ForksOnlyAtReads
  BY Inductive, PTL DEF IInv

\* An active record always has its payload file.
THEOREM ActiveRecordsHaveFiles == Spec => []ActiveHasFile
  BY Inductive, PTL DEF IInv

\* The audit log accounts for the index at every moment.
THEOREM AuditAccountsForIndex == Spec => []AuditAgreesWithIndex
  BY Inductive, PTL DEF IInv

\* Where no process reads, the audit chain always verifies.
THEOREM WritersKeepChain ==
  ASSUME Readers = {}
  PROVE  Spec => []ChainOK
  <1> DEFINE NoRead == \A p \in Procs : pc[p] \notin {"get_file", "get_last", "get_append"}
             NoReadEntry == \A i \in 1..Len(audit) : audit[i].op \in WriteOps
  <1>a. Readers = {}
    OBVIOUS
  <1>1. Init => NoRead /\ NoReadEntry
    BY DEF Init
  <1>2. TypeOK /\ NoRead /\ [Next]_vars => NoRead'
    <2> SUFFICES ASSUME TypeOK, NoRead, [Next]_vars PROVE NoRead'
      OBVIOUS
    <2>1. ASSUME NEW p \in Procs, NEW l, NEW lv, Begin(p, l, lv),
                 l \notin {"get_file", "get_last", "get_append"}
          PROVE  NoRead'
      BY <2>1, BeginFrame
    <2>2. ASSUME NEW p \in Procs, NEW from, NEW to, Goto(p, from, to),
                 to \notin {"get_file", "get_last", "get_append"}
          PROVE  NoRead'
      BY <2>2, GotoFrame
    <2>3. ASSUME NEW p \in Procs, Call(p) PROVE NoRead'
      <3>1. ASSUME NEW s \in Souls, NEW r \in Records, NEW k \in Keys \cup {NoKey}
            PROVE  ~GetSelect(p, s, r, k)
        BY <1>a DEF GetSelect
      <3>2. ASSUME NEW s \in Souls, NEW r \in Records, NEW k \in Keys,
                   PutWriteFile(p, s, r, k)
            PROVE  NoRead'
        BY <2>1, <3>2 DEF PutWriteFile
      <3>3. ASSUME NEW s \in Souls, NEW r \in Records, TombSelect(p, s, r)
            PROVE  NoRead'
        BY <2>1, <3>3 DEF TombSelect
      <3>4. ASSUME InitMkdir(p) \/ StrayConnect(p) PROVE NoRead'
        BY <2>1, <3>4 DEF InitMkdir, StrayConnect
      <3>5. QED
        BY <2>3, <3>1, <3>2, <3>3, <3>4 DEF Call
    <2>4. ASSUME NEW p \in Procs, Step(p) PROVE NoRead'
      BY <2>2, <2>4 DEF Step, InitConnect, InitScript, InitTables, InitMeta, PutTxn,
         PutUndo, GetFile, GetFileMissing, GetLastHash, GetAppend, TombTxn, TombUnlink,
         Goto, Return, PutTxnFails, TypeOK
    <2>5. ASSUME NEW p \in Procs, Crash(p) PROVE NoRead'
      BY <2>5 DEF Crash, TypeOK
    <2>6. CASE pc' = pc
      BY <2>6
    <2>7. QED
      BY <2>3, <2>4, <2>5, <2>6 DEF Next, BitRot, vars
  <1>3. TypeOK /\ NoRead /\ NoReadEntry /\ [Next]_vars => NoReadEntry'
    <2> SUFFICES ASSUME TypeOK, NoRead, NoReadEntry, [Next]_vars PROVE NoReadEntry'
      OBVIOUS
    <2>1. ASSUME NEW p \in Procs, InitMeta(p) \/ PutTxn(p) \/ TombTxn(p)
          PROVE  NoReadEntry'
      <3>1. PICK op, s, r, prev : AppendAudit(op, s, r, prev) /\ op \in WriteOps
        BY <2>1 DEF InitMeta, PutTxn, TombTxn, WriteOps
      <3>2. /\ Len(audit) \in Nat
            /\ Len(audit') = Len(audit) + 1
            /\ \A i \in 1..Len(audit) : audit'[i] = audit[i]
            /\ audit'[Len(audit) + 1] = [op |-> op, soul |-> s, rec |-> r, prev |-> prev]
        BY <3>1, AppendAt
      <3>3. audit'[Len(audit) + 1].op \in WriteOps
        BY <3>1, <3>2
      <3>4. QED
        BY <3>2, <3>3
    <2>2. ASSUME NEW p \in Procs, GetAppend(p) PROVE NoReadEntry'
      BY <2>2 DEF GetAppend, Return, Goto
    <2>3. CASE audit' = audit
      BY <2>3
    <2>4. QED
      BY <2>1, <2>2, <2>3, LogSteps
  <1>4. IInv /\ NoReadEntry => ChainOK
    BY DEF IInv, ForksOnlyAtReads, ChainOK, VerifyAuditChain
  <1>5. QED
    BY <1>1, <1>2, <1>3, <1>4, Inductive, Typing, PTL DEF Spec

-----------------------------------------------------------------------------
(* Files that no active record accounts for.                               *)

\* A payload file without an active record is always some call's to deal with,
\* unless a process was killed.
THEOREM StrayFilesArePending == Spec => []StrayFilesPending
  <1> DEFINE Holds(p, r) == loc[p].rec = r /\ pc[p] \in {"put_txn", "put_undo", "tomb_unlink"}
             Pending(r) == faults > 0 \/ \E p \in Procs : Holds(p, r)
  <1>1. Init => StrayFilesPending
    BY DEF Init, StrayFilesPending
  <1>2. ASSUME TypeOK, TypeOK', StrayFilesPending, [Next]_vars PROVE StrayFilesPending'
    <2> SUFFICES ASSUME NEW r \in Records, files'[r] # Absent, rows'[r].status # "active"
                 PROVE  Pending(r)'
      BY DEF StrayFilesPending
    <2>n. faults \in Nat /\ faults' \in Nat
      BY <1>2 DEF TypeOK
    <2>s. files[r] # Absent /\ rows[r].status # "active" => Pending(r)
      BY <1>2 DEF StrayFilesPending
    <2>k. ASSUME NEW p \in Procs, files[r] # Absent, rows[r].status # "active", ~Holds(p, r),
                 faults' = faults, \A q \in Procs \ {p} : pc'[q] = pc[q] /\ loc'[q] = loc[q]
          PROVE  Pending(r)'
      BY <2>s, <2>k
    <2> HIDE DEF Pending
    <2>1. ASSUME NEW p \in Procs, NEW l, NEW lv, Begin(p, l, lv),
                 rows'[r] = rows[r], files'[r] = files[r]
          PROVE  Pending(r)'
      <3>1. ~Holds(p, r) /\ faults' = faults
        BY <1>2, <2>1, BeginFrame DEF Begin
      <3>2. QED
        BY <1>2, <2>1, <2>k, <3>1, BeginFrame
    <2>2. ASSUME NEW p \in Procs, NEW from, Return(p, from), files'[r] = files[r],
                 rows'[r] = rows[r], loc[p].rec # r \/ from \notin {"put_txn", "put_undo", "tomb_unlink"}
          PROVE  Pending(r)'
      <3>1. ~Holds(p, r) /\ faults' = faults
        BY <1>2, <2>2, ReturnFrame DEF Return, Goto
      <3>2. QED
        BY <1>2, <2>2, <2>k, <3>1, ReturnFrame
    <2>3. ASSUME NEW p \in Procs, NEW from, NEW to, Goto(p, from, to), files' = files,
                 rows' = rows, from \notin {"put_txn", "put_undo", "tomb_unlink"},
                 \A q \in Procs \ {p} : loc'[q] = loc[q]
          PROVE  Pending(r)'
      <3>1. ~Holds(p, r) /\ faults' = faults
        BY <1>2, <2>3 DEF Goto
      <3>2. QED
        BY <1>2, <2>3, <2>k, <3>1, GotoFrame
    <2>4. ASSUME NEW p \in Procs, InitMkdir(p) \/ StrayConnect(p) PROVE Pending(r)'
      BY <2>1, <2>4 DEF InitMkdir, StrayConnect
    <2>5. ASSUME NEW p \in Procs, NEW s \in Souls, NEW x \in Records,
                 NEW k \in Keys \cup {NoKey}, GetSelect(p, s, x, k) \/ TombSelect(p, s, x)
          PROVE  Pending(r)'
      BY <2>1, <2>5 DEF GetSelect, TombSelect
    <2>6. ASSUME NEW p \in Procs, NEW s \in Souls, NEW x \in Records, NEW k \in Keys,
                 PutWriteFile(p, s, x, k)
          PROVE  Pending(r)'
      <3> DEFINE lv == [NoLoc EXCEPT !.rec = x, !.soul = s, !.key = k]
      <3>1. Begin(p, "put_txn", lv) /\ rows' = rows /\ files' = [files EXCEPT ![x] = k]
        BY <2>6 DEF PutWriteFile
      <3>2. lv.rec = x
        BY DEF NoLoc
      <3> HIDE DEF lv
      <3>3. CASE x = r
        BY <1>2, <3>1, <3>2, <3>3, BeginFrame DEF Pending
      <3>4. CASE x # r
        BY <1>2, <2>1, <3>1, <3>4 DEF TypeOK
      <3>5. QED
        BY <3>3, <3>4
    <2>7. ASSUME NEW p \in Procs, InitConnect(p) \/ InitScript(p) \/ InitTables(p)
                   \/ InitMeta(p) \/ GetFile(p) \/ GetFileMissing(p) \/ GetLastHash(p)
                   \/ GetAppend(p)
          PROVE  Pending(r)'
      BY <1>2, <2>2, <2>3, <2>7 DEF InitConnect, InitScript, InitTables, InitMeta, GetFile,
         GetFileMissing, GetLastHash, GetAppend, TypeOK
    <2>8. ASSUME NEW p \in Procs, PutTxn(p) PROVE Pending(r)'
      <3>1. loc[p].rec # r
        BY <1>2, <2>8 DEF PutTxn, TypeOK
      <3>2. rows'[r] = rows[r] /\ files'[r] = files[r] /\ Return(p, "put_txn")
        BY <1>2, <2>8, <3>1 DEF PutTxn, TypeOK
      <3>3. QED
        BY <2>2, <3>1, <3>2
    <2>9. ASSUME NEW p \in Procs, PutTxnFails(p) PROVE Pending(r)'
      <3>1. Pending(r)
        BY <2>9, <2>s DEF PutTxnFails
      <3>2. faults' >= faults /\ loc' = loc /\ pc[p] = "put_txn" /\ pc'[p] = "put_undo"
            /\ \A q \in Procs \ {p} : pc'[q] = pc[q]
        BY <1>2, <2>n, <2>9 DEF PutTxnFails, TypeOK
      <3>3. QED
        BY <2>n, <3>1, <3>2 DEF Pending
    <2>10. ASSUME NEW p \in Procs, PutUndo(p) \/ TombUnlink(p) PROVE Pending(r)'
      <3>1. loc[p].rec # r
        BY <1>2, <2>10 DEF PutUndo, TombUnlink, TypeOK
      <3>2. rows' = rows /\ files'[r] = files[r] /\ \E from : Return(p, from)
        BY <1>2, <2>10, <3>1 DEF PutUndo, TombUnlink, TypeOK
      <3>3. QED
        BY <2>2, <3>1, <3>2
    <2>11. ASSUME NEW p \in Procs, TombTxn(p) PROVE Pending(r)'
      <3>1. /\ pc[p] = "tomb_txn" /\ pc'[p] = "tomb_unlink" /\ loc' = loc /\ faults' = faults
            /\ files' = files /\ \A q \in Procs \ {p} : pc'[q] = pc[q]
            /\ rows' = [rows EXCEPT ![loc[p].rec].status = "tombstoned"]
        BY <1>2, <2>11, GotoFrame DEF TombTxn, Goto
      <3>2. CASE loc[p].rec = r
        BY <3>1, <3>2 DEF Pending
      <3>3. CASE loc[p].rec # r
        <4>1. rows'[r] = rows[r]
          BY <1>2, <3>1, <3>3 DEF TypeOK
        <4>2. QED
          BY <2>k, <3>1, <4>1
      <3>4. QED
        BY <3>2, <3>3
    <2>12. ASSUME NEW p \in Procs, Crash(p) PROVE Pending(r)'
      BY <2>12, <2>n DEF Crash, Pending
    <2>13. ASSUME NEW x \in Records, BitRot(x) PROVE Pending(r)'
      BY <2>13, <2>n DEF BitRot, Pending
    <2>14. CASE UNCHANGED vars
      BY <2>14, <2>s DEF vars, Pending
    <2>15. QED
      BY <1>2, <2>4, <2>5, <2>6, <2>7, <2>8, <2>9, <2>10, <2>11, <2>12, <2>13, <2>14
      DEF Next, Call, Step
  <1>3. QED
    BY <1>1, <1>2, Typing, PTL DEF Spec

-----------------------------------------------------------------------------
(* Racing inits.                                                           *)

\* The process past the first CREATE TABLE owns the database until it is done.
InitInv ==
  /\ InitOnce
  /\ \A p \in Procs : /\ pc[p] = "init_tables" => db = "partial"
                      /\ pc[p] = "init_meta" => db = "schema"

\* What racing inits know of the database always holds.
LEMMA InitInductive == Spec => []InitInv
  <1> DEFINE E == InitEntries
             Setting(l) == l \in {"init_tables", "init_meta"}
  <1>1. Init => InitInv
    BY DEF Init, InitInv, InitOnce, InitEntries
  <1>2. ASSUME TypeOK, ProcInv, InitInv, [Next]_vars PROVE InitInv'
    <2>0. /\ \A p, q \in Procs : Setting(pc[p]) /\ Setting(pc[q]) => p = q
          /\ \A p \in Procs : /\ pc[p] = "init_tables" => db = "partial"
                              /\ pc[p] = "init_meta" => db = "schema"
          /\ db = "ready" <=> E # {}
          /\ \A i, j \in E : i = j
      BY <1>2 DEF InitInv, InitOnce
    <2>e. ASSUME NEW op, NEW s, NEW r, NEW prev, AppendAudit(op, s, r, prev)
          PROVE  E' = E \cup (IF op = "vault.init" THEN {Len(audit) + 1} ELSE {})
      <3>1. /\ Len(audit) \in Nat
            /\ Len(audit') = Len(audit) + 1
            /\ \A i \in 1..Len(audit) : audit'[i] = audit[i]
            /\ audit'[Len(audit) + 1] = [op |-> op, soul |-> s, rec |-> r, prev |-> prev]
        BY <1>2, <2>e, AppendAt
      <3>2. 1..Len(audit') = 1..Len(audit) \cup {Len(audit) + 1}
            /\ Len(audit) + 1 \notin 1..Len(audit)
        BY <3>1
      <3>3. audit'[Len(audit) + 1].op = op
        BY <3>1
      <3>4. E' = { i \in 1..Len(audit') : audit'[i].op = "vault.init" }
        BY DEF InitEntries
      <3>5. QED
        BY <3>1, <3>2, <3>3, <3>4 DEF InitEntries
    <2>u. audit' = audit => E' = E
      BY DEF InitEntries
    <2> HIDE DEF E
    <2>k. ASSUME NEW p \in Procs, E' = E, ~Setting(pc'[p]),
                 \A q \in Procs \ {p} : pc'[q] = pc[q],
                 \/ db' = db
                 \/ db \in {"absent", "dirs"} /\ db' \in {"dirs", "bare"}
          PROVE  InitInv'
      BY <2>0, <2>k DEF InitInv, InitOnce, E
    <2>1. ASSUME NEW p \in Procs, NEW l, NEW lv, Begin(p, l, lv), ~Setting(l), E' = E,
                 \/ db' = db
                 \/ db \in {"absent", "dirs"} /\ db' \in {"dirs", "bare"}
          PROVE  InitInv'
      BY <1>2, <2>1, <2>k, BeginFrame
    <2>2. ASSUME NEW p \in Procs, NEW from, NEW to, Goto(p, from, to), ~Setting(to), E' = E,
                 \/ db' = db
                 \/ db \in {"absent", "dirs"} /\ db' \in {"dirs", "bare"}
          PROVE  InitInv'
      BY <1>2, <2>2, <2>k, GotoFrame
    <2>3. ASSUME NEW p \in Procs, Call(p) PROVE InitInv'
      <3>1. \E l, lv : Begin(p, l, lv) /\ ~Setting(l)
        <4>1. ASSUME NEW s \in Souls, NEW r \in Records, NEW k \in Keys,
                     PutWriteFile(p, s, r, k)
              PROVE  \E lv : Begin(p, "put_txn", lv)
          BY <4>1 DEF PutWriteFile
        <4>2. ASSUME NEW s \in Souls, NEW r \in Records, NEW k \in Keys \cup {NoKey},
                     GetSelect(p, s, r, k)
              PROVE  \E l \in {"get_file", "get_last"} : \E lv : Begin(p, l, lv)
          BY <4>2 DEF GetSelect
        <4>3. ASSUME NEW s \in Souls, NEW r \in Records, TombSelect(p, s, r)
              PROVE  \E lv : Begin(p, "tomb_txn", lv)
          BY <4>3 DEF TombSelect
        <4>4. ASSUME InitMkdir(p) \/ StrayConnect(p)
              PROVE  \E l \in {"init_connect", "idle"} : \E lv : Begin(p, l, lv)
          BY <4>4 DEF InitMkdir, StrayConnect
        <4>5. QED
          BY <2>3, <4>1, <4>2, <4>3, <4>4 DEF Call
      <3>2. /\ audit' = audit
            /\ \/ db' = db
               \/ db \in {"absent", "dirs"} /\ db' \in {"dirs", "bare"}
        BY <2>3 DEF Call, InitMkdir, StrayConnect, PutWriteFile, GetSelect, TombSelect, Connect
      <3>3. QED
        BY <2>1, <2>u, <3>1, <3>2
    <2>4. ASSUME NEW p \in Procs, InitConnect(p) \/ GetFile(p) \/ GetLastHash(p)
          PROVE  InitInv'
      BY <2>2, <2>4, <2>u DEF InitConnect, GetFile, GetLastHash, Connect
    <2>5. ASSUME NEW p \in Procs, PutUndo(p) \/ GetFileMissing(p) \/ TombUnlink(p)
          PROVE  InitInv'
      BY <2>2, <2>5, <2>u DEF PutUndo, GetFileMissing, TombUnlink, Return
    <2>6. ASSUME NEW p \in Procs, InitScript(p) PROVE InitInv'
      <3>1. CASE db = "bare" /\ db' = "partial" /\ Goto(p, "init_script", "init_tables")
                 /\ audit' = audit
        <4>1. \A q \in Procs : ~Setting(pc[q])
          BY <2>0, <3>1
        <4>2. pc'[p] = "init_tables" /\ \A q \in Procs \ {p} : pc'[q] = pc[q]
          BY <1>2, <3>1, GotoFrame
        <4>3. QED
          BY <2>0, <2>u, <3>1, <4>1, <4>2 DEF InitInv, InitOnce, E
      <3>2. CASE Return(p, "init_script") /\ db' = db /\ audit' = audit
        BY <2>2, <2>u, <3>2 DEF Return
      <3>3. QED
        BY <2>6, <3>1, <3>2 DEF InitScript
    <2>7. ASSUME NEW p \in Procs, InitTables(p) PROVE InitInv'
      <3>1. /\ pc[p] = "init_tables" /\ pc'[p] = "init_meta" /\ db' = "schema"
            /\ audit' = audit /\ \A q \in Procs \ {p} : pc'[q] = pc[q]
        BY <1>2, <2>7, GotoFrame DEF InitTables
      <3>2. \A q \in Procs \ {p} : ~Setting(pc[q])
        BY <2>0, <3>1
      <3>3. QED
        BY <2>0, <2>u, <3>1, <3>2 DEF InitInv, InitOnce, E
    <2>8. ASSUME NEW p \in Procs, InitMeta(p) PROVE InitInv'
      <3>1. /\ pc[p] = "init_meta" /\ pc'[p] = "idle" /\ db' = "ready"
            /\ \A q \in Procs \ {p} : pc'[q] = pc[q]
            /\ AppendAudit("vault.init", Null, Null, LastHash)
        BY <1>2, <2>8, ReturnFrame DEF InitMeta
      <3>2. \A q \in Procs \ {p} : ~Setting(pc[q])
        BY <2>0, <3>1
      <3>3. E = {} /\ E' = {Len(audit) + 1}
        BY <2>0, <2>e, <3>1
      <3>4. QED
        BY <3>1, <3>2, <3>3 DEF InitInv, InitOnce, E
    <2>9. ASSUME NEW p \in Procs, PutTxn(p) \/ GetAppend(p) \/ TombTxn(p) PROVE InitInv'
      <3>1. \E op, s, r, prev : AppendAudit(op, s, r, prev) /\ op # "vault.init"
        <4>1. GetAppend(p) => loc[p].op # "vault.init"
          BY <1>2 DEF GetAppend, Return, Goto, ProcInv, LocalInv, GetPCs, ReadOps
        <4>2. QED
          BY <2>9, <4>1 DEF PutTxn, GetAppend, TombTxn
      <3>2. E' = E
        BY <2>e, <3>1
      <3>3. QED
        BY <2>2, <2>9, <3>2 DEF PutTxn, GetAppend, TombTxn, Return
    <2>10. ASSUME NEW p \in Procs, PutTxnFails(p) \/ Crash(p) PROVE InitInv'
      BY <1>2, <2>10, <2>k, <2>u DEF PutTxnFails, Crash, Connect, TypeOK
    <2>11. CASE pc' = pc /\ db' = db /\ audit' = audit
      BY <2>0, <2>u, <2>11 DEF InitInv, InitOnce, E
    <2>12. QED
      BY <1>2, <2>3, <2>4, <2>5, <2>6, <2>7, <2>8, <2>9, <2>10, <2>11
      DEF Next, Step, BitRot, vars
  <1>3. QED
    BY <1>1, <1>2, Inductive, PTL DEF Spec, IInv

\* However inits race, one of them sets the vault up, and vault.init is logged
\* once.
THEOREM InitHappensOnce == Spec => []InitOnce
  BY InitInductive, PTL DEF InitInv

-----------------------------------------------------------------------------
(* The vault implements the audited index.                                 *)

\* Appending to the chained log appends to the log its readers see.
LEMMA AuditLogAppend ==
  ASSUME TypeOK, NEW op, NEW s, NEW r, NEW prev, AppendAudit(op, s, r, prev)
  PROVE  AuditLog' = Append(AuditLog, [op |-> op, soul |-> s, rec |-> r])
  <1>1. /\ Len(audit) \in Nat
        /\ Len(audit') = Len(audit) + 1
        /\ \A i \in 1..Len(audit) : audit'[i] = audit[i]
        /\ audit'[Len(audit) + 1] = [op |-> op, soul |-> s, rec |-> r, prev |-> prev]
    BY AppendAt
  <1>2. Unchained(audit'[Len(audit) + 1]) = [op |-> op, soul |-> s, rec |-> r]
    BY <1>1 DEF Unchained
  <1>3. AuditLog \in Seq({Unchained(e) : e \in Entry}) /\ Len(AuditLog) = Len(audit)
    BY DEF AuditLog, TypeOK
  <1>4. AuditLog' = [i \in 1..Len(audit) + 1 |->
                       IF i = Len(audit) + 1 THEN [op |-> op, soul |-> s, rec |-> r]
                                             ELSE Unchained(audit[i])]
    BY <1>1, <1>2 DEF AuditLog
  <1>5. QED
    BY <1>1, <1>3, <1>4 DEF AuditLog

\* Every behaviour of the vault, seen without files, chain and processes, is a
\* behaviour of the audited index.
THEOREM Refinement == Spec => RefinesAuditedIndex
  <1>1. Init => Abstract!Init
    BY DEF Init, Abstract!Init, NoRow, AuditLog
  <1>2. ASSUME IInv, InitInv, [Next]_vars
        PROVE  [Abstract!Next]_<<rows, AuditLog>>
    <2>0. TypeOK /\ ProcInv
      BY <1>2 DEF IInv
    <2>1. ASSUME NEW p \in Procs, InitMeta(p) PROVE Abstract!SetUp
      <3>1. rows' = rows /\ AppendAudit("vault.init", Null, Null, LastHash)
            /\ pc[p] = "init_meta"
        BY <2>1 DEF InitMeta, Return, Goto
      <3>2. InitEntries = {}
        BY <1>2, <3>1 DEF InitInv, InitOnce
      <3>3. \A i \in 1..Len(audit) : audit[i].op # "vault.init"
        BY <3>2 DEF InitEntries
      <3>4. \A i \in DOMAIN AuditLog : AuditLog[i].op # "vault.init"
        BY <3>3 DEF AuditLog, Unchained
      <3>5. QED
        BY <2>0, <3>1, <3>4, AuditLogAppend DEF Abstract!SetUp, Abstract!Log
    <2>2. ASSUME NEW p \in Procs, PutTxn(p)
          PROVE  Abstract!Put(loc[p].rec, loc[p].soul)
      BY <2>0, <2>2, PutLocal, AuditLogAppend
      DEF PutTxn, Abstract!Put, Abstract!Log, Return, Goto, PutPCs
    <2>3. ASSUME NEW p \in Procs, TombTxn(p) PROVE Abstract!Tombstone(loc[p].rec)
      <3>1. RowFor(loc[p].rec, loc[p].soul)
        BY <2>0, <2>3 DEF TombTxn, Goto, ProcInv, LocalInv, RowPCs
      <3>2. QED
        BY <2>0, <2>3, <3>1, AuditLogAppend DEF TombTxn, RowFor, Abstract!Tombstone, Abstract!Log
    <2>4. ASSUME NEW p \in Procs, GetAppend(p) PROVE Abstract!Read(loc[p].rec, loc[p].op)
      <3>1. RowFor(loc[p].rec, loc[p].soul)
            /\ (loc[p].op = "read.tombstoned" => rows[loc[p].rec].status = "tombstoned")
        BY <2>0, <2>4 DEF GetAppend, Return, Goto, ProcInv, LocalInv, RowPCs, GetPCs
      <3>2. QED
        BY <2>0, <2>4, <3>1, AuditLogAppend DEF GetAppend, RowFor, Abstract!Read, Abstract!Log
    <2>5. CASE audit' = audit /\ rows' = rows
      BY <2>5 DEF AuditLog
    <2>6. \A p \in Procs : PutTxn(p) => loc[p].rec \in Records /\ loc[p].soul \in Souls
      BY <2>0 DEF PutTxn, Return, Goto, ProcInv, LocalInv, IdlePCs
    <2>7. \A p \in Procs : TombTxn(p) => loc[p].rec \in Records
      BY <2>0 DEF TombTxn, Goto, ProcInv, LocalInv, IdlePCs
    <2>8. \A p \in Procs : GetAppend(p) => loc[p].rec \in Records /\ loc[p].op \in ReadOps
      BY <2>0 DEF GetAppend, Return, Goto, ProcInv, LocalInv, IdlePCs, GetPCs
    <2>9. rows' = rows \/ \E p \in Procs : PutTxn(p) \/ TombTxn(p)
      BY <1>2, RowSteps
    <2>10. QED
      BY <1>2, <2>0, <2>1, <2>2, <2>3, <2>4, <2>5, <2>6, <2>7, <2>8, <2>9, LogSteps
      DEF Abstract!Next
  <1>3. QED
    BY <1>1, <1>2, Inductive, InitInductive, PTL DEF Spec, RefinesAuditedIndex, Abstract!Spec
=============================================================================
