---------------------------- MODULE GatewayProofs ----------------------------
(***************************************************************************)
(* Proofs about Gateway, for any processes, parties, documents, messages,  *)
(* records and payloads, and any bounds.                                   *)
(***************************************************************************)
EXTENDS Gateway, TLAPS

LogOps == {"lease.issued", "lease.revoked", "put", "tombstone"} \cup ReadOps

\* What the log names: a lease or a record.
Named == Records \cup LeaseIds \cup {Null}

(***************************************************************************)
(* What a process knows.  It revokes a lease that has a row.  Its call was *)
(* asked for by a message about just that, signed by the soul or, on the   *)
(* lease's subject, by the body of a lease that subject signed (Asked); a  *)
(* read or delete it is about to carry out concerns a record of the soul.  *)
(***************************************************************************)
OwnerAsked(l) ==
  /\ l.doc = Null /\ l.msg.signer = l.soul /\ l.msg.subject = l.soul
  /\ TypedForOp(l.msg.op, l.msg)

LeaseAsked(l) ==
  /\ l.doc \in Docs
  /\ AuthoriseViaLease(l.msg.op, l.arg, l.layer, l.doc, l.msg)
  /\ l.at <= l.doc.exp

Asked(l) ==
  /\ l.msg \in Messages /\ l.soul \in Souls
  /\ ExtraMatch(l.msg.op, l.arg, l.layer, l.msg)
  /\ OwnerAsked(l) \/ LeaseAsked(l)
  /\ \/ l.op \in {"read"} \cup ReadOps /\ l.msg.op = "read" /\ l.arg \in Records
     \/ l.op = "delete" /\ l.msg.op = "delete" /\ l.arg \in Records /\ l.doc = Null
     \/ l.op = "write" /\ l.msg.op = "write" /\ l.arg \in Payloads /\ l.layer \in Scopes

ProcInv(p) ==
  /\ revoking[p] # Null => leases[revoking[p]].status # "none"
  /\ pc[p] # "idle" => Asked(loc[p])
  /\ pc[p] \in {"revoked?", "expired?"} => loc[p].doc # Null /\ loc[p].op \notin ReadOps
  /\ pc[p] = "select" => loc[p].op # "write" /\ loc[p].op \notin ReadOps
  /\ pc[p] = "commit" => loc[p].op # "read" /\ (loc[p].op = "write" \/ Found(p))

Known ==
  /\ \A r \in Records : index[r].status # "none" => index[r].soul \in Souls
  /\ \A p \in Procs : ProcInv(p)

-----------------------------------------------------------------------------
(* Steps.                                                                  *)

\* A step goes on in one process's call, carries one out, or is the leases'.
Quiet(p) ==
  \/ Call(p) \/ CheckRevoked(p) \/ CheckMessageExpiry(p) \/ Select(p) \/ CommitRefused(p)

Commit(p) == CommitRead(p) \/ CommitDelete(p) \/ \E r \in Records : CommitWrite(p, r)

LEMMA StepCases ==
  ASSUME [Next]_vars
  PROVE  \/ LeaseStep \/ UNCHANGED vars
         \/ \E p \in Procs : Quiet(p) \/ Commit(p)
  BY DEF Next, Step, Quiet, Commit

\* An entry appended to the log is the last, and those before it stay.
LEMMA LogAppends ==
  ASSUME TypeOK, NEW op \in LogOps, NEW s \in Addresses, NEW what \in Named,
         log' = Append(log, [op |-> op, soul |-> s, rec |-> what])
  PROVE  /\ log' \in Seq(EntryType)
         /\ Len(log) \in Nat /\ Len(log') = Len(log) + 1
         /\ \A i \in 1..Len(log) : log'[i] = log[i]
         /\ log'[Len(log) + 1] = [op |-> op, soul |-> s, rec |-> what]
  <1> DEFINE e == [op |-> op, soul |-> s, rec |-> what]
  <1>1. e \in EntryType /\ log' = Append(log, e) /\ log \in Seq(EntryType)
    BY DEF EntryType, TypeOK, LogOps, Named
  <1> HIDE DEF e
  <1>2. /\ log' \in Seq(EntryType)
        /\ Len(log) \in Nat /\ Len(log') = Len(log) + 1
        /\ \A i \in 1..Len(log) : log'[i] = log[i]
        /\ log'[Len(log) + 1] = e
    BY <1>1
  <1>3. QED
    BY <1>2 DEF e

\* The request a call starts with is what it asked for.
LEMMA OwnerCallAsked ==
  ASSUME TypeOK, NEW p \in Procs, NEW op \in {"read", "write", "delete"}, NEW soul \in Souls,
         NEW arg \in Records \cup Payloads, NEW layer \in Scopes \cup {Null}, NEW m \in Messages,
         op # "write" => arg \in Records,
         op = "write" => arg \in Payloads /\ layer \in Scopes,
         CallAsOwner(p, op, soul, arg, layer, m)
  PROVE  /\ Asked([op |-> op, soul |-> soul, arg |-> arg, layer |-> layer,
                   msg |-> m, doc |-> Null, at |-> clock, since |-> Len(log)])
         /\ clock < m.exp
  BY GatewayConstants DEF CallAsOwner, Authorise, VerifyOwnerSignature, Asked, OwnerAsked, CheckExpiry,
                          MessageType

LEMMA LeaseCallAsked ==
  ASSUME TypeOK, NEW p \in Procs, NEW op \in {"read", "write", "delete"}, NEW soul \in Souls,
         NEW arg \in Records \cup Payloads, NEW layer \in Scopes \cup {Null}, NEW m \in Messages,
         NEW d \in Docs, op # "write" => arg \in Records,
         op = "write" => arg \in Payloads /\ layer \in Scopes,
         CallUnderLease(p, op, soul, arg, layer, d, m)
  PROVE  /\ Asked([op |-> op, soul |-> soul, arg |-> arg, layer |-> layer,
                   msg |-> m, doc |-> d, at |-> clock, since |-> Len(log)])
         /\ op # "delete"
  <1>1. d.exp \in Nat /\ clock \in Nat
    BY LeaseConstants DEF DocType, TypeOK
  <1>2. /\ AuthoriseViaLease(op, arg, layer, d, m) /\ ~IsLeaseExpired(d)
        /\ op \in {"read", "write"}
    BY DEF CallUnderLease
  <1>3. m.op = op /\ ExtraMatch(op, arg, layer, m) /\ clock <= d.exp
    BY <1>1, <1>2 DEF AuthoriseViaLease, IsLeaseExpired
  <1>4. QED
    BY <1>2, <1>3 DEF Asked, LeaseAsked

\* What a call starts with, whoever asks.
LEMMA CallBegins ==
  ASSUME TypeOK, NEW p \in Procs, Call(p)
  PROVE  \E l \in LocType :
           /\ pc[p] = "idle"
           /\ loc' = [loc EXCEPT ![p] = l] /\ Asked(l)
           /\ l.op \in {"read", "write", "delete"}
           /\ l.at = clock /\ l.since = Len(log)
           /\ \/ l.doc = Null /\ pc' = [pc EXCEPT ![p] = Vaulted(l.op)] /\ clock < l.msg.exp
              \/ l.doc # Null /\ pc' = [pc EXCEPT ![p] = "revoked?"]
           /\ calls' = calls + 1
           /\ UNCHANGED <<clock, leases, revoking, log, index, stored, done>>
  <1>0. Len(log) \in Nat /\ clock \in Nat
    BY DEF TypeOK
  <1>1. ASSUME NEW op \in {"read", "write", "delete"}, NEW soul \in Souls,
               NEW arg \in Records \cup Payloads, NEW layer \in Scopes \cup {Null},
               NEW m \in Messages, NEW d \in Docs \cup {Null}
        PROVE  [op |-> op, soul |-> soul, arg |-> arg, layer |-> layer, msg |-> m, doc |-> d,
                at |-> clock, since |-> Len(log)] \in LocType
    BY <1>0 DEF LocType, Ops
  <1>2. pc[p] = "idle"
    BY DEF Call
  <1> DEFINE Goal ==
         \E l \in LocType :
           /\ loc' = [loc EXCEPT ![p] = l] /\ Asked(l)
           /\ l.op \in {"read", "write", "delete"}
           /\ l.at = clock /\ l.since = Len(log)
           /\ \/ l.doc = Null /\ pc' = [pc EXCEPT ![p] = Vaulted(l.op)] /\ clock < l.msg.exp
              \/ l.doc # Null /\ pc' = [pc EXCEPT ![p] = "revoked?"]
           /\ calls' = calls + 1
           /\ UNCHANGED <<clock, leases, revoking, log, index, stored, done>>
  <1>3. ASSUME NEW op \in {"read", "write", "delete"}, NEW soul \in Souls,
               NEW arg \in Records \cup Payloads, NEW layer \in Scopes \cup {Null},
               NEW m \in Messages,
               op # "write" => arg \in Records,
               op = "write" => arg \in Payloads /\ layer \in Scopes,
               CallAsOwner(p, op, soul, arg, layer, m)
        PROVE  Goal
    <2> DEFINE l == [op |-> op, soul |-> soul, arg |-> arg, layer |-> layer,
                     msg |-> m, doc |-> Null, at |-> clock, since |-> Len(log)]
    <2>1. l \in LocType
      BY <1>1
    <2>2. Asked(l) /\ clock < m.exp
      BY <1>3, OwnerCallAsked
    <2>3. QED
      BY <1>3, <2>1, <2>2 DEF CallAsOwner, Begin, StartCall
  <1>4. ASSUME NEW op \in {"read", "write", "delete"}, NEW soul \in Souls,
               NEW arg \in Records \cup Payloads, NEW layer \in Scopes \cup {Null},
               NEW m \in Messages, NEW d \in Docs,
               op # "write" => arg \in Records,
               op = "write" => arg \in Payloads /\ layer \in Scopes,
               CallUnderLease(p, op, soul, arg, layer, d, m)
        PROVE  Goal
    <2> DEFINE l == [op |-> op, soul |-> soul, arg |-> arg, layer |-> layer,
                     msg |-> m, doc |-> d, at |-> clock, since |-> Len(log)]
    <2>1. l \in LocType
      BY <1>1
    <2>2. Asked(l) /\ d # Null
      BY <1>4, LeaseCallAsked, LeaseConstants
    <2>3. QED
      BY <1>4, <2>1, <2>2 DEF CallUnderLease, Begin, StartCall
  <1>5. Goal
    <2>1. PICK soul \in Souls, m \in Messages :
            \/ \E op \in {"read", "delete"}, r \in Records :
                 \/ CallAsOwner(p, op, soul, r, Null, m)
                 \/ \E d \in Docs : CallUnderLease(p, op, soul, r, Null, d, m)
            \/ \E x \in Payloads, layer \in Scopes :
                 \/ CallAsOwner(p, "write", soul, x, layer, m)
                 \/ \E d \in Docs : CallUnderLease(p, "write", soul, x, layer, d, m)
      BY DEF Call
    <2> HIDE DEF Goal
    <2>2. QED
      BY <1>3, <1>4, <2>1
  <1>6. QED
    BY <1>2, <1>5

\* What a call that is carried out does: it logs op about record r of soul s.
Reads(p, op, r) ==
  /\ op \in ReadOps /\ op = loc[p].op /\ r = loc[p].arg
  /\ op = "read.tombstoned" => index[r].status = "tombstoned"
  /\ UNCHANGED <<index, stored>>

Writes(p, op, r) ==
  /\ op = "put" /\ loc[p].op = "write"
  /\ loc[p].layer \in ValidLayers
  /\ index[r].status = "none"
  /\ index' = [index EXCEPT ![r] = [status |-> "active", soul |-> loc[p].soul]]
  /\ stored' = [stored EXCEPT ![r] = [layer |-> loc[p].layer, payload |-> loc[p].arg]]

Deletes(p, op, r) ==
  /\ op = "tombstone" /\ loc[p].op = "delete" /\ r = loc[p].arg
  /\ index' = [index EXCEPT ![r].status = "tombstoned"]
  /\ UNCHANGED stored

CarriedOut(p, op, r) ==
  /\ pc[p] = "commit" /\ Asked(loc[p])
  /\ log' = Append(log, [op |-> op, soul |-> loc[p].soul, rec |-> r])
  /\ done' = Append(done, [entry |-> Len(log) + 1, msg |-> loc[p].msg, doc |-> loc[p].doc,
                           at |-> loc[p].at, since |-> loc[p].since])
  /\ pc' = [pc EXCEPT ![p] = "idle"] /\ loc' = [loc EXCEPT ![p] = NoLoc]
  /\ UNCHANGED <<clock, leases, revoking, calls>>
  /\ \/ Writes(p, op, r)
     \/ Found(p) /\ (Reads(p, op, r) \/ Deletes(p, op, r))

LEMMA CommitCases ==
  ASSUME TypeOK, Known, NEW p \in Procs, Commit(p)
  PROVE  \E op \in {"put", "tombstone"} \cup ReadOps, r \in Records : CarriedOut(p, op, r)
  <1>1. /\ pc[p] = "commit" /\ pc' = [pc EXCEPT ![p] = "idle"]
        /\ loc' = [loc EXCEPT ![p] = NoLoc]
        /\ done' = Append(done, [entry |-> Len(log) + 1, msg |-> loc[p].msg,
                                 doc |-> loc[p].doc, at |-> loc[p].at, since |-> loc[p].since])
        /\ UNCHANGED <<clock, leases, revoking, calls>>
    BY DEF Commit, CommitRead, CommitDelete, CommitWrite, Finish, Goto
  <1>2. Asked(loc[p]) /\ (loc[p].op = "write" \/ Found(p))
    BY <1>1 DEF Known, ProcInv
  <1>3. CASE CommitRead(p)
    <2>1. loc[p].op \in ReadOps /\ Found(p)
      BY <1>2, <1>3 DEF CommitRead, ReadOps
    <2>2. loc[p].arg \in Records /\ index[loc[p].arg].soul = loc[p].soul
      BY <2>1 DEF Found
    <2>3. /\ log' = Append(log, [op |-> loc[p].op, soul |-> loc[p].soul, rec |-> loc[p].arg])
          /\ loc[p].op = "read.tombstoned" => index[loc[p].arg].status = "tombstoned"
          /\ UNCHANGED <<index, stored>>
      BY <1>3, <2>2 DEF CommitRead, Vault!Read, Vault!Log
    <2>4. CarriedOut(p, loc[p].op, loc[p].arg)
      BY <1>1, <1>2, <2>1, <2>3 DEF CarriedOut, Reads
    <2>5. QED
      BY <2>1, <2>2, <2>4
  <1>4. CASE CommitDelete(p)
    <2>1. loc[p].op = "delete" /\ Found(p)
      BY <1>2, <1>4 DEF CommitDelete
    <2>2. loc[p].arg \in Records /\ index[loc[p].arg].soul = loc[p].soul
      BY <2>1 DEF Found
    <2>3. /\ log' = Append(log, [op |-> "tombstone", soul |-> loc[p].soul, rec |-> loc[p].arg])
          /\ index' = [index EXCEPT ![loc[p].arg].status = "tombstoned"]
          /\ UNCHANGED stored
      BY <1>4, <2>2 DEF CommitDelete, Vault!Tombstone, Vault!Log
    <2>4. CarriedOut(p, "tombstone", loc[p].arg)
      BY <1>1, <1>2, <2>1, <2>3 DEF CarriedOut, Deletes
    <2>5. QED
      BY <2>2, <2>4
  <1>5. ASSUME NEW r \in Records, CommitWrite(p, r)
        PROVE  CarriedOut(p, "put", r)
    BY <1>1, <1>2, <1>5 DEF CommitWrite, Vault!Put, Vault!Log, CarriedOut, Writes
  <1>6. QED
    BY <1>3, <1>4, <1>5 DEF Commit

\* What is carried out appends a typed entry.
LEMMA CarriedOutLogs ==
  ASSUME TypeOK, NEW p \in Procs, NEW op \in {"put", "tombstone"} \cup ReadOps, NEW r \in Records,
         CarriedOut(p, op, r)
  PROVE  /\ log' \in Seq(EntryType)
         /\ Len(log) \in Nat /\ Len(log') = Len(log) + 1
         /\ \A i \in 1..Len(log) : log'[i] = log[i]
         /\ log'[Len(log) + 1] = [op |-> op, soul |-> loc[p].soul, rec |-> r]
  <1>1. loc[p].soul \in Addresses
    BY GatewayConstants DEF CarriedOut, Asked
  <1>2. op \in LogOps /\ r \in Named
    BY DEF LogOps, Named
  <1>3. log' = Append(log, [op |-> op, soul |-> loc[p].soul, rec |-> r])
    BY DEF CarriedOut
  <1>4. QED
    BY <1>1, <1>2, <1>3, LogAppends

\* What a step of the leases does to the leases table and the log.
Issues(l) ==
  \E d \in Docs :
    /\ l = d.id /\ VerifyLeaseSignature(d)
    /\ leases[l].status = "none"
    /\ leases' = [leases EXCEPT ![l] = [status |-> "active", doc |-> d]]
    /\ log' = Append(log, [op |-> "lease.issued", soul |-> d.subject, rec |-> l])
    /\ UNCHANGED revoking

Revokes(p, l) ==
  /\ revoking[p] = l /\ l # Null /\ leases[l].status # "none"
  /\ leases' = [leases EXCEPT ![l].status = "revoked"]
  /\ log' = Append(log, [op |-> "lease.revoked", soul |-> leases[l].doc.subject, rec |-> l])
  /\ revoking' = [revoking EXCEPT ![p] = Null]

Intends(p, l) ==
  /\ leases[l].status = "active"
  /\ revoking' = [revoking EXCEPT ![p] = l]
  /\ UNCHANGED <<leases, log>>

LEMMA LeaseCases ==
  ASSUME TypeOK, Known, LeaseStep
  PROVE  /\ UNCHANGED <<index, stored, pc, loc, done>>
         /\ clock' \in Nat /\ clock' >= clock /\ calls' \in Nat
         /\ \/ \E l \in LeaseIds : Issues(l)
            \/ \E p \in Procs, l \in LeaseIds : Revokes(p, l) \/ Intends(p, l)
            \/ UNCHANGED <<leases, revoking, log>>
  <1>0. clock \in Nat /\ calls \in Nat
    BY DEF TypeOK
  <1>1. ASSUME NEW d \in Docs, StoreLease(d)
        PROVE  /\ \E l \in LeaseIds : Issues(l)
               /\ clock' = clock /\ calls' = calls + 1
    <2>1. d.id \in LeaseIds
      BY LeaseConstants DEF DocType
    <2>2. QED
      BY <1>1, <2>1 DEF StoreLease, StartCall, Log, Issues
  <1>2. ASSUME NEW p \in Procs, NEW l \in LeaseIds, NEW key \in Addresses, RevokeSelect(p, l, key)
        PROVE  Intends(p, l) /\ clock' = clock /\ calls' = calls + 1
    BY <1>2 DEF RevokeSelect, StartCall, Intends
  <1>3. ASSUME NEW p \in Procs, RevokeTxn(p)
        PROVE  /\ \E l \in LeaseIds : Revokes(p, l)
               /\ clock' = clock /\ calls' = calls
    <2>1. revoking[p] \in LeaseIds /\ leases[revoking[p]].status # "none"
      BY <1>3 DEF RevokeTxn, TypeOK, Known, ProcInv
    <2>2. QED
      BY <1>3, <2>1, LeaseConstants DEF RevokeTxn, Log, Revokes
  <1>4. ASSUME Tick
        PROVE  UNCHANGED <<leases, revoking, log, calls>> /\ clock' = clock + 1
    BY <1>4 DEF Tick
  <1>5. QED
    BY <1>0, <1>1, <1>2, <1>3, <1>4 DEF LeaseStep, LeaseNext

\* What the leases' steps append is typed.
LEMMA IssuesLogs ==
  ASSUME TypeOK, NEW l \in LeaseIds, Issues(l)
  PROVE  \E d \in Docs :
         /\ d.id = l /\ VerifyLeaseSignature(d) /\ leases[l].status = "none"
         /\ leases' = [leases EXCEPT ![l] = [status |-> "active", doc |-> d]]
         /\ log' \in Seq(EntryType)
         /\ Len(log) \in Nat /\ Len(log') = Len(log) + 1
         /\ \A i \in 1..Len(log) : log'[i] = log[i]
         /\ log'[Len(log) + 1] = [op |-> "lease.issued", soul |-> d.subject, rec |-> l]
  <1>1. PICK d \in Docs :
          /\ l = d.id /\ VerifyLeaseSignature(d) /\ leases[l].status = "none"
          /\ leases' = [leases EXCEPT ![l] = [status |-> "active", doc |-> d]]
          /\ log' = Append(log, [op |-> "lease.issued", soul |-> d.subject, rec |-> l])
    BY DEF Issues
  <1>2. d.subject \in Addresses /\ l \in Named /\ "lease.issued" \in LogOps
    BY LeaseConstants DEF DocType, Named, LogOps
  <1>3. /\ log' \in Seq(EntryType)
        /\ Len(log) \in Nat /\ Len(log') = Len(log) + 1
        /\ \A i \in 1..Len(log) : log'[i] = log[i]
        /\ log'[Len(log) + 1] = [op |-> "lease.issued", soul |-> d.subject, rec |-> l]
    BY <1>1, <1>2, LogAppends
  <1>4. QED
    BY <1>1, <1>3

LEMMA RevokesLogs ==
  ASSUME TypeOK, NEW p \in Procs, NEW l \in LeaseIds, Revokes(p, l)
  PROVE  /\ leases[l].doc \in Docs
         /\ log' \in Seq(EntryType)
         /\ Len(log) \in Nat /\ Len(log') = Len(log) + 1
         /\ \A i \in 1..Len(log) : log'[i] = log[i]
         /\ log'[Len(log) + 1] =
              [op |-> "lease.revoked", soul |-> leases[l].doc.subject, rec |-> l]
  <1>1. leases[l] \in RowType /\ leases[l].status # "none"
    BY DEF Revokes, TypeOK
  <1>2. leases[l].doc \in Docs
    BY <1>1 DEF RowType, NoRow
  <1>3. leases[l].doc.subject \in Addresses /\ l \in Named /\ "lease.revoked" \in LogOps
    BY <1>2, LeaseConstants DEF DocType, Named, LogOps
  <1>4. log' = Append(log, [op |-> "lease.revoked", soul |-> leases[l].doc.subject, rec |-> l])
    BY DEF Revokes
  <1>5. QED
    BY <1>2, <1>3, <1>4, LogAppends

\* What a step that only goes on in p's call makes of its request: l, at c.
Starts(p, l, c) ==
  /\ pc[p] = "idle" /\ Asked(l)
  /\ l.op \in {"read", "write", "delete"}
  /\ l.at = clock /\ l.since = Len(log)
  /\ \/ l.doc = Null /\ c = Vaulted(l.op) /\ clock < l.msg.exp
     \/ l.doc # Null /\ c = "revoked?"

Passes(p, l, c) ==
  /\ l = loc[p]
  /\ \/ pc[p] = "revoked?" /\ c = "expired?" /\ ~IsLeaseRevoked(l.doc)
     \/ pc[p] = "expired?" /\ c = Vaulted(l.op) /\ CheckExpiry(l.msg)

LooksUp(p, l, c) ==
  /\ pc[p] = "select" /\ c = "commit" /\ Found(p)
  /\ l = [loc[p] EXCEPT !.op = LookedUp(p)]
  /\ loc[p].op = "read" \/ index[loc[p].arg].status = "active"

Moves(p, l, c) ==
  \/ l = NoLoc /\ c = "idle"
  \/ Starts(p, l, c) \/ Passes(p, l, c) \/ LooksUp(p, l, c)

LEMMA QuietCases ==
  ASSUME TypeOK, Known, NEW p \in Procs, Quiet(p)
  PROVE  /\ UNCHANGED <<clock, leases, revoking, log, index, stored, done>>
         /\ calls' \in Nat
         /\ \E l \in LocType, c \in PCs :
              /\ loc' = [loc EXCEPT ![p] = l] /\ pc' = [pc EXCEPT ![p] = c]
              /\ Moves(p, l, c)
  <1>0. /\ calls \in Nat /\ loc[p] \in LocType /\ pc[p] \in PCs
        /\ loc \in [Procs -> LocType] /\ pc \in [Procs -> PCs]
    BY DEF TypeOK
  <1>1. NoLoc \in LocType /\ "idle" \in PCs
    BY DEF NoLoc, LocType, PCs
  <1>2. loc = [loc EXCEPT ![p] = loc[p]]
    BY <1>0
  <1>3. CASE Refuse(p)
    BY <1>0, <1>1, <1>3 DEF Refuse, leaseVars, Moves
  <1>4. CASE Call(p)
    <2>1. PICK l \in LocType :
           /\ pc[p] = "idle"
           /\ loc' = [loc EXCEPT ![p] = l] /\ Asked(l)
           /\ l.op \in {"read", "write", "delete"}
           /\ l.at = clock /\ l.since = Len(log)
           /\ \/ l.doc = Null /\ pc' = [pc EXCEPT ![p] = Vaulted(l.op)] /\ clock < l.msg.exp
              \/ l.doc # Null /\ pc' = [pc EXCEPT ![p] = "revoked?"]
           /\ calls' = calls + 1
           /\ UNCHANGED <<clock, leases, revoking, log, index, stored, done>>
      BY <1>4, CallBegins
    <2>2. PICK c \in PCs : pc' = [pc EXCEPT ![p] = c] /\ Starts(p, l, c)
      BY <2>1 DEF Starts, Vaulted, PCs
    <2>3. Moves(p, l, c) /\ calls' \in Nat
      BY <1>0, <2>1, <2>2 DEF Moves
    <2>4. QED
      BY <2>1, <2>2, <2>3
  <1>5. CASE CheckRevoked(p) /\ ~Refuse(p)
    <2>1. Passes(p, loc[p], "expired?") /\ pc' = [pc EXCEPT ![p] = "expired?"]
      BY <1>5 DEF CheckRevoked, Goto, Passes
    <2>2. UNCHANGED <<leaseVars, index, stored, loc, done>>
      BY <1>5 DEF CheckRevoked
    <2>3. QED
      BY <1>0, <1>2, <2>1, <2>2 DEF leaseVars, Moves, PCs
  <1>6. CASE CheckMessageExpiry(p) /\ ~Refuse(p)
    <2>1. /\ Passes(p, loc[p], Vaulted(loc[p].op))
          /\ pc' = [pc EXCEPT ![p] = Vaulted(loc[p].op)]
      BY <1>6 DEF CheckMessageExpiry, Goto, Passes
    <2>2. UNCHANGED <<leaseVars, index, stored, loc, done>>
      BY <1>6 DEF CheckMessageExpiry
    <2>3. Vaulted(loc[p].op) \in PCs
      BY DEF Vaulted, PCs
    <2>4. QED
      BY <1>0, <1>2, <2>1, <2>2, <2>3 DEF leaseVars, Moves
  <1>7. CASE Select(p) /\ ~Refuse(p)
    <2> DEFINE l == [loc[p] EXCEPT !.op = LookedUp(p)]
    <2>1. /\ pc[p] = "select" /\ Found(p)
          /\ loc[p].op = "read" \/ index[loc[p].arg].status = "active"
          /\ pc' = [pc EXCEPT ![p] = "commit"]
          /\ loc' = [loc EXCEPT ![p].op = LookedUp(p)]
          /\ UNCHANGED <<leaseVars, index, stored, done>>
      BY <1>7 DEF Select, Goto
    <2>2. LookedUp(p) \in Ops \cup ReadOps \cup {"none"}
      <3>1. loc[p].op \in {"read", "delete"}
        BY <2>1 DEF Known, ProcInv, Asked
      <3>2. QED
        BY <3>1 DEF LookedUp, Ops, ReadOps
    <2>3. l \in LocType
      BY <1>0, <2>2 DEF LocType
    <2>4. loc' = [loc EXCEPT ![p] = l]
      BY <1>0, <2>1
    <2>5. LooksUp(p, l, "commit")
      BY <2>1 DEF LooksUp
    <2>6. QED
      <3> HIDE DEF l
      <3>1. QED
        BY <1>0, <2>1, <2>3, <2>4, <2>5 DEF leaseVars, Moves, PCs
  <1>8. QED
    BY <1>3, <1>4, <1>5, <1>6, <1>7
    DEF Quiet, CheckRevoked, CheckMessageExpiry, Select, CommitRefused

-----------------------------------------------------------------------------
(* Types, and what the processes know.                                     *)

LEMMA LeaseStepTypes ==
  ASSUME TypeOK, Known, LeaseStep
  PROVE  TypeOK'
  <1>1. /\ UNCHANGED <<index, stored, pc, loc, done>>
        /\ clock' \in Nat /\ calls' \in Nat
    BY LeaseCases
  <1> DEFINE Goal == /\ leases' \in [LeaseIds -> RowType]
                     /\ revoking' \in [Procs -> LeaseIds \cup {Null}]
                     /\ log' \in Seq(EntryType)
  <1>2. Goal
    <2>0. /\ leases \in [LeaseIds -> RowType]
          /\ revoking \in [Procs -> LeaseIds \cup {Null}]
          /\ log \in Seq(EntryType)
      BY DEF TypeOK
    <2>1. ASSUME NEW l \in LeaseIds, Issues(l)
          PROVE  Goal
      <3>1. PICK d \in Docs :
              /\ leases' = [leases EXCEPT ![l] = [status |-> "active", doc |-> d]]
              /\ log' \in Seq(EntryType)
        BY <2>1, IssuesLogs
      <3>2. [status |-> "active", doc |-> d] \in RowType
        BY DEF RowType
      <3>3. QED
        BY <2>0, <2>1, <3>1, <3>2 DEF Issues
    <2>2. ASSUME NEW p \in Procs, NEW l \in LeaseIds, Revokes(p, l)
          PROVE  Goal
      <3>1. leases[l].doc \in Docs /\ log' \in Seq(EntryType)
        BY <2>2, RevokesLogs
      <3>2. leases[l] \in [status : {"active", "revoked"}, doc : Docs]
        BY <2>0, <2>2 DEF Revokes, RowType, NoRow
      <3>3. [leases[l] EXCEPT !.status = "revoked"] \in RowType
        BY <3>2 DEF RowType
      <3>4. QED
        BY <2>0, <2>2, <3>1, <3>3 DEF Revokes
    <2>3. ASSUME NEW p \in Procs, NEW l \in LeaseIds, Intends(p, l)
          PROVE  Goal
      BY <2>0, <2>3 DEF Intends
    <2>4. QED
      BY <2>0, <2>1, <2>2, <2>3, LeaseCases
  <1>3. QED
    BY <1>1, <1>2 DEF TypeOK

LEMMA QuietTypes ==
  ASSUME TypeOK, Known, NEW p \in Procs, Quiet(p)
  PROVE  TypeOK'
  <1>1. /\ UNCHANGED <<clock, leases, revoking, log, index, stored, done>>
        /\ calls' \in Nat
        /\ \E l \in LocType, c \in PCs :
             loc' = [loc EXCEPT ![p] = l] /\ pc' = [pc EXCEPT ![p] = c]
    BY QuietCases
  <1>2. QED
    BY <1>1 DEF TypeOK

LEMMA CarriedOutTypes ==
  ASSUME TypeOK, NEW p \in Procs, NEW op \in {"put", "tombstone"} \cup ReadOps, NEW r \in Records,
         CarriedOut(p, op, r)
  PROVE  TypeOK'
  <1>1. /\ loc[p] \in LocType /\ loc \in [Procs -> LocType] /\ pc \in [Procs -> PCs]
        /\ done \in Seq(DoneType) /\ log \in Seq(EntryType)
        /\ index \in [Records -> [status : {"none", "active", "tombstoned"},
                                  soul : Souls \cup {Null}]]
        /\ stored \in [Records -> DataType]
    BY DEF TypeOK
  <1>2. /\ Asked(loc[p]) /\ pc' = [pc EXCEPT ![p] = "idle"] /\ loc' = [loc EXCEPT ![p] = NoLoc]
        /\ UNCHANGED <<clock, leases, revoking, calls>>
        /\ done' = Append(done, [entry |-> Len(log) + 1, msg |-> loc[p].msg, doc |-> loc[p].doc,
                                 at |-> loc[p].at, since |-> loc[p].since])
    BY DEF CarriedOut
  <1>3. loc' \in [Procs -> LocType] /\ pc' \in [Procs -> PCs]
    <2>1. NoLoc \in LocType /\ "idle" \in PCs
      BY DEF NoLoc, LocType, PCs
    <2>2. QED
      BY <1>1, <1>2, <2>1
  <1>4. log' \in Seq(EntryType) /\ Len(log) \in Nat
    BY CarriedOutLogs
  <1>5. done' \in Seq(DoneType)
    <2> DEFINE c == [entry |-> Len(log) + 1, msg |-> loc[p].msg, doc |-> loc[p].doc,
                     at |-> loc[p].at, since |-> loc[p].since]
    <2>1. c \in DoneType
      BY <1>1, <1>2, <1>4 DEF DoneType, LocType, Asked
    <2> HIDE DEF c
    <2>2. QED
      BY <1>1, <1>2, <2>1 DEF c
  <1>6. /\ index' \in [Records -> [status : {"none", "active", "tombstoned"},
                                   soul : Souls \cup {Null}]]
        /\ stored' \in [Records -> DataType]
    <2>1. CASE Writes(p, op, r)
      <3>1. [layer |-> loc[p].layer, payload |-> loc[p].arg] \in DataType
        BY <1>2, <2>1 DEF Writes, DataType, Asked, ReadOps
      <3>2. loc[p].soul \in Souls
        BY <1>2 DEF Asked
      <3>3. QED
        BY <1>1, <2>1, <3>1, <3>2 DEF Writes
    <2>2. CASE Reads(p, op, r)
      BY <1>1, <2>2 DEF Reads
    <2>3. CASE Deletes(p, op, r)
      BY <1>1, <2>3 DEF Deletes
    <2>4. QED
      BY <2>1, <2>2, <2>3 DEF CarriedOut
  <1>7. QED
    BY <1>2, <1>3, <1>4, <1>5, <1>6 DEF TypeOK

LEMMA TypeStep ==
  ASSUME TypeOK, Known, [Next]_vars
  PROVE  TypeOK'
  <1>1. CASE UNCHANGED vars
    BY <1>1 DEF vars, TypeOK
  <1>2. QED
    BY <1>1, StepCases, LeaseStepTypes, QuietTypes, CommitCases, CarriedOutTypes

\* A record's row stays, its soul's.
RowsStay ==
  \A r \in Records :
    index[r].status # "none" => index'[r].status # "none" /\ index'[r].soul = index[r].soul

LEMMA CarriedOutRows ==
  ASSUME TypeOK, Known, NEW p \in Procs, NEW op \in {"put", "tombstone"} \cup ReadOps,
         NEW r \in Records, CarriedOut(p, op, r)
  PROVE  /\ RowsStay
         /\ \A q \in Records : index'[q].status # "none" => index'[q].soul \in Souls
  <1>1. index \in [Records -> [status : {"none", "active", "tombstoned"},
                               soul : Souls \cup {Null}]]
    BY DEF TypeOK
  <1>2. loc[p].soul \in Souls
    BY DEF CarriedOut, Asked
  <1>3. \A q \in Records : index[q].status # "none" => index[q].soul \in Souls
    BY DEF Known
  <1>4. CASE Writes(p, op, r)
    BY <1>1, <1>2, <1>3, <1>4 DEF Writes, RowsStay
  <1>5. CASE Reads(p, op, r)
    BY <1>1, <1>3, <1>5 DEF Reads, RowsStay
  <1>6. CASE Found(p) /\ Deletes(p, op, r)
    BY <1>1, <1>3, <1>6 DEF Deletes, RowsStay, Found
  <1>7. QED
    BY <1>4, <1>5, <1>6 DEF CarriedOut

\* While its request is not touched, what a process knows stays known.
LEMMA StaysKnown ==
  ASSUME TypeOK, Known, RowsStay, NEW q \in Procs,
         pc'[q] = pc[q], loc'[q] = loc[q],
         revoking'[q] # Null => leases'[revoking'[q]].status # "none"
  PROVE  ProcInv(q)'
  <1>1. ProcInv(q)
    BY DEF Known
  <1>2. Found(q) => Found(q)'
    BY DEF Found, RowsStay
  <1>3. Asked(loc[q]) => Asked(loc[q])'
    BY DEF Asked, OwnerAsked, LeaseAsked, AuthoriseViaLease, VerifyLeaseSignature, ExtraMatch,
           LeaseAuthorizesOp, RequiresOwnerCosign, TypedForOp, BodySigned
  <1>4. QED
    BY <1>1, <1>2, <1>3 DEF ProcInv

LEMMA LeaseStepKnown ==
  ASSUME TypeOK, Known, LeaseStep
  PROVE  Known'
  <1>1. UNCHANGED <<index, stored, pc, loc, done>>
    BY LeaseCases
  <1>2. RowsStay
    BY <1>1 DEF RowsStay
  <1>3. /\ leases \in [LeaseIds -> RowType]
        /\ revoking \in [Procs -> LeaseIds \cup {Null}]
    BY DEF TypeOK
  <1>4. \A q \in Procs : revoking[q] # Null => leases[revoking[q]].status # "none"
    BY DEF Known, ProcInv
  <1>5. ASSUME NEW q \in Procs, revoking'[q] # Null
        PROVE  leases'[revoking'[q]].status # "none"
    <2> DEFINE Goal == leases'[revoking'[q]].status # "none"
    <2>1. ASSUME NEW l \in LeaseIds, Issues(l)
          PROVE  Goal
      <3>1. revoking' = revoking /\ revoking[q] # l
        BY <1>4, <1>5, <2>1, LeaseConstants DEF Issues
      <3>2. PICK d \in Docs : leases' = [leases EXCEPT ![l] = [status |-> "active", doc |-> d]]
        BY <2>1 DEF Issues
      <3>3. revoking[q] \in LeaseIds
        BY <1>3, <1>5, <3>1
      <3>4. QED
        BY <1>3, <1>4, <1>5, <3>1, <3>2, <3>3
    <2>2. ASSUME NEW p \in Procs, NEW l \in LeaseIds, Revokes(p, l)
          PROVE  Goal
      BY <1>3, <1>4, <1>5, <2>2 DEF Revokes, RowType, NoRow
    <2>3. ASSUME NEW p \in Procs, NEW l \in LeaseIds, Intends(p, l)
          PROVE  Goal
      BY <1>3, <1>4, <1>5, <2>3 DEF Intends
    <2>4. QED
      BY <1>4, <1>5, <2>1, <2>2, <2>3, LeaseCases
  <1>6. \A q \in Procs : ProcInv(q)'
    BY <1>1, <1>2, <1>5, StaysKnown
  <1>7. QED
    BY <1>1, <1>6 DEF Known

\* Asked is about the request alone.
LEMMA AskedStays ==
  ASSUME NEW l \in LocType, NEW k \in LocType, Asked(l),
         k.msg = l.msg, k.doc = l.doc, k.soul = l.soul, k.arg = l.arg, k.layer = l.layer,
         k.at = l.at,
         \/ k.op = l.op
         \/ l.op = "read" /\ k.op \in ReadOps
  PROVE  Asked(k)
  BY DEF Asked, OwnerAsked, LeaseAsked, ReadOps

LEMMA QuietKnown ==
  ASSUME TypeOK, Known, NEW p \in Procs, Quiet(p)
  PROVE  Known'
  <1>1. PICK l \in LocType, c \in PCs :
          /\ loc' = [loc EXCEPT ![p] = l] /\ pc' = [pc EXCEPT ![p] = c]
          /\ Moves(p, l, c)
    BY QuietCases
  <1>2. UNCHANGED <<clock, leases, revoking, log, index, stored, done>>
    BY QuietCases
  <1>3. RowsStay
    BY <1>2 DEF RowsStay
  <1>4. \A q \in Procs : revoking'[q] # Null => leases'[revoking'[q]].status # "none"
    BY <1>2 DEF Known, ProcInv
  <1>5. /\ loc \in [Procs -> LocType] /\ pc \in [Procs -> PCs] /\ loc[p] \in LocType
        /\ loc'[p] = l /\ pc'[p] = c
    BY <1>1 DEF TypeOK
  <1>6. ProcInv(p)
    BY DEF Known
  <1>7. /\ c # "idle" => Asked(l)
        /\ c \in {"revoked?", "expired?"} => l.doc # Null /\ l.op \notin ReadOps
        /\ c = "select" => l.op # "write" /\ l.op \notin ReadOps
        /\ c = "commit" => /\ l.op # "read"
                           /\ \/ l.op = "write"
                              \/ Found(p) /\ l.arg = loc[p].arg /\ l.soul = loc[p].soul
    <2>1. CASE l = NoLoc /\ c = "idle"
      BY <2>1
    <2>2. CASE Starts(p, l, c)
      <3>1. Asked(l) /\ l.op \in {"read", "write", "delete"} /\ l.op \notin ReadOps
        BY <2>2 DEF Starts, ReadOps
      <3>2. \/ c = "revoked?" /\ l.doc # Null
            \/ c = "commit" /\ l.op = "write"
            \/ c = "select" /\ l.op # "write"
        BY <2>2 DEF Starts, Vaulted
      <3>3. QED
        BY <3>1, <3>2
    <2>3. CASE Passes(p, l, c)
      <3>1. l = loc[p] /\ pc[p] \in {"revoked?", "expired?"}
        BY <2>3 DEF Passes
      <3>2. Asked(l) /\ l.doc # Null /\ l.op \notin ReadOps
        BY <1>6, <3>1 DEF ProcInv
      <3>3. \/ c = "expired?"
            \/ c = "commit" /\ l.op = "write"
            \/ c = "select" /\ l.op # "write"
        BY <2>3 DEF Passes, Vaulted
      <3>4. QED
        BY <3>2, <3>3
    <2>4. CASE LooksUp(p, l, c)
      <3>1. loc[p].op \in {"read", "delete"} /\ Asked(loc[p])
        BY <1>6, <2>4 DEF LooksUp, ProcInv, Asked
      <3>2. LookedUp(p) \in ReadOps \/ (LookedUp(p) = "delete" /\ loc[p].op = "delete")
        BY <3>1 DEF LookedUp, ReadOps
      <3>3. /\ l.msg = loc[p].msg /\ l.doc = loc[p].doc /\ l.soul = loc[p].soul
            /\ l.arg = loc[p].arg /\ l.layer = loc[p].layer /\ l.at = loc[p].at
            /\ l.op = LookedUp(p)
        BY <1>5, <2>4 DEF LooksUp, LocType
      <3>4. (LookedUp(p) = loc[p].op) \/ (loc[p].op = "read" /\ LookedUp(p) \in ReadOps)
        BY <3>1 DEF LookedUp, ReadOps
      <3>5. Asked(l)
        BY <1>5, <3>1, <3>3, <3>4, AskedStays
      <3>6. QED
        BY <2>4, <3>2, <3>3, <3>5 DEF LooksUp, ReadOps
    <2>5. QED
      BY <1>1, <2>1, <2>2, <2>3, <2>4 DEF Moves
  <1>8. ProcInv(p)'
    <2>1. Asked(l) => Asked(loc[p])'
      BY <1>5 DEF Asked, OwnerAsked, LeaseAsked, AuthoriseViaLease, VerifyLeaseSignature,
                  ExtraMatch, LeaseAuthorizesOp, RequiresOwnerCosign, TypedForOp, BodySigned
    <2>2. Found(p) /\ l.arg = loc[p].arg /\ l.soul = loc[p].soul => Found(p)'
      BY <1>2, <1>5 DEF Found
    <2>3. QED
      BY <1>4, <1>5, <1>7, <2>1, <2>2 DEF ProcInv
  <1>9. ASSUME NEW q \in Procs, q # p
        PROVE  ProcInv(q)'
    <2>1. pc'[q] = pc[q] /\ loc'[q] = loc[q]
      BY <1>1, <1>5, <1>9
    <2>2. QED
      BY <1>3, <1>4, <2>1, StaysKnown
  <1>10. QED
    BY <1>2, <1>8, <1>9 DEF Known

LEMMA CarriedOutKnown ==
  ASSUME TypeOK, Known, NEW p \in Procs, NEW op \in {"put", "tombstone"} \cup ReadOps,
         NEW r \in Records, CarriedOut(p, op, r)
  PROVE  Known'
  <1>1. /\ pc' = [pc EXCEPT ![p] = "idle"] /\ loc' = [loc EXCEPT ![p] = NoLoc]
        /\ leases' = leases /\ revoking' = revoking
    BY DEF CarriedOut
  <1>2. loc \in [Procs -> LocType] /\ pc \in [Procs -> PCs]
    BY DEF TypeOK
  <1>3. /\ RowsStay
        /\ \A q \in Records : index'[q].status # "none" => index'[q].soul \in Souls
    BY CarriedOutRows
  <1>4. \A q \in Procs : revoking'[q] # Null => leases'[revoking'[q]].status # "none"
    BY <1>1 DEF Known, ProcInv
  <1>5. ProcInv(p)'
    BY <1>1, <1>2, <1>4 DEF ProcInv
  <1>6. ASSUME NEW q \in Procs, q # p
        PROVE  ProcInv(q)'
    <2>1. pc'[q] = pc[q] /\ loc'[q] = loc[q]
      BY <1>1, <1>2, <1>6
    <2>2. QED
      BY <1>3, <1>4, <2>1, StaysKnown
  <1>7. QED
    BY <1>3, <1>5, <1>6 DEF Known

LEMMA KnownStep ==
  ASSUME TypeOK, Known, [Next]_vars
  PROVE  Known'
  <1>1. CASE UNCHANGED vars
    <2>1. RowsStay
      BY <1>1 DEF vars, RowsStay
    <2>2. \A q \in Procs : ProcInv(q)'
      <3>1. \A q \in Procs : ProcInv(q)
        BY DEF Known
      <3>2. ASSUME NEW q \in Procs
            PROVE  /\ pc'[q] = pc[q] /\ loc'[q] = loc[q]
                   /\ revoking'[q] # Null => leases'[revoking'[q]].status # "none"
        BY <1>1, <3>1 DEF vars, ProcInv
      <3>3. QED
        BY <2>1, <3>2, StaysKnown
    <2>3. QED
      BY <1>1, <2>2 DEF Known, vars
  <1>2. QED
    BY <1>1, StepCases, LeaseStepKnown, QuietKnown, CommitCases, CarriedOutKnown

LEMMA InitKnown ==
  ASSUME Init
  PROVE  TypeOK /\ Known
  <1>1. NoLoc \in LocType /\ NoData \in DataType /\ NoRow \in RowType /\ "idle" \in PCs
    BY DEF NoLoc, LocType, DataType, RowType, PCs
  <1>2. /\ index \in [Records -> [status : {"none", "active", "tombstoned"},
                                  soul : Souls \cup {Null}]]
        /\ stored \in [Records -> DataType]
        /\ \A r \in Records : index[r].status = "none"
    BY <1>1 DEF Init
  <1>3. pc \in [Procs -> PCs] /\ loc \in [Procs -> LocType] /\ done \in Seq(DoneType)
    BY <1>1 DEF Init
  <1>4. /\ clock \in Nat /\ calls \in Nat /\ log \in Seq(EntryType)
        /\ leases \in [LeaseIds -> RowType]
        /\ revoking \in [Procs -> LeaseIds \cup {Null}]
    BY <1>1 DEF Init, LeaseInit
  <1>5. \A p \in Procs : ProcInv(p)
    BY DEF Init, LeaseInit, ProcInv
  <1>6. QED
    BY <1>2, <1>3, <1>4, <1>5 DEF TypeOK, Known

\* Every variable always holds a value of its type; among them, the layers the
\* vault stores are ones it knows, put_record having refused the others.
THEOREM GatewayTyping == Spec => []TypeOK
  <1>1. Init => TypeOK /\ Known
    BY InitKnown
  <1>2. TypeOK /\ Known /\ [Next]_vars => (TypeOK /\ Known)'
    BY TypeStep, KnownStep
  <1>3. QED
    BY <1>1, <1>2, PTL DEF Spec

-----------------------------------------------------------------------------
(* The log and the leases table.                                           *)

\* The log is longer by entry e.
Grows(e) ==
  /\ Len(log) \in Nat /\ Len(log') = Len(log) + 1
  /\ \A i \in 1..Len(log) : log'[i] = log[i]
  /\ log'[Len(log) + 1] = e

\* The entries of one kind, about one thing, are those of before, and the new
\* one if it is of that kind and about that thing.
LEMMA EntriesAfter ==
  ASSUME NEW e \in EntryType, Grows(e), NEW op \in LogOps, NEW what \in Named
  PROVE  /\ Entries(op, what) \subseteq 1..Len(log)
         /\ e.op = op /\ e.rec = what
              => Entries(op, what)' = Entries(op, what) \cup {Len(log) + 1}
         /\ e.op # op \/ e.rec # what => Entries(op, what)' = Entries(op, what)
  BY DEF Grows, Entries

\* An entry that is not about leases changes neither side.
LEMMA OtherEntries ==
  ASSUME NEW e \in EntryType, Grows(e), e.op \in {"put", "tombstone"} \cup ReadOps,
         NEW l \in LeaseIds
  PROVE  /\ Entries("lease.issued", l)' = Entries("lease.issued", l)
         /\ Entries("lease.revoked", l)' = Entries("lease.revoked", l)
  <1>1. /\ "lease.issued" \in LogOps /\ "lease.revoked" \in LogOps /\ l \in Named
        /\ e.op # "lease.issued" /\ e.op # "lease.revoked"
    BY DEF LogOps, Named, ReadOps
  <1>2. QED
    BY <1>1, EntriesAfter

LEMMA IssuesAgrees ==
  ASSUME TypeOK, LeaseLogAgrees, NEW k \in LeaseIds, Issues(k)
  PROVE  LeaseLogAgrees'
  <1>1. PICK d \in Docs :
         /\ d.id = k /\ VerifyLeaseSignature(d) /\ leases[k].status = "none"
         /\ leases' = [leases EXCEPT ![k] = [status |-> "active", doc |-> d]]
         /\ Grows([op |-> "lease.issued", soul |-> d.subject, rec |-> k])
    BY IssuesLogs DEF Grows
  <1> DEFINE e == [op |-> "lease.issued", soul |-> d.subject, rec |-> k]
  <1>2. e \in EntryType
    BY LeaseConstants DEF EntryType, DocType
  <1>3. /\ Grows(e) /\ e.op = "lease.issued" /\ e.rec = k
    BY <1>1
  <1> HIDE DEF e
  <1>4. ASSUME NEW l \in LeaseIds
        PROVE  /\ Entries("lease.issued", l) \subseteq 1..Len(log)
               /\ l = k => Entries("lease.issued", l)'
                             = Entries("lease.issued", l) \cup {Len(log) + 1}
               /\ l # k => Entries("lease.issued", l)' = Entries("lease.issued", l)
               /\ Entries("lease.revoked", l)' = Entries("lease.revoked", l)
    <2>1. "lease.issued" \in LogOps /\ "lease.revoked" \in LogOps /\ l \in Named
      BY DEF LogOps, Named
    <2>2. QED
      BY <1>2, <1>3, <2>1, EntriesAfter
  <1>5. leases \in [LeaseIds -> RowType]
    BY DEF TypeOK
  <1>6. ASSUME NEW l \in LeaseIds
        PROVE  /\ leases'[l].status = "none" <=> Entries("lease.issued", l)' = {}
               /\ leases'[l].status = "revoked" <=> Entries("lease.revoked", l)' # {}
               /\ \A i, j \in Entries("lease.issued", l)' : i = j
               /\ \A i \in Entries("lease.issued", l)', j \in Entries("lease.revoked", l)' : i < j
               /\ leases'[l].status # "none" => /\ leases'[l].doc.id = l
                                                /\ VerifyLeaseSignature(leases'[l].doc)
    <2>1. CASE l = k
      <3>1. /\ Entries("lease.issued", k) = {} /\ Entries("lease.revoked", k) = {}
        BY <1>1 DEF LeaseLogAgrees
      <3>2. /\ leases'[k].status = "active" /\ leases'[k].doc = d
        BY <1>1, <1>5
      <3>3. QED
        BY <1>1, <1>4, <2>1, <3>1, <3>2
    <2>2. CASE l # k
      <3>1. leases'[l] = leases[l]
        BY <1>1, <1>5, <2>2
      <3>2. QED
        BY <1>4, <2>2, <3>1 DEF LeaseLogAgrees
    <2>3. QED
      BY <2>1, <2>2
  <1>7. QED
    BY <1>6 DEF LeaseLogAgrees, VerifyLeaseSignature

LEMMA RevokesAgrees ==
  ASSUME TypeOK, LeaseLogAgrees, NEW p \in Procs, NEW k \in LeaseIds, Revokes(p, k)
  PROVE  LeaseLogAgrees'
  <1> DEFINE e == [op |-> "lease.revoked", soul |-> leases[k].doc.subject, rec |-> k]
  <1>1. leases[k].doc \in Docs /\ Grows(e)
    BY RevokesLogs DEF Grows
  <1>2. e \in EntryType /\ e.op = "lease.revoked" /\ e.rec = k
    BY <1>1, LeaseConstants DEF EntryType, DocType
  <1> HIDE DEF e
  <1>3. ASSUME NEW l \in LeaseIds
        PROVE  /\ Entries("lease.issued", l) \subseteq 1..Len(log)
               /\ Len(log) \in Nat
               /\ l = k => Entries("lease.revoked", l)'
                             = Entries("lease.revoked", l) \cup {Len(log) + 1}
               /\ l # k => Entries("lease.revoked", l)' = Entries("lease.revoked", l)
               /\ Entries("lease.issued", l)' = Entries("lease.issued", l)
    <2>1. "lease.issued" \in LogOps /\ "lease.revoked" \in LogOps /\ l \in Named
      BY DEF LogOps, Named
    <2>2. QED
      BY <1>1, <1>2, <2>1, EntriesAfter DEF Grows
  <1>4. leases \in [LeaseIds -> RowType]
    BY DEF TypeOK
  <1>5. ASSUME NEW l \in LeaseIds
        PROVE  /\ leases'[l].status = "none" <=> Entries("lease.issued", l)' = {}
               /\ leases'[l].status = "revoked" <=> Entries("lease.revoked", l)' # {}
               /\ \A i, j \in Entries("lease.issued", l)' : i = j
               /\ \A i \in Entries("lease.issued", l)', j \in Entries("lease.revoked", l)' : i < j
               /\ leases'[l].status # "none" => /\ leases'[l].doc.id = l
                                                /\ VerifyLeaseSignature(leases'[l].doc)
    <2>1. CASE l = k
      <3>1. leases[k] \in [status : {"active", "revoked"}, doc : Docs]
        BY <1>4 DEF Revokes, RowType, NoRow
      <3>2. leases'[k].status = "revoked" /\ leases'[k].doc = leases[k].doc
        BY <1>4, <3>1 DEF Revokes
      <3>3. leases[k].status # "none"
        BY DEF Revokes
      <3>4. QED
        BY <1>3, <2>1, <3>2, <3>3 DEF LeaseLogAgrees
    <2>2. CASE l # k
      <3>1. leases'[l] = leases[l]
        BY <1>4, <2>2 DEF Revokes
      <3>2. QED
        BY <1>3, <2>2, <3>1 DEF LeaseLogAgrees
    <2>3. QED
      BY <2>1, <2>2
  <1>6. QED
    BY <1>5 DEF LeaseLogAgrees, VerifyLeaseSignature

LEMMA CarriedOutAgrees ==
  ASSUME TypeOK, LeaseLogAgrees, NEW p \in Procs,
         NEW op \in {"put", "tombstone"} \cup ReadOps, NEW r \in Records, CarriedOut(p, op, r)
  PROVE  LeaseLogAgrees'
  <1> DEFINE e == [op |-> op, soul |-> loc[p].soul, rec |-> r]
  <1>1. leases' = leases /\ loc[p].soul \in Addresses
    BY GatewayConstants DEF CarriedOut, Asked
  <1>2. e \in EntryType /\ e.op \in {"put", "tombstone"} \cup ReadOps
    BY <1>1 DEF EntryType
  <1>3. Grows(e)
    BY CarriedOutLogs DEF Grows
  <1>4. \A l \in LeaseIds : /\ Entries("lease.issued", l)' = Entries("lease.issued", l)
                            /\ Entries("lease.revoked", l)' = Entries("lease.revoked", l)
    <2> HIDE DEF e
    <2>1. QED
      BY <1>2, <1>3, OtherEntries
  <1>5. QED
    BY <1>1, <1>4 DEF LeaseLogAgrees, VerifyLeaseSignature

LEMMA AgreesStep ==
  ASSUME TypeOK, Known, LeaseLogAgrees, [Next]_vars
  PROVE  LeaseLogAgrees'
  <1>1. ASSUME leases' = leases, log' = log
        PROVE  LeaseLogAgrees'
    BY <1>1 DEF LeaseLogAgrees, Entries, VerifyLeaseSignature
  <1>2. CASE UNCHANGED vars
    BY <1>1, <1>2 DEF vars
  <1>3. CASE LeaseStep
    <2>1. ASSUME NEW p \in Procs, NEW l \in LeaseIds, Intends(p, l)
          PROVE  leases' = leases /\ log' = log
      BY <2>1 DEF Intends
    <2>2. QED
      BY <1>1, <1>3, <2>1, LeaseCases, IssuesAgrees, RevokesAgrees
  <1>4. ASSUME NEW p \in Procs, Quiet(p)
        PROVE  leases' = leases /\ log' = log
    BY <1>4, QuietCases
  <1>5. QED
    BY <1>1, <1>2, <1>3, <1>4, StepCases, CommitCases, CarriedOutAgrees

LEMMA InitAgrees ==
  ASSUME Init
  PROVE  LeaseLogAgrees
  <1>1. \A l \in LeaseIds : leases[l].status = "none"
    BY DEF Init, LeaseInit, NoRow
  <1>2. ASSUME NEW op \in LogOps, NEW what \in Named
        PROVE  Entries(op, what) = {}
    BY DEF Init, LeaseInit, Entries
  <1>3. "lease.issued" \in LogOps /\ "lease.revoked" \in LogOps /\ LeaseIds \subseteq Named
    BY DEF LogOps, Named
  <1>4. QED
    BY <1>1, <1>2, <1>3 DEF LeaseLogAgrees

\* The leases table and the audit log agree, however the stores and the
\* revocations of concurrent processes interleave: store_lease never replaces
\* a row and revoke_lease, which marks the row without looking at it again,
\* has seen one.
THEOREM LeaseLogCorrect == Spec => []LeaseLogAgrees
  <1> DEFINE Inv == TypeOK /\ Known /\ LeaseLogAgrees
  <1>1. Init => Inv
    BY InitKnown, InitAgrees
  <1>2. Inv /\ [Next]_vars => Inv'
    BY TypeStep, KnownStep, AgreesStep
  <1>3. QED
    BY <1>1, <1>2, PTL DEF Spec

-----------------------------------------------------------------------------
(***************************************************************************)
(* What was carried out.  A process's request was made, and its expiry     *)
(* checked, at a time that has passed, when the log was no longer than     *)
(* now; since then its lease has not been revoked, nor its record deleted, *)
(* where that was checked (InTime).  A call carried out has its entry, and *)
(* what held when it was carried out still does (Rightful).                *)
(***************************************************************************)
GatewayOps == {"put", "tombstone"} \cup ReadOps

NotRevokedBy(doc, since) ==
  doc # Null => \A i \in Entries("lease.revoked", doc.id) : since < i

InTime(p) ==
  /\ pc[p] # "idle" => loc[p].since <= Len(log) /\ loc[p].at <= clock
  /\ pc[p] \in {"select", "commit"} => loc[p].at < loc[p].msg.exp
  /\ pc[p] \in {"expired?", "select", "commit"} => NotRevokedBy(loc[p].doc, loc[p].since)
  /\ pc[p] = "commit" /\ loc[p].op \in {"read.active", "delete"}
       => \A i \in Entries("tombstone", loc[p].arg) : loc[p].since < i

\* c was carried out as the three properties of calls ask.
Rightful(c) ==
  /\ c.entry \in 1..Len(log) /\ c.since < c.entry
  /\ log[c.entry].op \in GatewayOps /\ log[c.entry].rec \in Records
  /\ c.at < c.msg.exp
  /\ Covers(c.msg, log[c.entry])
  /\ OwnerAllows(c, log[c.entry]) \/ LeaseAllows(c, log[c.entry])
  /\ NotRevokedBy(c.doc, c.since)
  /\ \A i \in Entries("tombstone", log[c.entry].rec) :
       i <= c.since => log[c.entry].op = "read.tombstoned"

\* What the log says of a record, the index says.
RowsLogged ==
  \A i \in 1..Len(log) :
    /\ log[i].op = "put" => log[i].rec \in Records /\ index[log[i].rec].status # "none"
    /\ log[i].op = "tombstone"
         => log[i].rec \in Records /\ index[log[i].rec].status = "tombstoned"

\* Each entry that is not about leases is that of a call.
AllCalled ==
  \A i \in 1..Len(log) : log[i].op \in GatewayOps => \E k \in 1..Len(done) : done[k].entry = i

History ==
  /\ RowsLogged /\ AllCalled
  /\ \A p \in Procs : InTime(p)
  /\ \A k \in 1..Len(done) : Rightful(done[k])

\* Whatever the step, the log only grows, time only passes, and a record once
\* put keeps what it was put with.
Passing ==
  /\ Len(log) \in Nat /\ Len(log') \in Nat /\ Len(log') >= Len(log)
  /\ \A i \in 1..Len(log) : log'[i] = log[i]
  /\ clock \in Nat /\ clock' \in Nat /\ clock' >= clock
  /\ \A r \in Records : index[r].status # "none" => stored'[r] = stored[r]
  /\ \A r \in Records : index[r].status # "none" => index'[r].status # "none"
  /\ \A r \in Records : index[r].status = "tombstoned" => index'[r].status = "tombstoned"

\* An entry that was not there comes after all that were.
LEMMA LaterEntries ==
  ASSUME Passing, NEW op \in LogOps, NEW what, NEW i \in Entries(op, what)'
  PROVE  /\ i \in Nat
         /\ i \in Entries(op, what) \/ i > Len(log)
  BY DEF Passing, Entries

LEMMA RightfulStays ==
  ASSUME TypeOK, Passing, RowsLogged, NEW c \in DoneType, Rightful(c)
  PROVE  Rightful(c)'
  <1>1. /\ c.entry \in 1..Len(log) /\ c.since < c.entry /\ c.since \in Nat
        /\ log[c.entry].op \in GatewayOps /\ log[c.entry].rec \in Records
    BY DEF Rightful, DoneType
  <1>2. log'[c.entry] = log[c.entry] /\ c.entry \in 1..Len(log') /\ Len(log) \in Nat
    BY <1>1 DEF Passing
  <1>3. log[c.entry].op = "put" => stored'[log[c.entry].rec] = stored[log[c.entry].rec]
    BY <1>1 DEF RowsLogged, Passing
  <1>4. Covers(c.msg, log[c.entry])'
    <2>1. Covers(c.msg, log[c.entry])
      BY DEF Rightful
    <2>2. QED
      BY <1>1, <1>2, <1>3, <2>1 DEF Covers, GatewayOps, ReadOps
  <1>5. OwnerAllows(c, log[c.entry])' \/ LeaseAllows(c, log[c.entry])'
    <2>1. OwnerAllows(c, log[c.entry]) \/ LeaseAllows(c, log[c.entry])
      BY DEF Rightful
    <2>2. QED
      BY <1>2, <1>3, <2>1 DEF OwnerAllows, LeaseAllows
  <1>6. NotRevokedBy(c.doc, c.since)'
    <2>1. NotRevokedBy(c.doc, c.since)
      BY DEF Rightful
    <2>2. "lease.revoked" \in LogOps
      BY DEF LogOps
    <2>3. QED
      BY <1>1, <1>2, <2>1, <2>2, LaterEntries DEF NotRevokedBy
  <1>7. \A i \in Entries("tombstone", log[c.entry].rec)' :
          i <= c.since => log[c.entry].op = "read.tombstoned"
    <2>1. "tombstone" \in LogOps
      BY DEF LogOps
    <2>2. ASSUME NEW i \in Entries("tombstone", log[c.entry].rec)', i <= c.since
          PROVE  log[c.entry].op = "read.tombstoned"
      <3>1. i \in Nat /\ i <= Len(log) /\ i \in 1..Len(log')
        BY <1>1, <1>2, <2>2 DEF Entries, Passing
      <3>2. i \in Entries("tombstone", log[c.entry].rec)
        BY <1>2, <2>2, <3>1 DEF Entries, Passing
      <3>3. QED
        BY <2>2, <3>2 DEF Rightful
    <2>3. QED
      BY <2>2
  <1>8. c.at < c.msg.exp
    BY DEF Rightful
  <1>9. QED
    BY <1>1, <1>2, <1>4, <1>5, <1>6, <1>7, <1>8 DEF Rightful

LEMMA InTimeStays ==
  ASSUME TypeOK, Known, Passing, NEW q \in Procs, InTime(q), pc'[q] = pc[q], loc'[q] = loc[q]
  PROVE  InTime(q)'
  <1>1. /\ loc[q] \in LocType /\ loc[q].since \in Nat /\ loc[q].at \in Nat
        /\ "lease.revoked" \in LogOps /\ "tombstone" \in LogOps
    BY DEF TypeOK, LocType, LogOps
  <1>2. pc[q] # "idle" => /\ loc[q].since <= Len(log') /\ loc[q].at <= clock'
                          /\ loc[q].since <= Len(log)
    BY <1>1 DEF InTime, Passing
  <1>3. pc[q] \in {"expired?", "select", "commit"} => NotRevokedBy(loc[q].doc, loc[q].since)'
    <2>1. ASSUME pc[q] \in {"expired?", "select", "commit"}
          PROVE  NotRevokedBy(loc[q].doc, loc[q].since) /\ pc[q] # "idle"
      BY <2>1 DEF InTime
    <2>2. ASSUME pc[q] \in {"expired?", "select", "commit"}, loc[q].doc # Null,
                 NEW i \in Entries("lease.revoked", loc[q].doc.id)'
          PROVE  loc[q].since < i
      <3>1. i \in Nat /\ (i \in Entries("lease.revoked", loc[q].doc.id) \/ i > Len(log))
        BY <1>1, <2>2, LaterEntries
      <3>2. QED
        BY <1>1, <1>2, <2>1, <2>2, <3>1 DEF NotRevokedBy, Passing
    <2>3. QED
      BY <2>2 DEF NotRevokedBy
  <1>4. pc[q] = "commit" /\ loc[q].op \in {"read.active", "delete"}
          => \A i \in Entries("tombstone", loc[q].arg)' : loc[q].since < i
    <2>1. ASSUME pc[q] = "commit", loc[q].op \in {"read.active", "delete"},
                 NEW i \in Entries("tombstone", loc[q].arg)'
          PROVE  loc[q].since < i
      <3>1. i \in Nat /\ (i \in Entries("tombstone", loc[q].arg) \/ i > Len(log))
        BY <1>1, <2>1, LaterEntries
      <3>2. QED
        BY <1>1, <1>2, <2>1, <3>1 DEF InTime, Passing
    <2>2. QED
      BY <2>1
  <1>5. pc[q] \in {"select", "commit"} => loc[q].at < loc[q].msg.exp
    BY DEF InTime
  <1>6. InTime(q)' <=>
             /\ pc[q] # "idle" => loc[q].since <= Len(log') /\ loc[q].at <= clock'
             /\ pc[q] \in {"select", "commit"} => loc[q].at < loc[q].msg.exp
             /\ pc[q] \in {"expired?", "select", "commit"}
                  => NotRevokedBy(loc[q].doc, loc[q].since)'
             /\ pc[q] = "commit" /\ loc[q].op \in {"read.active", "delete"}
                  => \A i \in Entries("tombstone", loc[q].arg)' : loc[q].since < i
    BY DEF InTime, NotRevokedBy, Entries
  <1>7. QED
    BY <1>2, <1>3, <1>4, <1>5, <1>6

\* Every step is such.
LEMMA LeaseStepPassing ==
  ASSUME TypeOK, Known, LeaseStep
  PROVE  /\ Passing
         /\ \/ Len(log') = Len(log)
            \/ /\ Len(log') = Len(log) + 1
               /\ log'[Len(log) + 1].op \in {"lease.issued", "lease.revoked"}
  <1>1. /\ UNCHANGED <<index, stored>> /\ clock' \in Nat /\ clock' >= clock
        /\ clock \in Nat /\ log \in Seq(EntryType) /\ Len(log) \in Nat
    BY LeaseCases DEF TypeOK
  <1> DEFINE Goal == /\ Len(log') \in Nat /\ Len(log') >= Len(log)
                     /\ \A i \in 1..Len(log) : log'[i] = log[i]
                     /\ \/ Len(log') = Len(log)
                        \/ /\ Len(log') = Len(log) + 1
                           /\ log'[Len(log) + 1].op \in {"lease.issued", "lease.revoked"}
  <1>2. ASSUME NEW l \in LeaseIds, Issues(l)
        PROVE  Goal
    <2>1. PICK d \in Docs :
            /\ Len(log') = Len(log) + 1
            /\ \A i \in 1..Len(log) : log'[i] = log[i]
            /\ log'[Len(log) + 1] = [op |-> "lease.issued", soul |-> d.subject, rec |-> l]
      BY <1>2, IssuesLogs
    <2>2. log'[Len(log) + 1].op = "lease.issued"
      BY <2>1
    <2>3. QED
      BY <1>1, <2>1, <2>2
  <1>3. ASSUME NEW p \in Procs, NEW l \in LeaseIds, Revokes(p, l)
        PROVE  Goal
    <2>1. /\ Len(log') = Len(log) + 1
          /\ \A i \in 1..Len(log) : log'[i] = log[i]
          /\ log'[Len(log) + 1] =
               [op |-> "lease.revoked", soul |-> leases[l].doc.subject, rec |-> l]
      BY <1>3, RevokesLogs
    <2>2. log'[Len(log) + 1].op = "lease.revoked"
      BY <2>1
    <2>3. QED
      BY <1>1, <2>1, <2>2
  <1>4. ASSUME log' = log
        PROVE  Goal
    BY <1>1, <1>4
  <1>5. ASSUME NEW p \in Procs, NEW l \in LeaseIds, Intends(p, l)
        PROVE  log' = log
    BY <1>5 DEF Intends
  <1>6. Goal
    <2> HIDE DEF Goal
    <2>1. QED
      BY <1>2, <1>3, <1>4, <1>5, LeaseCases
  <1>7. QED
    BY <1>1, <1>6 DEF Passing

LEMMA StillPassing ==
  ASSUME TypeOK, UNCHANGED <<clock, log, index, stored>>
  PROVE  Passing
  BY DEF TypeOK, Passing

LEMMA CarriedOutPassing ==
  ASSUME TypeOK, Known, NEW p \in Procs, NEW op \in GatewayOps, NEW r \in Records,
         CarriedOut(p, op, r)
  PROVE  Passing
  <1>1. /\ index \in [Records -> [status : {"none", "active", "tombstoned"},
                                  soul : Souls \cup {Null}]]
        /\ stored \in [Records -> DataType] /\ clock \in Nat /\ clock' = clock
    BY DEF TypeOK, CarriedOut
  <1>2. /\ Len(log) \in Nat /\ Len(log') = Len(log) + 1
        /\ \A i \in 1..Len(log) : log'[i] = log[i]
    BY CarriedOutLogs DEF GatewayOps
  <1>3. /\ \A q \in Records : index[q].status # "none" => stored'[q] = stored[q]
        /\ \A q \in Records : index[q].status # "none" => index'[q].status # "none"
        /\ \A q \in Records : index[q].status = "tombstoned" => index'[q].status = "tombstoned"
    <2>1. CASE Writes(p, op, r)
      BY <1>1, <2>1 DEF Writes
    <2>2. CASE Reads(p, op, r)
      BY <1>1, <2>2 DEF Reads
    <2>3. CASE Deletes(p, op, r)
      BY <1>1, <2>3 DEF Deletes
    <2>4. QED
      BY <2>1, <2>2, <2>3 DEF CarriedOut
  <1>4. QED
    BY <1>1, <1>2, <1>3 DEF Passing

\* While no call is carried out, what was carried out stays rightful.
LEMMA NoneCarriedOut ==
  ASSUME TypeOK, History, Passing, UNCHANGED <<index, done>>,
         \/ Len(log') = Len(log)
         \/ /\ Len(log') = Len(log) + 1
            /\ log'[Len(log) + 1].op \in {"lease.issued", "lease.revoked"}
  PROVE  /\ RowsLogged' /\ AllCalled'
         /\ (\A k \in 1..Len(done) : Rightful(done[k]))'
  <1>1. RowsLogged /\ AllCalled /\ \A k \in 1..Len(done) : Rightful(done[k])
    BY DEF History
  <1>2. ASSUME NEW i \in 1..Len(log')
        PROVE  \/ i \in 1..Len(log) /\ log'[i] = log[i]
               \/ log'[i].op \in {"lease.issued", "lease.revoked"}
    BY DEF Passing
  <1>3. RowsLogged'
    BY <1>1, <1>2 DEF RowsLogged
  <1>4. AllCalled'
    BY <1>1, <1>2 DEF AllCalled, GatewayOps, ReadOps
  <1>5. ASSUME NEW k \in 1..Len(done')
        PROVE  Rightful(done[k])'
    <2>1. PICK c \in DoneType : c = done[k] /\ c = done'[k] /\ Rightful(c)
      BY <1>1, <1>5 DEF TypeOK
    <2>2. Rightful(c)'
      BY <1>1, <2>1, RightfulStays
    <2>3. QED
      BY <2>1, <2>2 DEF Rightful, Covers, OwnerAllows, LeaseAllows, NotRevokedBy, Entries
  <1>6. QED
    BY <1>3, <1>4, <1>5

LEMMA LeaseStepHistory ==
  ASSUME TypeOK, Known, History, LeaseStep
  PROVE  History'
  <1>1. /\ Passing
        /\ \/ Len(log') = Len(log)
           \/ /\ Len(log') = Len(log) + 1
              /\ log'[Len(log) + 1].op \in {"lease.issued", "lease.revoked"}
    BY LeaseStepPassing
  <1>2. UNCHANGED <<index, pc, loc, done>>
    BY LeaseCases
  <1>3. /\ RowsLogged' /\ AllCalled'
        /\ (\A k \in 1..Len(done) : Rightful(done[k]))'
    BY <1>1, <1>2, NoneCarriedOut
  <1>4. \A q \in Procs : InTime(q)'
    <2>1. ASSUME NEW q \in Procs
          PROVE  InTime(q) /\ pc'[q] = pc[q] /\ loc'[q] = loc[q]
      BY <1>2 DEF History
    <2>2. QED
      BY <1>1, <2>1, InTimeStays
  <1>5. QED
    BY <1>3, <1>4 DEF History

\* A request that goes on: a new one is made now, a check that passes is made
\* now, and what a lookup finds is so now.
LEMMA QuietInTime ==
  ASSUME TypeOK, Known, LeaseLogAgrees, History, NEW p \in Procs,
         UNCHANGED <<clock, leases, revoking, log, index, stored, done>>,
         NEW l \in LocType, NEW c \in PCs,
         loc' = [loc EXCEPT ![p] = l], pc' = [pc EXCEPT ![p] = c], Moves(p, l, c)
  PROVE  InTime(p)'
  <1>1. /\ loc'[p] = l /\ pc'[p] = c /\ loc[p] \in LocType
        /\ clock \in Nat /\ Len(log) \in Nat
        /\ InTime(p) /\ ProcInv(p)
    BY DEF TypeOK, History, Known
  <1>2. /\ c # "idle" => l.since <= Len(log) /\ l.at <= clock
        /\ c \in {"select", "commit"} => l.at < l.msg.exp
        /\ c \in {"expired?", "select", "commit"} => NotRevokedBy(l.doc, l.since)
        /\ c = "commit" /\ l.op \in {"read.active", "delete"}
             => \A i \in Entries("tombstone", l.arg) : l.since < i
    <2>1. CASE l = NoLoc /\ c = "idle"
      BY <2>1
    <2>2. CASE Starts(p, l, c)
      BY <1>1, <2>2 DEF Starts, Vaulted, NotRevokedBy
    <2>3. CASE Passes(p, l, c)
      <3>1. l = loc[p] /\ pc[p] \in {"revoked?", "expired?"} /\ Asked(l) /\ l.doc \in Docs
        BY <1>1, <2>3, LeaseConstants DEF Passes, ProcInv, Asked, OwnerAsked, LeaseAsked
      <3>2. l.since <= Len(log) /\ l.at <= clock /\ l.at \in Nat
        BY <1>1, <3>1 DEF InTime, LocType
      <3>3. CASE pc[p] = "revoked?"
        <4>1. ~IsLeaseRevoked(l.doc) /\ c = "expired?"
          BY <2>3, <3>3 DEF Passes
        <4>2. l.doc.id \in LeaseIds
          BY <3>1, LeaseConstants DEF DocType
        <4>3. Entries("lease.revoked", l.doc.id) = {}
          BY <4>1, <4>2 DEF IsLeaseRevoked, LeaseLogAgrees
        <4>4. QED
          BY <3>2, <4>1, <4>3 DEF NotRevokedBy
      <3>4. CASE pc[p] = "expired?"
        <4>1. c = Vaulted(l.op) /\ CheckExpiry(l.msg)
          BY <2>3, <3>4 DEF Passes
        <4>2. l.msg.exp \in Nat
          BY <3>1, GatewayConstants DEF Asked, MessageType
        <4>3. l.at < l.msg.exp
          BY <1>1, <3>2, <4>1, <4>2 DEF CheckExpiry
        <4>4. NotRevokedBy(l.doc, l.since)
          BY <1>1, <3>1, <3>4 DEF InTime
        <4>5. c \in {"select", "commit"} /\ (c = "commit" => l.op = "write")
          BY <4>1 DEF Vaulted
        <4>6. QED
          BY <3>2, <4>3, <4>4, <4>5
      <3>5. QED
        BY <3>1, <3>3, <3>4
    <2>4. CASE LooksUp(p, l, c)
      <3>1. /\ pc[p] = "select" /\ c = "commit" /\ Found(p)
            /\ loc[p].op = "read" \/ index[loc[p].arg].status = "active"
            /\ l = [loc[p] EXCEPT !.op = LookedUp(p)]
        BY <2>4 DEF LooksUp
      <3>2. /\ l.msg = loc[p].msg /\ l.doc = loc[p].doc /\ l.since = loc[p].since
            /\ l.arg = loc[p].arg /\ l.at = loc[p].at /\ l.op = LookedUp(p)
        BY <1>1, <3>1 DEF LocType
      <3>3. loc[p].op \in {"read", "delete"}
        BY <1>1, <3>1 DEF ProcInv, Asked
      <3>4. l.op \in {"read.active", "delete"} => index[l.arg].status = "active"
        BY <3>1, <3>2, <3>3 DEF LookedUp
      <3>5. index[l.arg].status = "active" => Entries("tombstone", l.arg) = {}
        BY DEF History, RowsLogged, Entries
      <3>6. QED
        BY <1>1, <3>1, <3>2, <3>4, <3>5 DEF InTime
    <2>5. QED
      BY <2>1, <2>2, <2>3, <2>4 DEF Moves
  <1>3. QED
    BY <1>1, <1>2 DEF InTime, NotRevokedBy, Entries

LEMMA QuietHistory ==
  ASSUME TypeOK, Known, LeaseLogAgrees, History, NEW p \in Procs, Quiet(p)
  PROVE  History'
  <1>1. PICK l \in LocType, c \in PCs :
          /\ loc' = [loc EXCEPT ![p] = l] /\ pc' = [pc EXCEPT ![p] = c]
          /\ Moves(p, l, c)
    BY QuietCases
  <1>2. UNCHANGED <<clock, leases, revoking, log, index, stored, done>>
    BY QuietCases
  <1>3. Passing
    BY <1>2, StillPassing
  <1>4. /\ RowsLogged' /\ AllCalled'
        /\ (\A k \in 1..Len(done) : Rightful(done[k]))'
    BY <1>2, <1>3, NoneCarriedOut
  <1>5. InTime(p)'
    BY <1>1, <1>2, QuietInTime
  <1>6. ASSUME NEW q \in Procs, q # p
        PROVE  InTime(q)'
    <2>1. pc'[q] = pc[q] /\ loc'[q] = loc[q] /\ InTime(q)
      BY <1>1, <1>6 DEF TypeOK, History
    <2>2. QED
      BY <1>3, <2>1, InTimeStays
  <1>7. QED
    BY <1>4, <1>5, <1>6 DEF History

\* The call p carries out, and its entry.
NewCall(p) == [entry |-> Len(log) + 1, msg |-> loc[p].msg, doc |-> loc[p].doc,
               at |-> loc[p].at, since |-> loc[p].since]

NewEntry(p, op, r) == [op |-> op, soul |-> loc[p].soul, rec |-> r]

\* The message, and the lease if there is one, cover the operation.
LEMMA NewAuthorized ==
  ASSUME TypeOK, NEW p \in Procs, NEW op \in GatewayOps, NEW r \in Records, CarriedOut(p, op, r),
         NEW c \in DoneType, c = NewCall(p), NEW e \in EntryType, e = NewEntry(p, op, r)
  PROVE  /\ Covers(c.msg, e)'
         /\ OwnerAllows(c, e)' \/ LeaseAllows(c, e)'
  <1>1. /\ e.op = op /\ e.soul = loc[p].soul /\ e.rec = r
        /\ c.msg = loc[p].msg /\ c.doc = loc[p].doc /\ c.at = loc[p].at
    BY DEF NewEntry, NewCall
  <1>2. Asked(loc[p]) /\ loc[p].msg \in Messages
    BY DEF CarriedOut, Asked
  <1>3. \/ /\ op = "put" /\ loc[p].op = "write" /\ loc[p].layer \in ValidLayers
           /\ stored'[r] = [layer |-> loc[p].layer, payload |-> loc[p].arg]
        \/ op = "tombstone" /\ loc[p].op = "delete" /\ r = loc[p].arg
        \/ op \in ReadOps /\ loc[p].op = op /\ r = loc[p].arg
    BY DEF CarriedOut, Writes, Reads, Deletes, TypeOK
  <1>4. ExtraMatch(loc[p].msg.op, loc[p].arg, loc[p].layer, loc[p].msg)
    BY <1>2 DEF Asked
  <1>5. CASE op = "put"
    <2>1. /\ loc[p].msg.op = "write" /\ loc[p].layer \in ValidLayers
          /\ stored'[r] = [layer |-> loc[p].layer, payload |-> loc[p].arg]
      BY <1>2, <1>3, <1>5 DEF Asked, ReadOps
    <2>2. loc[p].msg.layer = loc[p].layer /\ loc[p].msg.arg = loc[p].arg
      BY <1>4, <2>1 DEF ExtraMatch
    <2>3. Covers(c.msg, e)'
      BY <1>1, <1>5, <2>1, <2>2 DEF Covers, ReadOps
    <2>4. CASE OwnerAsked(loc[p])
      BY <1>1, <1>2, <2>3, <2>4 DEF OwnerAsked, OwnerAllows, Asked, TypedForOp
    <2>5. CASE LeaseAsked(loc[p])
      <3>1. /\ loc[p].doc # Null /\ loc[p].at <= loc[p].doc.exp
            /\ loc[p].doc.signer = loc[p].doc.subject
            /\ loc[p].msg.subject = loc[p].doc.subject
            /\ loc[p].msg.signer = loc[p].doc.body /\ loc[p].msg.lease = loc[p].doc.id
            /\ loc[p].msg.typed = Null
            /\ LeaseAuthorizesOp(loc[p].doc, "write", loc[p].msg.layer)
            /\ ~RequiresOwnerCosign(loc[p].doc, "write", loc[p].msg.layer)
        BY <2>1, <2>5, LeaseConstants
        DEF LeaseAsked, AuthoriseViaLease, VerifyLeaseSignature, BodySigned
      <3>2. loc[p].layer # Null
        BY <2>1, LeaseConstants, GatewayConstants
      <3>3. /\ loc[p].layer \in loc[p].doc.scopes["write"]
            /\ loc[p].layer = "L3_canonical" => "canonical_write" \notin loc[p].doc.cosign
        BY <2>2, <3>1, <3>2 DEF LeaseAuthorizesOp, RequiresOwnerCosign
      <3>4. LeaseAllows(c, e)'
        BY <1>1, <1>5, <2>1, <3>1, <3>3 DEF LeaseAllows
      <3>5. QED
        BY <1>1, <1>2, <2>3, <3>4 DEF Asked
    <2>6. QED
      BY <1>2, <2>4, <2>5 DEF Asked
  <1>6. CASE op = "tombstone"
    <2>1. /\ loc[p].msg.op = "delete" /\ r = loc[p].arg /\ OwnerAsked(loc[p])
      <3>1. loc[p].op = "delete" /\ r = loc[p].arg
        BY <1>3, <1>6 DEF ReadOps
      <3>2. loc[p].msg.op = "delete" /\ loc[p].doc = Null
        BY <1>2, <3>1 DEF Asked, ReadOps
      <3>3. ~LeaseAsked(loc[p])
        BY <3>2, LeaseConstants DEF LeaseAsked
      <3>4. QED
        BY <1>2, <3>1, <3>2, <3>3 DEF Asked
    <2>2. Covers(c.msg, e)'
      BY <1>1, <1>4, <1>6, <2>1 DEF Covers, ExtraMatch, ReadOps
    <2>3. QED
      BY <1>1, <1>2, <2>1, <2>2 DEF OwnerAsked, OwnerAllows, Asked, TypedForOp
  <1>7. CASE op \in ReadOps
    <2>1. r = loc[p].arg /\ loc[p].msg.op = "read"
      <3>1. loc[p].op = op /\ r = loc[p].arg
        BY <1>3, <1>7 DEF ReadOps
      <3>2. QED
        BY <1>2, <1>7, <3>1 DEF Asked, ReadOps
    <2>2. Covers(c.msg, e)'
      BY <1>1, <1>4, <1>7, <2>1 DEF Covers, ExtraMatch, ReadOps
    <2>3. CASE OwnerAsked(loc[p])
      BY <1>1, <1>2, <2>2, <2>3 DEF OwnerAsked, OwnerAllows, Asked, TypedForOp
    <2>4. CASE LeaseAsked(loc[p])
      <3>1. /\ loc[p].doc # Null /\ loc[p].at <= loc[p].doc.exp
            /\ loc[p].doc.signer = loc[p].doc.subject
            /\ loc[p].msg.subject = loc[p].doc.subject
            /\ loc[p].msg.signer = loc[p].doc.body /\ loc[p].msg.lease = loc[p].doc.id
            /\ loc[p].msg.typed = Null
            /\ loc[p].doc.scopes["read"] # {}
        BY <2>1, <2>4, LeaseConstants
        DEF LeaseAsked, AuthoriseViaLease, VerifyLeaseSignature, BodySigned, LeaseAuthorizesOp
      <3>2. LeaseAllows(c, e)'
        BY <1>1, <1>7, <3>1 DEF LeaseAllows
      <3>3. QED
        BY <1>1, <1>2, <2>2, <3>2 DEF Asked
    <2>5. QED
      BY <1>2, <2>3, <2>4 DEF Asked
  <1>8. QED
    BY <1>5, <1>6, <1>7 DEF GatewayOps

LEMMA NewRightful ==
  ASSUME TypeOK, Known, History, NEW p \in Procs, NEW op \in GatewayOps, NEW r \in Records,
         CarriedOut(p, op, r),
         NEW c \in DoneType, c = NewCall(p), NEW e \in EntryType, e = NewEntry(p, op, r)
  PROVE  Rightful(c)'
  <1>1. /\ Len(log) \in Nat /\ Len(log') = Len(log) + 1 /\ log'[Len(log) + 1] = e
        /\ \A i \in 1..Len(log) : log'[i] = log[i]
    BY CarriedOutLogs DEF NewEntry, GatewayOps
  <1>2. /\ c.entry = Len(log) + 1 /\ c.msg = loc[p].msg /\ c.doc = loc[p].doc
        /\ c.at = loc[p].at /\ c.since = loc[p].since /\ c.since \in Nat
        /\ e.op = op /\ e.rec = r
    BY DEF NewCall, NewEntry, DoneType
  <1>3. InTime(p) /\ pc[p] = "commit"
    BY DEF History, CarriedOut
  <1>4. c.since <= Len(log) /\ c.at < c.msg.exp /\ NotRevokedBy(c.doc, c.since)
    BY <1>2, <1>3 DEF InTime
  <1>5. Passing
    BY CarriedOutPassing
  <1>6. NotRevokedBy(c.doc, c.since)'
    <2>1. "lease.revoked" \in LogOps
      BY DEF LogOps
    <2>2. QED
      BY <1>1, <1>2, <1>4, <1>5, <2>1, LaterEntries DEF NotRevokedBy
  <1>7. \A i \in Entries("tombstone", e.rec)' : i <= c.since => e.op = "read.tombstoned"
    <2>1. SUFFICES ASSUME NEW i \in Entries("tombstone", r)', i <= c.since,
                          op # "read.tombstoned"
                   PROVE  FALSE
      BY <1>2
    <2>2. i \in Entries("tombstone", r)
      <3>1. "tombstone" \in LogOps
        BY DEF LogOps
      <3>2. i \in Nat /\ (i \in Entries("tombstone", r) \/ i > Len(log))
        BY <1>5, <3>1, LaterEntries
      <3>3. QED
        BY <1>1, <1>2, <1>4, <2>1, <3>2
    <2>3. index[r].status = "tombstoned"
      BY <2>2 DEF History, RowsLogged, Entries
    <2>4. CASE op = "put"
      BY <2>3, <2>4 DEF CarriedOut, Writes, Reads, Deletes, ReadOps
    <2>5. CASE op # "put"
      <3>1. r = loc[p].arg /\ loc[p].op \in {"read.active", "delete"}
        BY <2>1, <2>5 DEF CarriedOut, Writes, Reads, Deletes, GatewayOps, ReadOps
      <3>2. loc[p].since < i /\ loc[p].since \in Nat /\ i \in Nat
        BY <1>2, <1>3, <2>2, <3>1 DEF InTime, Entries
      <3>3. QED
        BY <1>2, <2>1, <3>2
    <2>6. QED
      BY <2>4, <2>5
  <1>8. /\ Covers(c.msg, e)'
        /\ OwnerAllows(c, e)' \/ LeaseAllows(c, e)'
    BY NewAuthorized
  <1>9. log'[c.entry] = e /\ c.entry \in 1..Len(log') /\ c.since < c.entry
    BY <1>1, <1>2, <1>4
  <1>10. /\ Covers(c.msg, log[c.entry])'
         /\ OwnerAllows(c, log[c.entry])' \/ LeaseAllows(c, log[c.entry])'
    BY <1>8, <1>9 DEF Covers, OwnerAllows, LeaseAllows
  <1>11. /\ log'[c.entry].op \in GatewayOps /\ log'[c.entry].rec \in Records
         /\ \A i \in Entries("tombstone", log[c.entry].rec)' :
              i <= c.since => log'[c.entry].op = "read.tombstoned"
    BY <1>2, <1>7, <1>8, <1>9 DEF Entries
  <1>12. QED
    BY <1>4, <1>6, <1>9, <1>10, <1>11 DEF Rightful

LEMMA CarriedOutHistory ==
  ASSUME TypeOK, Known, History, NEW p \in Procs, NEW op \in GatewayOps, NEW r \in Records,
         CarriedOut(p, op, r)
  PROVE  History'
  <1>1. /\ pc' = [pc EXCEPT ![p] = "idle"] /\ loc' = [loc EXCEPT ![p] = NoLoc]
        /\ Asked(loc[p]) /\ loc[p] \in LocType /\ Len(log) \in Nat
        /\ done' = Append(done, NewCall(p)) /\ done \in Seq(DoneType)
        /\ pc \in [Procs -> PCs] /\ loc \in [Procs -> LocType]
    BY DEF CarriedOut, NewCall, TypeOK
  <1>2. NewCall(p) \in DoneType
    BY <1>1 DEF NewCall, DoneType, LocType, Asked
  <1>3. NewEntry(p, op, r) \in EntryType
    BY <1>1, GatewayConstants DEF NewEntry, EntryType, GatewayOps, Asked
  <1>4. PICK c \in DoneType : c = NewCall(p)
    BY <1>2
  <1>5. PICK e \in EntryType : e = NewEntry(p, op, r)
    BY <1>3
  <1>6. Rightful(c)'
    BY <1>4, <1>5, NewRightful
  <1>7. /\ Len(done) \in Nat /\ Len(done') = Len(done) + 1 /\ done'[Len(done) + 1] = c
        /\ \A k \in 1..Len(done) : done'[k] = done[k]
    BY <1>1, <1>4
  <1>8. /\ Len(log') = Len(log) + 1 /\ log'[Len(log) + 1] = e
        /\ \A i \in 1..Len(log) : log'[i] = log[i]
    BY <1>5, CarriedOutLogs DEF NewEntry, GatewayOps
  <1>9. Passing /\ RowsLogged /\ AllCalled
    BY CarriedOutPassing DEF History
  <1>10. RowsLogged'
    <2>1. /\ e.op = "put" => index'[r].status # "none"
          /\ e.op = "tombstone" => index'[r].status = "tombstoned"
          /\ e.rec = r /\ e.op = op
      <3>1. index \in [Records -> [status : {"none", "active", "tombstoned"},
                                   soul : Souls \cup {Null}]]
        BY DEF TypeOK
      <3>2. e.rec = r /\ e.op = op
        BY <1>5 DEF NewEntry
      <3>3. op = "put" => index'[r].status # "none"
        BY <3>1 DEF CarriedOut, Writes, Reads, Deletes, ReadOps
      <3>4. op = "tombstone" => index'[r].status = "tombstoned"
        BY <3>1 DEF CarriedOut, Writes, Reads, Deletes, ReadOps
      <3>5. QED
        BY <3>2, <3>3, <3>4
    <2>2. ASSUME NEW i \in 1..Len(log')
          PROVE  (i \in 1..Len(log) /\ log'[i] = log[i]) \/ log'[i] = e
      BY <1>1, <1>8
    <2>3. QED
      BY <1>9, <2>1, <2>2 DEF RowsLogged, Passing
  <1>11. AllCalled'
    <2>1. ASSUME NEW i \in 1..Len(log'), log'[i].op \in GatewayOps
          PROVE  \E k \in 1..Len(done') : done'[k].entry = i
      <3>1. CASE i = Len(log) + 1
        <4>1. done'[Len(done) + 1].entry = i
          BY <1>4, <1>7, <3>1 DEF NewCall
        <4>2. QED
          BY <1>7, <4>1
      <3>2. CASE i # Len(log) + 1
        <4>1. i \in 1..Len(log) /\ log'[i] = log[i]
          BY <1>1, <1>8, <3>2
        <4>2. PICK k \in 1..Len(done) : done[k].entry = i
          BY <1>9, <2>1, <4>1 DEF AllCalled
        <4>3. QED
          BY <1>7, <4>2
      <3>3. QED
        BY <3>1, <3>2
    <2>2. QED
      BY <2>1 DEF AllCalled, GatewayOps, ReadOps
  <1>12. (\A k \in 1..Len(done) : Rightful(done[k]))'
    <2>1. ASSUME NEW k \in 1..Len(done'), NEW d \in DoneType, d = done'[k]
          PROVE  Rightful(d)'
      <3>1. CASE k \in 1..Len(done)
        <4>1. d = done[k] /\ Rightful(d)
          BY <1>7, <2>1, <3>1 DEF History
        <4>2. QED
          BY <1>9, <4>1, RightfulStays
      <3>2. CASE k \notin 1..Len(done)
        <4>1. d = c
          BY <1>7, <2>1, <3>2
        <4>2. QED
          BY <1>6, <4>1
      <3>3. QED
        BY <3>1, <3>2
    <2>2. \A k \in 1..Len(done') : done'[k] \in DoneType
      BY <1>7, <1>1, <1>4
    <2>3. ASSUME NEW k \in 1..Len(done')
          PROVE  Rightful(done[k])'
      <3>1. PICK d \in DoneType : d = done'[k] /\ Rightful(d)'
        BY <2>1, <2>2
      <3>2. QED
        BY <3>1 DEF Rightful, Covers, OwnerAllows, LeaseAllows, NotRevokedBy, Entries
    <2>4. QED
      BY <2>3
  <1>13. \A q \in Procs : InTime(q)'
    <2>1. InTime(p)'
      BY <1>1 DEF InTime
    <2>2. ASSUME NEW q \in Procs, q # p
          PROVE  InTime(q)'
      <3>1. pc'[q] = pc[q] /\ loc'[q] = loc[q] /\ InTime(q)
        BY <1>1, <2>2 DEF History
      <3>2. QED
        BY <1>9, <3>1, InTimeStays
    <2>3. QED
      BY <2>1, <2>2
  <1>14. QED
    BY <1>10, <1>11, <1>12, <1>13 DEF History

LEMMA HistoryStep ==
  ASSUME TypeOK, Known, LeaseLogAgrees, History, [Next]_vars
  PROVE  History'
  <1>1. CASE UNCHANGED vars
    <2>1. Passing /\ UNCHANGED <<index, pc, loc, done, log>>
      BY <1>1, StillPassing DEF vars
    <2>2. /\ RowsLogged' /\ AllCalled'
          /\ (\A k \in 1..Len(done) : Rightful(done[k]))'
      BY <2>1, NoneCarriedOut
    <2>3. \A q \in Procs : InTime(q)'
      BY <2>1, InTimeStays DEF History
    <2>4. QED
      BY <2>2, <2>3 DEF History
  <1>2. ASSUME NEW p \in Procs, Commit(p)
        PROVE  History'
    BY <1>2, CommitCases, CarriedOutHistory DEF GatewayOps
  <1>3. QED
    BY <1>1, <1>2, StepCases, LeaseStepHistory, QuietHistory

LEMMA InitHistory ==
  ASSUME Init
  PROVE  History
  BY DEF Init, LeaseInit, History, RowsLogged, AllCalled, InTime

\* What the history says of each call is what the properties ask.
LEMMA HistoryImplies ==
  ASSUME TypeOK, History
  PROVE  OperationsAuthorized /\ RevocationEffective /\ DeletionIsFinal
  <1>1. \A k \in 1..Len(done) : Rightful(done[k])
    BY DEF History
  <1>2. OperationsAuthorized
    BY <1>1 DEF OperationsAuthorized, History, AllCalled, Rightful, GatewayOps
  <1>3. RevocationEffective
    BY <1>1 DEF RevocationEffective, Rightful, NotRevokedBy
  <1>4. DeletionIsFinal
    BY <1>1 DEF DeletionIsFinal, Rightful
  <1>5. QED
    BY <1>2, <1>3, <1>4

LEMMA SafetyHolds ==
  Spec => [](OperationsAuthorized /\ RevocationEffective /\ DeletionIsFinal)
  <1> DEFINE Inv == TypeOK /\ Known /\ LeaseLogAgrees /\ History
  <1>1. Init => Inv
    BY InitKnown, InitAgrees, InitHistory
  <1>2. Inv /\ [Next]_vars => Inv'
    BY TypeStep, KnownStep, AgreesStep, HistoryStep
  <1>3. Inv => OperationsAuthorized /\ RevocationEffective /\ DeletionIsFinal
    BY HistoryImplies
  <1>4. QED
    BY <1>1, <1>2, <1>3, PTL DEF Spec

\* Whatever messages and lease documents exist, honest or not, and however
\* calls, revocations and time interleave, the vault logs no put, tombstone or
\* read but one that a valid message asked for: the owner's own, or one of the
\* body of a lease that covers it and that its subject signed.  The latter is
\* all that holds under a lease: whose memory it is, the code does not ask.
THEOREM Authorization == Spec => []OperationsAuthorized
  BY SafetyHolds, PTL

\* A call that began after its lease was revoked is never carried out, for the
\* one look at the leases table comes after the call began and the table
\* agrees with the log.
THEOREM Revocation == Spec => []RevocationEffective
  BY SafetyHolds, PTL

\* A call that began after a record was tombstoned neither reads nor
\* tombstones it again, for each looks at the row after it began, and a
\* tombstoned row stays so.
THEOREM Deletion == Spec => []DeletionIsFinal
  BY SafetyHolds, PTL
=============================================================================
