------------------------------ MODULE Gateway -------------------------------
(***************************************************************************)
(* The gateway of rmem-gateway.py: read, write and delete, each authorised *)
(* by a message the owner signed or, for read and write, by a body's       *)
(* message under a lease, and then carried out on the vault.  The checks   *)
(* and the vault operation are not atomic: other processes write, delete,  *)
(* revoke and let time pass between them.                                  *)
(*                                                                         *)
(* The vault is the audited index that VaultStore implements.  A message   *)
(* is what was signed, with the address its signature recovers to; one     *)
(* signed under EIP-712 also says what type it is and for which domain.    *)
(*                                                                         *)
(* The caller gives the soul to act on, and an owner address or a lease.   *)
(* The soul and the owner address are assumed, as verify_owner_signature   *)
(* says, to be derived from the same key, so a soul is named by its        *)
(* address.  Nothing is assumed of the soul and the lease: no check of     *)
(* _authorise_via_lease is given the soul.                                 *)
(***************************************************************************)
EXTENDS Lease

CONSTANTS
  Souls,        \* the owners' addresses
  ValidLayers,  \* VALID_LAYERS, the layers the vault stores
  Records,      \* record ids new_record_id may draw
  Payloads,     \* payloads, named by their fingerprints
  Messages      \* signed messages that exist

\* What EIP-712 adds to a message: the operation whose type it has
\* (_EIP712_PRIMARY_TYPE), and the domain it was signed for.
GatewayDomain == "RmemGateway"
TypedPart == [primaryType : Ops, domain : {GatewayDomain, "another"}]

\* A message an owner (lease Null) or a body signs, as text under EIP-191 (typed
\* Null) or as typed data.  arg is the record of a read or delete, the payload
\* fingerprint of a write.
MessageType == [signer  : Addresses,
                op      : Ops,
                subject : Addresses,
                arg     : Records \cup Payloads,
                layer   : Scopes \cup {Null},
                lease   : LeaseIds \cup {Null},
                exp     : Nat,
                nonce   : Nat,
                typed   : TypedPart \cup {Null}]

\* build_typed_auth_message, of the fields of m.
BuildTypedAuthMessage(m) ==
  [m EXCEPT !.typed = [primaryType |-> m.op, domain |-> GatewayDomain]]

ASSUME GatewayConstants ==
  /\ Messages \subseteq MessageType
  /\ Souls \subseteq Addresses
  /\ ValidLayers \subseteq Scopes
  /\ Null \notin Records /\ Null \notin Messages /\ Null \notin Addresses
  /\ Null \notin TypedPart

VARIABLES
  index,   \* the vault's index: record -> its status and soul
  stored,  \* record -> the layer and payload it was put with
  pc,      \* where each process is in its call
  loc,     \* its request, what authorises it, and when that was checked
  done     \* history: the calls carried out, each with its place in the log

leaseVars == <<clock, leases, revoking, log, calls>>
vars == <<clock, leases, revoking, log, calls, index, stored, pc, loc, done>>

\* What the log calls the outcomes of a read: of an active record, whichever
\* way it ends, and of a tombstoned one.
ReadOps == {"read.active", "read.tombstoned"}

Vault == INSTANCE AuditedIndex

NoLoc   == [op |-> "none", soul |-> Null, arg |-> Null, layer |-> Null,
            msg |-> Null, doc |-> Null, at |-> 0, since |-> 0]

\* op is replaced, once the record is looked up, by the op to log.
LocType == [op    : Ops \cup ReadOps \cup {"none"},
            soul  : Souls \cup {Null},
            arg   : Records \cup Payloads \cup {Null},
            layer : Scopes \cup {Null},
            msg   : Messages \cup {Null},
            doc   : Docs \cup {Null},
            at    : Nat,   \* when the first check was made
            since : Nat]   \* entries in the log then

\* What the vault holds for a record.
NoData   == [layer |-> Null, payload |-> Null]
DataType == {NoData} \cup [layer : ValidLayers, payload : Payloads]

\* A call carried out: its entry in the log, what authorised it, when.
DoneType == [entry : Nat, msg : Messages, doc : Docs \cup {Null},
             at : Nat, since : Nat]

PCs == {"idle", "revoked?", "expired?", "select", "commit"}

-----------------------------------------------------------------------------
(* Authorisation.                                                          *)

\* check_expiry: a message is void at its last instant.
CheckExpiry(m) == m.exp > clock

\* extra_match: the fields of the request the message must repeat.
ExtraMatch(op, arg, layer, m) ==
  /\ m.arg = arg
  /\ op = "write" => m.layer = layer

\* verify_owner_signature, verify_owner_signature_712
VerifyOwnerSignature(m, owner_address) == m.signer = owner_address

\* _authorise_712: typed data is of the type of this operation, for this gateway.
TypedForOp(op, m) ==
  m.typed # Null => m.typed = [primaryType |-> op, domain |-> GatewayDomain]

\* _authorise, and _authorise_712 which checks the same in the same order.  The
\* caller names the scheme; a message of the other one lacks the fields.
Authorise(op, soul, arg, layer, m) ==
  /\ m.op = op
  /\ m.subject = soul
  /\ TypedForOp(op, m)
  /\ CheckExpiry(m)
  /\ ExtraMatch(op, arg, layer, m)
  /\ VerifyOwnerSignature(m, soul)

\* verify_body_signed_request, its signature: a body signs text.
BodySigned(m, d) == m.typed = Null /\ m.signer = d.body

\* Mutated form of AuthoriseViaLease: the message is not bound to the lease.
BugNoBinding(op, arg, layer, d, m) ==
  /\ VerifyLeaseSignature(d)
  /\ m.subject = d.subject
  /\ BodySigned(m, d)
  /\ m.op = op
  /\ ExtraMatch(op, arg, layer, m)
  /\ LeaseAuthorizesOp(d, op, m.layer)
  /\ ~RequiresOwnerCosign(d, op, m.layer)

\* The checks of _authorise_via_lease that read neither the clock nor the
\* vault.  Message and lease name the same subject; the soul that read_memory
\* and write_memory go on to act on is not compared with it.
AuthoriseViaLease(op, arg, layer, d, m) ==
  /\ VerifyLeaseSignature(d)
  /\ m.subject = d.subject
  /\ BodySigned(m, d)
  /\ m.lease = d.id
  /\ m.op = op
  /\ ExtraMatch(op, arg, layer, m)
  /\ LeaseAuthorizesOp(d, op, m.layer)
  /\ ~RequiresOwnerCosign(d, op, m.layer)

-----------------------------------------------------------------------------
(* Calls.                                                                  *)

\* p, idle, starts a call that goes on at l.
Begin(p, l, op, soul, arg, layer, m, d) ==
  /\ StartCall
  /\ pc' = [pc EXCEPT ![p] = l]
  /\ loc' = [loc EXCEPT ![p] =
               [op |-> op, soul |-> soul, arg |-> arg, layer |-> layer,
                msg |-> m, doc |-> d, at |-> clock, since |-> Len(log)]]
  /\ UNCHANGED <<clock, leases, revoking, log, index, stored, done>>

Goto(p, from, to) ==
  /\ pc[p] = from
  /\ pc' = [pc EXCEPT ![p] = to]

\* A refused call ends with nothing changed.
Refuse(p) ==
  /\ pc' = [pc EXCEPT ![p] = "idle"]
  /\ loc' = [loc EXCEPT ![p] = NoLoc]
  /\ UNCHANGED <<leaseVars, index, stored, done>>

\* A write draws its record when it commits; the others look theirs up first.
Vaulted(op) == IF op = "write" THEN "commit" ELSE "select"

\* read_memory, write_memory and delete_memory with an owner's signature: all
\* checks at once, for they read nothing but the clock.
CallAsOwner(p, op, soul, arg, layer, m) ==
  /\ op \in {"read", "write", "delete"}
  /\ Authorise(op, soul, arg, layer, m)
  /\ Begin(p, Vaulted(op), op, soul, arg, layer, m, Null)

\* read_memory and write_memory under a lease: first, is the lease expired?
CallUnderLease(p, op, soul, arg, layer, d, m) ==
  /\ op \in {"read", "write"}
  /\ AuthoriseViaLease(op, arg, layer, d, m)
  /\ ~IsLeaseExpired(d)
  /\ Begin(p, "revoked?", op, soul, arg, layer, m, d)

\* Then the vault is asked whether it is revoked.
CheckRevoked(p) ==
  /\ pc[p] = "revoked?"
  /\ IF IsLeaseRevoked(loc[p].doc)
     THEN Refuse(p)
     ELSE /\ Goto(p, "revoked?", "expired?")
          /\ UNCHANGED <<leaseVars, index, stored, loc, done>>

\* Then the message's own expiry is checked.
CheckMessageExpiry(p) ==
  /\ pc[p] = "expired?"
  /\ IF CheckExpiry(loc[p].msg)
     THEN /\ Goto(p, "expired?", Vaulted(loc[p].op))
          /\ UNCHANGED <<leaseVars, index, stored, loc, done>>
     ELSE Refuse(p)

-----------------------------------------------------------------------------
(* The vault operation.                                                    *)

\* The row of the record and soul asked for.
Found(p) ==
  /\ loc[p].arg \in Records
  /\ index[loc[p].arg].status # "none"
  /\ index[loc[p].arg].soul = loc[p].soul

\* The op to log for the record p has looked up.
LookedUp(p) ==
  CASE loc[p].op = "delete" -> "delete"
    [] loc[p].op = "read" /\ index[loc[p].arg].status = "active" -> "read.active"
    [] loc[p].op = "read" /\ index[loc[p].arg].status # "active" -> "read.tombstoned"

\* Mutated form of Select: tombstone_record does not look at the status.
BugDeleteAnyStatus(p) ==
  /\ pc[p] = "select"
  /\ \/ /\ Found(p)
        /\ Goto(p, "select", "commit")
        /\ loc' = [loc EXCEPT ![p].op = LookedUp(p)]
        /\ UNCHANGED <<leaseVars, index, stored, done>>
     \/ ~Found(p) /\ Refuse(p)

\* get_record and tombstone_record look the record up; a second tombstone, and
\* a record of another soul, are refused.
Select(p) ==
  /\ pc[p] = "select"
  /\ \/ /\ Found(p)
        /\ loc[p].op = "read" \/ index[loc[p].arg].status = "active"
        /\ Goto(p, "select", "commit")
        /\ loc' = [loc EXCEPT ![p].op = LookedUp(p)]
        /\ UNCHANGED <<leaseVars, index, stored, done>>
     \/ /\ ~Found(p) \/ (loc[p].op = "delete" /\ index[loc[p].arg].status # "active")
        /\ Refuse(p)

\* The call ends, its entry in the log.
Finish(p) ==
  /\ Goto(p, "commit", "idle")
  /\ loc' = [loc EXCEPT ![p] = NoLoc]
  /\ done' = Append(done, [entry |-> Len(log) + 1, msg |-> loc[p].msg, doc |-> loc[p].doc,
                           at |-> loc[p].at, since |-> loc[p].since])
  /\ UNCHANGED <<clock, leases, revoking, calls>>

\* get_record logs the read and returns what it found.
CommitRead(p) ==
  /\ loc[p].op \in ReadOps
  /\ Vault!Read(loc[p].arg, loc[p].op)
  /\ UNCHANGED stored
  /\ Finish(p)

\* Mutated form of CommitWrite: no check of the layer.
BugAnyLayer(p, r) ==
  /\ loc[p].op = "write"
  /\ Vault!Put(r, loc[p].soul)
  /\ stored' = [stored EXCEPT ![r] = [layer |-> loc[p].layer, payload |-> loc[p].arg]]
  /\ Finish(p)

\* put_record, of a fresh record, unless the layer is not one of the vault's.
CommitWrite(p, r) ==
  /\ loc[p].op = "write"
  /\ loc[p].layer \in ValidLayers
  /\ Vault!Put(r, loc[p].soul)
  /\ stored' = [stored EXCEPT ![r] = [layer |-> loc[p].layer, payload |-> loc[p].arg]]
  /\ Finish(p)

CommitRefused(p) ==
  /\ pc[p] = "commit"
  /\ loc[p].op = "write"
  /\ loc[p].layer \notin ValidLayers
  /\ Refuse(p)

\* tombstone_record
CommitDelete(p) ==
  /\ loc[p].op = "delete"
  /\ Vault!Tombstone(loc[p].arg)
  /\ UNCHANGED stored
  /\ Finish(p)

-----------------------------------------------------------------------------
(* The rest of the system.                                                 *)

\* A step of rmem-lease.py.
LeaseStep == LeaseNext /\ UNCHANGED <<index, stored, pc, loc, done>>

Init ==
  /\ LeaseInit
  /\ index = [r \in Records |-> [status |-> "none", soul |-> Null]]
  /\ stored = [r \in Records |-> NoData]
  /\ pc = [p \in Procs |-> "idle"]
  /\ loc = [p \in Procs |-> NoLoc]
  /\ done = <<>>

\* A client asks for a record by its id, or to have a payload written.
Call(p) ==
  /\ pc[p] = "idle"
  /\ calls < MaxCalls
  /\ \E soul \in Souls, m \in Messages :
       \/ \E op \in {"read", "delete"}, r \in Records :
            \/ CallAsOwner(p, op, soul, r, Null, m)
            \/ \E d \in Docs : CallUnderLease(p, op, soul, r, Null, d, m)
       \/ \E x \in Payloads, layer \in Scopes :
            \/ CallAsOwner(p, "write", soul, x, layer, m)
            \/ \E d \in Docs : CallUnderLease(p, "write", soul, x, layer, d, m)

Step(p) ==
  \/ CheckRevoked(p) \/ CheckMessageExpiry(p) \/ Select(p)
  \/ CommitRead(p) \/ CommitDelete(p) \/ CommitRefused(p)
  \/ \E r \in Records : CommitWrite(p, r)

Next ==
  \/ LeaseStep
  \/ \E p \in Procs : Call(p) \/ Step(p)

Spec == Init /\ [][Next]_vars

-----------------------------------------------------------------------------
(* Properties.                                                             *)

EntryType == [op   : {"lease.issued", "lease.revoked", "put", "tombstone"} \cup ReadOps,
              soul : Addresses,
              rec  : Records \cup LeaseIds \cup {Null}]

\* Every variable holds a value of its type; the vault stores only layers it
\* knows.
TypeOK ==
  /\ clock \in Nat
  /\ leases \in [LeaseIds -> RowType]
  /\ revoking \in [Procs -> LeaseIds \cup {Null}]
  /\ log \in Seq(EntryType)
  /\ calls \in Nat
  /\ index \in [Records -> [status : {"none", "active", "tombstoned"},
                            soul : Souls \cup {Null}]]
  /\ stored \in [Records -> DataType]
  /\ pc \in [Procs -> PCs]
  /\ loc \in [Procs -> LocType]
  /\ done \in Seq(DoneType)

\* The message behind entry e covers what was done.
Covers(m, e) ==
  CASE e.op = "put"       -> /\ m.op = "write"
                             /\ stored[e.rec] = [layer |-> m.layer, payload |-> m.arg]
    [] e.op = "tombstone" -> m.op = "delete" /\ m.arg = e.rec
    [] e.op \in ReadOps   -> m.op = "read" /\ m.arg = e.rec

OwnerAllows(c, e) ==
  /\ c.doc = Null
  /\ c.msg.signer = e.soul /\ c.msg.subject = e.soul
  /\ TypedForOp(c.msg.op, c.msg)

LeaseAllows(c, e) ==
  /\ c.doc # Null
  /\ c.doc.signer = c.doc.subject /\ c.msg.subject = c.doc.subject
  /\ c.msg.signer = c.doc.body /\ c.msg.lease = c.doc.id
  /\ c.msg.typed = Null
  /\ c.at <= c.doc.exp
  /\ \/ e.op \in ReadOps /\ c.doc.scopes["read"] # {}
     \/ /\ e.op = "put"
        /\ stored[e.rec].layer \in c.doc.scopes["write"]
        /\ stored[e.rec].layer = "L3_canonical" => "canonical_write" \notin c.doc.cosign

\* What authorises every put, tombstone and read in the audit log: a message
\* about that very operation, record and content, signed by the soul whose
\* memory it is or, except for a tombstone, by the body of a lease that the
\* lease's own subject signed and that covers the operation; and there was one
\* moment, when the call began, at which message and lease were both
\* unexpired.  Typed data counts only if a wallet showed it as that operation,
\* for this gateway.  It says of the lease's subject what the code makes sure
\* of, which AuthorizationNotBypassed finds is not enough.
OperationsAuthorized ==
  /\ \A i \in 1..Len(log) :
       log[i].op \in {"put", "tombstone"} \cup ReadOps
         => \E k \in 1..Len(done) : done[k].entry = i
  /\ \A k \in 1..Len(done) :
       LET c == done[k]
           e == log[c.entry]
       IN /\ c.at < c.msg.exp
          /\ Covers(c.msg, e)
          /\ OwnerAllows(c, e) \/ LeaseAllows(c, e)

\* "Authorization cannot be bypassed" (SPEC_v0.1.md, section 12): moreover,
\* what was signed is about the soul whose memory was read, written or
\* tombstoned, whether an owner signed it or a body under a lease.
AuthorizationNotBypassed ==
  /\ OperationsAuthorized
  /\ \A k \in 1..Len(done) : done[k].msg.subject = log[done[k].entry].soul

\* Revocation is effective immediately for subsequent verifications: no call
\* that began after a lease was revoked is carried out under it, whatever
\* document of the lease the body holds.
RevocationEffective ==
  \A k \in 1..Len(done) :
    done[k].doc # Null =>
      \A i \in Entries("lease.revoked", done[k].doc.id) : done[k].since < i

\* Deletion is final: a call that began after a record was tombstoned is told
\* so, and neither reads nor tombstones it.
DeletionIsFinal ==
  \A k \in 1..Len(done) :
    \A i \in Entries("tombstone", log[done[k].entry].rec) :
      i <= done[k].since => log[done[k].entry].op = "read.tombstoned"

\* A signature is single-use: no signed message is carried out twice.
SingleUse ==
  \A j, k \in 1..Len(done) : done[j].msg = done[k].msg => j = k
=============================================================================
