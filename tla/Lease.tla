------------------------------- MODULE Lease --------------------------------
(***************************************************************************)
(* Body leases (rmem-lease.py): an owner signs a document saying that a    *)
(* body may act for it, under some scopes, until some time.  The vault     *)
(* keeps a row per lease it was told of, to revoke it by.                  *)
(*                                                                         *)
(* A lease works from the moment it is signed, stored or not: what stops   *)
(* it is its expiry, or a row that says revoked.                           *)
(*                                                                         *)
(* A signature is the address it recovers to: document d verifies when     *)
(* d.signer is d.subject.  The documents and messages that may be          *)
(* presented are constants; among them are ones signed by the wrong party. *)
(*                                                                         *)
(* A call that exits before it changes anything is a stuttering step.      *)
(* A definition named Bug... is a mutated form of the one after it.        *)
(***************************************************************************)
EXTENDS Integers, Sequences

CONSTANTS
  Procs,      \* CLI processes
  Addresses,  \* owners and bodies
  Scopes,     \* what a scope list may name: memory layers, "proposal"
  LeaseIds,   \* ids of leases
  Docs,       \* lease documents that exist
  Null,       \* no lease, no layer
  MaxTime,    \* bound: clock ticks
  MaxCalls    \* bound: calls started

Ops     == {"read", "write", "delete", "export"}
Actions == {"canonical_write", "delete", "export"}

\* build_lease_unsigned and sign_lease; cosign is requires_owner_cosign.
DocType == [id      : LeaseIds,
            signer  : Addresses,
            subject : Addresses,
            body    : Addresses,
            scopes  : [Ops -> SUBSET Scopes],
            cosign  : SUBSET Actions,
            exp     : Nat]

\* A lease id is drawn at random when the document is signed, so two documents
\* of one id are not both signed by their subjects.
ASSUME LeaseConstants ==
  /\ Docs \subseteq DocType
  /\ \A d, e \in Docs :
       d.id = e.id /\ d.signer = d.subject /\ e.signer = e.subject => d = e
  /\ Null \notin LeaseIds /\ Null \notin Scopes /\ Null \notin Docs
  /\ MaxTime \in Nat /\ MaxCalls \in Nat

VARIABLES
  clock,     \* the time
  leases,    \* the leases table: lease id -> its status and document
  revoking,  \* process -> the lease it is about to mark revoked
  log,       \* the audit log
  calls      \* calls started so far

-----------------------------------------------------------------------------

\* verify_lease_signature
VerifyLeaseSignature(d) == d.signer = d.subject

\* is_lease_expired: the lease is good through its last instant.
IsLeaseExpired(d) == clock > d.exp

\* lease_authorizes_op, with the layer the message names.
LeaseAuthorizesOp(d, op, layer) ==
  /\ d.scopes[op] # {}
  /\ layer # Null => layer \in d.scopes[op]

\* The op needs the owner's own signature under this lease.
RequiresOwnerCosign(d, op, layer) ==
  \/ op = "write" /\ layer = "L3_canonical" /\ "canonical_write" \in d.cosign
  \/ op \in {"delete", "export"} /\ op \in d.cosign

\* Mutated form of IsLeaseRevoked: trusts the _status of the presented
\* document, which has none.
BugNoLookup(d) == FALSE

\* is_lease_revoked: a lease with no row is not revoked.
IsLeaseRevoked(d) == leases[d.id].status = "revoked"

\* One row of the leases table.
NoRow   == [status |-> "none", doc |-> Null]
RowType == {NoRow} \cup [status : {"active", "revoked"}, doc : Docs]

\* _append_audit; what names the lease or record the entry is about.
Log(op, soul, what) == log' = Append(log, [op |-> op, soul |-> soul, rec |-> what])

StartCall == calls < MaxCalls /\ calls' = calls + 1

-----------------------------------------------------------------------------

\* Mutated form of StoreLease: INSERT OR REPLACE.
BugStoreReplaces(d) ==
  /\ StartCall
  /\ VerifyLeaseSignature(d)
  /\ leases' = [leases EXCEPT ![d.id] = [status |-> "active", doc |-> d]]
  /\ Log("lease.issued", d.subject, d.id)
  /\ UNCHANGED <<clock, revoking>>

\* store_lease: one transaction; the primary key refuses a second row.
StoreLease(d) ==
  /\ StartCall
  /\ VerifyLeaseSignature(d)
  /\ leases[d.id].status = "none"
  /\ leases' = [leases EXCEPT ![d.id] = [status |-> "active", doc |-> d]]
  /\ Log("lease.issued", d.subject, d.id)
  /\ UNCHANGED <<clock, revoking>>

\* revoke_lease, its reads: the lease is there and active, and the key given is
\* its subject's.
RevokeSelect(p, l, key) ==
  /\ StartCall
  /\ revoking[p] = Null
  /\ leases[l].status = "active"
  /\ leases[l].doc.subject = key
  /\ revoking' = [revoking EXCEPT ![p] = l]
  /\ UNCHANGED <<clock, leases, log>>

\* revoke_lease, its transaction, whatever the status is by now.
RevokeTxn(p) ==
  /\ revoking[p] # Null
  /\ leases' = [leases EXCEPT ![revoking[p]].status = "revoked"]
  /\ Log("lease.revoked", leases[revoking[p]].doc.subject, revoking[p])
  /\ revoking' = [revoking EXCEPT ![p] = Null]
  /\ UNCHANGED <<clock, calls>>

Tick ==
  /\ clock < MaxTime
  /\ clock' = clock + 1
  /\ UNCHANGED <<leases, revoking, log, calls>>

LeaseInit ==
  /\ clock = 0
  /\ leases = [l \in LeaseIds |-> NoRow]
  /\ revoking = [p \in Procs |-> Null]
  /\ log = <<>>
  /\ calls = 0

LeaseNext ==
  \/ \E d \in Docs : StoreLease(d)
  \/ \E p \in Procs, l \in LeaseIds, key \in Addresses : RevokeSelect(p, l, key)
  \/ \E p \in Procs : RevokeTxn(p)
  \/ Tick

-----------------------------------------------------------------------------
(* Properties of the leases table; Gateway checks them beside the calls    *)
(* that use the leases.                                                    *)

Entries(op, what) == { i \in 1..Len(log) : log[i].op = op /\ log[i].rec = what }

\* The leases table and the audit log agree: a lease has a row exactly when it
\* was issued, once, its document is one its subject signed, and it is revoked
\* exactly when an entry after that says so.  Once revoked, a lease cannot be
\* stored back to active.
LeaseLogAgrees ==
  \A l \in LeaseIds :
    /\ leases[l].status = "none" <=> Entries("lease.issued", l) = {}
    /\ leases[l].status = "revoked" <=> Entries("lease.revoked", l) # {}
    /\ \A i, j \in Entries("lease.issued", l) : i = j
    /\ \A i \in Entries("lease.issued", l), j \in Entries("lease.revoked", l) : i < j
    /\ leases[l].status # "none" => /\ leases[l].doc.id = l
                                    /\ VerifyLeaseSignature(leases[l].doc)
=============================================================================
