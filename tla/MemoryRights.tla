---------------------------- MODULE MemoryRights ----------------------------
(***************************************************************************)
(* What a memory registry promises on chain (ERC-8264 with body leases): a *)
(* memory changes only by a call its subject, or a body under a grant of   *)
(* the subject that covers the call, could make at that moment; a grant is *)
(* the subject's to give, to replace and to take back at once.  The last   *)
(* call says who made it, so that a call by one who had no right to it     *)
(* cannot pass for another's.                                              *)
(***************************************************************************)
EXTENDS Naturals

CONSTANTS Parties, Subjects, Ids, Commits, None

VARIABLES mem, grants, call, now

NoGrant == [expiresAt |-> 0, scopes |-> {}]

\* Allow_8264, at this moment.
Allowed(caller, s, scope) ==
  \/ caller = s
  \/ grants[s][caller].expiresAt > now /\ scope \in grants[s][caller].scopes

Called(name, caller, s, what) ==
  call' = [name |-> name, by |-> caller, subject |-> s, what |-> what]

Init ==
  /\ mem = [s \in Subjects |-> [r \in Ids |-> None]]
  /\ grants = [s \in Subjects |-> [b \in Parties |-> NoGrant]]
  /\ call = None
  /\ now = 1

Write(caller, s, r, v) ==
  /\ Allowed(caller, s, "WRITE")
  /\ Called("MemoryWritten", caller, s, r)
  /\ mem' = [mem EXCEPT ![s][r] = v]
  /\ UNCHANGED <<grants, now>>

Delete(caller, s, r) ==
  /\ Allowed(caller, s, "DELETE")
  /\ mem[s][r] # None
  /\ Called("MemoryDeleted", caller, s, r)
  /\ mem' = [mem EXCEPT ![s][r] = None]
  /\ UNCHANGED <<grants, now>>

Anchor(caller, s) ==
  /\ Allowed(caller, s, "WRITE")
  /\ Called("MemoryAnchored", caller, s, None)
  /\ UNCHANGED <<mem, grants, now>>

\* Whatever scopes and date the subject pleases.
Grant(s, b) ==
  /\ Called("LeaseGranted", s, s, b)
  /\ grants' = [grants EXCEPT ![s][b] = grants'[s][b]]
  /\ grants'[s][b].expiresAt > now
  /\ UNCHANGED <<mem, now>>

Revoke(s, b) ==
  /\ Called("LeaseRevoked", s, s, b)
  /\ grants' = [grants EXCEPT ![s][b] = NoGrant]
  /\ UNCHANGED <<mem, now>>

Pass ==
  /\ now' = now + 1
  /\ UNCHANGED <<mem, grants, call>>

Next ==
  \/ \E caller \in Parties, s \in Subjects, r \in Ids :
       \/ \E v \in Commits : Write(caller, s, r, v)
       \/ Delete(caller, s, r)
  \/ \E caller \in Parties, s \in Subjects : Anchor(caller, s)
  \/ \E s \in Subjects, b \in Parties :
       Grant(s, b) \/ Revoke(s, b)
  \/ Pass

Spec == Init /\ [][Next]_<<mem, grants, call, now>>
=============================================================================
