----------------------------- MODULE MCGateway ------------------------------
(* Small instances of Gateway for TLC: two owners, one body, two leases.   *)
EXTENDS Gateway, TLC

CONSTANTS p1, p2, o1, o2, b1, l1, l2, r1, r2, v1, v2

TwoProcs    == {p1, p2}
Parties     == {o1, o2, b1}
OneOwner    == {o1}
TwoOwners   == {o1, o2}
TwoLeases   == {l1, l2}
TwoRecords  == {r1, r2}
TwoPayloads == {v1, v2}
ScopeNames  == {"L1_session", "L3_canonical", "proposal"}
VaultLayers == {"L1_session", "L3_canonical"}

Scoped(read, write) ==
  [op \in Ops |-> CASE op = "read" -> read [] op = "write" -> write [] OTHER -> {}]

\* A generous lease, one under the default scopes and cosign list, and a
\* forgery of the first that the body signed itself.
LeaseDocs ==
  { [id |-> l1, signer |-> o1, subject |-> o1, body |-> b1,
     scopes |-> Scoped({"L1_session"}, {"L1_session", "L3_canonical"}),
     cosign |-> {"delete"}, exp |-> 0],
    [id |-> l2, signer |-> o1, subject |-> o1, body |-> b1,
     scopes |-> Scoped({"L1_session", "L3_canonical"}, {"L3_canonical", "proposal"}),
     cosign |-> {"canonical_write", "delete", "export"}, exp |-> 1],
    [id |-> l1, signer |-> b1, subject |-> o1, body |-> b1,
     scopes |-> Scoped({"L1_session"}, {"L3_canonical"}),
     cosign |-> {}, exp |-> 1] }

Message(signer, op, subject, arg, layer, lease, exp) ==
  [signer |-> signer, op |-> op, subject |-> subject, arg |-> arg,
   layer |-> layer, lease |-> lease, exp |-> exp, nonce |-> 0, typed |-> Null]

\* Typed data signed as another operation or for another domain.
Mistyped(m, op, domain) ==
  [m EXCEPT !.typed = [primaryType |-> op, domain |-> domain]]

\* What the owners and the body have signed, some of it void.
SignedMessages ==
  { Message(o1, "write", o1, v1, "L1_session", Null, 2),
    BuildTypedAuthMessage(Message(o1, "delete", o1, r1, Null, Null, 2)),
    Mistyped(Message(o1, "delete", o1, r2, Null, Null, 2), "read", GatewayDomain),
    Mistyped(Message(o1, "write", o1, v2, "L1_session", Null, 2), "write", "another"),
    Message(o2, "delete", o2, r1, Null, Null, 2),
    Message(b1, "delete", o1, r1, Null, l1, 2),
    Message(b1, "read", o1, r1, Null, l2, 1),
    BuildTypedAuthMessage(Message(b1, "read", o1, r1, Null, l1, 2)),
    Message(b1, "write", o1, v1, "L3_canonical", l1, 1),
    Message(b1, "write", o1, v1, "L3_canonical", l2, 2),
    Message(b1, "write", o1, v1, "proposal", l2, 2) }

\* Processes are interchangeable; the messages tell everything else apart.
Symmetry == Permutations(Procs)
=============================================================================
