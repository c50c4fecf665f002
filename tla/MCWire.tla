------------------------------- MODULE MCWire -------------------------------
(* Host "a" connects twice, perhaps with a renewed certificate: its two        *)
(* certificates let the broker put either into a hello signed for the other.   *)
(* Or it connects once, and host "b" is sent two shells with one stream id.    *)
EXTENDS Wire

H == {"a", "b"}

Cert(id, h, issuer) == [id |-> id, san |-> h, key |-> h, issuer |-> issuer, valid |-> TRUE, ec |-> TRUE]

RenewedCerts == [h \in H |-> IF h = "a" THEN <<Cert(1, "a", "ca"), Cert(2, "a", "ca")>> ELSE <<Cert(3, "b", "ca")>>]

Budget(ca, da, db) == [h \in H |-> IF h = "a" THEN [connects |-> ca, down |-> da] ELSE [connects |-> 1, down |-> db]]
Reconnecting == Budget(2, 1, 2)
TwoShells == Budget(1, 1, 3)
OneOfThem == {Reconnecting, TwoShells}

ShellB == [h \in H |-> IF h = "a" THEN {} ELSE {1}]
=============================================================================
