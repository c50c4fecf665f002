----------------------------- MODULE MCAuditLog -----------------------------
(* Two calls compete inside one replica, a third comes from another. *)
EXTENDS AuditLog

CONSTANTS c1, c2, c3, r1, r2, none

Serves == (c1 :> r1) @@ (c2 :> r1) @@ (c3 :> r2)
=============================================================================
