---------------------------- MODULE MCEnrollment ----------------------------
(* Either two enrolments share a token, while two replicas start and stop; or a
   forced enrolment follows or overlaps another one, with two renewals and one
   replica. *)
EXTENDS Enrollment, TLC

CONSTANTS first, second, again, t1, t2, loop, byhand, r1, r2, none, empty, torn

Presents == (first :> t1) @@ (second :> t1) @@ (again :> t2)
Rivals   == {{first, second, r1, r2, 1, 2}}
Replaced == {{first, again, loop, byhand, r, 1} : r \in {r1, r2}}
OneOfThem == Rivals \union Replaced
Alike    == Permutations({r1, r2}) \union Permutations({loop, byhand})
=============================================================================
