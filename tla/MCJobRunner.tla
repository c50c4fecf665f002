----------------------------- MODULE MCJobRunner -----------------------------
(* One dispatchable job delivered over and over to three permits, a malformed
   id beside it, and two possible exits of the process. *)
EXTENDS JobRunner

CONSTANTS a, bad, t1, t2, t3, x, y
============================================================================
