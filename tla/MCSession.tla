------------------------------ MODULE MCSession ------------------------------
(* Session for TLC.  Every state space bound is a constant of Session, so the
   instance needs no state constraint. *)
EXTENDS Session
=============================================================================
