---------------------------- MODULE AuditContract ----------------------------
(***************************************************************************)
(* What the AuditLog port (ports.rs) promises its callers: a sequence of   *)
(* records that only grows, one record at its end at a time, with at most  *)
(* one record of every decision.  The in-memory adapter is this, step for  *)
(* step: it appends under one hold of its mutex.                           *)
(***************************************************************************)
EXTENDS Naturals, Sequences

CONSTANTS Calls, Decisions

VARIABLE log

Records == [call : Calls, decision : Decisions]

Init == log = <<>>

Add(r) ==
  /\ \A i \in DOMAIN log : log[i].call # r.call
  /\ log' = Append(log, r)

Next == \E r \in Records : Add(r)

Spec == Init /\ [][Next]_log
=============================================================================
