----------------------------- MODULE JobContract -----------------------------
(***************************************************************************)
(* What an agent promises about the jobs dispatched to it (the doc comment *)
(* of dispatch.rs `run_job` and the header of jobstore.rs): a job runs at  *)
(* most once, whatever is redelivered; the exit status it reports is the   *)
(* one its only run ended with; and it reports a failure ("interrupted",   *)
(* "refused", "store unavailable") only of a job it is not running.        *)
(***************************************************************************)
CONSTANTS Jobs, Exits, Failed

VARIABLES
  phase,    \* "fresh", "running", "ended", or "lost" (its end was not seen)
  result,   \* the exit status of a job that ended, Failed before
  answers   \* the outcomes reported for the job so far

vars == <<phase, result, answers>>

Init ==
  /\ phase = [j \in Jobs |-> "fresh"]
  /\ result = [j \in Jobs |-> Failed]
  /\ answers = [j \in Jobs |-> {}]

Start(j) ==
  /\ phase[j] = "fresh"
  /\ phase' = [phase EXCEPT ![j] = "running"]
  /\ UNCHANGED <<result, answers>>

End(j, x) ==
  /\ phase[j] = "running"
  /\ phase' = [phase EXCEPT ![j] = "ended"]
  /\ result' = [result EXCEPT ![j] = x]
  /\ UNCHANGED answers

(* The agent loses sight of every job it runs, or of one of them. *)
Abandon(S) ==
  /\ \A j \in S : phase[j] = "running"
  /\ phase' = [j \in Jobs |-> IF j \in S THEN "lost" ELSE phase[j]]
  /\ UNCHANGED <<result, answers>>

Answer(j, a) ==
  /\ phase[j] # "running"
  /\ a = Failed \/ (phase[j] = "ended" /\ a = result[j])
  /\ answers' = [answers EXCEPT ![j] = @ \union {a}]
  /\ UNCHANGED <<phase, result>>

Next ==
  \/ \E j \in Jobs : Start(j)
  \/ \E j \in Jobs, x \in Exits : End(j, x)
  \/ \E S \in SUBSET Jobs : Abandon(S)
  \/ \E j \in Jobs, a \in Exits \union {Failed} : Answer(j, a)

Spec == Init /\ [][Next]_vars
=============================================================================
