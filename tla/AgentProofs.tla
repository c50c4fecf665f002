----------------------------- MODULE AgentProofs -----------------------------
(***************************************************************************)
(* Proofs about what an agent runs for operators: jobs (module JobRunner)  *)
(* and interactive shells (module Shell), for every value of their         *)
(* constants.                                                              *)
(*                                                                         *)
(* A job is executed at most once, and the runner implements JobContract.  *)
(* The inductive invariant JobInv says who holds a claim, what a record on *)
(* disk implies about the past of its job, and that every exit status      *)
(* recorded or carried is the one the process ended with.                  *)
(*                                                                         *)
(* Shells do not cross talk, and none runs unattended.  The inductive      *)
(* invariant ShellInv follows the numbers of each stream through the       *)
(* queues they pass: what has arrived comes before what is on its way, and *)
(* that before what is still to be sent.                                   *)
(***************************************************************************)
EXTENDS JobRunner, Shell, SequenceTheorems, TLAPS

(* Task t holds the claim on its job. *)
Holds(t) ==
  \/ pc[t] \in {"lookup", "mark", "marked", "spawn", "running", "record", "recorded"}
  \/ pc[t] = "reply" /\ job[t] \notin BadIds

(* Tasks work on jobs that may still be redelivered; a claim is in the set and
   has one holder. *)
ClaimInv ==
  /\ \A t \in Tasks : pc[t] # "free" => job[t] \in Jobs \ retired
  /\ \A t \in Tasks : Holds(t) => job[t] \in inflight
  /\ \A t, u \in Tasks : Holds(t) /\ Holds(u) /\ job[t] = job[u] => t = u

(* A process belongs to the task that waits on it, and a task that has not yet
   spawned one works on a job that never ran. *)
RunInv ==
  /\ \A t \in Tasks : pc[t] \in {"mark", "marked", "spawn"} => proc[job[t]] = "none"
  /\ \A t \in Tasks : pc[t] = "running" => proc[job[t]] = "running"
  /\ \A j \in Jobs : proc[j] = "running" =>
        \E t \in Tasks : pc[t] = "running" /\ job[t] = j
  /\ \A j \in Jobs : runs[j] = IF proc[j] = "none" THEN 0 ELSE 1

(* A job that ran, or is about to, has left a record a power loss keeps. *)
MarkerInv ==
  /\ \A j \in Jobs \ retired : proc[j] # "none" =>
        file[j].tag # "none" /\ disk[j].tag # "none"
  /\ \A t \in Tasks : pc[t] \in {"marked", "spawn"} => file[job[t]].tag # "none"
  /\ \A t \in Tasks : pc[t] = "spawn" => disk[job[t]].tag # "none"

(* An exit status in a record or carried by a task is the process's own. *)
Truthful(j, o) == o # Failed => proc[j] = "ended" /\ result[j] = o
TruthInv ==
  /\ \A j \in Jobs : Truthful(j, file[j].out) /\ Truthful(j, disk[j].out)
  /\ \A t \in Tasks : IF pc[t] = "free" THEN out[t] = Failed
                                        ELSE Truthful(job[t], out[t])

JobInv == TypeOK /\ ClaimInv /\ RunInv /\ MarkerInv /\ TruthInv

(* The records the store writes. *)
LEMMA RecordTypes ==
  /\ NoRecord \in Records /\ Started \in Records /\ Junk \in Records
  /\ \A o \in Outcomes : Done(o) \in Records
  /\ \A r \in Records : r.out \in Outcomes
  BY DEF NoRecord, Started, Junk, Done, Records, Outcomes

(* The initial state satisfies the inductive invariant. *)
LEMMA InitInv ==
  ASSUME Init
  PROVE  JobInv
<1>1. TypeOK
  BY JobsAssumption DEF Init, TypeOK, Records, Stages, Outcomes, NoRecord
<1>2. ClaimInv
  BY DEF Init, ClaimInv, Holds
<1>3. RunInv
  BY DEF Init, RunInv
<1>4. MarkerInv
  BY DEF Init, MarkerInv
<1>5. TruthInv
  BY DEF Init, TruthInv, Truthful, NoRecord
<1>6. QED  BY <1>1, <1>2, <1>3, <1>4, <1>5 DEF JobInv

(* Every action keeps the types. *)
LEMMA StepType ==
  ASSUME TypeOK, ClaimInv, [Next]_vars
  PROVE  TypeOK'
<1> USE JobsAssumption, RecordTypes DEF store, hist, Go, Carry, Finish, Stages, Outcomes
<1>1. ASSUME NEW t \in Tasks, NEW j \in Jobs, Deliver(t, j) PROVE TypeOK'
  BY <1>1 DEF Deliver, TypeOK
<1>2. ASSUME NEW t \in Tasks, RejectId(t) PROVE TypeOK'
  BY <1>2 DEF RejectId, TypeOK
<1>3. ASSUME NEW t \in Tasks, Claim(t) PROVE TypeOK'
  BY <1>3 DEF Claim, TypeOK, ClaimInv
<1>4. ASSUME NEW t \in Tasks, ClaimTaken(t) PROVE TypeOK'
  BY <1>4 DEF ClaimTaken, TypeOK
<1>5. ASSUME NEW t \in Tasks, LookupKnown(t) PROVE TypeOK'
  BY <1>5 DEF LookupKnown, TypeOK, ClaimInv
<1>6. ASSUME NEW t \in Tasks, LookupNew(t) PROVE TypeOK'
  BY <1>6 DEF LookupNew, TypeOK
<1>7. ASSUME NEW t \in Tasks, LookupRefused(t) PROVE TypeOK'
  BY <1>7 DEF LookupRefused, TypeOK
<1>8. ASSUME NEW t \in Tasks, MarkStarted(t) PROVE TypeOK'
  BY <1>8 DEF MarkStarted, TypeOK
<1>9. ASSUME NEW t \in Tasks, MarkSync(t) PROVE TypeOK'
  BY <1>9 DEF MarkSync, TypeOK
<1>10. ASSUME NEW t \in Tasks, MarkFails(t) PROVE TypeOK'
  BY <1>10 DEF MarkFails, TypeOK
<1>11. ASSUME NEW t \in Tasks, Spawn(t) PROVE TypeOK'
  BY <1>11 DEF Spawn, TypeOK, ClaimInv
<1>12. ASSUME NEW t \in Tasks, SpawnFails(t) PROVE TypeOK'
  BY <1>12 DEF SpawnFails, TypeOK
<1>13. ASSUME NEW t \in Tasks, NEW x \in Exits, Exit(t, x) PROVE TypeOK'
  BY <1>13 DEF Exit, TypeOK
<1>14. ASSUME NEW t \in Tasks, WaitFails(t) PROVE TypeOK'
  BY <1>14 DEF WaitFails, TypeOK
<1>15. ASSUME NEW t \in Tasks, RecordDone(t) PROVE TypeOK'
  BY <1>15 DEF RecordDone, TypeOK
<1>16. ASSUME NEW t \in Tasks, RecordSync(t) PROVE TypeOK'
  BY <1>16 DEF RecordSync, TypeOK
<1>17. ASSUME NEW t \in Tasks, RecordFails(t) PROVE TypeOK'
  BY <1>17 DEF RecordFails, TypeOK
<1>18. ASSUME NEW t \in Tasks, Reply(t) PROVE TypeOK'
  BY <1>18 DEF Reply, TypeOK
<1>19. ASSUME NEW after \in Survivors,
             NEW old \in SUBSET {j \in Jobs : after[j].tag # "none"}, Restart(after, old) PROVE TypeOK'
  <2>1. after \in [Jobs -> Records]
    BY DEF Survivors, TypeOK
  <2>2. file' \in [Jobs -> Records] /\ disk' \in [Jobs -> Records]
    <3>1. NoRecord \in Records
      BY DEF NoRecord, Records, Outcomes
    <3>2. file' \in [Jobs -> Records]
      BY <1>19, <2>1, <3>1 DEF Restart
    <3>3. CASE disk' = file'
      BY <3>2, <3>3
    <3>4. CASE disk' = [j \in Jobs |-> IF j \in old THEN NoRecord ELSE disk[j]]
      BY <3>1, <3>2, <3>4 DEF TypeOK
    <3>5. QED  BY <1>19, <3>2, <3>3, <3>4 DEF Restart
  <2>3. proc' \in [Jobs -> {"none", "running", "ended", "lost"}]
    BY <1>19 DEF Restart, TypeOK
  <2>4. QED  BY <1>19, <2>2, <2>3 DEF Restart, TypeOK
<1>20. ASSUME NEW j \in Jobs, Damage(j) PROVE TypeOK'
  BY <1>20 DEF Damage, TypeOK
<1>21. CASE UNCHANGED vars
  BY <1>21 DEF vars, TypeOK
<1>22. QED
  BY <1>1, <1>2, <1>3, <1>4, <1>5, <1>6, <1>7, <1>8, <1>9, <1>10, <1>11, <1>12, <1>13, <1>14, <1>15, <1>16, <1>17, <1>18, <1>19, <1>20, <1>21 DEF Next, Step

(* Every action keeps the claims exclusive. *)
LEMMA StepClaim ==
  ASSUME TypeOK, ClaimInv, [Next]_vars
  PROVE  ClaimInv'
<1> USE DEF store, hist, Go, Carry, Finish
<1>1. ASSUME NEW t \in Tasks, NEW j \in Jobs, Deliver(t, j) PROVE ClaimInv'
  BY <1>1 DEF Deliver, TypeOK, ClaimInv, Holds
<1>2. ASSUME NEW t \in Tasks, RejectId(t) PROVE ClaimInv'
  BY <1>2 DEF RejectId, TypeOK, ClaimInv, Holds
<1>3. ASSUME NEW t \in Tasks, Claim(t) PROVE ClaimInv'
  BY <1>3 DEF Claim, TypeOK, ClaimInv, Holds
<1>4. ASSUME NEW t \in Tasks, ClaimTaken(t) PROVE ClaimInv'
  BY <1>4 DEF ClaimTaken, TypeOK, ClaimInv, Holds
<1>5. ASSUME NEW t \in Tasks, LookupKnown(t) PROVE ClaimInv'
  BY <1>5 DEF LookupKnown, TypeOK, ClaimInv, Holds
<1>6. ASSUME NEW t \in Tasks, LookupNew(t) PROVE ClaimInv'
  BY <1>6 DEF LookupNew, TypeOK, ClaimInv, Holds
<1>7. ASSUME NEW t \in Tasks, LookupRefused(t) PROVE ClaimInv'
  BY <1>7 DEF LookupRefused, TypeOK, ClaimInv, Holds
<1>8. ASSUME NEW t \in Tasks, MarkStarted(t) PROVE ClaimInv'
  BY <1>8 DEF MarkStarted, TypeOK, ClaimInv, Holds
<1>9. ASSUME NEW t \in Tasks, MarkSync(t) PROVE ClaimInv'
  BY <1>9 DEF MarkSync, TypeOK, ClaimInv, Holds
<1>10. ASSUME NEW t \in Tasks, MarkFails(t) PROVE ClaimInv'
  BY <1>10 DEF MarkFails, TypeOK, ClaimInv, Holds
<1>11. ASSUME NEW t \in Tasks, Spawn(t) PROVE ClaimInv'
  BY <1>11 DEF Spawn, TypeOK, ClaimInv, Holds
<1>12. ASSUME NEW t \in Tasks, SpawnFails(t) PROVE ClaimInv'
  BY <1>12 DEF SpawnFails, TypeOK, ClaimInv, Holds
<1>13. ASSUME NEW t \in Tasks, NEW x \in Exits, Exit(t, x) PROVE ClaimInv'
  BY <1>13 DEF Exit, TypeOK, ClaimInv, Holds
<1>14. ASSUME NEW t \in Tasks, WaitFails(t) PROVE ClaimInv'
  BY <1>14 DEF WaitFails, TypeOK, ClaimInv, Holds
<1>15. ASSUME NEW t \in Tasks, RecordDone(t) PROVE ClaimInv'
  BY <1>15 DEF RecordDone, TypeOK, ClaimInv, Holds
<1>16. ASSUME NEW t \in Tasks, RecordSync(t) PROVE ClaimInv'
  BY <1>16 DEF RecordSync, TypeOK, ClaimInv, Holds
<1>17. ASSUME NEW t \in Tasks, RecordFails(t) PROVE ClaimInv'
  BY <1>17 DEF RecordFails, TypeOK, ClaimInv, Holds
<1>18. ASSUME NEW t \in Tasks, Reply(t) PROVE ClaimInv'
  BY <1>18 DEF Reply, TypeOK, ClaimInv, Holds
<1>19. ASSUME NEW after \in Survivors,
             NEW old \in SUBSET {j \in Jobs : after[j].tag # "none"}, Restart(after, old) PROVE ClaimInv'
  BY <1>19 DEF Restart, TypeOK, ClaimInv, Holds
<1>20. ASSUME NEW j \in Jobs, Damage(j) PROVE ClaimInv'
  BY <1>20 DEF Damage, TypeOK, ClaimInv, Holds
<1>21. CASE UNCHANGED vars
  BY <1>21 DEF vars, TypeOK, ClaimInv, Holds
<1>22. QED
  BY <1>1, <1>2, <1>3, <1>4, <1>5, <1>6, <1>7, <1>8, <1>9, <1>10, <1>11, <1>12, <1>13, <1>14, <1>15, <1>16, <1>17, <1>18, <1>19, <1>20, <1>21 DEF Next, Step

(* Every action keeps the relation between a task's stage, its process and the
   number of runs. *)
LEMMA StepRun ==
  ASSUME JobInv, [Next]_vars
  PROVE  RunInv'
<1> USE DEF store, hist, Go, Carry, Finish
<1>1. ASSUME NEW t \in Tasks, NEW j \in Jobs, Deliver(t, j) PROVE RunInv'
  BY <1>1 DEF Deliver, JobInv, TypeOK, ClaimInv, Holds, RunInv
<1>2. ASSUME NEW t \in Tasks, RejectId(t) PROVE RunInv'
  BY <1>2 DEF RejectId, JobInv, TypeOK, ClaimInv, Holds, RunInv
<1>3. ASSUME NEW t \in Tasks, Claim(t) PROVE RunInv'
  BY <1>3 DEF Claim, JobInv, TypeOK, ClaimInv, Holds, RunInv
<1>4. ASSUME NEW t \in Tasks, ClaimTaken(t) PROVE RunInv'
  BY <1>4 DEF ClaimTaken, JobInv, TypeOK, ClaimInv, Holds, RunInv
<1>5. ASSUME NEW t \in Tasks, LookupKnown(t) PROVE RunInv'
  BY <1>5 DEF LookupKnown, JobInv, TypeOK, ClaimInv, Holds, RunInv
<1>6. ASSUME NEW t \in Tasks, LookupNew(t) PROVE RunInv'
  BY <1>6 DEF LookupNew, JobInv, TypeOK, ClaimInv, Holds, RunInv, MarkerInv
<1>7. ASSUME NEW t \in Tasks, LookupRefused(t) PROVE RunInv'
  BY <1>7 DEF LookupRefused, JobInv, TypeOK, ClaimInv, Holds, RunInv
<1>8. ASSUME NEW t \in Tasks, MarkStarted(t) PROVE RunInv'
  BY <1>8 DEF MarkStarted, JobInv, TypeOK, ClaimInv, Holds, RunInv
<1>9. ASSUME NEW t \in Tasks, MarkSync(t) PROVE RunInv'
  BY <1>9 DEF MarkSync, JobInv, TypeOK, ClaimInv, Holds, RunInv
<1>10. ASSUME NEW t \in Tasks, MarkFails(t) PROVE RunInv'
  BY <1>10 DEF MarkFails, JobInv, TypeOK, ClaimInv, Holds, RunInv
<1>11. ASSUME NEW t \in Tasks, Spawn(t) PROVE RunInv'
  BY <1>11 DEF Spawn, JobInv, TypeOK, ClaimInv, Holds, RunInv
<1>12. ASSUME NEW t \in Tasks, SpawnFails(t) PROVE RunInv'
  BY <1>12 DEF SpawnFails, JobInv, TypeOK, ClaimInv, Holds, RunInv
<1>13. ASSUME NEW t \in Tasks, NEW x \in Exits, Exit(t, x) PROVE RunInv'
  BY <1>13 DEF Exit, JobInv, TypeOK, ClaimInv, Holds, RunInv
<1>14. ASSUME NEW t \in Tasks, WaitFails(t) PROVE RunInv'
  BY <1>14 DEF WaitFails, JobInv, TypeOK, ClaimInv, Holds, RunInv
<1>15. ASSUME NEW t \in Tasks, RecordDone(t) PROVE RunInv'
  BY <1>15 DEF RecordDone, JobInv, TypeOK, ClaimInv, Holds, RunInv
<1>16. ASSUME NEW t \in Tasks, RecordSync(t) PROVE RunInv'
  BY <1>16 DEF RecordSync, JobInv, TypeOK, ClaimInv, Holds, RunInv
<1>17. ASSUME NEW t \in Tasks, RecordFails(t) PROVE RunInv'
  BY <1>17 DEF RecordFails, JobInv, TypeOK, ClaimInv, Holds, RunInv
<1>18. ASSUME NEW t \in Tasks, Reply(t) PROVE RunInv'
  BY <1>18 DEF Reply, JobInv, TypeOK, ClaimInv, Holds, RunInv
<1>19. ASSUME NEW after \in Survivors,
             NEW old \in SUBSET {j \in Jobs : after[j].tag # "none"}, Restart(after, old) PROVE RunInv'
  BY <1>19 DEF Restart, JobInv, TypeOK, ClaimInv, Holds, RunInv
<1>20. ASSUME NEW j \in Jobs, Damage(j) PROVE RunInv'
  BY <1>20 DEF Damage, JobInv, TypeOK, ClaimInv, Holds, RunInv
<1>21. CASE UNCHANGED vars
  BY <1>21 DEF vars, JobInv, TypeOK, ClaimInv, Holds, RunInv
<1>22. QED
  BY <1>1, <1>2, <1>3, <1>4, <1>5, <1>6, <1>7, <1>8, <1>9, <1>10, <1>11, <1>12, <1>13, <1>14, <1>15, <1>16, <1>17, <1>18, <1>19, <1>20, <1>21 DEF Next, Step

(* Every action keeps a durable start marker under every job that was run. *)
LEMMA StepMarker ==
  ASSUME JobInv, [Next]_vars
  PROVE  MarkerInv'
<1> USE DEF store, hist, Go, Carry, Finish
<1>1. ASSUME NEW t \in Tasks, NEW j \in Jobs, Deliver(t, j) PROVE MarkerInv'
  BY <1>1 DEF Deliver, JobInv, TypeOK, ClaimInv, Holds, RunInv, MarkerInv
<1>2. ASSUME NEW t \in Tasks, RejectId(t) PROVE MarkerInv'
  BY <1>2 DEF RejectId, JobInv, TypeOK, ClaimInv, Holds, RunInv, MarkerInv
<1>3. ASSUME NEW t \in Tasks, Claim(t) PROVE MarkerInv'
  BY <1>3 DEF Claim, JobInv, TypeOK, ClaimInv, Holds, RunInv, MarkerInv
<1>4. ASSUME NEW t \in Tasks, ClaimTaken(t) PROVE MarkerInv'
  BY <1>4 DEF ClaimTaken, JobInv, TypeOK, ClaimInv, Holds, RunInv, MarkerInv
<1>5. ASSUME NEW t \in Tasks, LookupKnown(t) PROVE MarkerInv'
  BY <1>5 DEF LookupKnown, JobInv, TypeOK, ClaimInv, Holds, RunInv, MarkerInv
<1>6. ASSUME NEW t \in Tasks, LookupNew(t) PROVE MarkerInv'
  BY <1>6 DEF LookupNew, JobInv, TypeOK, ClaimInv, Holds, RunInv, MarkerInv
<1>7. ASSUME NEW t \in Tasks, LookupRefused(t) PROVE MarkerInv'
  BY <1>7 DEF LookupRefused, JobInv, TypeOK, ClaimInv, Holds, RunInv, MarkerInv
<1>8. ASSUME NEW t \in Tasks, MarkStarted(t) PROVE MarkerInv'
  BY <1>8 DEF MarkStarted, Started, JobInv, TypeOK, ClaimInv, Holds, RunInv, MarkerInv
<1>9. ASSUME NEW t \in Tasks, MarkSync(t) PROVE MarkerInv'
  BY <1>9 DEF MarkSync, JobInv, TypeOK, ClaimInv, Holds, RunInv, MarkerInv
<1>10. ASSUME NEW t \in Tasks, MarkFails(t) PROVE MarkerInv'
  BY <1>10 DEF MarkFails, JobInv, TypeOK, ClaimInv, Holds, RunInv, MarkerInv
<1>11. ASSUME NEW t \in Tasks, Spawn(t) PROVE MarkerInv'
  BY <1>11 DEF Spawn, JobInv, TypeOK, ClaimInv, Holds, RunInv, MarkerInv
<1>12. ASSUME NEW t \in Tasks, SpawnFails(t) PROVE MarkerInv'
  BY <1>12 DEF SpawnFails, JobInv, TypeOK, ClaimInv, Holds, RunInv, MarkerInv
<1>13. ASSUME NEW t \in Tasks, NEW x \in Exits, Exit(t, x) PROVE MarkerInv'
  BY <1>13 DEF Exit, JobInv, TypeOK, ClaimInv, Holds, RunInv, MarkerInv
<1>14. ASSUME NEW t \in Tasks, WaitFails(t) PROVE MarkerInv'
  BY <1>14 DEF WaitFails, JobInv, TypeOK, ClaimInv, Holds, RunInv, MarkerInv
<1>15. ASSUME NEW t \in Tasks, RecordDone(t) PROVE MarkerInv'
  BY <1>15 DEF RecordDone, Done, JobInv, TypeOK, ClaimInv, Holds, RunInv, MarkerInv
<1>16. ASSUME NEW t \in Tasks, RecordSync(t) PROVE MarkerInv'
  BY <1>16 DEF RecordSync, JobInv, TypeOK, ClaimInv, Holds, RunInv, MarkerInv
<1>17. ASSUME NEW t \in Tasks, RecordFails(t) PROVE MarkerInv'
  BY <1>17 DEF RecordFails, JobInv, TypeOK, ClaimInv, Holds, RunInv, MarkerInv
<1>18. ASSUME NEW t \in Tasks, Reply(t) PROVE MarkerInv'
  BY <1>18 DEF Reply, JobInv, TypeOK, ClaimInv, Holds, RunInv, MarkerInv
<1>19. ASSUME NEW after \in Survivors,
             NEW old \in SUBSET {j \in Jobs : after[j].tag # "none"}, Restart(after, old) PROVE MarkerInv'
  BY <1>19 DEF Restart, Survivors, NoRecord, JobInv, TypeOK, ClaimInv, Holds, RunInv, MarkerInv
<1>20. ASSUME NEW j \in Jobs, Damage(j) PROVE MarkerInv'
  BY <1>20 DEF Damage, Junk, JobInv, TypeOK, ClaimInv, Holds, RunInv, MarkerInv
<1>21. CASE UNCHANGED vars
  BY <1>21 DEF vars, JobInv, TypeOK, ClaimInv, Holds, RunInv, MarkerInv
<1>22. QED
  BY <1>1, <1>2, <1>3, <1>4, <1>5, <1>6, <1>7, <1>8, <1>9, <1>10, <1>11, <1>12, <1>13, <1>14, <1>15, <1>16, <1>17, <1>18, <1>19, <1>20, <1>21 DEF Next, Step

(* Every action keeps recorded and carried outcomes true to the job's only run. *)
LEMMA StepTruth ==
  ASSUME JobInv, [Next]_vars
  PROVE  TruthInv'
<1> USE DEF store, hist, Go, Carry, Finish
<1>1. ASSUME NEW t \in Tasks, NEW j \in Jobs, Deliver(t, j) PROVE TruthInv'
  BY <1>1 DEF Deliver, JobInv, TypeOK, ClaimInv, Holds, RunInv, TruthInv, Truthful
<1>2. ASSUME NEW t \in Tasks, RejectId(t) PROVE TruthInv'
  BY <1>2 DEF RejectId, JobInv, TypeOK, ClaimInv, Holds, RunInv, TruthInv, Truthful
<1>3. ASSUME NEW t \in Tasks, Claim(t) PROVE TruthInv'
  BY <1>3 DEF Claim, JobInv, TypeOK, ClaimInv, Holds, RunInv, TruthInv, Truthful
<1>4. ASSUME NEW t \in Tasks, ClaimTaken(t) PROVE TruthInv'
  BY <1>4 DEF ClaimTaken, JobInv, TypeOK, ClaimInv, Holds, RunInv, TruthInv, Truthful
<1>5. ASSUME NEW t \in Tasks, LookupKnown(t) PROVE TruthInv'
  BY <1>5 DEF LookupKnown, JobInv, TypeOK, ClaimInv, Holds, RunInv, TruthInv, Truthful
<1>6. ASSUME NEW t \in Tasks, LookupNew(t) PROVE TruthInv'
  BY <1>6 DEF LookupNew, JobInv, TypeOK, ClaimInv, Holds, RunInv, TruthInv, Truthful
<1>7. ASSUME NEW t \in Tasks, LookupRefused(t) PROVE TruthInv'
  BY <1>7 DEF LookupRefused, JobInv, TypeOK, ClaimInv, Holds, RunInv, TruthInv, Truthful
<1>8. ASSUME NEW t \in Tasks, MarkStarted(t) PROVE TruthInv'
  BY <1>8 DEF MarkStarted, Started, JobInv, TypeOK, ClaimInv, Holds, RunInv, TruthInv, Truthful
<1>9. ASSUME NEW t \in Tasks, MarkSync(t) PROVE TruthInv'
  BY <1>9 DEF MarkSync, JobInv, TypeOK, ClaimInv, Holds, RunInv, TruthInv, Truthful
<1>10. ASSUME NEW t \in Tasks, MarkFails(t) PROVE TruthInv'
  BY <1>10 DEF MarkFails, JobInv, TypeOK, ClaimInv, Holds, RunInv, TruthInv, Truthful
<1>11. ASSUME NEW t \in Tasks, Spawn(t) PROVE TruthInv'
  BY <1>11 DEF Spawn, JobInv, TypeOK, ClaimInv, Holds, RunInv, TruthInv, Truthful
<1>12. ASSUME NEW t \in Tasks, SpawnFails(t) PROVE TruthInv'
  BY <1>12 DEF SpawnFails, JobInv, TypeOK, ClaimInv, Holds, RunInv, TruthInv, Truthful
<1>13. ASSUME NEW t \in Tasks, NEW x \in Exits, Exit(t, x) PROVE TruthInv'
  BY <1>13 DEF Exit, JobInv, TypeOK, ClaimInv, Holds, RunInv, TruthInv, Truthful
<1>14. ASSUME NEW t \in Tasks, WaitFails(t) PROVE TruthInv'
  BY <1>14 DEF WaitFails, JobInv, TypeOK, ClaimInv, Holds, RunInv, TruthInv, Truthful
<1>15. ASSUME NEW t \in Tasks, RecordDone(t) PROVE TruthInv'
  BY <1>15 DEF RecordDone, Done, JobInv, TypeOK, ClaimInv, Holds, RunInv, TruthInv, Truthful
<1>16. ASSUME NEW t \in Tasks, RecordSync(t) PROVE TruthInv'
  BY <1>16 DEF RecordSync, JobInv, TypeOK, ClaimInv, Holds, RunInv, TruthInv, Truthful
<1>17. ASSUME NEW t \in Tasks, RecordFails(t) PROVE TruthInv'
  BY <1>17 DEF RecordFails, JobInv, TypeOK, ClaimInv, Holds, RunInv, TruthInv, Truthful
<1>18. ASSUME NEW t \in Tasks, Reply(t) PROVE TruthInv'
  BY <1>18 DEF Reply, JobInv, TypeOK, ClaimInv, Holds, RunInv, TruthInv, Truthful
<1>19. ASSUME NEW after \in Survivors,
             NEW old \in SUBSET {j \in Jobs : after[j].tag # "none"}, Restart(after, old) PROVE TruthInv'
  <2>1. \A j \in Jobs : /\ file'[j] \in {file[j], disk[j], NoRecord}
                        /\ disk'[j] \in {file[j], disk[j], NoRecord}
    <3>1. \A j \in Jobs : /\ after[j] \in {file[j], disk[j]}
                          /\ file'[j] \in {after[j], NoRecord}
      BY <1>19 DEF Restart, Survivors
    <3>2. CASE disk' = file'
      BY <3>1, <3>2
    <3>3. CASE disk' = [j \in Jobs |-> IF j \in old THEN NoRecord ELSE disk[j]]
      BY <3>1, <3>3
    <3>4. QED  BY <1>19, <3>2, <3>3 DEF Restart
  <2>2. \A j \in Jobs : proc[j] = "ended" => proc'[j] = "ended" /\ result'[j] = result[j]
    BY <1>19 DEF Restart, JobInv, TypeOK
  <2>3. \A j \in Jobs : Truthful(j, file[j].out)' /\ Truthful(j, disk[j].out)'
    BY <2>1, <2>2 DEF NoRecord, JobInv, TruthInv, Truthful
  <2>4. QED
    BY <1>19, <2>3 DEF Restart, JobInv, TypeOK, TruthInv, Truthful
<1>20. ASSUME NEW j \in Jobs, Damage(j) PROVE TruthInv'
  BY <1>20 DEF Damage, Junk, JobInv, TypeOK, ClaimInv, Holds, RunInv, TruthInv, Truthful
<1>21. CASE UNCHANGED vars
  BY <1>21 DEF vars, JobInv, TypeOK, ClaimInv, Holds, RunInv, TruthInv, Truthful
<1>22. QED
  BY <1>1, <1>2, <1>3, <1>4, <1>5, <1>6, <1>7, <1>8, <1>9, <1>10, <1>11, <1>12, <1>13, <1>14, <1>15, <1>16, <1>17, <1>18, <1>19, <1>20, <1>21 DEF Next, Step

(* JobInv is inductive. *)
LEMMA StepInv ==
  ASSUME JobInv, [Next]_vars
  PROVE  JobInv'
  BY StepType, StepClaim, StepRun, StepMarker, StepTruth DEF JobInv

(* JobInv holds in every reachable state. *)
LEMMA Invariance == Spec => []JobInv
<1>1. Init => JobInv  BY InitInv
<1>2. JobInv /\ [Next]_vars => JobInv'  BY StepInv
<1>3. QED  BY <1>1, <1>2, PTL DEF Spec

(* Every reachable state of the job runner is well typed. *)
THEOREM RunnerTypes == Spec => []TypeOK
<1>1. JobInv => TypeOK  BY DEF JobInv
<1>2. QED  BY <1>1, Invariance, PTL

(* run_job spawns the process of a job at most once, for any number of
   redeliveries, concurrent tasks, crashes and power losses. *)
THEOREM JobsRunAtMostOnce == Spec => []AtMostOnce
<1>1. JobInv => AtMostOnce
  <2>1. SUFFICES ASSUME JobInv, NEW j \in Jobs PROVE runs[j] <= 1
    BY DEF AtMostOnce
  <2>2. runs[j] = IF proc[j] = "none" THEN 0 ELSE 1
    BY <2>1 DEF JobInv, RunInv
  <2>3. QED  BY <2>2
<1>2. QED  BY <1>1, Invariance, PTL

-----------------------------------------------------------------------------
(* The refinement: every step of the runner is a step of JobContract or leaves
   its variables alone. *)
LEMMA ContractInit ==
  ASSUME Init
  PROVE  Contract!Init
  BY DEF Init, Contract!Init

(* A task that reports does not report a job that is running. *)
LEMMA ReporterIdle ==
  ASSUME JobInv, NEW t \in Tasks, pc[t] = "reply"
  PROVE  /\ job[t] \in Jobs
         /\ proc[job[t]] # "running"
<1>1. job[t] \in Jobs
  BY DEF JobInv, ClaimInv
<1>2. SUFFICES ASSUME proc[job[t]] = "running" PROVE FALSE
  BY <1>1
<1>3. PICK u \in Tasks : pc[u] = "running" /\ job[u] = job[t]
  BY <1>1, <1>2 DEF JobInv, RunInv
<1>4. Holds(u)  BY <1>3 DEF Holds
<1>5. job[t] \notin BadIds
  BY <1>3, <1>4 DEF JobInv, ClaimInv, TypeOK
<1>6. t = u  BY <1>3, <1>4, <1>5 DEF Holds, JobInv, ClaimInv
<1>7. QED  BY <1>3, <1>6

(* Every step of the runner is a step of JobContract or a stutter of it. *)
LEMMA ContractStep ==
  ASSUME JobInv, [Next]_vars
  PROVE  [Contract!Next]_(Contract!vars)
<1>q. ASSUME UNCHANGED hist PROVE UNCHANGED Contract!vars
  BY <1>q DEF hist, Contract!vars
<1>1. ASSUME NEW t \in Tasks, Spawn(t) PROVE Contract!Next
  <2>1. PICK j \in Jobs : j = job[t] /\ proc[j] = "none"
    BY <1>1 DEF Spawn, Go, JobInv, ClaimInv, RunInv
  <2>2. Contract!Start(j)
    BY <1>1, <2>1 DEF Spawn, Contract!Start, JobInv, TypeOK
  <2>3. QED  BY <2>2 DEF Contract!Next
<1>2. ASSUME NEW t \in Tasks, NEW x \in Exits, Exit(t, x) PROVE Contract!Next
  <2>1. PICK j \in Jobs : j = job[t] /\ proc[j] = "running"
    BY <1>2 DEF Exit, Go, JobInv, ClaimInv, RunInv
  <2>2. Contract!End(j, x)
    BY <1>2, <2>1 DEF Exit, Contract!End, JobInv, TypeOK
  <2>3. QED  BY <2>2 DEF Contract!Next
<1>3. ASSUME NEW t \in Tasks, WaitFails(t) PROVE Contract!Next
  <2>1. PICK j \in Jobs : j = job[t] /\ proc[j] = "running"
    BY <1>3 DEF WaitFails, Go, JobInv, ClaimInv, RunInv
  <2>2. Contract!Abandon({j})
    BY <1>3, <2>1 DEF WaitFails, Contract!Abandon, JobInv, TypeOK
  <2>3. {j} \in SUBSET Jobs  OBVIOUS
  <2>4. QED  BY <2>2, <2>3 DEF Contract!Next
<1>4. ASSUME NEW t \in Tasks, Reply(t) PROVE [Contract!Next]_(Contract!vars)
  <2>1. CASE UNCHANGED answers
    BY <1>4, <2>1, <1>q DEF Reply, hist
  <2>2. CASE answers' = [answers EXCEPT ![job[t]] = @ \union {out[t]}]
    <3>1. pc[t] = "reply"  BY <1>4 DEF Reply, Finish
    <3>2. PICK j \in Jobs : j = job[t] /\ proc[j] # "running"
      BY <3>1, ReporterIdle
    <3>3. PICK a \in Exits \union {Failed} :
            /\ a = out[t]
            /\ a # Failed => proc[j] = "ended" /\ result[j] = a
      BY <3>1, <3>2 DEF JobInv, TypeOK, Outcomes, TruthInv, Truthful
    <3>4. Contract!Answer(j, a)
      BY <1>4, <2>2, <3>2, <3>3 DEF Reply, Contract!Answer
    <3>5. QED  BY <3>4 DEF Contract!Next
  <2>3. QED  BY <1>4, <2>1, <2>2 DEF Reply
<1>5. ASSUME NEW after \in Survivors,
             NEW old \in SUBSET {j \in Jobs : after[j].tag # "none"}, Restart(after, old)
      PROVE  Contract!Next
  <2>1. PICK S \in SUBSET Jobs : S = {j \in Jobs : proc[j] = "running"}
    OBVIOUS
  <2>2. Contract!Abandon(S)
    BY <1>5, <2>1 DEF Restart, Contract!Abandon, JobInv, TypeOK
  <2>3. QED  BY <2>2 DEF Contract!Next
<1>6. ASSUME NEW t \in Tasks,
             \/ \E j \in Jobs : Deliver(t, j)
             \/ RejectId(t) \/ Claim(t) \/ ClaimTaken(t)
             \/ LookupKnown(t) \/ LookupNew(t) \/ LookupRefused(t)
             \/ MarkStarted(t) \/ MarkSync(t) \/ MarkFails(t) \/ SpawnFails(t)
             \/ RecordDone(t) \/ RecordSync(t) \/ RecordFails(t)
      PROVE  UNCHANGED hist
  BY <1>6 DEF Deliver, RejectId, Claim, ClaimTaken, LookupKnown, LookupNew,
    LookupRefused, MarkStarted, MarkSync, MarkFails, SpawnFails,
    RecordDone, RecordSync, RecordFails
<1>7. ASSUME (\E j \in Jobs : Damage(j)) \/ UNCHANGED vars
      PROVE  UNCHANGED hist
  BY <1>7 DEF Damage, vars
<1>8. QED
  BY <1>q, <1>1, <1>2, <1>3, <1>4, <1>5, <1>6, <1>7 DEF Next, Step

(* The job runner implements its contract: the reported exit status is that of
   the job's only run, and a failure is reported only of a job not running. *)
THEOREM RunnerKeepsContract == Spec => KeepsContract
<1>1. Init => Contract!Init  BY ContractInit
<1>2. JobInv /\ [Next]_vars => [Contract!Next]_(Contract!vars)  BY ContractStep
<1>3. QED
  BY <1>1, <1>2, Invariance, PTL DEF Spec, KeepsContract, Contract!Spec

-----------------------------------------------------------------------------
(* Shells *)

Ends     == [sid : Nat, id : Streams \union {NoStream}, seq : Nat, high : Int]
Commands == [do : {"open", "input", "close"}, id : Streams, n : Nat]
Openings == [t : {"open"}, sid : Nat, id : Streams]
Frames   == [t : {"frame"}, sid : Nat, id : Streams, seq : Nat, from : Streams, n : Nat]
Items    == [from : Streams, n : Nat]

(* The type of what the shell's safety depends on. *)
ShellTypes ==
  /\ op \in [Streams -> {"new", "open", "closed", "gone"}]
  /\ typed \in [Streams -> Nat] /\ sent \in [Streams -> Nat]
  /\ cmds \in Seq(Commands) /\ down \in Seq(Openings \union Frames) /\ up \in Seq(Frames)
  /\ csid \in Nat /\ asid \in Nat
  /\ route \in Ends /\ active \in Ends
  /\ pty \in [Streams -> {"none", "running", "exited", "killed"}]
  /\ seen \in [Streams -> Seq(Items)] /\ fed \in [Streams -> Seq(Items)]

(* What carries number a.n comes before what carries b.n: eof is the last. *)
Before(a, b) == a.n # Eof /\ (b.n = Eof \/ a.n < b.n)

(* A call opens once, before anything else is queued for it; its keystrokes are
   queued in order. *)
QueueInv ==
  /\ \A i, j \in DOMAIN cmds :
       cmds[i].do = "open" /\ cmds[j].do = "open" /\ cmds[i].id = cmds[j].id => i = j
  /\ \A i \in DOMAIN cmds : op[cmds[i].id] # "new"
  /\ \A i \in DOMAIN cmds : cmds[i].do = "input" =>
       cmds[i].n # Eof /\ cmds[i].n <= typed[cmds[i].id]
  /\ \A i, j \in DOMAIN cmds :
       cmds[i].do = "input" /\ cmds[j].do = "input" /\ cmds[i].id = cmds[j].id /\ i < j
         => cmds[i].n < cmds[j].n

(* The bridge has not yet handled the open of s. *)
Queued(s) == op[s] = "new" \/ \E i \in DOMAIN cmds : cmds[i].do = "open" /\ cmds[i].id = s
(* Nothing of the shell was ever there. *)
Unborn(s) == pty[s] = "none" /\ seen[s] = <<>>

(* Before its open is handled a stream is nowhere; one open of it at most is on
   the way to the agent, and until that one arrives there is no shell. *)
FreshInv ==
  /\ \A s \in Streams : Queued(s) =>
       Unborn(s) /\ route.id # s /\ \A i \in DOMAIN down : down[i].id # s
  /\ \A i \in DOMAIN down : down[i].t = "open" => Unborn(down[i].id)
  /\ \A i, j \in DOMAIN down :
       down[i].t = "open" /\ down[j].t = "open" /\ down[i].id = down[j].id => i = j
  /\ \A s \in Streams : pty[s] = "none" =>
       fed[s] = <<>> /\ active.id # s /\ \A i \in DOMAIN up : up[i].id # s

(* The output of a shell is in order: what the operator has, what is on its way,
   and what the shell has still to send. *)
UpInv ==
  /\ \A i \in DOMAIN up : up[i].from = up[i].id /\ up[i].n <= sent[up[i].id]
       /\ (up[i].n = Eof => pty[up[i].id] # "running")
  /\ \A i, j \in DOMAIN up : up[i].id = up[j].id /\ i < j => Before(up[i], up[j])
  /\ \A s \in Streams : \A m \in DOMAIN seen[s] :
       /\ seen[s][m].n <= sent[s]
       /\ seen[s][m].n = Eof => pty[s] # "running"
       /\ \A i \in DOMAIN up : up[i].id = s => Before(seen[s][m], up[i])

(* The same for keystrokes: fed, on their way, queued, and still to be typed. *)
DownInv ==
  /\ \A i \in DOMAIN down : down[i].t = "frame" =>
       /\ down[i].from = down[i].id /\ down[i].n <= typed[down[i].id]
       /\ down[i].n = Eof => route.id # down[i].id
       /\ \A k \in DOMAIN cmds : cmds[k].do = "input" /\ cmds[k].id = down[i].id =>
            down[i].n < cmds[k].n
  /\ \A i, j \in DOMAIN down :
       down[i].t = "frame" /\ down[j].t = "frame" /\ down[i].id = down[j].id /\ i < j
         => Before(down[i], down[j])
  /\ \A s \in Streams : \A m \in DOMAIN fed[s] :
       /\ fed[s][m].n # Eof /\ fed[s][m].n <= typed[s]
       /\ \A k \in DOMAIN cmds : cmds[k].do = "input" /\ cmds[k].id = s =>
            fed[s][m].n < cmds[k].n
       /\ \A i \in DOMAIN down : down[i].t = "frame" /\ down[i].id = s =>
            Before(fed[s][m], down[i])

(* Without a connection nothing is on its way to the agent, and no shell runs. *)
StreamInv == (asid = 0 => down = <<>>) /\ NoOrphanShell

ShellInv ==
  /\ ShellTypes /\ QueueInv /\ FreshInv /\ UpInv /\ DownInv /\ StreamInv /\ NoCrossTalk

-----------------------------------------------------------------------------
(* Sequences *)

(* `new` is `old` without the elements at D and perhaps others, in order. *)
Thinned(new, old, D) ==
  \E f \in [DOMAIN new -> DOMAIN old \ D] :
    /\ \A i \in DOMAIN new : new[i] = old[f[i]]
    /\ \A i, j \in DOMAIN new : i < j => f[i] < f[j]

(* A sequence left as it is. *)
LEMMA ThinSame ==
  ASSUME NEW S, NEW s \in Seq(S)
  PROVE  Thinned(s, s, {})
<1>1. PICK f : f = [i \in DOMAIN s |-> i]  OBVIOUS
<1>2. f \in [DOMAIN s -> DOMAIN s \ {}]  BY <1>1
<1>3. QED  BY <1>1, <1>2 DEF Thinned

(* A sequence emptied. *)
LEMMA ThinEmpty ==
  ASSUME NEW S, NEW s \in Seq(S)
  PROVE  Thinned(<<>>, s, DOMAIN s)
<1>1. PICK f : f = [i \in {} |-> i]  OBVIOUS
<1>2. DOMAIN <<>> = {}  OBVIOUS
<1>3. f \in [{} -> DOMAIN s \ DOMAIN s]  BY <1>1
<1>4. QED  BY <1>1, <1>2, <1>3 DEF Thinned

(* A message taken from the head of a queue. *)
LEMMA ThinTail ==
  ASSUME NEW S, NEW s \in Seq(S), s # <<>>
  PROVE  /\ Tail(s) \in Seq(S) /\ Head(s) = s[1] /\ 1 \in DOMAIN s /\ s[1] \in S
         /\ Thinned(Tail(s), s, {1})
<1>1. /\ Tail(s) \in Seq(S) /\ Len(s) >= 1 /\ Len(s) \in Nat
      /\ DOMAIN s = 1..Len(s) /\ DOMAIN Tail(s) = 1..(Len(s) - 1)
      /\ \A i \in 1..(Len(s) - 1) : Tail(s)[i] = s[i + 1]
      /\ Head(s) = s[1] /\ Head(s) \in S
  OBVIOUS
<1>2. PICK f : f = [i \in DOMAIN Tail(s) |-> i + 1]  OBVIOUS
<1>3. f \in [DOMAIN Tail(s) -> DOMAIN s \ {1}]  BY <1>1, <1>2
<1>4. QED  BY <1>1, <1>2, <1>3 DEF Thinned

(* A message taken from anywhere in a queue. *)
LEMMA ThinRemove ==
  ASSUME NEW S, NEW s \in Seq(S), NEW k \in DOMAIN s
  PROVE  RemoveAt(s, k) \in Seq(S) /\ Thinned(RemoveAt(s, k), s, {k})
<1> DEFINE a == SubSeq(s, 1, k - 1)
           b == SubSeq(s, k + 1, Len(s))
<1>1. Len(s) \in Nat /\ DOMAIN s = 1..Len(s) /\ k \in 1..Len(s)
  OBVIOUS
<1>2. /\ a \in Seq(S) /\ Len(a) = k - 1 /\ \A i \in 1..(k - 1) : a[i] = s[i]
  <2>1. \A i \in 1..(k - 1) : s[i] \in S  BY <1>1
  <2>2. QED  BY <1>1, <2>1, SubSeqProperties
<1>3. /\ b \in Seq(S) /\ Len(b) = Len(s) - k /\ \A i \in 1..(Len(s) - k) : b[i] = s[i + k]
  <2>1. \A i \in (k + 1)..Len(s) : s[i] \in S  BY <1>1
  <2>2. QED  BY <1>1, <2>1, SubSeqProperties
<1> HIDE DEF a, b
<1>4. /\ a \o b \in Seq(S) /\ Len(a \o b) = Len(s) - 1
      /\ \A i \in 1..(Len(s) - 1) : (a \o b)[i] = IF i < k THEN s[i] ELSE s[i + 1]
  <2>1. a \o b \in Seq(S) /\ Len(a \o b) = Len(a) + Len(b)
        /\ \A i \in 1..(Len(a) + Len(b)) :
             (a \o b)[i] = IF i <= Len(a) THEN a[i] ELSE b[i - Len(a)]
    BY <1>2, <1>3, ConcatProperties
  <2>2. Len(a) + Len(b) = Len(s) - 1 /\ Len(a) = k - 1  BY <1>1, <1>2, <1>3
  <2>3. ASSUME NEW i \in 1..(Len(s) - 1), i < k PROVE (a \o b)[i] = s[i]
    <3>1. i \in 1..(k - 1)  BY <1>1, <2>3
    <3>2. (a \o b)[i] = a[i]  BY <1>1, <2>1, <2>2, <2>3
    <3>3. QED  BY <1>2, <3>1, <3>2
  <2>4. ASSUME NEW i \in 1..(Len(s) - 1), ~(i < k) PROVE (a \o b)[i] = s[i + 1]
    <3>1. i - (k - 1) \in 1..(Len(s) - k) /\ (i - (k - 1)) + k = i + 1  BY <1>1, <2>4
    <3>2. (a \o b)[i] = b[i - (k - 1)]  BY <1>1, <2>1, <2>2, <2>4
    <3>3. QED  BY <1>3, <3>1, <3>2
  <2>5. QED  BY <2>1, <2>2, <2>3, <2>4
<1>5. DOMAIN (a \o b) = 1..(Len(s) - 1)  BY <1>4
<1>6. PICK f : f = [i \in 1..(Len(s) - 1) |-> IF i < k THEN i ELSE i + 1]  OBVIOUS
<1>7. f \in [1..(Len(s) - 1) -> DOMAIN s \ {k}]  BY <1>1, <1>6
<1>8. Thinned(a \o b, s, {k})
  <2>1. \A i \in 1..(Len(s) - 1) : (a \o b)[i] = s[f[i]]  BY <1>4, <1>6
  <2>2. \A i, j \in 1..(Len(s) - 1) : i < j => f[i] < f[j]  BY <1>1, <1>6
  <2>3. QED  BY <1>5, <1>7, <2>1, <2>2 DEF Thinned
<1>9. RemoveAt(s, k) = a \o b  BY DEF RemoveAt, a, b
<1> HIDE DEF Thinned
<1>10. QED  BY <1>4, <1>8, <1>9, Zenon

(* A message put at the end of a queue. *)
LEMMA GrowAppend ==
  ASSUME NEW S, NEW s \in Seq(S), NEW x \in S
  PROVE  /\ Append(s, x) \in Seq(S) /\ Len(s) \in Nat /\ DOMAIN s = 1..Len(s)
         /\ DOMAIN Append(s, x) = 1..(Len(s) + 1) /\ Append(s, x)[Len(s) + 1] = x
         /\ \A i \in DOMAIN Append(s, x) :
              \/ i \in DOMAIN s /\ Append(s, x)[i] = s[i] /\ i < Len(s) + 1
              \/ i = Len(s) + 1 /\ Append(s, x)[i] = x
         /\ \A i \in DOMAIN s : i \in DOMAIN Append(s, x) /\ Append(s, x)[i] = s[i]
  OBVIOUS

(* What the queues hold is typed. *)
LEMMA ShellElements ==
  ASSUME ShellTypes
  PROVE  /\ \A i \in DOMAIN cmds : cmds[i].id \in Streams /\ cmds[i].n \in Nat
         /\ \A i \in DOMAIN up :
              up[i].id \in Streams /\ up[i].from \in Streams /\ up[i].n \in Nat
         /\ \A i \in DOMAIN down : down[i].id \in Streams /\ down[i].t \in {"open", "frame"}
         /\ \A i \in DOMAIN down : down[i].t = "frame" =>
              down[i].from \in Streams /\ down[i].n \in Nat
         /\ \A s \in Streams : \A m \in DOMAIN seen[s] : seen[s][m].n \in Nat
         /\ \A s \in Streams : \A m \in DOMAIN fed[s] : fed[s][m].n \in Nat
         /\ \A s \in Streams : typed[s] \in Nat /\ sent[s] \in Nat
<1>1. \A i \in DOMAIN cmds : cmds[i] \in Commands
  BY DEF ShellTypes
<1>2. \A i \in DOMAIN up : up[i] \in Frames
  BY DEF ShellTypes
<1>3. \A i \in DOMAIN down : down[i] \in Openings \/ down[i] \in Frames
  BY DEF ShellTypes
<1>4. \A s \in Streams : \A m \in DOMAIN seen[s] : seen[s][m] \in Items
  BY DEF ShellTypes
<1>5. \A s \in Streams : \A m \in DOMAIN fed[s] : fed[s][m] \in Items
  BY DEF ShellTypes
<1>6. \A s \in Streams : typed[s] \in Nat /\ sent[s] \in Nat
  BY DEF ShellTypes
<1>7. QED
  BY <1>1, <1>2, <1>3, <1>4, <1>5, <1>6 DEF Commands, Openings, Frames, Items

-----------------------------------------------------------------------------
(* Steps that add nothing: queues lose messages, routes and shells end. *)

(* A queue of commands that loses some stays in order. *)
LEMMA QueueQuiet ==
  ASSUME ShellTypes, ShellTypes', QueueInv, NEW D, Thinned(cmds', cmds, D),
         UNCHANGED typed, \A s \in Streams : op'[s] = "new" <=> op[s] = "new"
  PROVE  QueueInv'
<1>1. PICK f \in [DOMAIN cmds' -> DOMAIN cmds \ D] :
        /\ \A i \in DOMAIN cmds' : cmds'[i] = cmds[f[i]]
        /\ \A i, j \in DOMAIN cmds' : i < j => f[i] < f[j]
  BY DEF Thinned
<1>2. DOMAIN cmds \subseteq Nat /\ DOMAIN cmds' \subseteq Nat  BY DEF ShellTypes
<1>3. \A i \in DOMAIN cmds' : f[i] \in DOMAIN cmds /\ f[i] \in Nat  BY <1>1, <1>2
<1>4. ASSUME NEW i \in DOMAIN cmds', NEW j \in DOMAIN cmds', cmds'[i].do = "open",
             cmds'[j].do = "open", cmds'[i].id = cmds'[j].id
      PROVE  i = j
  <2>1. f[i] = f[j]  BY <1>1, <1>3, <1>4 DEF QueueInv
  <2>2. ~(i < j) /\ ~(j < i)  BY <1>1, <1>3, <1>4, <2>1
  <2>3. QED  BY <1>2, <2>2
<1>5. \A i \in DOMAIN cmds' : op'[cmds'[i].id] # "new"
  BY <1>1, <1>3, ShellElements DEF QueueInv
<1>6. \A i \in DOMAIN cmds' : cmds'[i].do = "input" =>
        cmds'[i].n # Eof /\ cmds'[i].n <= typed'[cmds'[i].id]
  BY <1>1, <1>3 DEF QueueInv
<1>7. \A i, j \in DOMAIN cmds' :
        cmds'[i].do = "input" /\ cmds'[j].do = "input" /\ cmds'[i].id = cmds'[j].id /\ i < j
          => cmds'[i].n < cmds'[j].n
  BY <1>1, <1>3 DEF QueueInv
<1>8. Eof' = Eof  BY DEF Eof
<1>9. QED  BY <1>4, <1>5, <1>6, <1>7, <1>8 DEF QueueInv

(* So does the output when frames of it are lost and shells end. *)
LEMMA UpQuiet ==
  ASSUME ShellTypes, UpInv, NEW D, Thinned(up', up, D), UNCHANGED <<seen, sent>>,
         \A s \in Streams : pty'[s] = "running" => pty[s] = "running"
  PROVE  UpInv'
<1>1. PICK f \in [DOMAIN up' -> DOMAIN up \ D] :
        /\ \A i \in DOMAIN up' : up'[i] = up[f[i]]
        /\ \A i, j \in DOMAIN up' : i < j => f[i] < f[j]
  BY DEF Thinned
<1>2. \A i \in DOMAIN up : up[i].id \in Streams  BY ShellElements
<1>3. \A a, b : Before(a, b)' = Before(a, b)  BY DEF Before, Eof
<1>4. \A i \in DOMAIN up' : f[i] \in DOMAIN up  BY <1>1
<1>5. \A i \in DOMAIN up' : up'[i].from = up'[i].id /\ up'[i].n <= sent'[up'[i].id]
        /\ (up'[i].n = Eof => pty'[up'[i].id] # "running")
  BY <1>1, <1>2, <1>4 DEF UpInv
<1>6. \A i, j \in DOMAIN up' : up'[i].id = up'[j].id /\ i < j => Before(up'[i], up'[j])
  BY <1>1, <1>4 DEF UpInv
<1>7. \A s \in Streams : \A m \in DOMAIN seen'[s] :
        /\ seen'[s][m].n <= sent'[s]
        /\ seen'[s][m].n = Eof => pty'[s] # "running"
        /\ \A i \in DOMAIN up' : up'[i].id = s => Before(seen'[s][m], up'[i])
  BY <1>1, <1>4 DEF UpInv
<1>8. QED
  <2>1. Eof' = Eof  BY DEF Eof
  <2>2. QED  BY <1>3, <1>5, <1>6, <1>7, <2>1 DEF UpInv

(* So do the keystrokes when messages to the agent, or commands, are consumed. *)
LEMMA DownQuiet ==
  ASSUME ShellTypes, DownInv, NEW D, Thinned(down', down, D),
         NEW C, Thinned(cmds', cmds, C), UNCHANGED <<fed, typed>>,
         route'.id \in {route.id, NoStream}
  PROVE  DownInv'
<1>1. PICK f \in [DOMAIN down' -> DOMAIN down \ D] :
        /\ \A i \in DOMAIN down' : down'[i] = down[f[i]]
        /\ \A i, j \in DOMAIN down' : i < j => f[i] < f[j]
  BY DEF Thinned
<1>2. PICK g \in [DOMAIN cmds' -> DOMAIN cmds \ C] :
        \A k \in DOMAIN cmds' : cmds'[k] = cmds[g[k]]
  BY DEF Thinned
<1>3. /\ \A i \in DOMAIN down : down[i].id \in Streams
      /\ \A i \in DOMAIN down' : f[i] \in DOMAIN down
      /\ \A k \in DOMAIN cmds' : g[k] \in DOMAIN cmds
  BY <1>1, <1>2, ShellElements
<1>4. \A i \in DOMAIN down' : down'[i].t = "frame" =>
        /\ down'[i].from = down'[i].id /\ down'[i].n <= typed'[down'[i].id]
        /\ down'[i].n = Eof => route'.id # down'[i].id
        /\ \A k \in DOMAIN cmds' : cmds'[k].do = "input" /\ cmds'[k].id = down'[i].id =>
             down'[i].n < cmds'[k].n
  BY <1>1, <1>2, <1>3, StreamsAssumption DEF DownInv
<1>5. \A i, j \in DOMAIN down' :
        down'[i].t = "frame" /\ down'[j].t = "frame" /\ down'[i].id = down'[j].id /\ i < j
          => Before(down'[i], down'[j])
  BY <1>1, <1>3 DEF DownInv
<1>6. \A s \in Streams : \A m \in DOMAIN fed'[s] :
        /\ fed'[s][m].n # Eof /\ fed'[s][m].n <= typed'[s]
        /\ \A k \in DOMAIN cmds' : cmds'[k].do = "input" /\ cmds'[k].id = s =>
             fed'[s][m].n < cmds'[k].n
        /\ \A i \in DOMAIN down' : down'[i].t = "frame" /\ down'[i].id = s =>
             Before(fed'[s][m], down'[i])
  BY <1>1, <1>2, <1>3 DEF DownInv
<1>7. \A a, b : Before(a, b)' = Before(a, b)  BY DEF Before, Eof
<1>8. QED  BY <1>4, <1>5, <1>6, <1>7 DEF DownInv, Eof

(* A stream whose open is not handled yet is still nowhere. *)
LEMMA FreshQuiet ==
  ASSUME ShellTypes, ShellTypes', FreshInv, NEW D, Thinned(down', down, D),
         NEW C, Thinned(cmds', cmds, C), NEW U, Thinned(up', up, U),
         \A s \in Streams : op'[s] = "new" <=> op[s] = "new",
         \A s \in Streams : pty'[s] = "none" <=> pty[s] = "none",
         \A s \in Streams : pty[s] = "none" =>
           fed'[s] = fed[s] /\ (seen[s] = <<>> => seen'[s] = <<>>),
         route'.id \in {route.id, NoStream}, active'.id \in {active.id, NoStream}
  PROVE  FreshInv'
<1>1. PICK f \in [DOMAIN down' -> DOMAIN down \ D] :
        /\ \A i \in DOMAIN down' : down'[i] = down[f[i]]
        /\ \A i, j \in DOMAIN down' : i < j => f[i] < f[j]
  BY DEF Thinned
<1>2. PICK g \in [DOMAIN cmds' -> DOMAIN cmds \ C] :
        \A k \in DOMAIN cmds' : cmds'[k] = cmds[g[k]]
  BY DEF Thinned
<1>3. PICK h \in [DOMAIN up' -> DOMAIN up \ U] :
        \A k \in DOMAIN up' : up'[k] = up[h[k]]
  BY DEF Thinned
<1>4. /\ \A i \in DOMAIN down : down[i].id \in Streams
      /\ \A i \in DOMAIN down' : f[i] \in DOMAIN down
      /\ \A k \in DOMAIN cmds' : g[k] \in DOMAIN cmds
      /\ \A k \in DOMAIN up' : h[k] \in DOMAIN up
  BY <1>1, <1>2, <1>3, ShellElements
<1>5. \A s \in Streams : (Queued(s)' => Queued(s)) /\ (Unborn(s) => Unborn(s)')
  BY <1>2, <1>4 DEF Queued, Unborn
<1>6. ASSUME NEW s \in Streams, Queued(s)'
      PROVE  Unborn(s)' /\ route'.id # s /\ \A i \in DOMAIN down' : down'[i].id # s
  BY <1>1, <1>4, <1>5, <1>6, StreamsAssumption DEF FreshInv
<1>7. \A i \in DOMAIN down' : down'[i].t = "open" =>
        Unborn(down'[i].id) /\ down'[i].id \in Streams
  BY <1>1, <1>4 DEF FreshInv
<1>8. \A i \in DOMAIN down' : down'[i].t = "open" =>
        pty'[down'[i].id] = "none" /\ seen'[down'[i].id] = <<>>
  BY <1>5, <1>7 DEF Unborn
<1>9. ASSUME NEW i \in DOMAIN down', NEW j \in DOMAIN down', down'[i].t = "open",
             down'[j].t = "open", down'[i].id = down'[j].id
      PROVE  i = j
  <2>1. f[i] = f[j]  BY <1>1, <1>4, <1>9 DEF FreshInv
  <2>2. i \in Nat /\ j \in Nat /\ f[i] \in Nat
    <3>1. DOMAIN down \subseteq Nat /\ DOMAIN down' \subseteq Nat  BY DEF ShellTypes
    <3>2. QED  BY <1>4, <1>9, <3>1
  <2>3. ~(i < j) /\ ~(j < i)  BY <1>1, <1>9, <2>1, <2>2
  <2>4. QED  BY <2>2, <2>3
<1>10. \A s \in Streams : pty'[s] = "none" =>
        fed'[s] = <<>> /\ active'.id # s /\ \A i \in DOMAIN up' : up'[i].id # s
  BY <1>3, <1>4, StreamsAssumption DEF FreshInv
<1>11. QED  BY <1>6, <1>8, <1>9, <1>10 DEF FreshInv, Unborn

-----------------------------------------------------------------------------
(* Types *)

(* What the two sides build: stream ends, frames, opens, commands. *)
LEMMA ShellRecords ==
  /\ \A sid \in Nat, s \in Streams : End(sid, s) \in Ends /\ End(sid, s).id = s
  /\ NoEnd \in Ends /\ NoEnd.id = NoStream
  /\ \A k \in Ends, s \in Streams, n \in Nat : k.id \in Streams =>
       /\ Frame(k, s, n) \in Frames /\ Frame(k, s, n).t = "frame"
       /\ Frame(k, s, n).id = k.id /\ Frame(k, s, n).from = s /\ Frame(k, s, n).n = n
  /\ \A s \in Streams : csid \in Nat =>
       OpenMsg(s) \in Openings /\ OpenMsg(s).t = "open" /\ OpenMsg(s).id = s
  /\ \A do \in {"open", "input", "close"}, s \in Streams, n \in Nat :
       /\ Cmd(do, s, n) \in Commands /\ Cmd(do, s, n).do = do
       /\ Cmd(do, s, n).id = s /\ Cmd(do, s, n).n = n
  /\ \A k \in Ends, n \in Nat :
       /\ [k EXCEPT !.high = n] \in Ends /\ [k EXCEPT !.high = n].id = k.id
       /\ [k EXCEPT !.high = n].sid = k.sid
       /\ [k EXCEPT !.seq = @ + 1] \in Ends /\ [k EXCEPT !.seq = @ + 1].id = k.id
       /\ [k EXCEPT !.seq = @ + 1].sid = k.sid
  /\ \A s \in Streams, n \in Nat : [from |-> s, n |-> n] \in Items
<1>1. \A sid \in Nat, s \in Streams : End(sid, s) \in Ends /\ End(sid, s).id = s
  BY DEF End, Ends
<1>2. NoEnd \in Ends /\ NoEnd.id = NoStream
  BY DEF NoEnd, End, Ends
<1>3. \A k \in Ends, s \in Streams, n \in Nat : k.id \in Streams =>
        /\ Frame(k, s, n) \in Frames /\ Frame(k, s, n).t = "frame"
        /\ Frame(k, s, n).id = k.id /\ Frame(k, s, n).from = s /\ Frame(k, s, n).n = n
  BY DEF Frame, Frames, Ends
<1>4. \A s \in Streams : csid \in Nat =>
        OpenMsg(s) \in Openings /\ OpenMsg(s).t = "open" /\ OpenMsg(s).id = s
  BY DEF OpenMsg, Openings
<1>5. \A do \in {"open", "input", "close"}, s \in Streams, n \in Nat :
        /\ Cmd(do, s, n) \in Commands /\ Cmd(do, s, n).do = do
        /\ Cmd(do, s, n).id = s /\ Cmd(do, s, n).n = n
  BY DEF Cmd, Commands
<1>6. \A k \in Ends, n \in Nat :
        /\ [k EXCEPT !.high = n] \in Ends /\ [k EXCEPT !.high = n].id = k.id
        /\ [k EXCEPT !.high = n].sid = k.sid
        /\ [k EXCEPT !.seq = @ + 1] \in Ends /\ [k EXCEPT !.seq = @ + 1].id = k.id
        /\ [k EXCEPT !.seq = @ + 1].sid = k.sid
  BY DEF Ends
<1>7. \A s \in Streams, n \in Nat : [from |-> s, n |-> n] \in Items
  BY DEF Items
<1>8. QED  BY <1>1, <1>2, <1>3, <1>4, <1>5, <1>6, <1>7, Zenon

(* The command the bridge handles next. *)
LEMMA NextCommand ==
  ASSUME ShellTypes, NEW do, Next1(do)
  PROVE  /\ Head(cmds) = cmds[1] /\ 1 \in DOMAIN cmds
         /\ cmds[1].do = do /\ cmds[1].id \in Streams /\ cmds[1].n \in Nat
         /\ cmds' = Tail(cmds) /\ cmds' \in Seq(Commands) /\ Thinned(cmds', cmds, {1})
<1>1. cmds \in Seq(Commands) /\ cmds # <<>> /\ cmds' = Tail(cmds) /\ Head(cmds).do = do
  BY DEF ShellTypes, Next1
<1>2. /\ cmds' \in Seq(Commands) /\ Head(cmds) = cmds[1] /\ 1 \in DOMAIN cmds
      /\ Thinned(cmds', cmds, {1})
  BY <1>1, ThinTail
<1>3. QED  BY <1>1, <1>2, ShellElements

(* The frame the bridge handles next. *)
LEMMA NextFrame ==
  ASSUME ShellTypes, up # <<>>, up' = Tail(up)
  PROVE  /\ Head(up) = up[1] /\ 1 \in DOMAIN up /\ up[1] \in Frames
         /\ up[1].id \in Streams /\ up[1].from \in Streams
         /\ up[1].n \in Nat /\ up[1].seq \in Nat
         /\ up' \in Seq(Frames) /\ Thinned(up', up, {1})
<1>1. up \in Seq(Frames)  BY DEF ShellTypes
<1>2. /\ up' \in Seq(Frames) /\ Head(up) = up[1] /\ 1 \in DOMAIN up /\ up[1] \in Frames
      /\ Thinned(up', up, {1})
  BY <1>1, ThinTail
<1>3. QED  BY <1>2 DEF Frames

(* The message the agent handles next. *)
LEMMA NextMessage ==
  ASSUME ShellTypes, NEW i \in DOMAIN down, Take(i)
  PROVE  /\ down[i].id \in Streams
         /\ down[i].t = "frame" => down[i] \in Frames
         /\ down' \in Seq(Openings \union Frames) /\ Thinned(down', down, {i})
<1>1. down \in Seq(Openings \union Frames) /\ down' = RemoveAt(down, i)
  BY DEF ShellTypes, Take
<1>2. down' \in Seq(Openings \union Frames) /\ Thinned(down', down, {i})
  BY <1>1, ThinRemove
<1>3. down[i] \in Openings \/ down[i] \in Frames  BY <1>1
<1>4. QED  BY <1>2, <1>3 DEF Openings, Frames

(* close_shell_route tells the agent if it can, and the route is gone. *)
LEMMA RouteCloses ==
  ASSUME ShellTypes, CloseRoute, route.id \in Streams
  PROVE  /\ route' = NoEnd /\ route' \in Ends /\ route'.id = NoStream
         /\ down' \in Seq(Openings \union Frames)
         /\ \/ asid = 0 /\ down' = down
            \/ /\ asid # 0 /\ down' = Append(down, Frame(route, route.id, Eof))
               /\ Frame(route, route.id, Eof) \in Openings \union Frames
<1>1. Frame(route, route.id, Eof) \in Frames
  BY ShellRecords DEF ShellTypes, Eof
<1>2. /\ route' = NoEnd
      /\ down' = IF asid = 0 THEN down ELSE Append(down, Frame(route, route.id, Eof))
  BY DEF CloseRoute, EofDown
<1>3. NoEnd \in Ends /\ NoEnd.id = NoStream  BY ShellRecords
<1>4. down \in Seq(Openings \union Frames)  BY DEF ShellTypes
<1>5. Append(down, Frame(route, route.id, Eof)) \in Seq(Openings \union Frames)
  BY <1>1, <1>4, GrowAppend
<1>6. QED  BY <1>1, <1>2, <1>3, <1>4, <1>5

(* What the operator is given is a sequence of items. *)
LEMMA PutTypes ==
  ASSUME ShellTypes, NEW s \in Streams, NEW x \in Items, Put(s, x)
  PROVE  /\ seen' \in [Streams -> Seq(Items)] /\ seen'[s] = Append(seen[s], x)
         /\ \A r \in Streams : r # s => seen'[r] = seen[r]
<1>1. seen \in [Streams -> Seq(Items)] /\ seen' = [seen EXCEPT ![s] = Append(@, x)]
  BY DEF ShellTypes, Put
<1>2. Append(seen[s], x) \in Seq(Items)  BY <1>1, GrowAppend
<1>3. QED  BY <1>1, <1>2

(* Killing ends running shells and touches no other. *)
LEMMA KilledTypes ==
  ASSUME ShellTypes, NEW S
  PROVE  /\ Killed(S) \in [Streams -> {"none", "running", "exited", "killed"}]
         /\ \A s \in Streams :
              /\ Killed(S)[s] = "none" <=> pty[s] = "none"
              /\ Killed(S)[s] = "running" <=> pty[s] = "running" /\ s \notin S
<1>1. \A s \in Streams : pty[s] \in {"none", "running", "exited", "killed"}
  BY DEF ShellTypes
<1>2. QED  BY <1>1 DEF Killed

-----------------------------------------------------------------------------
(* Steps that add nothing *)

(* They keep the whole invariant, given that they keep its types and end shells
   with their streams. *)
LEMMA QuietStep ==
  ASSUME ShellInv, ShellTypes', StreamInv',
         NEW C, Thinned(cmds', cmds, C), NEW D, Thinned(down', down, D),
         NEW U, Thinned(up', up, U),
         UNCHANGED <<typed, sent, seen, fed>>,
         \A s \in Streams : op'[s] = "new" <=> op[s] = "new",
         \A s \in Streams : pty'[s] = "none" <=> pty[s] = "none",
         \A s \in Streams : pty'[s] = "running" => pty[s] = "running",
         route'.id \in {route.id, NoStream}, active'.id \in {active.id, NoStream}
  PROVE  ShellInv'
<1>1. /\ ShellTypes /\ QueueInv /\ FreshInv /\ UpInv /\ DownInv /\ NoCrossTalk
  BY DEF ShellInv
<1>2. QueueInv'  BY <1>1, QueueQuiet
<1>3. FreshInv'  BY <1>1, FreshQuiet
<1>4. UpInv'     BY <1>1, UpQuiet
<1>5. DownInv'   BY <1>1, DownQuiet
<1>6. NoCrossTalk'  BY <1>1 DEF NoCrossTalk, Orderly, Eof
<1>7. QED  BY <1>2, <1>3, <1>4, <1>5, <1>6 DEF ShellInv

(* The operator reads its output. *)
LEMMA ReadStep ==
  ASSUME ShellInv, NEW s \in Streams, Read(s)
  PROVE  ShellInv'
<1>1. UNCHANGED <<op, typed, cmds, csid, route, seen, down, up, asid, active, used,
                  pty, sent, fed>>
  BY DEF Read, opVars, coordVars, agentVars
<1>2. ShellTypes' /\ StreamInv'
  BY <1>1 DEF ShellInv, ShellTypes, StreamInv, NoOrphanShell
<1>3. Thinned(cmds', cmds, {}) /\ Thinned(down', down, {}) /\ Thinned(up', up, {})
  BY <1>1, ThinSame DEF ShellInv, ShellTypes
<1>4. QED  BY <1>1, <1>2, <1>3, QuietStep

(* A frame on its way up is ignored, shed, or finds the operator's queue full. *)
LEMMA FrameLostStep ==
  ASSUME ShellInv, StreamUpIgnored \/ Shed \/ StreamUpFull
  PROVE  ShellInv'
<1>1. /\ UNCHANGED <<op, typed, cmds, csid, seen, down, asid, active, used, pty, sent, fed>>
      /\ up # <<>> /\ up' = Tail(up)
      /\ route' = route \/ route' = [route EXCEPT !.high = Head(up).seq]
  BY DEF StreamUpIgnored, Shed, StreamUpFull, opVars, coordVars, agentVars, outVars
<1>2. /\ ShellTypes
      /\ Head(up).seq \in Nat /\ up' \in Seq(Frames) /\ Thinned(up', up, {1})
  BY <1>1, NextFrame DEF ShellInv
<1>3. route' \in Ends /\ route'.id = route.id
  <2>1. route \in Ends  BY <1>2 DEF ShellTypes
  <2>2. CASE route' = [route EXCEPT !.high = Head(up).seq]
    BY <1>2, <2>1, <2>2 DEF Ends
  <2>3. QED  BY <1>1, <2>1, <2>2
<1>4. ShellTypes' /\ StreamInv'
  BY <1>1, <1>2, <1>3 DEF ShellInv, ShellTypes, StreamInv, NoOrphanShell
<1>5. Thinned(cmds', cmds, {}) /\ Thinned(down', down, {})
  BY <1>1, <1>2, ThinSame DEF ShellTypes
<1>6. QED  BY <1>1, <1>2, <1>3, <1>4, <1>5, QuietStep

(* The agent refuses an open, or cannot open a frame. *)
LEMMA AgentPassesStep ==
  ASSUME ShellInv, NEW i \in DOMAIN down, AgentRefuses(i) \/ AgentIgnores(i)
  PROVE  ShellInv'
<1>1. /\ UNCHANGED <<op, typed, cmds, csid, route, seen, up, asid, active, used, pty, sent, fed>>
      /\ Take(i)
  BY DEF AgentRefuses, AgentIgnores, opVars, coordVars, agentVars, outVars
<1>2. /\ ShellTypes
      /\ down' \in Seq(Openings \union Frames) /\ Thinned(down', down, {i})
  BY <1>1, NextMessage DEF ShellInv
<1>3. asid' # 0
  <2>1. down # <<>>  OBVIOUS
  <2>2. QED  BY <1>1, <2>1 DEF ShellInv, StreamInv
<1>4. ShellTypes' /\ StreamInv'
  BY <1>1, <1>2, <1>3 DEF ShellInv, ShellTypes, StreamInv, NoOrphanShell
<1>5. Thinned(cmds', cmds, {}) /\ Thinned(up', up, {})
  BY <1>1, <1>2, ThinSame DEF ShellTypes
<1>6. QED  BY <1>1, <1>2, <1>4, <1>5, QuietStep

(* The operator's eof reaches the agent: its shell is killed with the stream. *)
LEMMA AgentClosesStep ==
  ASSUME ShellInv, NEW i \in DOMAIN down, AgentCloses(i)
  PROVE  ShellInv'
<1>1. /\ UNCHANGED <<op, typed, cmds, csid, route, seen, up, asid, used, sent, fed>>
      /\ pty' = Killed({active.id}) /\ active' = NoEnd /\ Take(i)
  BY DEF AgentCloses, opVars, coordVars, outVars
<1>2. /\ ShellTypes
      /\ down' \in Seq(Openings \union Frames) /\ Thinned(down', down, {i})
  BY <1>1, NextMessage DEF ShellInv
<1>3. asid' # 0
  <2>1. down # <<>>  OBVIOUS
  <2>2. QED  BY <1>1, <2>1 DEF ShellInv, StreamInv
<1>4. active' \in Ends /\ active'.id = NoStream  BY <1>1, ShellRecords
<1>5. /\ pty' \in [Streams -> {"none", "running", "exited", "killed"}]
      /\ \A s \in Streams : pty'[s] = "none" <=> pty[s] = "none"
      /\ \A s \in Streams : pty'[s] = "running" <=> pty[s] = "running" /\ s \notin {active.id}
  BY <1>1, <1>2, KilledTypes
<1>6. \A s \in Streams : pty'[s] # "running"
  BY <1>5 DEF ShellInv, StreamInv, NoOrphanShell
<1>7. ShellTypes' /\ StreamInv'
  BY <1>1, <1>2, <1>3, <1>4, <1>5, <1>6 DEF ShellInv, ShellTypes, StreamInv, NoOrphanShell
<1>8. Thinned(cmds', cmds, {}) /\ Thinned(up', up, {})
  BY <1>1, <1>2, ThinSame DEF ShellTypes
<1>9. QED  BY <1>1, <1>2, <1>4, <1>5, <1>7, <1>8, QuietStep

(* The connection ends: no shell runs any more. *)
LEMMA UnplugFacts ==
  ASSUME ShellInv, Unplug
  PROVE  /\ asid' = 0 /\ active' \in Ends /\ active'.id = NoStream
         /\ down' = <<>> /\ down' \in Seq(Openings \union Frames)
         /\ Thinned(down', down, DOMAIN down)
         /\ pty' \in [Streams -> {"none", "running", "exited", "killed"}]
         /\ \A s \in Streams : pty'[s] = "none" <=> pty[s] = "none"
         /\ \A s \in Streams : pty'[s] # "running"
<1>1. ShellTypes  BY DEF ShellInv
<1>2. asid' = 0 /\ active' = NoEnd /\ down' = <<>> /\ pty' = Killed(Dropped(active))
  BY DEF Unplug
<1>3. active' \in Ends /\ active'.id = NoStream  BY <1>2, ShellRecords
<1>4. down' \in Seq(Openings \union Frames) /\ Thinned(down', down, DOMAIN down)
  BY <1>1, <1>2, ThinEmpty DEF ShellTypes
<1>5. /\ pty' \in [Streams -> {"none", "running", "exited", "killed"}]
      /\ \A s \in Streams : pty'[s] = "none" <=> pty[s] = "none"
      /\ \A s \in Streams : pty'[s] = "running" <=> pty[s] = "running" /\ s \notin Dropped(active)
  BY <1>1, <1>2, KilledTypes
<1>6. ASSUME NEW s \in Streams, pty[s] = "running" PROVE s \in Dropped(active)
  <2>1. active.id = s  BY <1>6 DEF ShellInv, StreamInv, NoOrphanShell
  <2>2. NoEnd.id = NoStream  BY ShellRecords
  <2>3. active # NoEnd  BY <2>1, <2>2, StreamsAssumption
  <2>4. QED  BY <2>1, <2>3 DEF Dropped
<1>7. QED  BY <1>2, <1>3, <1>4, <1>5, <1>6

(* The connection drops, or the broker dies with it. *)
LEMMA DropStep ==
  ASSUME ShellInv, Drop \/ LinkDies
  PROVE  ShellInv'
<1>1. Unplug /\ UNCHANGED <<op, typed, csid, seen, up, sent, fed>>
  BY DEF Drop, LinkDies, opVars, coordVars, outVars
<1>2. ShellTypes  BY DEF ShellInv
<1>3. /\ cmds' \in Seq(Commands) /\ \E C : Thinned(cmds', cmds, C)
      /\ route' \in Ends /\ route'.id \in {route.id, NoStream}
  <2>1. CASE Drop
    BY <1>2, <2>1, ThinSame DEF Drop, coordVars, ShellTypes
  <2>2. CASE LinkDies
    BY <1>2, <2>2, NextCommand, ShellRecords DEF LinkDies
  <2>3. QED  BY <2>1, <2>2
<1>4. ShellTypes' /\ StreamInv'
  BY <1>1, <1>2, <1>3, UnplugFacts DEF ShellTypes, StreamInv, NoOrphanShell
<1>5. Thinned(up', up, {})  BY <1>1, <1>2, ThinSame DEF ShellTypes
<1>6. PICK C : Thinned(cmds', cmds, C)  BY <1>3
<1>7. QED  BY <1>1, <1>3, <1>4, <1>5, <1>6, UnplugFacts, QuietStep

(* A new session begins; the old route goes. *)
LEMMA RehelloStep ==
  ASSUME ShellInv, Rehello
  PROVE  ShellInv'
<1>1. /\ UNCHANGED <<op, typed, cmds, seen, down, up, active, used, pty, sent, fed>>
      /\ asid = 0 /\ csid' = csid + 1 /\ asid' = csid' /\ route' = NoEnd
  BY DEF Rehello, opVars, outVars
<1>2. ShellTypes /\ route' \in Ends /\ route'.id = NoStream
  BY <1>1, ShellRecords DEF ShellInv
<1>3. ShellTypes' /\ StreamInv'
  BY <1>1, <1>2 DEF ShellInv, ShellTypes, StreamInv, NoOrphanShell
<1>4. Thinned(cmds', cmds, {}) /\ Thinned(down', down, {}) /\ Thinned(up', up, {})
  BY <1>1, <1>2, ThinSame DEF ShellTypes
<1>5. QED  BY <1>1, <1>2, <1>3, <1>4, QuietStep

-----------------------------------------------------------------------------
(* The operator's steps *)

(* A command is queued: what it must satisfy for the queue to stay in order. *)
LEMMA CommandQueued ==
  ASSUME ShellTypes, ShellTypes', QueueInv, NEW c \in Commands, cmds' = Append(cmds, c),
         op'[c.id] # "new",
         \A s \in Streams : op'[s] = "new" => op[s] = "new",
         \A s \in Streams : typed'[s] >= typed[s],
         c.do = "open" => op[c.id] = "new",
         c.do = "input" => c.n = typed[c.id] + 1 /\ typed'[c.id] = c.n
  PROVE  QueueInv'
<1>1. cmds \in Seq(Commands) /\ typed \in [Streams -> Nat] /\ typed' \in [Streams -> Nat]
  BY DEF ShellTypes
<1>2. /\ Len(cmds) \in Nat /\ DOMAIN cmds = 1..Len(cmds)
      /\ \A i \in DOMAIN cmds' :
           \/ i \in DOMAIN cmds /\ cmds'[i] = cmds[i] /\ i < Len(cmds) + 1
           \/ i = Len(cmds) + 1 /\ cmds'[i] = c
  BY <1>1, GrowAppend
<1>3. \A i \in DOMAIN cmds : cmds[i].id \in Streams /\ cmds[i].n \in Nat
  BY ShellElements
<1>4. c.id \in Streams /\ c.n \in Nat  BY DEF Commands
<1>5. \A i, j \in DOMAIN cmds' :
        cmds'[i].do = "open" /\ cmds'[j].do = "open" /\ cmds'[i].id = cmds'[j].id => i = j
  BY <1>2, <1>3, <1>4 DEF QueueInv
<1>6. \A i \in DOMAIN cmds' : op'[cmds'[i].id] # "new"
  BY <1>2, <1>3 DEF QueueInv
<1>7. \A i \in DOMAIN cmds' : cmds'[i].do = "input" =>
        cmds'[i].n # Eof /\ cmds'[i].n <= typed'[cmds'[i].id]
  BY <1>1, <1>2, <1>3, <1>4 DEF QueueInv, Eof
<1>8. \A i, j \in DOMAIN cmds' :
        cmds'[i].do = "input" /\ cmds'[j].do = "input" /\ cmds'[i].id = cmds'[j].id /\ i < j
          => cmds'[i].n < cmds'[j].n
  <2> SUFFICES ASSUME NEW i \in DOMAIN cmds', NEW j \in DOMAIN cmds', i < j,
                      cmds'[i].do = "input", cmds'[j].do = "input",
                      cmds'[i].id = cmds'[j].id
               PROVE  cmds'[i].n < cmds'[j].n
    OBVIOUS
  <2>1. i \in DOMAIN cmds /\ cmds'[i] = cmds[i]  BY <1>2
  <2>2. CASE j \in DOMAIN cmds /\ cmds'[j] = cmds[j]
    BY <2>1, <2>2 DEF QueueInv
  <2>3. CASE cmds'[j] = c
    <3>1. cmds[i].n <= typed[c.id] /\ typed[c.id] \in Nat /\ cmds[i].n \in Nat
      BY <1>1, <1>3, <1>4, <2>1, <2>3 DEF QueueInv
    <3>2. c.n = typed[c.id] + 1  BY <2>3
    <3>3. QED  BY <2>1, <2>3, <3>1, <3>2
  <2>4. QED  BY <1>2, <2>2, <2>3
<1>9. Eof' = Eof  BY DEF Eof
<1>10. QED  BY <1>5, <1>6, <1>7, <1>8, <1>9 DEF QueueInv

(* Call, Type, Close and Leave: a command is queued, and everything else is as
   it was. *)
LEMMA CommandStep ==
  ASSUME ShellInv, ShellTypes', NEW c \in Commands, cmds' = Append(cmds, c),
         op'[c.id] # "new", c.do # "open" => op[c.id] # "new",
         \A s \in Streams : s # c.id => op'[s] = op[s],
         \A s \in Streams : typed'[s] >= typed[s],
         c.do = "open" => op[c.id] = "new",
         c.do = "input" => c.n = typed[c.id] + 1 /\ typed'[c.id] = c.n,
         UNCHANGED <<route, down, up, asid, active, pty, sent, seen, fed>>
  PROVE  ShellInv'
<1>1. /\ ShellTypes /\ QueueInv /\ FreshInv /\ UpInv /\ DownInv /\ StreamInv /\ NoCrossTalk
      /\ cmds \in Seq(Commands) /\ typed \in [Streams -> Nat] /\ typed' \in [Streams -> Nat]
  BY DEF ShellInv, ShellTypes
<1>2. c.id \in Streams /\ c.n \in Nat  BY DEF Commands
<1>3. QueueInv'  BY <1>1, <1>2, CommandQueued
<1>4. /\ \A i \in DOMAIN cmds' :
           \/ i \in DOMAIN cmds /\ cmds'[i] = cmds[i]
           \/ cmds'[i] = c
  BY <1>1, GrowAppend
<1>5. \A s \in Streams : Queued(s)' => Queued(s)
  BY <1>2, <1>4 DEF Queued
<1>6. FreshInv'
  <2>1. \A s : Unborn(s)' = Unborn(s)  BY DEF Unborn
  <2>2. QED  BY <1>1, <1>5, <2>1 DEF FreshInv
<1>7. UpInv'  BY <1>1 DEF UpInv, Before, Eof
<1>8. DownInv'
  <2>1. /\ \A i \in DOMAIN down : down[i].id \in Streams
        /\ \A i \in DOMAIN down : down[i].t = "frame" => down[i].n \in Nat
        /\ \A s \in Streams : \A m \in DOMAIN fed[s] : fed[s][m].n \in Nat
    BY <1>1, ShellElements
  <2>2. ASSUME NEW i \in DOMAIN down, down[i].t = "frame"
        PROVE  /\ down[i].from = down[i].id /\ down[i].n <= typed'[down[i].id]
               /\ down[i].n = Eof => route.id # down[i].id
               /\ \A k \in DOMAIN cmds' : cmds'[k].do = "input" /\ cmds'[k].id = down[i].id =>
                    down[i].n < cmds'[k].n
    <3>1. /\ down[i].from = down[i].id /\ down[i].n <= typed[down[i].id]
          /\ down[i].n = Eof => route.id # down[i].id
          /\ \A k \in DOMAIN cmds : cmds[k].do = "input" /\ cmds[k].id = down[i].id =>
               down[i].n < cmds[k].n
      BY <1>1, <2>2 DEF DownInv
    <3>2. /\ down[i].n \in Nat /\ typed[down[i].id] \in Nat /\ typed'[down[i].id] \in Nat
          /\ typed'[down[i].id] >= typed[down[i].id]
      BY <1>1, <2>1, <2>2
    <3>3. ASSUME NEW k \in DOMAIN cmds', cmds'[k].do = "input", cmds'[k].id = down[i].id
          PROVE  down[i].n < cmds'[k].n
      BY <1>4, <3>1, <3>2, <3>3
    <3>4. QED  BY <3>1, <3>2, <3>3
  <2>3. ASSUME NEW s \in Streams, NEW m \in DOMAIN fed[s]
        PROVE  /\ fed[s][m].n # Eof /\ fed[s][m].n <= typed'[s]
               /\ \A k \in DOMAIN cmds' : cmds'[k].do = "input" /\ cmds'[k].id = s =>
                    fed[s][m].n < cmds'[k].n
               /\ \A i \in DOMAIN down : down[i].t = "frame" /\ down[i].id = s =>
                    Before(fed[s][m], down[i])
    <3>1. /\ fed[s][m].n # Eof /\ fed[s][m].n <= typed[s]
          /\ \A k \in DOMAIN cmds : cmds[k].do = "input" /\ cmds[k].id = s =>
               fed[s][m].n < cmds[k].n
          /\ \A i \in DOMAIN down : down[i].t = "frame" /\ down[i].id = s =>
               Before(fed[s][m], down[i])
      BY <1>1 DEF DownInv
    <3>2. QED  BY <1>1, <1>2, <1>4, <2>1, <3>1
  <2>4. \A a, b : Before(a, b)' = Before(a, b)  BY DEF Before, Eof
  <2>5. \A i, j \in DOMAIN down :
          down[i].t = "frame" /\ down[j].t = "frame" /\ down[i].id = down[j].id /\ i < j
            => Before(down[i], down[j])
    BY <1>1 DEF DownInv
  <2>6. Eof' = Eof  BY DEF Eof
  <2>7. QED  BY <2>2, <2>3, <2>4, <2>5, <2>6 DEF DownInv
<1>9. StreamInv' /\ NoCrossTalk'
  BY <1>1 DEF StreamInv, NoOrphanShell, NoCrossTalk, Orderly, Eof
<1>10. QED  BY <1>3, <1>6, <1>7, <1>8, <1>9 DEF ShellInv

(* The operator calls, types, closes its shell or leaves. *)
LEMMA OperatorStep ==
  ASSUME ShellInv, NEW s \in Streams, Call(s) \/ Type(s) \/ Close(s) \/ Leave(s)
  PROVE  ShellInv'
<1>1. /\ ShellTypes /\ StreamInv /\ cmds \in Seq(Commands)
      /\ op \in [Streams -> {"new", "open", "closed", "gone"}] /\ typed \in [Streams -> Nat]
      /\ UNCHANGED <<csid, route, down, up, asid, active, used, pty, sent, seen, fed>>
  BY DEF ShellInv, ShellTypes, Call, Type, Close, Leave, coordVars, outVars, agentVars
<1>2. \A do \in {"open", "input", "close"}, n \in Nat :
        /\ Cmd(do, s, n) \in Commands /\ Cmd(do, s, n).do = do
        /\ Cmd(do, s, n).id = s /\ Cmd(do, s, n).n = n
        /\ Append(cmds, Cmd(do, s, n)) \in Seq(Commands)
  BY <1>1, ShellRecords, GrowAppend
<1>3. ASSUME op' \in [Streams -> {"new", "open", "closed", "gone"}],
             typed' \in [Streams -> Nat], cmds' \in Seq(Commands)
      PROVE  ShellTypes'
  BY <1>1, <1>3 DEF ShellTypes
<1>4. CASE Call(s)
  <2>1. /\ op[s] = "new" /\ op' = [op EXCEPT ![s] = "open"] /\ typed' = typed
        /\ cmds' = Append(cmds, Cmd("open", s, 0))
    BY <1>4 DEF Call
  <2>2. ShellTypes'  BY <1>1, <1>2, <1>3, <2>1
  <2>3. QED  BY <1>1, <1>2, <2>1, <2>2, CommandStep
<1>5. CASE Type(s)
  <2>1. /\ op[s] = "open" /\ op' = op /\ typed' = [typed EXCEPT ![s] = @ + 1]
        /\ cmds' = Append(cmds, Cmd("input", s, typed[s] + 1))
    BY <1>5 DEF Type
  <2>2. /\ typed' \in [Streams -> Nat] /\ typed[s] + 1 \in Nat /\ typed'[s] = typed[s] + 1
        /\ \A r \in Streams : typed'[r] >= typed[r]
    BY <1>1, <2>1
  <2>3. ShellTypes'  BY <1>1, <1>2, <1>3, <2>1, <2>2
  <2>4. QED  BY <1>1, <1>2, <2>1, <2>2, <2>3, CommandStep
<1>6. ASSUME op[s] # "new", op'[s] # "new",
             op' \in [Streams -> {"new", "open", "closed", "gone"}],
             \A r \in Streams : r # s => op'[r] = op[r], typed' = typed,
             cmds' = Append(cmds, Cmd("close", s, 0))
      PROVE  ShellInv'
  <2>1. ShellTypes'  BY <1>1, <1>2, <1>3, <1>6
  <2>2. QED  BY <1>1, <1>2, <1>6, <2>1, CommandStep
<1>7. CASE Close(s)
  <2>1. /\ op[s] = "open" /\ op' = [op EXCEPT ![s] = "closed"] /\ typed' = typed
        /\ cmds' = Append(cmds, Cmd("close", s, 0))
    BY <1>7 DEF Close
  <2>2. QED  BY <1>1, <1>6, <2>1
<1>8. CASE Leave(s)
  <2>1. /\ op[s] \in {"open", "closed"} /\ op' = [op EXCEPT ![s] = "gone"] /\ typed' = typed
        /\ cmds' = IF op[s] = "open" THEN Append(cmds, Cmd("close", s, 0)) ELSE cmds
    BY <1>8 DEF Leave
  <2>2. CASE op[s] = "open"
    BY <1>1, <1>6, <2>1, <2>2
  <2>3. CASE op[s] = "closed"
    <3>1. cmds' = cmds  BY <2>1, <2>3
    <3>2. ShellTypes' /\ StreamInv'
      BY <1>1, <1>3, <2>1, <3>1 DEF StreamInv, NoOrphanShell
    <3>3. Thinned(cmds', cmds, {}) /\ Thinned(down', down, {}) /\ Thinned(up', up, {})
      BY <1>1, <3>1, ThinSame DEF ShellTypes
    <3>4. \A r \in Streams : op'[r] = "new" <=> op[r] = "new"  BY <1>1, <2>1
    <3>5. QED  BY <1>1, <2>1, <3>2, <3>3, <3>4, QuietStep
  <2>4. QED  BY <2>1, <2>2, <2>3
<1>9. QED  BY <1>4, <1>5, <1>7, <1>8

-----------------------------------------------------------------------------
(* The bridge's steps *)

(* The open at the head of the queue is the only one of its stream, which is
   nowhere yet; afterwards it is queued no more. *)
LEMMA OpenHandled ==
  ASSUME ShellInv, ShellTypes', Next1("open"), UNCHANGED op, NEW s, s = cmds[1].id
  PROVE  /\ Head(cmds).id = s /\ s \in Streams /\ ~Queued(s)'
         /\ pty[s] = "none" /\ seen[s] = <<>> /\ fed[s] = <<>> /\ active.id # s /\ route.id # s
         /\ \A i \in DOMAIN down : down[i].id # s
         /\ \A i \in DOMAIN up : up[i].id # s
         /\ \A r \in Streams : Queued(r)' => Queued(r)
<1>1. /\ ShellTypes /\ QueueInv /\ FreshInv /\ 1 \in DOMAIN cmds /\ Head(cmds) = cmds[1]
      /\ cmds[1].do = "open" /\ s \in Streams /\ Thinned(cmds', cmds, {1})
  BY NextCommand DEF ShellInv
<1>2. PICK f \in [DOMAIN cmds' -> DOMAIN cmds \ {1}] :
        \A i \in DOMAIN cmds' : cmds'[i] = cmds[f[i]]
  BY <1>1 DEF Thinned
<1>3. \A i \in DOMAIN cmds' : f[i] \in DOMAIN cmds /\ f[i] # 1  BY <1>2
<1>4. Queued(s)  BY <1>1 DEF Queued
<1>5. op[s] # "new"  BY <1>1 DEF QueueInv
<1>6. ~Queued(s)'
  BY <1>1, <1>2, <1>3, <1>5 DEF Queued, QueueInv
<1>7. \A r \in Streams : Queued(r)' => Queued(r)
  BY <1>2, <1>3 DEF Queued
<1>8. /\ Unborn(s) /\ route.id # s /\ \A i \in DOMAIN down : down[i].id # s
  BY <1>1, <1>4 DEF FreshInv
<1>9. /\ fed[s] = <<>> /\ active.id # s /\ \A i \in DOMAIN up : up[i].id # s
  BY <1>1, <1>8 DEF FreshInv, Unborn
<1>10. QED  BY <1>1, <1>6, <1>7, <1>8, <1>9 DEF Unborn

(* open_shell answers with an eof at once. *)
LEMMA OpenRefusedStep ==
  ASSUME ShellInv, OpenRefused
  PROVE  ShellInv'
<1>1. /\ Next1("open")
      /\ UNCHANGED <<op, typed, csid, route, down, up, asid, active, used, pty, sent, fed>>
      /\ \/ UNCHANGED <<queue, seen>>
         \/ Put(Head(cmds).id, [from |-> Head(cmds).id, n |-> Eof])
  BY DEF OpenRefused, opVars, agentVars, outVars
<1>2. PICK s : s = cmds[1].id  OBVIOUS
<1>3. /\ ShellTypes /\ Head(cmds).id = s /\ s \in Streams
      /\ cmds' \in Seq(Commands) /\ Thinned(cmds', cmds, {1})
  BY <1>1, <1>2, NextCommand DEF ShellInv
<1>4. Thinned(down', down, {}) /\ Thinned(up', up, {})
  BY <1>1, <1>3, ThinSame DEF ShellTypes
<1>5. StreamInv'
  BY <1>1 DEF ShellInv, StreamInv, NoOrphanShell
<1>6. CASE UNCHANGED <<queue, seen>>
  <2>1. ShellTypes'  BY <1>1, <1>3, <1>6 DEF ShellTypes
  <2>2. QED  BY <1>1, <1>3, <1>4, <1>5, <1>6, <2>1, QuietStep
<1>7. CASE Put(s, [from |-> s, n |-> Eof])
  <2>1. [from |-> s, n |-> Eof] \in Items  BY <1>3, ShellRecords DEF Eof
  <2>2. /\ seen' \in [Streams -> Seq(Items)] /\ seen'[s] = Append(seen[s], [from |-> s, n |-> Eof])
        /\ \A r \in Streams : r # s => seen'[r] = seen[r]
    BY <1>3, <1>7, <2>1, PutTypes
  <2>3. ShellTypes'  BY <1>1, <1>3, <2>2 DEF ShellTypes
  <2>4. /\ ~Queued(s)' /\ pty[s] = "none" /\ seen[s] = <<>>
        /\ \A i \in DOMAIN down : down[i].id # s
        /\ \A i \in DOMAIN up : up[i].id # s
        /\ \A r \in Streams : Queued(r)' => Queued(r)
    BY <1>1, <1>2, <2>3, OpenHandled
  <2>5. DOMAIN seen'[s] = {1} /\ seen'[s][1] = [from |-> s, n |-> Eof]
    BY <2>1, <2>2, <2>4
  <2>6. QueueInv'
    BY <1>1, <1>3, <2>3, QueueQuiet DEF ShellInv
  <2>7. DownInv'
    BY <1>1, <1>3, <1>4, DownQuiet DEF ShellInv
  <2>8. FreshInv'
    <3>1. \A r \in Streams : r # s => (Unborn(r)' <=> Unborn(r))
      BY <1>1, <2>2 DEF Unborn
    <3>2. \A i \in DOMAIN down : down[i].id \in Streams  BY <1>3, ShellElements
    <3>3. \A i \in DOMAIN down : down[i].t = "open" => pty'[down[i].id] = "none" /\ seen'[down[i].id] = <<>>
      BY <1>1, <2>2, <2>4, <3>2 DEF ShellInv, FreshInv, Unborn
    <3>4. QED  BY <1>1, <2>4, <3>1, <3>3 DEF ShellInv, FreshInv, Unborn
  <2>9. UpInv'
    <3>1. \A a, b : Before(a, b)' = Before(a, b)  BY DEF Before, Eof
    <3>2. sent[s] \in Nat /\ UpInv  BY <1>3 DEF ShellTypes, ShellInv
    <3>3. \A m \in DOMAIN seen'[s] : seen'[s][m].n = Eof /\ Eof <= sent[s]
      BY <2>5, <3>2 DEF Eof
    <3>4. \A r \in Streams : \A m \in DOMAIN seen'[r] :
            /\ seen'[r][m].n <= sent'[r]
            /\ seen'[r][m].n = Eof => pty'[r] # "running"
            /\ \A i \in DOMAIN up' : up'[i].id = r => Before(seen'[r][m], up'[i])
      BY <1>1, <2>2, <2>4, <3>2, <3>3 DEF UpInv
    <3>5. Eof' = Eof  BY DEF Eof
    <3>6. QED  BY <1>1, <3>1, <3>2, <3>4, <3>5 DEF UpInv
  <2>10. NoCrossTalk'
    <3>1. Orderly(s, seen'[s])  BY <2>5 DEF Orderly
    <3>2. \A r \in Streams : Orderly(r, seen[r]) /\ Orderly(r, fed[r])
      BY DEF ShellInv, NoCrossTalk
    <3>3. \A r \in Streams : Orderly(r, seen'[r]) /\ Orderly(r, fed'[r])
      BY <1>1, <2>2, <3>1, <3>2
    <3>4. QED  BY <3>3 DEF NoCrossTalk, Orderly, Eof
  <2>11. QED  BY <1>5, <2>3, <2>6, <2>7, <2>8, <2>9, <2>10 DEF ShellInv
<1>8. QED  BY <1>1, <1>3, <1>6, <1>7

(* open_shell dispatches the open and the route is the new stream's. *)
LEMMA OpenShellStep ==
  ASSUME ShellInv, OpenShell
  PROVE  ShellInv'
<1>1. /\ Next1("open")
      /\ UNCHANGED <<op, typed, csid, up, asid, active, used, pty, sent, seen, fed>>
      /\ route' = End(csid, Head(cmds).id)
      /\ down' = IF asid = 0 THEN down ELSE Append(down, OpenMsg(Head(cmds).id))
  BY DEF OpenShell, opVars, agentVars, outVars
<1>2. PICK s : s = cmds[1].id  OBVIOUS
<1>3. /\ ShellTypes /\ Head(cmds).id = s /\ s \in Streams
      /\ cmds' \in Seq(Commands) /\ Thinned(cmds', cmds, {1})
  BY <1>1, <1>2, NextCommand DEF ShellInv
<1>4. route' \in Ends /\ route'.id = s
  BY <1>1, <1>3, ShellRecords DEF ShellTypes
<1>5. PICK x : x = OpenMsg(s)  OBVIOUS
<1>6. x \in Openings \union Frames /\ x.t = "open" /\ x.id = s
  BY <1>3, <1>5, ShellRecords DEF ShellTypes
<1>7. down \in Seq(Openings \union Frames)  BY <1>3 DEF ShellTypes
<1>8. /\ down' \in Seq(Openings \union Frames)
      /\ \A i \in DOMAIN down' : i \in Nat /\
           \/ i \in DOMAIN down /\ down'[i] = down[i]
           \/ i = Len(down) + 1 /\ down'[i] = x /\ asid # 0
  BY <1>1, <1>3, <1>5, <1>6, <1>7, GrowAppend
<1>9. ShellTypes'  BY <1>1, <1>3, <1>4, <1>8 DEF ShellTypes
<1>10. /\ ~Queued(s)' /\ pty[s] = "none" /\ seen[s] = <<>>
       /\ \A i \in DOMAIN down : down[i].id # s
       /\ \A r \in Streams : Queued(r)' => Queued(r)
  BY <1>1, <1>2, <1>9, OpenHandled
<1>11. QueueInv'
  BY <1>1, <1>3, <1>9, QueueQuiet DEF ShellInv
<1>12. FreshInv'
  <2>1. \A r : Unborn(r)' = Unborn(r)  BY <1>1 DEF Unborn
  <2>2. ASSUME NEW r \in Streams, Queued(r)'
        PROVE  Unborn(r)' /\ route'.id # r /\ \A i \in DOMAIN down' : down'[i].id # r
    <3>1. Queued(r) /\ r # s  BY <1>10, <2>2
    <3>2. Unborn(r) /\ \A i \in DOMAIN down : down[i].id # r
      BY <3>1 DEF ShellInv, FreshInv
    <3>3. QED  BY <1>4, <1>6, <1>8, <2>1, <3>1, <3>2
  <2>3. \A i \in DOMAIN down' : down'[i].t = "open" => Unborn(down'[i].id)
    BY <1>6, <1>8, <1>10 DEF ShellInv, FreshInv, Unborn
  <2>4. \A i, j \in DOMAIN down' :
          down'[i].t = "open" /\ down'[j].t = "open" /\ down'[i].id = down'[j].id => i = j
    BY <1>6, <1>8, <1>10 DEF ShellInv, FreshInv
  <2>5. \A r \in Streams : pty'[r] = "none" =>
          fed'[r] = <<>> /\ active'.id # r /\ \A i \in DOMAIN up' : up'[i].id # r
    BY <1>1 DEF ShellInv, FreshInv
  <2>6. \A i \in DOMAIN down' : down'[i].t = "open" =>
          pty'[down'[i].id] = "none" /\ seen'[down'[i].id] = <<>>
    BY <1>1, <2>3 DEF Unborn
  <2>7. QED  BY <2>2, <2>4, <2>5, <2>6 DEF FreshInv, Unborn
<1>13. UpInv'
  <2>1. Thinned(up', up, {})  BY <1>1, <1>3, ThinSame DEF ShellTypes
  <2>2. QED  BY <1>1, <1>3, <2>1, UpQuiet DEF ShellInv
<1>14. DownInv'
  <2>1. PICK g \in [DOMAIN cmds' -> DOMAIN cmds \ {1}] :
          \A k \in DOMAIN cmds' : cmds'[k] = cmds[g[k]]
    BY <1>3 DEF Thinned
  <2>2. \A k \in DOMAIN cmds' : g[k] \in DOMAIN cmds  BY <2>1
  <2>3. DownInv  BY DEF ShellInv
  <2>4. ASSUME NEW i \in DOMAIN down', down'[i].t = "frame"
        PROVE  i \in DOMAIN down /\ down'[i] = down[i] /\ down'[i].id # s
    BY <1>6, <1>8, <1>10, <2>4
  <2>5. \A i \in DOMAIN down' : down'[i].t = "frame" =>
          /\ down'[i].from = down'[i].id /\ down'[i].n <= typed'[down'[i].id]
          /\ down'[i].n = Eof => route'.id # down'[i].id
          /\ \A k \in DOMAIN cmds' : cmds'[k].do = "input" /\ cmds'[k].id = down'[i].id =>
               down'[i].n < cmds'[k].n
    BY <1>1, <1>4, <2>1, <2>2, <2>3, <2>4 DEF DownInv
  <2>6. \A i, j \in DOMAIN down' :
          down'[i].t = "frame" /\ down'[j].t = "frame" /\ down'[i].id = down'[j].id /\ i < j
            => Before(down'[i], down'[j])
    BY <2>3, <2>4 DEF DownInv
  <2>7. \A r \in Streams : \A m \in DOMAIN fed'[r] :
          /\ fed'[r][m].n # Eof /\ fed'[r][m].n <= typed'[r]
          /\ \A k \in DOMAIN cmds' : cmds'[k].do = "input" /\ cmds'[k].id = r =>
               fed'[r][m].n < cmds'[k].n
          /\ \A i \in DOMAIN down' : down'[i].t = "frame" /\ down'[i].id = r =>
               Before(fed'[r][m], down'[i])
    BY <1>1, <2>1, <2>2, <2>3, <2>4 DEF DownInv
  <2>8. \A a, b : Before(a, b)' = Before(a, b)  BY DEF Before, Eof
  <2>9. Eof' = Eof  BY DEF Eof
  <2>10. QED  BY <2>5, <2>6, <2>7, <2>8, <2>9 DEF DownInv
<1>15. StreamInv'
  BY <1>1, <1>8 DEF ShellInv, StreamInv, NoOrphanShell
<1>16. NoCrossTalk'
  BY <1>1 DEF ShellInv, NoCrossTalk, Orderly, Eof
<1>17. QED  BY <1>9, <1>11, <1>12, <1>13, <1>14, <1>15, <1>16 DEF ShellInv

(* A frame of the route is sent to the agent; it comes after all the others of
   its stream and before the keystrokes still queued. *)
LEMMA FrameSent ==
  ASSUME ShellTypes, DownInv, NEW x \in Frames, down' = Append(down, x),
         x.id = route.id, x.from = x.id, x.n <= typed[x.id],
         x.n = Eof => route'.id # x.id, route'.id \in {route.id, NoStream},
         NEW C, Thinned(cmds', cmds, C), UNCHANGED <<fed, typed>>,
         \A k \in DOMAIN cmds' : cmds'[k].do = "input" /\ cmds'[k].id = x.id => x.n < cmds'[k].n,
         \A i \in DOMAIN down : down[i].t = "frame" /\ down[i].id = x.id => Before(down[i], x),
         \A m \in DOMAIN fed[x.id] : Before(fed[x.id][m], x)
  PROVE  DownInv'
<1>1. PICK g \in [DOMAIN cmds' -> DOMAIN cmds \ C] :
        \A k \in DOMAIN cmds' : cmds'[k] = cmds[g[k]]
  BY DEF Thinned
<1>2. \A k \in DOMAIN cmds' : g[k] \in DOMAIN cmds  BY <1>1
<1>3. /\ x \in Openings \union Frames /\ down \in Seq(Openings \union Frames)
      /\ x.id \in Streams
  BY DEF ShellTypes, Frames
<1>4. /\ Len(down) \in Nat /\ DOMAIN down = 1..Len(down)
      /\ \A i \in DOMAIN down' :
           \/ i \in DOMAIN down /\ down'[i] = down[i] /\ i < Len(down) + 1
           \/ i = Len(down) + 1 /\ down'[i] = x
  BY <1>3, GrowAppend
<1>5. \A i \in DOMAIN down : down[i].id \in Streams  BY ShellElements
<1>6. \A i \in DOMAIN down' : down'[i].t = "frame" =>
        /\ down'[i].from = down'[i].id /\ down'[i].n <= typed'[down'[i].id]
        /\ down'[i].n = Eof => route'.id # down'[i].id
        /\ \A k \in DOMAIN cmds' : cmds'[k].do = "input" /\ cmds'[k].id = down'[i].id =>
             down'[i].n < cmds'[k].n
  <2>1. ASSUME NEW i \in DOMAIN down, down[i].t = "frame"
        PROVE  /\ down[i].from = down[i].id /\ down[i].n <= typed'[down[i].id]
               /\ down[i].n = Eof => route'.id # down[i].id
               /\ \A k \in DOMAIN cmds' : cmds'[k].do = "input" /\ cmds'[k].id = down[i].id =>
                    down[i].n < cmds'[k].n
    BY <1>1, <1>2, <1>5, <2>1, StreamsAssumption DEF DownInv
  <2>2. QED  BY <1>4, <2>1
<1>7. \A i, j \in DOMAIN down' :
        down'[i].t = "frame" /\ down'[j].t = "frame" /\ down'[i].id = down'[j].id /\ i < j
          => Before(down'[i], down'[j])
  BY <1>4 DEF DownInv
<1>8. \A r \in Streams : \A m \in DOMAIN fed'[r] :
        /\ fed'[r][m].n # Eof /\ fed'[r][m].n <= typed'[r]
        /\ \A k \in DOMAIN cmds' : cmds'[k].do = "input" /\ cmds'[k].id = r =>
             fed'[r][m].n < cmds'[k].n
        /\ \A i \in DOMAIN down' : down'[i].t = "frame" /\ down'[i].id = r =>
             Before(fed'[r][m], down'[i])
  BY <1>1, <1>2, <1>4 DEF DownInv
<1>9. \A a, b : Before(a, b)' = Before(a, b)  BY DEF Before, Eof
<1>10. Eof' = Eof  BY DEF Eof
<1>11. QED  BY <1>6, <1>7, <1>8, <1>9, <1>10 DEF DownInv

(* The stream of a frame that is sent is not one whose open is still queued. *)
LEMMA FrameFresh ==
  ASSUME ShellTypes, ShellTypes', FreshInv, NEW x \in Frames, down' = Append(down, x),
         x.t = "frame", x.id = route.id,
         NEW C, Thinned(cmds', cmds, C), NEW U, Thinned(up', up, U),
         \A s \in Streams : op'[s] = "new" <=> op[s] = "new", UNCHANGED <<pty, fed, active>>,
         \A s \in Streams : pty[s] = "none" /\ seen[s] = <<>> => seen'[s] = <<>>,
         route'.id \in {route.id, NoStream}
  PROVE  FreshInv'
<1>1. /\ x \in Openings \union Frames /\ down \in Seq(Openings \union Frames)
      /\ x.id \in Streams
  BY DEF ShellTypes, Frames
<1>2. \A i \in DOMAIN down' :
        \/ i \in DOMAIN down /\ down'[i] = down[i]
        \/ i = Len(down) + 1 /\ down'[i] = x
  BY <1>1, GrowAppend
<1>3. PICK g \in [DOMAIN cmds' -> DOMAIN cmds \ C] :
        \A k \in DOMAIN cmds' : cmds'[k] = cmds[g[k]]
  BY DEF Thinned
<1>4. PICK h \in [DOMAIN up' -> DOMAIN up \ U] :
        \A k \in DOMAIN up' : up'[k] = up[h[k]]
  BY DEF Thinned
<1>5. /\ \A k \in DOMAIN cmds' : g[k] \in DOMAIN cmds
      /\ \A k \in DOMAIN up' : h[k] \in DOMAIN up
      /\ \A i \in DOMAIN down : down[i].id \in Streams
  BY <1>3, <1>4, ShellElements
<1>6. \A s \in Streams : (Queued(s)' => Queued(s)) /\ (Unborn(s) => Unborn(s)')
  BY <1>3, <1>5 DEF Queued, Unborn
<1>7. ASSUME NEW s \in Streams, Queued(s)'
      PROVE  Unborn(s)' /\ route'.id # s /\ \A i \in DOMAIN down' : down'[i].id # s
  BY <1>2, <1>6, <1>7, StreamsAssumption DEF FreshInv
<1>8. \A i \in DOMAIN down' : down'[i].t = "open" =>
        Unborn(down'[i].id) /\ down'[i].id \in Streams
  BY <1>2, <1>5 DEF FreshInv
<1>9. \A i \in DOMAIN down' : down'[i].t = "open" =>
        pty'[down'[i].id] = "none" /\ seen'[down'[i].id] = <<>>
  BY <1>8 DEF Unborn
<1>10. \A i, j \in DOMAIN down' :
         down'[i].t = "open" /\ down'[j].t = "open" /\ down'[i].id = down'[j].id => i = j
  BY <1>2 DEF FreshInv
<1>11. \A s \in Streams : pty'[s] = "none" =>
         fed'[s] = <<>> /\ active'.id # s /\ \A i \in DOMAIN up' : up'[i].id # s
  BY <1>4, <1>5 DEF FreshInv
<1>12. QED  BY <1>7, <1>9, <1>10, <1>11 DEF FreshInv, Unborn

(* shell_input: a keystroke of the current shell is sent, any other dropped. *)
LEMMA ShellInputStep ==
  ASSUME ShellInv, ShellInput
  PROVE  ShellInv'
<1>1. /\ Next1("input")
      /\ UNCHANGED <<op, typed, csid, up, asid, active, used, pty, sent, seen, fed>>
      /\ \/ UNCHANGED <<route, down>>
         \/ /\ route.id = Head(cmds).id
            /\ route' = [route EXCEPT !.seq = @ + 1]
            /\ down' = IF asid = 0 THEN down ELSE
                         Append(down, Frame(route, Head(cmds).id, Head(cmds).n))
  BY DEF ShellInput, opVars, agentVars, outVars, Current
<1>2. /\ ShellTypes /\ QueueInv /\ FreshInv /\ UpInv /\ DownInv /\ StreamInv /\ NoCrossTalk
  BY DEF ShellInv
<1>3. /\ Head(cmds) = cmds[1] /\ 1 \in DOMAIN cmds /\ cmds[1].do = "input"
      /\ cmds[1].id \in Streams /\ cmds[1].n \in Nat
      /\ cmds' \in Seq(Commands) /\ Thinned(cmds', cmds, {1})
  BY <1>1, <1>2, NextCommand
<1>4. Thinned(up', up, {})  BY <1>1, <1>2, ThinSame DEF ShellTypes
<1>5. route \in Ends /\ down \in Seq(Openings \union Frames)  BY <1>2 DEF ShellTypes
<1>6. route' \in Ends /\ route'.id = route.id
  <2>1. CASE route' = [route EXCEPT !.seq = @ + 1]
    BY <1>5, <2>1 DEF Ends
  <2>2. QED  BY <1>1, <1>5, <2>1
<1>7. CASE down' = down
  <2>1. ShellTypes' /\ StreamInv'
    BY <1>1, <1>2, <1>3, <1>6, <1>7 DEF ShellTypes, StreamInv, NoOrphanShell
  <2>2. Thinned(down', down, {})  BY <1>5, <1>7, ThinSame
  <2>3. QED  BY <1>1, <1>3, <1>4, <1>6, <2>1, <2>2, QuietStep
<1>8. CASE asid # 0 /\ route.id = cmds[1].id /\ down' = Append(down, Frame(route, cmds[1].id, cmds[1].n))
  <2>1. PICK x : x = Frame(route, cmds[1].id, cmds[1].n)  OBVIOUS
  <2>2. /\ x \in Frames /\ x.t = "frame" /\ x.id = cmds[1].id /\ x.id = route.id
        /\ x.from = x.id /\ x.n = cmds[1].n
    BY <1>3, <1>5, <1>8, <2>1, ShellRecords
  <2>3. down' = Append(down, x) /\ down' \in Seq(Openings \union Frames)
    BY <1>5, <1>8, <2>1, <2>2, GrowAppend
  <2>4. ShellTypes' /\ StreamInv'
    BY <1>1, <1>2, <1>3, <1>6, <1>8, <2>3 DEF ShellTypes, StreamInv, NoOrphanShell
  <2>5. x.n # Eof /\ x.n <= typed[x.id]
    BY <1>2, <1>3, <2>2 DEF QueueInv
  <2>6. PICK g \in [DOMAIN cmds' -> DOMAIN cmds \ {1}] :
          \A k \in DOMAIN cmds' : cmds'[k] = cmds[g[k]]
    BY <1>3 DEF Thinned
  <2>7. \A k \in DOMAIN cmds' : g[k] \in DOMAIN cmds /\ 1 < g[k]
    BY <1>2, <2>6 DEF ShellTypes
  <2>8. \A k \in DOMAIN cmds' : cmds'[k].do = "input" /\ cmds'[k].id = x.id => x.n < cmds'[k].n
    <3> SUFFICES ASSUME NEW k \in DOMAIN cmds', cmds'[k].do = "input", cmds'[k].id = x.id
                 PROVE  x.n < cmds'[k].n
      OBVIOUS
    <3>1. /\ cmds'[k] = cmds[g[k]] /\ g[k] \in DOMAIN cmds /\ 1 < g[k]
          /\ cmds[g[k]].do = "input" /\ cmds[g[k]].id = cmds[1].id
      BY <2>2, <2>6, <2>7
    <3>2. cmds[1].n < cmds[g[k]].n  BY <1>2, <1>3, <3>1 DEF QueueInv
    <3>3. QED  BY <2>2, <3>1, <3>2
  <2>9. \A i \in DOMAIN down : down[i].t = "frame" /\ down[i].id = x.id => Before(down[i], x)
    BY <1>2, <1>3, <2>2 DEF DownInv, Before
  <2>10. \A m \in DOMAIN fed[x.id] : Before(fed[x.id][m], x)
    BY <1>2, <1>3, <2>2 DEF DownInv, Before
  <2>11. DownInv'
    BY <1>1, <1>2, <1>3, <1>6, <2>2, <2>3, <2>5, <2>8, <2>9, <2>10, FrameSent
  <2>12. FreshInv'
    BY <1>1, <1>2, <1>3, <1>4, <1>6, <2>2, <2>3, <2>4, FrameFresh
  <2>13. QueueInv'  BY <1>1, <1>2, <1>3, <2>4, QueueQuiet
  <2>14. UpInv'  BY <1>1, <1>2, <1>4, UpQuiet
  <2>15. NoCrossTalk'  BY <1>1, <1>2 DEF NoCrossTalk, Orderly, Eof
  <2>16. QED  BY <2>4, <2>11, <2>12, <2>13, <2>14, <2>15 DEF ShellInv
<1>9. QED  BY <1>1, <1>3, <1>7, <1>8

(* The route ends and the agent is told, while queues may lose messages. *)
LEMMA RouteClosed ==
  ASSUME ShellInv, ShellTypes', CloseRoute, route.id \in Streams,
         NEW C, Thinned(cmds', cmds, C), NEW U, Thinned(up', up, U),
         UNCHANGED <<op, typed, asid, active, pty, fed>>,
         \A s \in Streams : pty[s] = "none" /\ seen[s] = <<>> => seen'[s] = <<>>
  PROVE  DownInv' /\ FreshInv' /\ StreamInv'
<1>1. /\ ShellTypes /\ QueueInv /\ FreshInv /\ DownInv /\ StreamInv
  BY DEF ShellInv
<1>2. PICK x : x = Frame(route, route.id, Eof)  OBVIOUS
<1>3. /\ route'.id = NoStream
      /\ \/ asid = 0 /\ down' = down
         \/ asid # 0 /\ down' = Append(down, x)
  BY <1>1, <1>2, RouteCloses
<1>4. /\ x \in Frames /\ x.t = "frame" /\ x.id = route.id /\ x.from = x.id /\ x.n = Eof
  <2>1. route \in Ends /\ Eof \in Nat  BY <1>1 DEF ShellTypes, Eof
  <2>2. QED  BY <1>2, <2>1, ShellRecords
<1>5. StreamInv'  BY <1>1, <1>3 DEF StreamInv, NoOrphanShell
<1>6. CASE down' = down
  <2>1. Thinned(down', down, {})  BY <1>1, <1>6, ThinSame DEF ShellTypes
  <2>2. DownInv'  BY <1>1, <1>3, <2>1, DownQuiet
  <2>3. FreshInv'  BY <1>1, <1>3, <2>1, FreshQuiet
  <2>4. QED  BY <1>5, <2>2, <2>3
<1>7. CASE down' = Append(down, x)
  <2>1. FreshInv'  BY <1>1, <1>3, <1>4, <1>7, FrameFresh
  <2>2. typed[x.id] \in Nat /\ x.n <= typed[x.id]
    BY <1>1, <1>4 DEF ShellTypes, Eof
  <2>3. PICK g \in [DOMAIN cmds' -> DOMAIN cmds \ C] :
          \A k \in DOMAIN cmds' : cmds'[k] = cmds[g[k]]
    BY DEF Thinned
  <2>4. \A k \in DOMAIN cmds' : g[k] \in DOMAIN cmds /\ cmds[g[k]].n \in Nat
    BY <1>1, <2>3, ShellElements
  <2>5. \A k \in DOMAIN cmds' : cmds'[k].do = "input" /\ cmds'[k].id = x.id => x.n < cmds'[k].n
    BY <1>1, <1>4, <2>3, <2>4 DEF QueueInv, Eof
  <2>6. \A i \in DOMAIN down : down[i].t = "frame" /\ down[i].id = x.id => Before(down[i], x)
    BY <1>1, <1>4 DEF DownInv, Before
  <2>7. \A m \in DOMAIN fed[x.id] : Before(fed[x.id][m], x)
    BY <1>1, <1>4 DEF DownInv, Before
  <2>8. route'.id # x.id  BY <1>3, <1>4, StreamsAssumption
  <2>9. DownInv'
    BY <1>1, <1>3, <1>4, <1>7, <2>2, <2>5, <2>6, <2>7, <2>8, FrameSent
  <2>10. QED  BY <1>5, <2>1, <2>9
<1>8. QED  BY <1>3, <1>6, <1>7

(* shell_close: the current shell's route ends; a close of any other is dropped. *)
LEMMA ShellCloseStep ==
  ASSUME ShellInv, ShellClose
  PROVE  ShellInv'
<1>1. /\ Next1("close")
      /\ UNCHANGED <<op, typed, csid, up, asid, active, used, pty, sent, seen, fed>>
      /\ \/ route.id = Head(cmds).id /\ CloseRoute
         \/ UNCHANGED <<down, route>>
  BY DEF ShellClose, opVars, agentVars, outVars, Current, KeepRoute
<1>2. /\ ShellTypes /\ QueueInv /\ UpInv /\ NoCrossTalk /\ StreamInv
  BY DEF ShellInv
<1>3. /\ Head(cmds) = cmds[1] /\ cmds[1].id \in Streams
      /\ cmds' \in Seq(Commands) /\ Thinned(cmds', cmds, {1})
  BY <1>1, <1>2, NextCommand
<1>4. Thinned(up', up, {})  BY <1>1, <1>2, ThinSame DEF ShellTypes
<1>5. CASE UNCHANGED <<down, route>>
  <2>1. ShellTypes' /\ StreamInv'
    BY <1>1, <1>2, <1>3, <1>5 DEF ShellTypes, StreamInv, NoOrphanShell
  <2>2. Thinned(down', down, {})  BY <1>2, <1>5, ThinSame DEF ShellTypes
  <2>3. QED  BY <1>1, <1>3, <1>4, <1>5, <2>1, <2>2, QuietStep
<1>6. CASE route.id = Head(cmds).id /\ CloseRoute
  <2>1. route.id \in Streams  BY <1>3, <1>6
  <2>2. route' \in Ends /\ down' \in Seq(Openings \union Frames)
    BY <1>2, <1>6, <2>1, RouteCloses
  <2>3. ShellTypes'  BY <1>1, <1>2, <1>3, <2>2 DEF ShellTypes
  <2>4. DownInv' /\ FreshInv' /\ StreamInv'
    BY <1>1, <1>3, <1>4, <1>6, <2>1, <2>3, RouteClosed
  <2>5. QueueInv'  BY <1>1, <1>2, <1>3, <2>3, QueueQuiet
  <2>6. UpInv'  BY <1>1, <1>2, <1>4, UpQuiet
  <2>7. NoCrossTalk'  BY <1>1, <1>2 DEF NoCrossTalk, Orderly, Eof
  <2>8. QED  BY <2>3, <2>4, <2>5, <2>6, <2>7 DEF ShellInv
<1>7. QED  BY <1>1, <1>5, <1>6

(* handle_stream_up, operator gone: the frame is dropped and the route ends. *)
LEMMA StreamUpClosedStep ==
  ASSUME ShellInv, StreamUpClosed
  PROVE  ShellInv'
<1>1. /\ UNCHANGED <<op, typed, cmds, csid, asid, active, used, pty, sent, seen, fed>>
      /\ up # <<>> /\ up' = Tail(up) /\ CloseRoute /\ route.id = Head(up).id
  BY DEF StreamUpClosed, opVars, agentVars, outVars, OpensUp, Opens
<1>2. /\ ShellTypes /\ QueueInv /\ UpInv /\ NoCrossTalk
  BY DEF ShellInv
<1>3. /\ Head(up) = up[1] /\ up[1].id \in Streams
      /\ up' \in Seq(Frames) /\ Thinned(up', up, {1})
  BY <1>1, <1>2, NextFrame
<1>4. Thinned(cmds', cmds, {})  BY <1>1, <1>2, ThinSame DEF ShellTypes
<1>5. route.id \in Streams  BY <1>1, <1>3
<1>6. route' \in Ends /\ down' \in Seq(Openings \union Frames)
  BY <1>1, <1>2, <1>5, RouteCloses
<1>7. ShellTypes'  BY <1>1, <1>2, <1>3, <1>6 DEF ShellTypes
<1>8. DownInv' /\ FreshInv' /\ StreamInv'
  BY <1>1, <1>3, <1>4, <1>5, <1>7, RouteClosed
<1>9. QueueInv'  BY <1>1, <1>2, <1>4, <1>7, QueueQuiet
<1>10. UpInv'  BY <1>1, <1>2, <1>3, UpQuiet
<1>11. NoCrossTalk'  BY <1>1, <1>2 DEF NoCrossTalk, Orderly, Eof
<1>12. QED  BY <1>7, <1>8, <1>9, <1>10, <1>11 DEF ShellInv

(* Something later in order keeps a record of what arrived in order. *)
LEMMA OrderlyGrows ==
  ASSUME NEW s, NEW h \in Seq(Items), NEW x \in Items, Orderly(s, h), x.from = s,
         \A m \in DOMAIN h : Before(h[m], x)
  PROVE  Orderly(s, Append(h, x))
<1>1. /\ Len(h) \in Nat /\ DOMAIN h = 1..Len(h)
      /\ \A i \in DOMAIN Append(h, x) :
           \/ i \in DOMAIN h /\ Append(h, x)[i] = h[i] /\ i < Len(h) + 1
           \/ i = Len(h) + 1 /\ Append(h, x)[i] = x
  BY GrowAppend
<1>2. QED  BY <1>1 DEF Orderly, Before

(* handle_stream_up: the operator is given the frame; an eof ends the route. *)
LEMMA StreamUpStep ==
  ASSUME ShellInv, StreamUp
  PROVE  ShellInv'
<1>1. /\ UNCHANGED <<op, typed, cmds, csid, asid, active, used, pty, sent, fed>>
      /\ up # <<>> /\ up' = Tail(up) /\ route.id = Head(up).id
      /\ Put(route.id, [from |-> Head(up).from, n |-> Head(up).n])
      /\ \/ CloseRoute
         \/ route' = [route EXCEPT !.high = Head(up).seq] /\ UNCHANGED down
  BY DEF StreamUp, opVars, agentVars, OpensUp, Opens
<1>2. /\ ShellTypes /\ QueueInv /\ FreshInv /\ UpInv /\ DownInv /\ StreamInv /\ NoCrossTalk
  BY DEF ShellInv
<1>3. /\ Head(up) = up[1] /\ 1 \in DOMAIN up /\ up[1] \in Frames /\ up[1].id \in Streams
      /\ up[1].from \in Streams /\ up[1].n \in Nat /\ up[1].seq \in Nat
      /\ up' \in Seq(Frames) /\ Thinned(up', up, {1})
  BY <1>1, <1>2, NextFrame
<1>4. PICK s, x : s = up[1].id /\ x = [from |-> up[1].from, n |-> up[1].n]  OBVIOUS
<1>5. /\ s \in Streams /\ s = route.id /\ x \in Items /\ x.from = s /\ x.n = up[1].n
  BY <1>1, <1>2, <1>3, <1>4 DEF Items, UpInv
<1>6. /\ seen' \in [Streams -> Seq(Items)] /\ seen'[s] = Append(seen[s], x)
      /\ \A r \in Streams : r # s => seen'[r] = seen[r]
  BY <1>1, <1>2, <1>3, <1>4, <1>5, PutTypes
<1>7. pty[s] # "none"  BY <1>2, <1>3, <1>4, <1>5 DEF FreshInv
<1>8. \A r \in Streams : pty[r] = "none" => seen'[r] = seen[r]  BY <1>6, <1>7
<1>9. Thinned(cmds', cmds, {})  BY <1>1, <1>2, ThinSame DEF ShellTypes
<1>10. ShellTypes' /\ DownInv' /\ FreshInv' /\ StreamInv'
  <2>1. CASE CloseRoute
    <3>1. route' \in Ends /\ down' \in Seq(Openings \union Frames)
      BY <1>2, <1>5, <2>1, RouteCloses
    <3>2. ShellTypes'  BY <1>1, <1>2, <1>3, <1>6, <3>1 DEF ShellTypes
    <3>3. QED  BY <1>1, <1>3, <1>5, <1>8, <1>9, <2>1, <3>2, RouteClosed
  <2>2. CASE route' = [route EXCEPT !.high = Head(up).seq] /\ UNCHANGED down
    <3>1. route \in Ends  BY <1>2 DEF ShellTypes
    <3>2. route' \in Ends /\ route'.id = route.id  BY <1>3, <2>2, <3>1 DEF Ends
    <3>3. ShellTypes'  BY <1>1, <1>2, <1>3, <1>6, <2>2, <3>2 DEF ShellTypes
    <3>4. Thinned(down', down, {})  BY <1>2, <2>2, ThinSame DEF ShellTypes
    <3>5. DownInv'  BY <1>1, <1>2, <1>9, <3>2, <3>4, DownQuiet
    <3>6. FreshInv'  BY <1>1, <1>2, <1>3, <1>8, <1>9, <3>2, <3>3, <3>4, FreshQuiet
    <3>7. StreamInv'  BY <1>1, <1>2, <2>2 DEF StreamInv, NoOrphanShell
    <3>8. QED  BY <3>3, <3>5, <3>6, <3>7
  <2>3. QED  BY <1>1, <2>1, <2>2
<1>11. QueueInv'  BY <1>1, <1>2, <1>9, <1>10, QueueQuiet
<1>12. UpInv'
  <2>1. PICK f \in [DOMAIN up' -> DOMAIN up \ {1}] :
          /\ \A i \in DOMAIN up' : up'[i] = up[f[i]]
          /\ \A i, j \in DOMAIN up' : i < j => f[i] < f[j]
    BY <1>3 DEF Thinned
  <2>2. /\ \A i \in DOMAIN up' : f[i] \in DOMAIN up /\ 1 < f[i]
        /\ \A i \in DOMAIN up : up[i].id \in Streams
    BY <1>2, <2>1, ShellElements DEF ShellTypes
  <2>3. \A m \in DOMAIN seen'[s] : \/ m \in DOMAIN seen[s] /\ seen'[s][m] = seen[s][m]
                                   \/ seen'[s][m] = x
    BY <1>2, <1>5, <1>6, GrowAppend DEF ShellTypes
  <2>4. \A i \in DOMAIN up' : up'[i].from = up'[i].id /\ up'[i].n <= sent'[up'[i].id]
          /\ (up'[i].n = Eof => pty'[up'[i].id] # "running")
    BY <1>1, <1>2, <2>1, <2>2 DEF UpInv
  <2>5. \A i, j \in DOMAIN up' : up'[i].id = up'[j].id /\ i < j => Before(up'[i], up'[j])
    BY <1>2, <2>1, <2>2 DEF UpInv
  <2>6. ASSUME NEW r \in Streams, NEW m \in DOMAIN seen[r]
        PROVE  /\ seen[r][m].n <= sent[r]
               /\ seen[r][m].n = Eof => pty[r] # "running"
               /\ \A i \in DOMAIN up' : up'[i].id = r => Before(seen[r][m], up'[i])
    BY <1>2, <2>1, <2>2 DEF UpInv
  <2>7. /\ x.n <= sent[s] /\ (x.n = Eof => pty[s] # "running")
        /\ \A i \in DOMAIN up' : up'[i].id = s => Before(x, up'[i])
    <3>1. \A i \in DOMAIN up' : up'[i].id = s => Before(up[1], up'[i])
      BY <1>2, <1>3, <1>4, <2>1, <2>2 DEF UpInv
    <3>2. QED  BY <1>2, <1>3, <1>4, <1>5, <3>1 DEF UpInv, Before
  <2>8. \A r \in Streams : \A m \in DOMAIN seen'[r] :
          /\ seen'[r][m].n <= sent'[r]
          /\ seen'[r][m].n = Eof => pty'[r] # "running"
          /\ \A i \in DOMAIN up' : up'[i].id = r => Before(seen'[r][m], up'[i])
    <3> SUFFICES ASSUME NEW r \in Streams, NEW m \in DOMAIN seen'[r]
                 PROVE  /\ seen'[r][m].n <= sent[r]
                        /\ seen'[r][m].n = Eof => pty[r] # "running"
                        /\ \A i \in DOMAIN up' : up'[i].id = r => Before(seen'[r][m], up'[i])
      BY <1>1
    <3>1. CASE r = s /\ seen'[r][m] = x
      BY <2>7, <3>1
    <3>2. CASE m \in DOMAIN seen[r] /\ seen'[r][m] = seen[r][m]
      BY <2>6, <3>2
    <3>3. QED  BY <1>6, <2>3, <3>1, <3>2
  <2>9. \A a, b : Before(a, b)' = Before(a, b)  BY DEF Before, Eof
  <2>10. Eof' = Eof  BY DEF Eof
  <2>11. QED  BY <2>4, <2>5, <2>8, <2>9, <2>10 DEF UpInv
<1>13. NoCrossTalk'
  <2>1. \A r \in Streams : Orderly(r, seen[r]) /\ Orderly(r, fed[r])
    BY <1>2 DEF NoCrossTalk
  <2>2. \A m \in DOMAIN seen[s] : Before(seen[s][m], x)
    BY <1>2, <1>3, <1>4, <1>5 DEF UpInv, Before
  <2>3. seen[s] \in Seq(Items)  BY <1>2, <1>5 DEF ShellTypes
  <2>4. Orderly(s, seen'[s])
    BY <1>5, <1>6, <2>1, <2>2, <2>3, OrderlyGrows
  <2>5. \A r \in Streams : Orderly(r, seen'[r]) /\ Orderly(r, fed'[r])
    BY <1>1, <1>6, <2>1, <2>4
  <2>6. QED  BY <2>5 DEF NoCrossTalk, Orderly, Eof
<1>14. QED  BY <1>10, <1>11, <1>12, <1>13 DEF ShellInv
-----------------------------------------------------------------------------
(* The agent's steps *)

(* handle_shell_open: a new shell runs, and the one before it is killed. *)
LEMMA AgentOpensStep ==
  ASSUME ShellInv, NEW i \in DOMAIN down, AgentOpens(i)
  PROVE  ShellInv'
<1>1. PICK s : s = down[i].id  OBVIOUS
<1>2. /\ UNCHANGED <<op, typed, cmds, csid, route, seen, up, asid, sent, fed>>
      /\ down[i].t = "open" /\ Take(i)
      /\ pty' = [Killed(Dropped(active)) EXCEPT ![s] = "running"]
      /\ active' = End(asid, s)
  BY <1>1 DEF AgentOpens, OpenAllowed, opVars, coordVars, outVars
<1>3. /\ ShellTypes /\ QueueInv /\ FreshInv /\ UpInv /\ DownInv /\ StreamInv /\ NoCrossTalk
  BY DEF ShellInv
<1>4. /\ s \in Streams /\ down' \in Seq(Openings \union Frames) /\ Thinned(down', down, {i})
  BY <1>1, <1>2, <1>3, NextMessage
<1>5. asid \in Nat /\ asid # 0
  <2>1. down # <<>>  OBVIOUS
  <2>2. QED  BY <1>3, <2>1 DEF StreamInv, ShellTypes
<1>6. active' \in Ends /\ active'.id = s /\ active'.sid = asid
  <2>1. active' \in Ends /\ active'.id = s  BY <1>2, <1>4, <1>5, ShellRecords
  <2>2. QED  BY <1>2, <2>1 DEF End
<1>7. /\ pty' \in [Streams -> {"none", "running", "exited", "killed"}]
      /\ pty'[s] = "running"
      /\ \A r \in Streams : r # s =>
           /\ pty'[r] = "none" <=> pty[r] = "none"
           /\ pty'[r] = "running" <=> pty[r] = "running" /\ r \notin Dropped(active)
  BY <1>2, <1>3, <1>4, KilledTypes
<1>8. \A r \in Streams : pty'[r] = "running" => r = s
  <2>1. ASSUME NEW r \in Streams, pty[r] = "running" PROVE r \in Dropped(active)
    <3>1. active.id = r  BY <1>3, <2>1 DEF StreamInv, NoOrphanShell
    <3>2. NoEnd.id = NoStream  BY ShellRecords
    <3>3. active # NoEnd  BY <3>1, <3>2, StreamsAssumption
    <3>4. QED  BY <3>1, <3>3 DEF Dropped
  <2>2. QED  BY <1>7, <2>1
<1>9. ShellTypes' /\ StreamInv'
  BY <1>2, <1>3, <1>4, <1>5, <1>6, <1>7, <1>8 DEF ShellTypes, StreamInv, NoOrphanShell
<1>10. Thinned(cmds', cmds, {}) /\ Thinned(up', up, {})
  BY <1>2, <1>3, ThinSame DEF ShellTypes
<1>11. QueueInv'  BY <1>2, <1>3, <1>9, <1>10, QueueQuiet
<1>12. DownInv'  BY <1>2, <1>3, <1>4, <1>10, DownQuiet
<1>13. NoCrossTalk'  BY <1>2, <1>3 DEF NoCrossTalk, Orderly, Eof
<1>14. /\ pty[s] = "none" /\ seen[s] = <<>> /\ ~Queued(s)
       /\ \A j \in DOMAIN up : up[j].id # s
  BY <1>1, <1>2, <1>3, <1>4 DEF FreshInv, Unborn
<1>15. FreshInv'
  <2>1. PICK f \in [DOMAIN down' -> DOMAIN down \ {i}] :
          /\ \A k \in DOMAIN down' : down'[k] = down[f[k]]
          /\ \A k, j \in DOMAIN down' : k < j => f[k] < f[j]
    BY <1>4 DEF Thinned
  <2>2. \A k \in DOMAIN down' : f[k] \in DOMAIN down /\ f[k] # i /\ down'[k].id \in Streams
    BY <1>3, <2>1, ShellElements
  <2>3. \A r \in Streams : r # s => Queued(r)' = Queued(r) /\ Unborn(r)' = Unborn(r)
    BY <1>2, <1>7 DEF Queued, Unborn
  <2>4. Queued(s)' = Queued(s)  BY <1>2 DEF Queued
  <2>5. ASSUME NEW r \in Streams, Queued(r)'
        PROVE  Unborn(r)' /\ route'.id # r /\ \A k \in DOMAIN down' : down'[k].id # r
    <3>1. r # s /\ Queued(r)  BY <1>14, <2>3, <2>4, <2>5
    <3>2. QED  BY <1>2, <1>3, <2>1, <2>2, <2>3, <3>1 DEF FreshInv
  <2>6. \A k \in DOMAIN down' : down'[k].t = "open" =>
          pty'[down'[k].id] = "none" /\ seen'[down'[k].id] = <<>>
    <3> SUFFICES ASSUME NEW k \in DOMAIN down', down'[k].t = "open"
                 PROVE  pty'[down'[k].id] = "none" /\ seen'[down'[k].id] = <<>>
      OBVIOUS
    <3>1. down'[k] = down[f[k]] /\ f[k] \in DOMAIN down /\ f[k] # i  BY <2>1, <2>2
    <3>2. Unborn(down[f[k]].id) /\ down[f[k]].id # s
      BY <1>1, <1>2, <1>3, <3>1 DEF FreshInv
    <3>3. QED  BY <1>2, <1>7, <2>2, <3>1, <3>2 DEF Unborn
  <2>7. ASSUME NEW k \in DOMAIN down', NEW j \in DOMAIN down', down'[k].t = "open",
               down'[j].t = "open", down'[k].id = down'[j].id
        PROVE  k = j
    <3>1. f[k] = f[j]  BY <1>3, <2>1, <2>2, <2>7 DEF FreshInv
    <3>2. DOMAIN down \subseteq Nat /\ DOMAIN down' \subseteq Nat
      BY <1>3, <1>4 DEF ShellTypes
    <3>3. ~(k < j) /\ ~(j < k)  BY <2>1, <2>2, <2>7, <3>1, <3>2
    <3>4. QED  BY <3>2, <3>3
  <2>8. \A r \in Streams : pty'[r] = "none" =>
          fed'[r] = <<>> /\ active'.id # r /\ \A k \in DOMAIN up' : up'[k].id # r
    BY <1>2, <1>3, <1>6, <1>7 DEF FreshInv
  <2>9. QED  BY <2>5, <2>6, <2>7, <2>8 DEF FreshInv, Unborn
<1>16. UpInv'
  <2>1. \A j \in DOMAIN up : up[j].id \in Streams /\ up[j].id # s
    BY <1>3, <1>14, ShellElements
  <2>2. \A r \in Streams : r # s /\ pty'[r] = "running" => pty[r] = "running"
    BY <1>7
  <2>3. \A a, b : Before(a, b)' = Before(a, b)  BY DEF Before, Eof
  <2>4. Eof' = Eof  BY DEF Eof
  <2>5. \A j \in DOMAIN up' : up'[j].from = up'[j].id /\ up'[j].n <= sent'[up'[j].id]
          /\ (up'[j].n = Eof => pty'[up'[j].id] # "running")
    BY <1>2, <1>3, <2>1, <2>2 DEF UpInv
  <2>6. ASSUME NEW r \in Streams, NEW m \in DOMAIN seen[r]
        PROVE  /\ seen[r][m].n <= sent[r]
               /\ seen[r][m].n = Eof => pty'[r] # "running"
               /\ \A j \in DOMAIN up : up[j].id = r => Before(seen[r][m], up[j])
    <3>1. r # s  BY <1>14, <2>6
    <3>2. QED  BY <1>3, <2>2, <2>6, <3>1 DEF UpInv
  <2>7. QED  BY <1>2, <1>3, <2>3, <2>4, <2>5, <2>6 DEF UpInv
<1>17. QED  BY <1>9, <1>11, <1>12, <1>13, <1>15, <1>16 DEF ShellInv

(* route_downlink: a burst for the PTY, or one its full queue drops. *)
LEMMA AgentFeedsStep ==
  ASSUME ShellInv, NEW i \in DOMAIN down, Ready(i), AgentFeeds(i)
  PROVE  ShellInv'
<1>1. PICK s, x : s = down[i].id /\ x = [from |-> down[i].from, n |-> down[i].n]  OBVIOUS
<1>2. /\ UNCHANGED <<op, typed, cmds, csid, route, seen, up, asid, pty, sent>>
      /\ down[i].t = "frame" /\ down[i].n # Eof /\ Take(i) /\ active.id = s
      /\ active' = [active EXCEPT !.high = down[i].seq]
      /\ fed' = [fed EXCEPT ![s] = Append(@, x)] \/ fed' = fed
  BY <1>1 DEF AgentFeeds, Opens, opVars, coordVars, outVars
<1>3. /\ ShellTypes /\ QueueInv /\ FreshInv /\ UpInv /\ DownInv /\ StreamInv /\ NoCrossTalk
  BY DEF ShellInv
<1>4. /\ s \in Streams /\ down[i] \in Frames
      /\ down' \in Seq(Openings \union Frames) /\ Thinned(down', down, {i})
  BY <1>1, <1>2, <1>3, NextMessage
<1>5. asid # 0
  <2>1. down # <<>>  OBVIOUS
  <2>2. QED  BY <1>3, <2>1 DEF StreamInv
<1>6. x \in Items /\ x.from = s /\ x.n = down[i].n
  BY <1>1, <1>2, <1>3, <1>4 DEF Items, Frames, DownInv
<1>7. active' \in Ends /\ active'.id = s /\ active'.sid = active.sid
  <2>1. active \in Ends /\ down[i].seq \in Nat  BY <1>3, <1>4 DEF ShellTypes, Frames
  <2>2. QED  BY <1>2, <2>1 DEF Ends
<1>8. /\ fed' \in [Streams -> Seq(Items)]
      /\ fed'[s] = Append(fed[s], x) \/ fed'[s] = fed[s]
      /\ \A r \in Streams : r # s => fed'[r] = fed[r]
  <2>1. fed \in [Streams -> Seq(Items)]  BY <1>3 DEF ShellTypes
  <2>2. Append(fed[s], x) \in Seq(Items)  BY <1>4, <1>6, <2>1, GrowAppend
  <2>3. CASE fed' = [fed EXCEPT ![s] = Append(@, x)]  BY <1>4, <2>1, <2>2, <2>3
  <2>4. QED  BY <1>2, <2>1, <2>3
<1>9. ShellTypes' /\ StreamInv'
  BY <1>2, <1>3, <1>4, <1>5, <1>7, <1>8 DEF ShellTypes, StreamInv, NoOrphanShell
<1>10. Thinned(cmds', cmds, {}) /\ Thinned(up', up, {})
  BY <1>2, <1>3, ThinSame DEF ShellTypes
<1>11. QueueInv'  BY <1>2, <1>3, <1>9, <1>10, QueueQuiet
<1>12. UpInv'  BY <1>2, <1>3, <1>10, UpQuiet
<1>13. pty[s] # "none"  BY <1>2, <1>3, <1>4 DEF FreshInv
<1>14. FreshInv'
  <2>1. \A r \in Streams : pty[r] = "none" =>
          fed'[r] = fed[r] /\ (seen[r] = <<>> => seen'[r] = <<>>)
    BY <1>2, <1>8, <1>13
  <2>2. QED  BY <1>2, <1>3, <1>4, <1>7, <1>9, <1>10, <2>1, FreshQuiet
<1>15. DownInv'
  <2>1. PICK f \in [DOMAIN down' -> DOMAIN down \ {i}] :
          /\ \A k \in DOMAIN down' : down'[k] = down[f[k]]
          /\ \A k, j \in DOMAIN down' : k < j => f[k] < f[j]
    BY <1>4 DEF Thinned
  <2>2. \A k \in DOMAIN down' : f[k] \in DOMAIN down /\ f[k] # i  BY <2>1
  <2>3. \A k \in DOMAIN down' : down'[k].t = "frame" => i < f[k]
    <3>1. DOMAIN down = 1..Len(down) /\ Len(down) \in Nat  BY <1>3 DEF ShellTypes
    <3>2. QED  BY <1>2, <2>1, <2>2, <3>1 DEF Ready
  <2>4. \A k \in DOMAIN down' : down'[k].t = "frame" =>
          /\ down'[k].from = down'[k].id /\ down'[k].n <= typed'[down'[k].id]
          /\ down'[k].n = Eof => route'.id # down'[k].id
          /\ \A c \in DOMAIN cmds' : cmds'[c].do = "input" /\ cmds'[c].id = down'[k].id =>
               down'[k].n < cmds'[c].n
    BY <1>2, <1>3, <2>1, <2>2 DEF DownInv
  <2>5. \A k, j \in DOMAIN down' :
          down'[k].t = "frame" /\ down'[j].t = "frame" /\ down'[k].id = down'[j].id /\ k < j
            => Before(down'[k], down'[j])
    BY <1>3, <2>1, <2>2 DEF DownInv
  <2>6. ASSUME NEW r \in Streams, NEW m \in DOMAIN fed[r]
        PROVE  /\ fed[r][m].n # Eof /\ fed[r][m].n <= typed[r]
               /\ \A c \in DOMAIN cmds : cmds[c].do = "input" /\ cmds[c].id = r =>
                    fed[r][m].n < cmds[c].n
               /\ \A k \in DOMAIN down' : down'[k].t = "frame" /\ down'[k].id = r =>
                    Before(fed[r][m], down'[k])
    BY <1>3, <2>1, <2>2 DEF DownInv
  <2>7. /\ x.n # Eof /\ x.n <= typed[s]
        /\ \A c \in DOMAIN cmds : cmds[c].do = "input" /\ cmds[c].id = s => x.n < cmds[c].n
        /\ \A k \in DOMAIN down' : down'[k].t = "frame" /\ down'[k].id = s =>
             Before(x, down'[k])
    <3>1. x.n # Eof  BY <1>2, <1>6
    <3>2. /\ x.n <= typed[s]
          /\ \A c \in DOMAIN cmds : cmds[c].do = "input" /\ cmds[c].id = s => x.n < cmds[c].n
      BY <1>1, <1>2, <1>3, <1>6 DEF DownInv
    <3>3. ASSUME NEW k \in DOMAIN down', down'[k].t = "frame", down'[k].id = s
          PROVE  Before(x, down'[k])
      <4>1. /\ down'[k] = down[f[k]] /\ f[k] \in DOMAIN down /\ i < f[k]
        BY <2>1, <2>2, <2>3, <3>3
      <4>2. Before(down[i], down[f[k]])  BY <1>1, <1>2, <1>3, <3>3, <4>1 DEF DownInv
      <4>3. QED  BY <1>6, <4>1, <4>2 DEF Before
    <3>4. QED  BY <3>1, <3>2, <3>3
  <2>8. \A r \in Streams : \A m \in DOMAIN fed'[r] :
          /\ fed'[r][m].n # Eof /\ fed'[r][m].n <= typed'[r]
          /\ \A c \in DOMAIN cmds' : cmds'[c].do = "input" /\ cmds'[c].id = r =>
               fed'[r][m].n < cmds'[c].n
          /\ \A k \in DOMAIN down' : down'[k].t = "frame" /\ down'[k].id = r =>
               Before(fed'[r][m], down'[k])
    <3> SUFFICES ASSUME NEW r \in Streams, NEW m \in DOMAIN fed'[r]
                 PROVE  /\ fed'[r][m].n # Eof /\ fed'[r][m].n <= typed[r]
                        /\ \A c \in DOMAIN cmds : cmds[c].do = "input" /\ cmds[c].id = r =>
                             fed'[r][m].n < cmds[c].n
                        /\ \A k \in DOMAIN down' : down'[k].t = "frame" /\ down'[k].id = r =>
                             Before(fed'[r][m], down'[k])
      BY <1>2
    <3>1. CASE r = s /\ fed'[r][m] = x
      BY <2>7, <3>1
    <3>2. CASE m \in DOMAIN fed[r] /\ fed'[r][m] = fed[r][m]
      BY <2>6, <3>2
    <3>3. CASE r = s /\ fed'[s] = Append(fed[s], x)
      <4>1. fed[s] \in Seq(Items)  BY <1>3, <1>4 DEF ShellTypes
      <4>2. \/ m \in DOMAIN fed[s] /\ fed'[s][m] = fed[s][m]
            \/ fed'[s][m] = x
        BY <1>6, <3>3, <4>1, GrowAppend
      <4>3. QED  BY <3>1, <3>2, <3>3, <4>2
    <3>4. QED  BY <1>8, <3>2, <3>3
  <2>9. \A a, b : Before(a, b)' = Before(a, b)  BY DEF Before, Eof
  <2>10. Eof' = Eof  BY DEF Eof
  <2>11. QED  BY <2>4, <2>5, <2>8, <2>9, <2>10 DEF DownInv
<1>16. NoCrossTalk'
  <2>1. \A r \in Streams : Orderly(r, seen[r]) /\ Orderly(r, fed[r])
    BY <1>3 DEF NoCrossTalk
  <2>2. \A m \in DOMAIN fed[s] : Before(fed[s][m], x)
    BY <1>1, <1>2, <1>3, <1>4, <1>6 DEF DownInv, Before
  <2>3. fed[s] \in Seq(Items)  BY <1>3, <1>4 DEF ShellTypes
  <2>4. Orderly(s, Append(fed[s], x))
    BY <1>6, <2>1, <2>2, <2>3, <1>4, OrderlyGrows
  <2>5. \A r \in Streams : Orderly(r, seen'[r]) /\ Orderly(r, fed'[r])
    BY <1>2, <1>8, <2>1, <2>4
  <2>6. QED  BY <2>5 DEF NoCrossTalk, Orderly, Eof
<1>17. QED  BY <1>9, <1>11, <1>12, <1>14, <1>15, <1>16 DEF ShellInv

(* uplink_pump: the active shell's next slice of output, or its eof. *)
LEMMA OutputStep ==
  ASSUME ShellInv, NEW s \in Streams, Output(s) \/ ShellExits(s)
  PROVE  ShellInv'
<1>1. PICK n : n = IF Output(s) THEN sent[s] + 1 ELSE Eof  OBVIOUS
<1>2. PICK x : x = Frame(active, s, n)  OBVIOUS
<1>3. /\ UNCHANGED <<op, typed, cmds, csid, route, down, seen, asid, fed>>
      /\ pty[s] = "running" /\ active.id = s
      /\ up' = Append(up, x) /\ active' = [active EXCEPT !.seq = @ + 1]
      /\ \/ n = sent[s] + 1 /\ sent' = [sent EXCEPT ![s] = @ + 1] /\ pty' = pty
         \/ n = Eof /\ sent' = sent /\ pty' = [pty EXCEPT ![s] = "exited"]
  BY <1>1, <1>2 DEF Output, ShellExits, opVars, coordVars, outVars
<1>4. /\ ShellTypes /\ QueueInv /\ FreshInv /\ UpInv /\ DownInv /\ StreamInv /\ NoCrossTalk
  BY DEF ShellInv
<1>5. /\ active \in Ends /\ up \in Seq(Frames) /\ sent \in [Streams -> Nat]
      /\ pty \in [Streams -> {"none", "running", "exited", "killed"}]
  BY <1>4 DEF ShellTypes
<1>6. n \in Nat /\ sent' \in [Streams -> Nat] /\ n <= sent'[s]
      /\ (\A r \in Streams : sent'[r] >= sent[r])
  <2>1. CASE n = sent[s] + 1 /\ sent' = [sent EXCEPT ![s] = @ + 1]
    BY <1>5, <2>1
  <2>2. CASE n = Eof /\ sent' = sent
    BY <1>5, <2>2 DEF Eof
  <2>3. QED  BY <1>3, <2>1, <2>2
<1>7. /\ pty' \in [Streams -> {"none", "running", "exited", "killed"}]
      /\ \A r \in Streams : pty'[r] = "none" <=> pty[r] = "none"
      /\ \A r \in Streams : pty'[r] = "running" => pty[r] = "running"
      /\ n = Eof => pty'[s] # "running"
  <2>1. CASE n = sent[s] + 1 /\ pty' = pty
    <3>1. n # Eof  BY <1>5, <2>1 DEF Eof
    <3>2. QED  BY <1>5, <2>1, <3>1
  <2>2. CASE pty' = [pty EXCEPT ![s] = "exited"]
    <3>1. pty[s] = "running"  BY <1>3
    <3>2. QED  BY <1>5, <2>2, <3>1
  <2>3. QED  BY <1>3, <2>1, <2>2
<1>8. active' \in Ends /\ active'.id = s /\ active'.sid = active.sid
  <2>1. active.id = s /\ active' = [active EXCEPT !.seq = @ + 1]  BY <1>3
  <2>2. QED  BY <1>5, <2>1 DEF Ends
<1>9. /\ x \in Frames /\ x.id = s /\ x.from = s /\ x.n = n
  BY <1>2, <1>3, <1>5, <1>6, ShellRecords
<1>10. /\ up' \in Seq(Frames)
       /\ \A i \in DOMAIN up' :
            \/ i \in DOMAIN up /\ up'[i] = up[i] /\ i < Len(up) + 1
            \/ i = Len(up) + 1 /\ up'[i] = x
       /\ Len(up) \in Nat /\ DOMAIN up = 1..Len(up)
  BY <1>3, <1>5, <1>9, GrowAppend
<1>11. ShellTypes' /\ StreamInv'
  BY <1>3, <1>4, <1>6, <1>7, <1>8, <1>10 DEF ShellTypes, StreamInv, NoOrphanShell
<1>12. Thinned(cmds', cmds, {}) /\ Thinned(down', down, {})
  BY <1>3, <1>4, ThinSame DEF ShellTypes
<1>13. QueueInv'  BY <1>3, <1>4, <1>11, <1>12, QueueQuiet
<1>14. DownInv'  BY <1>3, <1>4, <1>12, DownQuiet
<1>15. NoCrossTalk'  BY <1>3, <1>4 DEF NoCrossTalk, Orderly, Eof
<1>16. FreshInv'
  <2>1. \A r : Queued(r)' = Queued(r)  BY <1>3 DEF Queued
  <2>2. \A r \in Streams : Unborn(r)' = Unborn(r)  BY <1>3, <1>7 DEF Unborn
  <2>3. \A i \in DOMAIN down : down[i].id \in Streams  BY <1>4, ShellElements
  <2>4. \A r \in Streams : Queued(r)' =>
          Unborn(r)' /\ route'.id # r /\ \A i \in DOMAIN down' : down'[i].id # r
    BY <1>3, <1>4, <2>1, <2>2 DEF FreshInv
  <2>5. \A i \in DOMAIN down' : down'[i].t = "open" =>
          pty'[down'[i].id] = "none" /\ seen'[down'[i].id] = <<>>
    BY <1>3, <1>4, <1>7, <2>3 DEF FreshInv, Unborn
  <2>6. \A r \in Streams : pty'[r] = "none" =>
          fed'[r] = <<>> /\ active'.id # r /\ \A i \in DOMAIN up' : up'[i].id # r
    BY <1>3, <1>4, <1>7, <1>8, <1>9, <1>10 DEF FreshInv
  <2>7. QED  BY <1>3, <1>4, <2>4, <2>5, <2>6 DEF FreshInv, Unborn
<1>17. UpInv'
  <2>1. \A i \in DOMAIN up : up[i].id \in Streams /\ up[i].n \in Nat
    BY <1>4, ShellElements
  <2>2. \A r \in Streams : \A m \in DOMAIN seen[r] : seen[r][m].n \in Nat
    BY <1>4, ShellElements
  <2>3. ASSUME NEW k \in Nat, k <= sent[s], k # Eof PROVE k # Eof /\ (n = Eof \/ k < n)
    BY <1>3, <1>5, <2>3 DEF Eof
  <2>4. \A i \in DOMAIN up : up[i].id = s => Before(up[i], x)
    BY <1>3, <1>4, <1>9, <2>1, <2>3 DEF UpInv, Before
  <2>5. \A m \in DOMAIN seen[s] : Before(seen[s][m], x)
    BY <1>3, <1>4, <1>9, <2>2, <2>3 DEF UpInv, Before
  <2>6. ASSUME NEW i \in DOMAIN up'
        PROVE  up'[i].from = up'[i].id /\ up'[i].n <= sent'[up'[i].id]
               /\ (up'[i].n = Eof => pty'[up'[i].id] # "running")
    <3>1. CASE up'[i] = x  BY <1>6, <1>7, <1>9, <3>1
    <3>2. CASE i \in DOMAIN up /\ up'[i] = up[i]
      <4>1. /\ up[i].from = up[i].id /\ up[i].n <= sent[up[i].id]
            /\ (up[i].n = Eof => pty[up[i].id] # "running")
        BY <1>4, <3>2 DEF UpInv
      <4>2. up[i].n <= sent'[up[i].id]  BY <1>5, <1>6, <2>1, <3>2, <4>1
      <4>3. QED  BY <1>7, <2>1, <3>2, <4>1, <4>2
    <3>3. QED  BY <1>10, <3>1, <3>2
  <2>7. ASSUME NEW i \in DOMAIN up', NEW j \in DOMAIN up', up'[i].id = up'[j].id, i < j
        PROVE  Before(up'[i], up'[j])
    <3>1. i \in DOMAIN up /\ up'[i] = up[i]  BY <1>10, <2>7
    <3>2. CASE up'[j] = x  BY <1>9, <2>4, <2>7, <3>1, <3>2
    <3>3. CASE j \in DOMAIN up /\ up'[j] = up[j]
      BY <1>4, <2>7, <3>1, <3>3 DEF UpInv
    <3>4. QED  BY <1>10, <3>2, <3>3
  <2>8. ASSUME NEW r \in Streams, NEW m \in DOMAIN seen[r]
        PROVE  /\ seen[r][m].n <= sent'[r]
               /\ seen[r][m].n = Eof => pty'[r] # "running"
               /\ \A i \in DOMAIN up' : up'[i].id = r => Before(seen[r][m], up'[i])
    <3>1. /\ seen[r][m].n <= sent[r]
          /\ seen[r][m].n = Eof => pty[r] # "running"
          /\ \A i \in DOMAIN up : up[i].id = r => Before(seen[r][m], up[i])
      BY <1>4, <2>8 DEF UpInv
    <3>2. seen[r][m].n <= sent'[r]  BY <1>5, <1>6, <2>2, <2>8, <3>1
    <3>3. ASSUME NEW i \in DOMAIN up', up'[i].id = r PROVE Before(seen[r][m], up'[i])
      <4>1. CASE up'[i] = x  BY <1>9, <2>5, <2>8, <3>3, <4>1
      <4>2. CASE i \in DOMAIN up /\ up'[i] = up[i]  BY <3>1, <3>3, <4>2
      <4>3. QED  BY <1>10, <4>1, <4>2
    <3>4. QED  BY <1>7, <3>1, <3>2, <3>3
  <2>9. \A a, b : Before(a, b)' = Before(a, b)  BY DEF Before, Eof
  <2>10. Eof' = Eof  BY DEF Eof
  <2>11. QED  BY <1>3, <2>6, <2>7, <2>8, <2>9, <2>10 DEF UpInv
<1>18. QED  BY <1>11, <1>13, <1>14, <1>15, <1>16, <1>17 DEF ShellInv

-----------------------------------------------------------------------------
(* The shell at large *)

(* Nothing has been called, sent or opened. *)
LEMMA ShellInitInv ==
  ASSUME ShellInit
  PROVE  ShellInv
<1>1. /\ DOMAIN cmds = {} /\ DOMAIN down = {} /\ DOMAIN up = {}
      /\ \A s \in Streams : DOMAIN seen[s] = {} /\ DOMAIN fed[s] = {}
  BY DEF ShellInit
<1>2. NoEnd \in Ends /\ NoEnd.id = NoStream  BY ShellRecords
<1>3. ShellTypes  BY <1>2 DEF ShellInit, ShellTypes
<1>4. QueueInv  BY <1>1 DEF QueueInv
<1>5. FreshInv
  BY <1>1, <1>2, StreamsAssumption DEF FreshInv, Unborn, ShellInit
<1>6. UpInv  BY <1>1 DEF UpInv
<1>7. DownInv  BY <1>1 DEF DownInv
<1>8. StreamInv  BY DEF StreamInv, NoOrphanShell, ShellInit
<1>9. NoCrossTalk  BY <1>1 DEF NoCrossTalk, Orderly
<1>10. QED  BY <1>3, <1>4, <1>5, <1>6, <1>7, <1>8, <1>9 DEF ShellInv

(* Every step of the operators, the bridge and the agent keeps the invariant. *)
LEMMA ShellStep ==
  ASSUME ShellInv, [ShellNext]_shellVars
  PROVE  ShellInv'
<1>1. ASSUME NEW s \in Streams, Call(s) \/ Type(s) \/ Close(s) \/ Leave(s) \/ Read(s)
                                  \/ Output(s) \/ ShellExits(s)
      PROVE  ShellInv'
  BY <1>1, OperatorStep, ReadStep, OutputStep
<1>2. CASE Bridge
  BY <1>2, OpenRefusedStep, OpenShellStep, ShellInputStep, ShellCloseStep DEF Bridge
<1>3. CASE Uplink \/ Shed
  BY <1>3, FrameLostStep, StreamUpStep, StreamUpClosedStep DEF Uplink
<1>4. CASE Agent
  <2>1. PICK i \in DOMAIN down : Ready(i) /\
          (AgentOpens(i) \/ AgentRefuses(i) \/ AgentIgnores(i)
             \/ AgentFeeds(i) \/ AgentCloses(i))
    BY <1>4 DEF Agent
  <2>2. QED  BY <2>1, AgentOpensStep, AgentPassesStep, AgentFeedsStep, AgentClosesStep
<1>5. CASE Drop \/ LinkDies \/ Rehello
  BY <1>5, DropStep, RehelloStep
<1>6. CASE UNCHANGED shellVars
  <2>1. UNCHANGED <<op, typed, cmds, csid, route, seen, down, up, asid, active,
                    pty, sent, fed>>
    BY <1>6 DEF shellVars, opVars, coordVars, outVars, agentVars
  <2>2. ShellTypes' /\ StreamInv'
    BY <2>1 DEF ShellInv, ShellTypes, StreamInv, NoOrphanShell
  <2>3. Thinned(cmds', cmds, {}) /\ Thinned(down', down, {}) /\ Thinned(up', up, {})
    BY <2>1, ThinSame DEF ShellInv, ShellTypes
  <2>4. QED  BY <2>1, <2>2, <2>3, QuietStep
<1>7. QED  BY <1>1, <1>2, <1>3, <1>4, <1>5, <1>6 DEF ShellNext

(* ShellInv holds in every state the operators, the bridge and the agent reach. *)
LEMMA ShellInvariance == ShellSpec => []ShellInv
<1>1. ShellInit => ShellInv  BY ShellInitInv
<1>2. ShellInv /\ [ShellNext]_shellVars => ShellInv'  BY ShellStep
<1>3. QED  BY <1>1, <1>2, PTL DEF ShellSpec

(* For any calls, bounds and interleaving of opens, keystrokes, output, closes,
   drops and new sessions, an operator is shown the output of its own shell
   alone and a shell is fed the keystrokes of its own operator alone, in order
   and once: handle_stream_up and route_downlink never cross two streams. *)
THEOREM ShellsDoNotCrossTalk == ShellSpec => []NoCrossTalk
<1>1. ShellInv => NoCrossTalk  BY DEF ShellInv
<1>2. QED  BY <1>1, ShellInvariance, PTL

(* However opens, closes and disconnects interleave, a shell that runs is the
   agent's active stream in its present session: ShellStream::drop leaves none
   behind. *)
THEOREM NoShellIsOrphaned == ShellSpec => []NoOrphanShell
<1>1. ShellInv => NoOrphanShell  BY DEF ShellInv, StreamInv
<1>2. QED  BY <1>1, ShellInvariance, PTL
=============================================================================
