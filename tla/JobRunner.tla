------------------------------ MODULE JobRunner ------------------------------
(***************************************************************************)
(* The agent's job runner: dispatch.rs `run_job` (one task per accepted    *)
(* dispatch, control_channel.rs `handle_job`) over the durable job store   *)
(* of jobstore.rs.                                                         *)
(*                                                                         *)
(* Any dispatch may be delivered again at any time: in the same session by *)
(* another task, after a reconnect, or after a restart of the agent.  The  *)
(* steps of a task are the points where another thread can get in: the     *)
(* claim, each store operation (spawn_blocking), the run of the process,   *)
(* the report.  A store write is two steps, the rename and the directory   *)
(* fsync: a process crash keeps a rename, a power loss may undo one that   *)
(* was not synced.  At capacity handle_job sheds the dispatch and changes  *)
(* nothing, so a delivery needs a free task (a permit).                    *)
(***************************************************************************)
EXTENDS Naturals

CONSTANTS
  Jobs,     \* the job ids that may be dispatched
  BadIds,   \* those that are empty or longer than MAX_JOB_ID_LEN
  Tasks,    \* the permits of the job semaphore: one running task each
  Exits     \* what a process may end with (exit code, signal, flags)

Failed == "failed"   \* the outcome of `failed(..)`, whatever its message
NoJob  == "none"     \* the job of a permit that is not in use

ASSUME JobsAssumption == BadIds \subseteq Jobs /\ NoJob \notin Jobs
ASSUME ExitsAssumption == Failed \notin Exits

VARIABLES
  file,      \* file[j]: the job's record as the running system reads it
  disk,      \* disk[j]: the record a power loss would leave
  retired,   \* jobs whose record was pruned: too old to be redelivered
  inflight,  \* the in-memory claim set
  pc,        \* pc[t]: where the task is ("free": the permit is unused)
  job,       \* job[t]: the job it was spawned for
  out,       \* out[t]: the outcome it is about to record or report
  proc,      \* proc[j]: "none", "running", "ended" or "lost" (history)
  runs,      \* runs[j]: how often a process was spawned (history)
  result,    \* result[j]: the status the process ended with (history)
  answers    \* answers[j]: the outcomes reported for the job (history)

store == <<file, disk, retired>>
hist  == <<proc, runs, result, answers>>
vars  == <<store, inflight, pc, job, out, hist>>

-----------------------------------------------------------------------------
(* A record: tag "none" (no file), "started", "done", or "junk" (anything
   else the file may hold). *)
NoRecord == [tag |-> "none", out |-> Failed]
Started  == [tag |-> "started", out |-> Failed]
Done(o)  == [tag |-> "done", out |-> o]
Junk     == [tag |-> "junk", out |-> Failed]

Outcomes == Exits \union {Failed}

Init ==
  /\ file = [j \in Jobs |-> NoRecord] /\ disk = file
  /\ retired = {} /\ inflight = {}
  /\ pc = [t \in Tasks |-> "free"]
  /\ job = [t \in Tasks |-> NoJob]
  /\ out = [t \in Tasks |-> Failed]
  /\ proc = [j \in Jobs |-> "none"] /\ runs = [j \in Jobs |-> 0]
  /\ result = [j \in Jobs |-> Failed] /\ answers = [j \in Jobs |-> {}]

(* A task moves on, and the outcome it carries. *)
Go(t, from, to) ==
  /\ pc[t] = from
  /\ pc' = [pc EXCEPT ![t] = to]
  /\ UNCHANGED job
Carry(t, o) == out' = [out EXCEPT ![t] = o]

(* A task ends and its permit is free again. *)
Finish(t, from) ==
  /\ pc[t] = from
  /\ pc' = [pc EXCEPT ![t] = "free"]
  /\ job' = [job EXCEPT ![t] = NoJob]
  /\ Carry(t, Failed)

-----------------------------------------------------------------------------
(* handle_job: take a permit and spawn a task. *)
Deliver(t, j) ==
  /\ j \notin retired
  /\ pc[t] = "free"
  /\ pc' = [pc EXCEPT ![t] = "new"]
  /\ job' = [job EXCEPT ![t] = j]
  /\ UNCHANGED <<store, inflight, out, hist>>

(* run_job: a malformed id is answered before anything is claimed. *)
RejectId(t) ==
  /\ job[t] \in BadIds
  /\ Go(t, "new", "reply") /\ Carry(t, Failed)
  /\ UNCHANGED <<store, inflight, hist>>

(* try_claim succeeds. *)
Claim(t) ==
  /\ job[t] \notin BadIds \union inflight
  /\ Go(t, "new", "lookup")
  /\ inflight' = inflight \union {job[t]}
  /\ UNCHANGED <<store, out, hist>>

\* mutants of ClaimTaken: wait for the claim; report the job interrupted
MutClaimTakenWaits(t) ==
  /\ pc[t] = "new" /\ job[t] \in inflight
  /\ UNCHANGED vars
MutClaimTakenReports(t) ==
  /\ job[t] \in inflight
  /\ Go(t, "new", "reply") /\ Carry(t, Failed)
  /\ UNCHANGED <<store, inflight, hist>>

(* try_claim fails: another task holds the job; this one ends silently. *)
ClaimTaken(t) ==
  /\ job[t] \in inflight
  /\ Finish(t, "new")
  /\ UNCHANGED <<store, inflight, hist>>

(* lookup finds a record: a Done record is replayed, anything else is
   reported as interrupted. *)
LookupKnown(t) ==
  /\ Go(t, "lookup", "reply")
  /\ LET r == file[job[t]]
     IN  /\ r.tag # "none"
         /\ Carry(t, IF r.tag = "done" THEN r.out ELSE Failed)
  /\ UNCHANGED <<store, inflight, hist>>

(* lookup finds nothing, and backstop, kind and params let the job run. *)
LookupNew(t) ==
  /\ Go(t, "lookup", "mark")
  /\ file[job[t]].tag = "none"
  /\ UNCHANGED <<store, inflight, out, hist>>

(* The store cannot be read, or the job is unknown but refused (backstop,
   unsupported kind, malformed params): report a failure, touch nothing. *)
LookupRefused(t) ==
  /\ Go(t, "lookup", "reply") /\ Carry(t, Failed)
  /\ UNCHANGED <<store, inflight, hist>>

(* mark_started: the rename is visible ... *)
MarkStarted(t) ==
  /\ Go(t, "mark", "marked")
  /\ file' = [file EXCEPT ![job[t]] = Started]
  /\ UNCHANGED <<disk, retired, inflight, out, hist>>

\* mutant of MarkSync: write_durably ends with the rename
MutMarkSyncSkipped(t) ==
  /\ Go(t, "marked", "spawn")
  /\ UNCHANGED <<store, inflight, out, hist>>

(* ... and durable once the directory is synced. *)
MarkSync(t) ==
  /\ Go(t, "marked", "spawn")
  /\ disk' = file
  /\ UNCHANGED <<file, retired, inflight, out, hist>>

(* mark_started fails, before or after the rename: the job is not run. *)
MarkFails(t) ==
  /\ Go(t, "mark", "reply") \/ Go(t, "marked", "reply")
  /\ Carry(t, Failed)
  /\ UNCHANGED <<store, inflight, hist>>

(* exec::stream spawns the process ... *)
Spawn(t) ==
  /\ Go(t, "spawn", "running")
  /\ proc' = [proc EXCEPT ![job[t]] = "running"]
  /\ runs' = [runs EXCEPT ![job[t]] = @ + 1]
  /\ UNCHANGED <<store, inflight, out, result, answers>>

(* ... or cannot (empty argv, unknown user, spawn error): a failed outcome. *)
SpawnFails(t) ==
  /\ Go(t, "spawn", "record") /\ Carry(t, Failed)
  /\ UNCHANGED <<store, inflight, hist>>

(* The process ends, by itself or killed at a limit, and is reaped. *)
Exit(t, x) ==
  /\ Go(t, "running", "record") /\ Carry(t, x)
  /\ proc' = [proc EXCEPT ![job[t]] = "ended"]
  /\ result' = [result EXCEPT ![job[t]] = x]
  /\ UNCHANGED <<store, inflight, runs, answers>>

(* Waiting on the child fails: its end is unknown. *)
WaitFails(t) ==
  /\ Go(t, "running", "record") /\ Carry(t, Failed)
  /\ proc' = [proc EXCEPT ![job[t]] = "lost"]
  /\ UNCHANGED <<store, inflight, runs, result, answers>>

(* record_done, in the same two steps. *)
RecordDone(t) ==
  /\ Go(t, "record", "recorded")
  /\ file' = [file EXCEPT ![job[t]] = Done(out[t])]
  /\ UNCHANGED <<disk, retired, inflight, out, hist>>

RecordSync(t) ==
  /\ Go(t, "recorded", "reply")
  /\ disk' = file
  /\ UNCHANGED <<file, retired, inflight, out, hist>>

(* A failure to record is only logged: the outcome is reported all the same. *)
RecordFails(t) ==
  /\ Go(t, "record", "reply") \/ Go(t, "recorded", "reply")
  /\ UNCHANGED <<store, inflight, out, hist>>

(* The outcome is handed to the session's publisher, or dropped because that
   session is gone; then the claim and the permit are released. *)
Reply(t) ==
  /\ Finish(t, "reply")
  /\ inflight' = inflight \ {job[t]}
  /\ \/ answers' = [answers EXCEPT ![job[t]] = @ \union {out[t]}]
     \/ UNCHANGED answers
  /\ UNCHANGED <<store, proc, runs, result>>

(* The agent starts again: tasks and claims are gone, the processes they ran
   are no longer watched.  A power loss may have undone unsynced renames
   (`after`); the crash of the process alone leaves both the files and what is
   not yet synced of them.  JobStore::new then prunes the records older than
   RETENTION, whose jobs the coordinator has forgotten long ago (`old`). *)
Survivors == {f \in [Jobs -> {file[j] : j \in Jobs} \union {disk[j] : j \in Jobs}] :
                 \A j \in Jobs : f[j] \in {file[j], disk[j]}}

Restart(after, old) ==
  /\ file' = [j \in Jobs |-> IF j \in old THEN NoRecord ELSE after[j]]
  /\ \/ disk' = file'
     \/ /\ after = file
        /\ disk' = [j \in Jobs |-> IF j \in old THEN NoRecord ELSE disk[j]]
  /\ retired' = retired \union old
  /\ inflight' = {}
  /\ pc' = [t \in Tasks |-> "free"]
  /\ job' = [t \in Tasks |-> NoJob]
  /\ out' = [t \in Tasks |-> Failed]
  /\ proc' = [j \in Jobs |-> IF proc[j] = "running" THEN "lost" ELSE proc[j]]
  /\ UNCHANGED <<runs, result, answers>>

(* A record is damaged on disk. *)
Damage(j) ==
  /\ file[j].tag # "none" /\ disk[j].tag # "none"
  /\ file' = [file EXCEPT ![j] = Junk]
  /\ disk' = [disk EXCEPT ![j] = Junk]
  /\ UNCHANGED <<retired, inflight, pc, job, out, hist>>

-----------------------------------------------------------------------------
(* What a task does by itself: everything but the end of its process. *)
Step(t) ==
  \/ RejectId(t) \/ Claim(t) \/ ClaimTaken(t)
  \/ LookupKnown(t) \/ LookupNew(t) \/ LookupRefused(t)
  \/ MarkStarted(t) \/ MarkSync(t) \/ MarkFails(t)
  \/ Spawn(t) \/ SpawnFails(t)
  \/ RecordDone(t) \/ RecordSync(t) \/ RecordFails(t)
  \/ Reply(t)

Next ==
  \/ \E t \in Tasks :
        \/ \E j \in Jobs : Deliver(t, j)
        \/ Step(t)
        \/ \E x \in Exits : Exit(t, x)
        \/ WaitFails(t)
  \/ \E after \in Survivors :
        \E old \in SUBSET {j \in Jobs : after[j].tag # "none"} : Restart(after, old)
  \/ \E j \in Jobs : Damage(j)

(* Tasks are scheduled: a task that can go on goes on. *)
Fairness == \A t \in Tasks : WF_vars(Step(t))

Spec == Init /\ [][Next]_vars /\ Fairness

-----------------------------------------------------------------------------
(* Properties *)

Records == [tag : {"none", "started", "done", "junk"}, out : Outcomes]
Stages  == {"free", "new", "lookup", "mark", "marked", "spawn", "running",
            "record", "recorded", "reply"}

(* The type of every piece of state. *)
TypeOK ==
  /\ file \in [Jobs -> Records] /\ disk \in [Jobs -> Records]
  /\ retired \subseteq Jobs /\ inflight \subseteq Jobs \ BadIds
  /\ pc \in [Tasks -> Stages] /\ job \in [Tasks -> Jobs \union {NoJob}]
  /\ out \in [Tasks -> Outcomes]
  /\ proc \in [Jobs -> {"none", "running", "ended", "lost"}]
  /\ runs \in [Jobs -> Nat]
  /\ result \in [Jobs -> Outcomes] /\ answers \in [Jobs -> SUBSET Outcomes]

(* No job is ever executed twice: not by concurrent redeliveries, not after a
   crash between any two of the store's steps, not with a damaged record. *)
AtMostOnce == \A j \in Jobs : runs[j] <= 1

(* The runner keeps its contract: the history of a job, and every outcome
   reported for it, is one JobContract allows. *)
Contract == INSTANCE JobContract
  WITH phase <- [j \in Jobs |-> IF proc[j] = "none" THEN "fresh" ELSE proc[j]]
KeepsContract == Contract!Spec

(* A task gives its permit back unless it waits on its process: no interleaving
   of claims, store failures and redeliveries strands one. *)
PermitsReturn ==
  \A t \in Tasks : pc[t] # "free" ~> pc[t] \in {"free", "running"}
=============================================================================
