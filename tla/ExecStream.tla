----------------------------- MODULE ExecStream ------------------------------
(***************************************************************************)
(* From an operator's Exec call to the end of its result stream:           *)
(* service.rs `exec` (fan-out), broker.rs `handle_command` (Dispatch),     *)
(* `handle_result`, `purge_host_jobs` and `reap_stale_jobs`, and, on the   *)
(* agent, the job tasks that seal results on the shared uplink             *)
(* (dispatch.rs `JobChannel::send`, control_channel.rs `publish_results`). *)
(*                                                                         *)
(* Every job of a call has its own host and a fresh job_id.  A session is  *)
(* a number (module Session shows how both ends come to agree on it); a    *)
(* dispatch, or a result on its way to the bridge, may be lost.  What the  *)
(* bridge puts in a call's event queue is recorded in `got`; `queue` only  *)
(* counts the events the operator has not read yet.                        *)
(***************************************************************************)
EXTENDS Integers, FiniteSetsExt, SequencesExt

CONSTANTS
  Calls,       \* the Exec calls
  Jobs,        \* the jobs they may mint
  Hosts,       \* the managed hosts
  Plans,       \* what the operators may ask for: see Fan, HostOf, MaxSid
  Chunks,      \* output chunks every job produces before its outcome
  QueueCap,    \* EXEC_EVENT_QUEUE
  MaxPending   \* MAX_PENDING_JOBS

(* A job_id is minted once (a ULID), for one host of one call. *)
ASSUME ExecAssumption ==
  /\ Chunks \in Nat /\ QueueCap \in Nat /\ MaxPending \in Nat
  /\ \A p \in Plans :
       /\ p.fan \in [Calls -> Seq(Jobs)] /\ p.hostOf \in [Jobs -> Hosts] /\ p.maxSid \in Nat
       /\ \A c \in Calls : IsInjective(p.fan[c])
       /\ \A c, d \in Calls : c # d => Range(p.fan[c]) \intersect Range(p.fan[d]) = {}

VARIABLES
  plan,      \* the calls of this behaviour
  todo,      \* todo[c]: jobs the fan-out task of the call has not reached
  cmds,      \* the bridge's command queue
  pending,   \* jobs in the bridge's pending table
  overdue,   \* those past their deadline
  sid,       \* sid[h]: the coordinator's session with the host (0: none)
  recvHigh,  \* recvHigh[h]: highest uplink seq it accepted
  stage,     \* stage[j], agent side: "new", "sent", "run" or "over"
  sidOf,     \* sidOf[j]: the session the dispatch was sealed for
  agentSid,  \* agentSid[h]: the agent's session (0: none)
  seq,       \* seq[h]: the next uplink seq of that session
  sealed,    \* sealed[j]: results of the job sealed so far
  hand,      \* hand[j]: seq of the sealed result not yet handed over (0: none)
  up,        \* up[h]: results on their way to the bridge, in publish order
  queue,     \* queue[c]: unread events of the call
  open,      \* open[c]: the operator still reads
  got,       \* got[j]: the job's events put in the queue (history)
  lagged     \* lagged[c]: an event was dropped because the queue was full

fanVars   == <<todo, cmds>>
jobsVars  == <<pending, overdue>>
sessVars  == <<sid, recvHigh>>
agentVars == <<stage, sidOf, agentSid, seq, sealed, hand>>
opVars    == <<queue, open, got, lagged>>
moving    == <<fanVars, jobsVars, sessVars, agentVars, up, opVars>>
vars      == <<plan, moving>>

Fan       == plan.fan       \* Fan[c]: the jobs of call c, in fan-out order
HostOf    == plan.hostOf    \* HostOf[j]: the host of job j
MaxSid    == plan.maxSid    \* bound: sessions per host
JobsOf(c) == Range(Fan[c])
CallOf(j) == CHOOSE c \in Calls : j \in JobsOf(c)
On(h)     == {j \in Jobs : HostOf[j] = h}
Room(c)   == QueueCap - queue[c]

(* The n-th result of a job: its chunks, then its outcome. *)
Exit  == 0
Error == -1
Item(n)     == IF n <= Chunks THEN n ELSE Exit
Terminal(i) == i \in {Exit, Error}

(* events.try_send of `item` for every job of S; `told` are the jobs whose
   event found room in the queue of a call that is still read. *)
TrySend(S, item, told) ==
  LET live(c) == {j \in S \intersect JobsOf(c) : open[c]} IN
  /\ \A c \in Calls : /\ told \intersect JobsOf(c) \subseteq live(c)
                      /\ Cardinality(told \intersect JobsOf(c)) =
                            Min({Room(c), Cardinality(live(c))})
  /\ queue' = [c \in Calls |-> queue[c] + Cardinality(told \intersect JobsOf(c))]
  /\ got' = [j \in Jobs |-> IF j \in told THEN Append(got[j], item) ELSE got[j]]
  /\ lagged' = [c \in Calls |-> lagged[c] \/ live(c) \ told # {}]
  /\ UNCHANGED open

Forget(S) == pending' = pending \ S /\ overdue' = overdue \ S

-----------------------------------------------------------------------------
Init ==
  /\ plan \in Plans
  /\ todo = Fan /\ cmds = <<>>
  /\ pending = {} /\ overdue = {}
  /\ sid = [h \in Hosts |-> 0] /\ recvHigh = [h \in Hosts |-> 0]
  /\ stage = [j \in Jobs |-> "new"] /\ sidOf = [j \in Jobs |-> 0]
  /\ agentSid = [h \in Hosts |-> 0] /\ seq = [h \in Hosts |-> 1]
  /\ sealed = [j \in Jobs |-> 0] /\ hand = [j \in Jobs |-> 0]
  /\ up = [h \in Hosts |-> <<>>]
  /\ queue = [c \in Calls |-> 0] /\ open = [c \in Calls |-> TRUE]
  /\ got = [j \in Jobs |-> <<>>] /\ lagged = [c \in Calls |-> FALSE]

-----------------------------------------------------------------------------
(* The fan-out task of a call, one host at a time. *)

(* Authorized and audited: hand a Dispatch to the bridge. *)
FanOutAllowed(c) ==
  /\ todo[c] # <<>>
  /\ cmds' = Append(cmds, Head(todo[c]))
  /\ todo' = [todo EXCEPT ![c] = Tail(@)]
  /\ UNCHANGED <<jobsVars, sessVars, agentVars, up, opVars>>

(* Denied, or the decision could not be made or audited: the error event is
   sent with `send().await`, so it waits for room. *)
FanOutDenied(c) ==
  /\ todo[c] # <<>>
  /\ open[c] => Room(c) > 0
  /\ \E told \in SUBSET {Head(todo[c])} : TrySend({Head(todo[c])}, Error, told)
  /\ todo' = [todo EXCEPT ![c] = Tail(@)]
  /\ UNCHANGED <<cmds, jobsVars, sessVars, agentVars, up>>

-----------------------------------------------------------------------------
(* The bridge task. *)

AtCapacity == Cardinality(pending) >= MaxPending

(* handle_command, Dispatch: at capacity, offline, or the publish failed. *)
DispatchRefused ==
  /\ cmds # <<>>
  /\ \E told \in SUBSET {Head(cmds)} : TrySend({Head(cmds)}, Error, told)
  /\ cmds' = Tail(cmds)
  /\ UNCHANGED <<todo, pending, overdue, sessVars, agentVars, up>>

(* handle_command, Dispatch: sealed, published and remembered. *)
DispatchSent ==
  /\ cmds # <<>> /\ ~AtCapacity
  /\ LET j == Head(cmds) IN
     /\ sid[HostOf[j]] # 0
     /\ stage' = [stage EXCEPT ![j] = "sent"]
     /\ sidOf' = [sidOf EXCEPT ![j] = sid[HostOf[j]]]
     /\ pending' = pending \union {j}
  /\ cmds' = Tail(cmds)
  /\ UNCHANGED <<todo, overdue, sessVars, agentSid, seq, sealed, hand, up, opVars>>

(* open_uplink and the pending lookup of handle_result. *)
Accepted(h, m) == m.sid = sid[h] /\ m.seq > recvHigh[h]

\* mutant of Concluded: the terminal outcome does not end the job
MutConcluded(m, told) == told = {}
(* After try_send: a terminal outcome, a closed or a full queue end the job. *)
Concluded(m, told) == told = {} \/ Terminal(m.item)

(* handle_result. *)
OnResult(h) ==
  /\ up[h] # <<>>
  /\ up' = [up EXCEPT ![h] = Tail(@)]
  /\ LET m == Head(up[h]) IN
     \/ /\ ~Accepted(h, m)
        /\ UNCHANGED <<sessVars, jobsVars, opVars>>
     \/ /\ Accepted(h, m)
        /\ recvHigh' = [recvHigh EXCEPT ![h] = m.seq]
        /\ \/ /\ m.job \notin pending
              /\ UNCHANGED <<jobsVars, opVars>>
           \/ /\ m.job \in pending
              /\ \E told \in SUBSET {m.job} :
                    /\ TrySend({m.job}, m.item, told)
                    /\ Forget(IF Concluded(m, told) THEN {m.job} ELSE {})
        /\ UNCHANGED sid
  /\ UNCHANGED <<fanVars, agentVars>>

(* Lost in the broker, or shed by forward_events: the bridge's own queue was
   full. *)
ResultLost(h) ==
  /\ up[h] # <<>>
  /\ up' = [up EXCEPT ![h] = Tail(@)]
  /\ UNCHANGED <<fanVars, jobsVars, sessVars, agentVars, opVars>>

\* mutant of Reap: a job whose operator cannot be told is kept
MutReapTold ==
  /\ overdue # {}
  /\ \E told \in SUBSET overdue : TrySend(overdue, Error, told) /\ Forget(told)
  /\ UNCHANGED <<fanVars, sessVars, agentVars, up>>

(* The deadline of a pending job passes; the next sweep reaps it. *)
Expire(j) ==
  /\ j \in pending \ overdue
  /\ overdue' = overdue \union {j}
  /\ UNCHANGED <<fanVars, pending, sessVars, agentVars, up, opVars>>
Reap ==
  /\ overdue # {}
  /\ \E told \in SUBSET overdue : TrySend(overdue, Error, told)
  /\ Forget(overdue)
  /\ UNCHANGED <<fanVars, sessVars, agentVars, up>>

-----------------------------------------------------------------------------
(* The agent and its connection. *)

(* A dispatch opens only in the session it was sealed for. *)
AgentStarts(j) ==
  /\ stage[j] = "sent" /\ sidOf[j] = agentSid[HostOf[j]]
  /\ stage' = [stage EXCEPT ![j] = "run"]
  /\ UNCHANGED <<fanVars, jobsVars, sessVars, sidOf, agentSid, seq, sealed, hand, up, opVars>>

(* It is lost, sealed for another session, or shed at the agent's job cap. *)
DispatchLost(j) ==
  /\ stage[j] = "sent"
  /\ stage' = [stage EXCEPT ![j] = "over"]
  /\ UNCHANGED <<fanVars, jobsVars, sessVars, sidOf, agentSid, seq, sealed, hand, up, opVars>>

(* The publisher task sends in the order in which it was handed the bytes. *)
Published(h, m) == [up EXCEPT ![h] = Append(@, m)]

(* seal_uplink takes the next seq of the session ... *)
Seal(j) ==
  LET h == HostOf[j] IN
  /\ stage[j] = "run" /\ hand[j] = 0
  /\ hand' = [hand EXCEPT ![j] = seq[h]]
  /\ seq' = [seq EXCEPT ![h] = @ + 1]
  /\ sealed' = [sealed EXCEPT ![j] = @ + 1]
  /\ UNCHANGED <<fanVars, jobsVars, sessVars, stage, sidOf, agentSid, up, opVars>>

(* ... and the bytes are then sent to the publisher: another job's task may
   have sealed and sent a later seq in between. *)
HandOver(j) ==
  LET h == HostOf[j]
      m == [sid |-> sidOf[j], seq |-> hand[j], job |-> j, item |-> Item(sealed[j])]
  IN
  /\ hand[j] # 0
  /\ up' = Published(h, m)
  /\ hand' = [hand EXCEPT ![j] = 0]
  /\ stage' = [stage EXCEPT ![j] = IF Terminal(m.item) THEN "over" ELSE "run"]
  /\ UNCHANGED <<fanVars, jobsVars, sessVars, sidOf, agentSid, seq, sealed, opVars>>

(* The connection drops: nothing its jobs produce from now on is published. *)
Drop(h) ==
  /\ agentSid[h] # 0
  /\ agentSid' = [agentSid EXCEPT ![h] = 0]
  /\ stage' = [j \in Jobs |-> IF j \in On(h) /\ stage[j] = "run" THEN "over" ELSE stage[j]]
  /\ hand' = [j \in Jobs |-> IF j \in On(h) THEN 0 ELSE hand[j]]
  /\ UNCHANGED <<fanVars, jobsVars, sessVars, sidOf, seq, sealed, up, opVars>>

NewSession(h) ==
  /\ h \in Range(HostOf) /\ agentSid[h] = 0 /\ sid[h] < MaxSid
  /\ sid' = [sid EXCEPT ![h] = @ + 1]
  /\ recvHigh' = [recvHigh EXCEPT ![h] = 0]

\* mutant of Rehello: the old session's jobs are forgotten without a word
MutRehelloSilent(h) ==
  /\ NewSession(h)
  /\ Forget(On(h))
  /\ agentSid' = [agentSid EXCEPT ![h] = sid'[h]]
  /\ seq' = [seq EXCEPT ![h] = 1]
  /\ UNCHANGED <<fanVars, stage, sidOf, sealed, hand, up, opVars>>

(* A new session; the bridge fails the pending jobs of the old one. *)
Rehello(h) ==
  /\ NewSession(h)
  /\ LET S == pending \intersect On(h) IN
        \E told \in SUBSET S : TrySend(S, Error, told)
  /\ Forget(On(h))
  /\ agentSid' = [agentSid EXCEPT ![h] = sid'[h]]
  /\ seq' = [seq EXCEPT ![h] = 1]
  /\ UNCHANGED <<fanVars, stage, sidOf, sealed, hand, up>>

(* The session is stored but its ServerHello cannot be published: the handler
   returns before the purge, and the agent has no session. *)
RehelloUnannounced(h) ==
  /\ NewSession(h)
  /\ UNCHANGED <<fanVars, jobsVars, agentVars, up, opVars>>

-----------------------------------------------------------------------------
(* The operator. *)
Read(c) ==
  /\ queue[c] > 0
  /\ queue' = [queue EXCEPT ![c] = @ - 1]
  /\ UNCHANGED <<fanVars, jobsVars, sessVars, agentVars, up, open, got, lagged>>

(* `osa exec` counts the outcomes and the failures it is sent and exits with 0
   if there was an outcome and no failure.  (An outcome of the program's own may
   be a failure too, a non-zero exit code.) *)
MayExitZero(c) ==
  /\ \E j \in JobsOf(c) : Exit \in Range(got[j])
  /\ \A j \in JobsOf(c) : Error \notin Range(got[j])

Leave(c) ==
  /\ Fan[c] # <<>> /\ open[c]
  /\ open' = [open EXCEPT ![c] = FALSE]
  /\ queue' = [queue EXCEPT ![c] = 0]
  /\ UNCHANGED <<fanVars, jobsVars, sessVars, agentVars, up, got, lagged>>

-----------------------------------------------------------------------------
FanOut(c) == FanOutAllowed(c) \/ FanOutDenied(c)
Command   == DispatchRefused \/ DispatchSent

Step ==
  \/ \E c \in Calls : FanOut(c) \/ Read(c) \/ Leave(c)
  \/ Command \/ Reap
  \/ \E h \in Hosts : OnResult(h) \/ ResultLost(h) \/ Drop(h)
                        \/ Rehello(h) \/ RehelloUnannounced(h)
  \/ \E j \in Jobs : AgentStarts(j) \/ DispatchLost(j) \/ Seal(j) \/ HandOver(j)
                        \/ Expire(j)
Next == Step /\ UNCHANGED plan

(* The fan-out task and the bridge are scheduled, the operator reads what is
   there or leaves, deadlines pass and the sweep runs.  Nothing is assumed of
   agents, connections and the broker.  (The plan never moves.) *)
Fairness ==
  /\ \A c \in Calls : WF_moving(FanOut(c)) /\ WF_moving(Read(c))
  /\ WF_moving(Command) /\ WF_moving(Reap)
  /\ \A j \in Jobs : WF_moving(Expire(j))

Spec == Init /\ [][Next]_vars /\ Fairness

-----------------------------------------------------------------------------
(* Properties *)

(* A call's stream is over: the fan-out task, the bridge's queue and the
   pending table hold no sender of it, and all its events were read. *)
Ended(c) ==
  /\ todo[c] = <<>> /\ queue[c] = 0
  /\ JobsOf(c) \intersect (Range(cmds) \union pending) = {}

(* What an operator sees of a job is some of its chunks, in order, and then at
   most one terminal event: no second outcome from a reap, a purge or a late
   result, and nothing after it. *)
WellFormedStream ==
  \A j \in Jobs : \A m, n \in DOMAIN got[j] :
    m < n => /\ ~Terminal(got[j][m])
             /\ ~Terminal(got[j][n]) => got[j][m] < got[j][n]

Reported(c) == {j \in JobsOf(c) : got[j] # <<>> /\ Terminal(Last(got[j]))}

(* An operator that stays and keeps up learns the fate of every job: when the
   stream ends each has had its terminal event, and `osa exec` can only call it
   a success if every job ran to its own outcome on its host. *)
ReportedUnlessLagging ==
  \A c \in Calls : Ended(c) /\ open[c] /\ ~lagged[c] =>
    /\ Reported(c) = JobsOf(c)
    /\ MayExitZero(c) => \A j \in JobsOf(c) : sealed[j] = Chunks + 1

(* The operator is never left hanging: every stream ends, whatever the agents,
   the connections and the broker do. *)
StreamEnds == \A c \in Calls : <>Ended(c)

(* Comment of session.rs `open_uplink`: the uplink arrives in seq order. *)
UplinkInSeqOrder ==
  \A h \in Hosts : \A m, n \in DOMAIN up[h] :
    m < n /\ up[h][m].sid = up[h][n].sid => up[h][m].seq < up[h][n].seq
=============================================================================
