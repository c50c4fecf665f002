---------------------------- MODULE ChildProcess ----------------------------
(* What a permitted action becomes on a host: a child process with the target  *)
(* user's identity, an exec's two output pipes and limits (exec.rs), or a      *)
(* shell on a PTY in a session of its own (pty.rs, ShellStream's drop).  The   *)
(* kernel and the program that is run are external.                            *)
(*                                                                             *)
(* Both callers of exec::stream keep their receiver until it returns, so       *)
(* PumpEnd::SinkClosed cannot happen and is left out.                          *)
EXTENDS Naturals, Sequences, FiniteSets

CONSTANTS
  Linux,            \* hosts where supplementary groups can be dropped
  AgentCreds,       \* host -> the agent's own [uid, gid, groups]; uid 0 is root
  Passwd,           \* user name -> [uid, gid]
  MAX_JOB_OUTPUT,   \* in chunks
  PIPE_BUF,         \* chunks a pipe holds
  MaxWrites         \* bound: chunks a program writes to one stream

ASSUME ChildAssumption ==
  /\ Linux \subseteq DOMAIN AgentCreds
  /\ \A h \in DOMAIN AgentCreds : AgentCreds[h] \in [uid : Nat, gid : Nat, groups : SUBSET Nat]
  /\ \A u \in DOMAIN Passwd : Passwd[u] \in [uid : Nat, gid : Nat]
  /\ {MAX_JOB_OUTPUT, PIPE_BUF, MaxWrites} \subseteq Nat /\ PIPE_BUF > 0

VARIABLES
  task,    \* host -> the agent's task that runs the action
  proc     \* host -> the child process and what it left behind

childVars == <<task, proc>>

Streams == {"stdout", "stderr"}
None == [s \in Streams |-> 0]

NoTask == [st |-> "none"]

NoProc == [st |-> "none"]

ChildInit ==
  /\ task = [h \in DOMAIN AgentCreds |-> NoTask]
  /\ proc = [h \in DOMAIN AgentCreds |-> NoProc]

-----------------------------------------------------------------------------
(* Before the program runs.                                                    *)

\* By name only; "" keeps the agent's own identity.  <<>>: no such user.
resolve_user(run_as) ==
  IF run_as = "" THEN <<"">> ELSE IF run_as \in DOMAIN Passwd THEN <<run_as>> ELSE <<>>

\* An identity can only be changed where all of it can be changed.
target_drop(h, user) == user = "" \/ h \in Linux

\* The order in which the child gives up the agent's identity.
drop_privileges(user) == IF user = "" THEN <<>> ELSE <<"setgid", "setgroups", "setuid">>

PreExecSteps(kind, user) ==
  (IF kind = "shell" THEN <<"setsid", "TIOCSCTTY">> ELSE <<>>) \o drop_privileges(user)

\* Without a target user the agent's environment is kept.
Environment(user) == IF user = "" THEN "agent" ELSE "minimal"

Fail(h) == task' = [task EXCEPT ![h] = [st |-> "failed"]]

\* exec::stream and PtySession::spawn up to the fork.  A lookup may fail, and so
\* may opening a PTY.
Spawn(h, kind, argv, run_as) ==
  LET user == resolve_user(run_as)
  IN /\ task[h].st = "none"
     /\ \/ /\ kind = "exec" => argv # <<>>
           /\ user # <<>> /\ target_drop(h, user[1])
           /\ task' = [task EXCEPT ![h] = [st |-> "fork", kind |-> kind]]
           /\ proc' = [proc EXCEPT ![h] =
                [st |-> "pre", user |-> user[1], todo |-> PreExecSteps(kind, user[1]),
                 creds |-> AgentCreds[h], env |-> Environment(user[1]), isolated |-> {},
                 held |-> {}, heirs |-> {}, group |-> FALSE, killed |-> FALSE, wrote |-> None]]
        \/ Fail(h) /\ UNCHANGED proc

\* The system calls of pre_exec: the identity can be changed by root, or to itself.
Allowed(p, step) ==
  \/ step \in {"setsid", "TIOCSCTTY"}
  \/ p.creds.uid = 0
  \/ step = "setgid" /\ p.creds.gid = Passwd[p.user].gid
  \/ step = "setuid" /\ p.creds.uid = Passwd[p.user].uid

Did(p, step) ==
  LET u == Passwd[p.user]
      q == [p EXCEPT !.todo = Tail(@)]
  IN CASE step = "setgid" -> [q EXCEPT !.creds.gid = u.gid]
       [] step = "setgroups" -> [q EXCEPT !.creds.groups = {u.gid}]
       [] step = "setuid" -> [q EXCEPT !.creds.uid = u.uid]
       [] OTHER -> [q EXCEPT !.isolated = @ \cup {step}]

\* One of them fails: the program is not run, and spawn returns the error.
Abort(h) ==
  /\ proc[h].st = "pre"
  /\ Fail(h)
  /\ proc' = [proc EXCEPT ![h] = NoProc]

PreExec(h) ==
  /\ proc[h].st = "pre" /\ proc[h].todo # <<>>
  /\ Allowed(proc[h], Head(proc[h].todo))
  /\ proc' = [proc EXCEPT ![h] = Did(@, Head(@.todo))]
  /\ UNCHANGED task

Pump(kind) ==
  [st |-> "pump", kind |-> kind, eof |-> {}, got |-> None, truncated |-> FALSE, timed_out |-> FALSE]

Exec(h) ==
  /\ proc[h].st = "pre" /\ proc[h].todo = <<>>
  /\ proc' = [proc EXCEPT ![h].st = "running", ![h].held = Streams]
  /\ task' = [task EXCEPT ![h] = Pump(@.kind)]

\* The shell runs but its master cannot be prepared: the child handle is dropped,
\* and kill_on_drop kills the shell.
MasterFails(h) ==
  /\ proc[h].st = "pre" /\ proc[h].todo = <<>> /\ task[h].kind = "shell"
  /\ proc' = [proc EXCEPT ![h].st = "running", ![h].killed = TRUE]
  /\ Fail(h)

-----------------------------------------------------------------------------
(* The program.                                                                *)

Alive(h) == proc[h].st = "running"
Started(h) == proc[h].st \in {"running", "zombie", "reaped"}

\* Who holds the write end of a pipe (or the PTY slave).
Holders(h, s) == s \in proc[h].held \/ s \in proc[h].heirs

Write(h, s) ==
  /\ Started(h) /\ Holders(h, s)
  /\ task[h].st = "pump" /\ task[h].kind = "exec"
  /\ proc[h].wrote[s] < MaxWrites
  /\ proc[h].wrote[s] - task[h].got[s] < PIPE_BUF
  /\ proc' = [proc EXCEPT ![h].wrote[s] = @ + 1]
  /\ UNCHANGED task

CloseStream(h, s) ==
  /\ Alive(h) /\ s \in proc[h].held
  /\ proc' = [proc EXCEPT ![h].held = @ \ {s}]
  /\ UNCHANGED task

\* A process that outlives the program and keeps its streams.
Background(h) ==
  /\ Alive(h) /\ proc[h].heirs = {} /\ proc[h].held # {}
  /\ proc' = [proc EXCEPT ![h].heirs = proc[h].held]
  /\ UNCHANGED task

HeirEnds(h) ==
  /\ Started(h) /\ proc[h].heirs # {}
  /\ proc' = [proc EXCEPT ![h].heirs = {}]
  /\ UNCHANGED task

\* A shell starts a command in its own process group, as a shell without job
\* control does; the jobs of an interactive one get groups of their own, which
\* kill(-pid) does not reach and which are not modelled.
StartCommand(h) ==
  /\ Alive(h) /\ task[h].st = "pump" /\ task[h].kind = "shell" /\ ~proc[h].group
  /\ proc' = [proc EXCEPT ![h].group = TRUE]
  /\ UNCHANGED task

CommandEnds(h) ==
  /\ Started(h) /\ proc[h].group
  /\ proc' = [proc EXCEPT ![h].group = FALSE]
  /\ UNCHANGED task

Ends(p) == [p EXCEPT !.st = "zombie", !.held = {}]

Exit(h) ==
  /\ Alive(h)
  /\ proc' = [proc EXCEPT ![h] = Ends(@)]
  /\ UNCHANGED task

\* SIGKILL takes effect.
Dies(h) ==
  /\ Alive(h) /\ proc[h].killed
  /\ proc' = [proc EXCEPT ![h] = Ends(@)]
  /\ UNCHANGED task

-----------------------------------------------------------------------------
(* exec::stream: the pump, under the timeout, then the wait.                   *)

Pumping(h, kind) == task[h].st = "pump" /\ task[h].kind = kind

\* start_kill signals the child alone.
start_kill(p) == [p EXCEPT !.killed = TRUE]

Total(t) == t.got["stdout"] + t.got["stderr"]

\* A chunk goes to the sink before the cap is looked at.
ReadChunk(h, s) ==
  /\ Pumping(h, "exec") /\ s \notin task[h].eof
  /\ proc[h].wrote[s] > task[h].got[s]
  /\ LET t == [task[h] EXCEPT !.got[s] = @ + 1]
     IN IF Total(t) > MAX_JOB_OUTPUT
        THEN /\ task' = [task EXCEPT ![h] = [t EXCEPT !.st = "wait", !.truncated = TRUE]]
             /\ proc' = [proc EXCEPT ![h] = start_kill(@)]
        ELSE task' = [task EXCEPT ![h] = t] /\ UNCHANGED proc

MutPumpDoneEither(eof) == eof # {}

\* The pump ends when both pipes have.
PumpDone(eof) == eof = Streams

\* A pipe ends when nobody holds its write end; the child is not killed then.
\* (A read that fails ends it too; reads of an open pipe are taken not to fail.)
ReadEof(h, s) ==
  /\ Pumping(h, "exec") /\ s \notin task[h].eof
  /\ proc[h].wrote[s] = task[h].got[s] /\ ~Holders(h, s)
  /\ LET eof == task[h].eof \cup {s}
     IN task' = [task EXCEPT ![h].eof = eof, ![h].st = IF PumpDone(eof) THEN "wait" ELSE "pump"]
  /\ UNCHANGED proc

MutTimeout(h) ==
  /\ Pumping(h, "exec")
  /\ task' = [task EXCEPT ![h].st = "wait", ![h].timed_out = TRUE]
  /\ UNCHANGED proc

Timeout(h) ==
  /\ Pumping(h, "exec")
  /\ task' = [task EXCEPT ![h].st = "wait", ![h].timed_out = TRUE]
  /\ proc' = [proc EXCEPT ![h] = start_kill(@)]

\* child.wait, which no deadline covers.
Wait(h) ==
  /\ task[h].st = "wait" /\ proc[h].st = "zombie"
  /\ task' = [task EXCEPT ![h].st = "done"]
  /\ proc' = [proc EXCEPT ![h].st = "reaped"]

-----------------------------------------------------------------------------
(* The shell's session: it ends when the operator closes it, the connection    *)
(* goes or the master reads EOF (EIO is EOF).                                  *)

MutKilledAlone(p) == start_kill(p)

\* SIGKILL to the process group, and to the shell itself.
KillGroup(p) == [start_kill(p) EXCEPT !.group = FALSE]

Drop(h) ==
  /\ Pumping(h, "shell")
  /\ task' = [task EXCEPT ![h].st = "dropped"]
  /\ proc' = [proc EXCEPT ![h] = KillGroup(@)]

\* kill_on_drop: the runtime reaps what was dropped.
ReapDropped(h) ==
  /\ task[h].st \in {"dropped", "failed"} /\ proc[h].st = "zombie"
  /\ proc' = [proc EXCEPT ![h].st = "reaped"]
  /\ UNCHANGED task

Agent(h) ==
  \/ \E s \in Streams : ReadChunk(h, s) \/ ReadEof(h, s)
  \/ Wait(h) \/ ReapDropped(h)

Kernel(h) == PreExec(h) \/ Exec(h) \/ Dies(h)

Program(h) ==
  \/ \E s \in Streams : Write(h, s) \/ CloseStream(h, s)
  \/ Background(h) \/ HeirEnds(h) \/ StartCommand(h) \/ CommandEnds(h) \/ Exit(h)

ChildStep(h) ==
  \/ Abort(h) \/ MasterFails(h) \/ Kernel(h)
  \/ Program(h) \/ Agent(h) \/ Timeout(h) \/ Drop(h)

=============================================================================
