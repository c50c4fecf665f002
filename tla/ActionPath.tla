----------------------------- MODULE ActionPath -----------------------------
(* An operator's action from the bearer token to the child process: Access     *)
(* decides on the coordinator and once more on the agent, ChildProcess runs it. *)
(* How the decision travels between the two is Session's and Wire's.           *)
EXTENDS Access, ChildProcess

ASSUME SameHosts == DOMAIN AgentCreds = Hosts

vars == <<accessVars, childVars>>

Init == AccessInit /\ ChildInit

\* run_job and handle_shell_open: the allowlist, then a capability of that kind.
Backstop(h, kind, run_as) ==
  permits(load(h)[1], kind, run_as) /\ kind \in {"exec", "shell"}

\* The agent starts only with an allowlist it could read.
Runs(h) == load(h) # <<>>

\* The dispatch of an allowed and online host reaches its agent.  A shell is
\* opened for the kind "shell", whichever call asked for it.
Deliver(h) ==
  /\ call.st = "authorize" /\ h \in call.allowed \cap Online
  /\ call.req.method # "dispatch"
  /\ Runs(h) /\ task[h].st = "none"
  /\ IF Backstop(h, call.req.kind, call.req.run_as)
     THEN Spawn(h, call.req.kind, call.req.argv, call.req.run_as)
     ELSE Fail(h) /\ UNCHANGED proc
  /\ UNCHANGED accessVars

Next ==
  \/ AccessStep /\ UNCHANGED childVars
  \/ \E h \in Hosts : Deliver(h)
  \/ \E h \in Hosts : ChildStep(h) /\ UNCHANGED accessVars

\* Timers fire, the agent's tasks run, SIGKILL kills, the refresher's loop goes on;
\* and an outage of the issuer ends.
Fairness ==
  /\ \A h \in Hosts :
       /\ WF_vars(Agent(h) /\ UNCHANGED accessVars)
       /\ WF_vars(Dies(h) /\ UNCHANGED accessVars)
       /\ WF_vars(Timeout(h) /\ UNCHANGED accessVars)
  /\ WF_vars(Swap /\ UNCHANGED childVars)
  /\ SF_vars(Fetch /\ inflight'[1].doc # <<>> /\ UNCHANGED childVars)

Spec == Init /\ [][Next]_vars /\ Fairness

-----------------------------------------------------------------------------
(* Properties.                                                                 *)

\* The document whose keys the call was checked with.
TrustedDoc == IF coord.cli.jwks # <<>> THEN coord.cli.jwks[1] ELSE Documents[call.from]

\* The caller really is the subject: a token of the issuer, for this audience, in
\* its lifetime, signed with a public key of the document trusted at the time.
Authentic(tok) ==
  /\ \E k \in DOMAIN TrustedDoc.keys :
       TrustedDoc.keys[k].pub = tok.signer /\ TrustedDoc.keys[k].kty # "oct"
  /\ tok.claims.iss = Issuer /\ tok.claims.aud = Audience
  /\ tok.claims.exp + MAX_LEEWAY_SECS >= call.at
  /\ "nbf" \in DOMAIN tok.claims => tok.claims.nbf <= call.at + MAX_LEEWAY_SECS

\* The policy file and the host's allowlist both name the action.
Granted(h, subject, kind, run_as) ==
  /\ \E b \in coord.cli.policy[1].bindings :
       /\ b.subject = subject
       /\ {"*", kind} \cap b.verbs # {} /\ {"*", h} \cap b.selectors # {}
       /\ {"*", run_as} \cap b.run_as # {}
  /\ {"*", kind} \cap AllowlistFile[h][1].verbs # {}
  /\ {"*", run_as} \cap AllowlistFile[h][1].run_as # {}

\* The child is the user, wholly: no group or environment of the agent is left.
\* "" is the agent itself.
Is(h, run_as) ==
  IF run_as = "" THEN proc[h].creds = AgentCreds[h]
  ELSE /\ proc[h].creds = [uid |-> Passwd[run_as].uid, gid |-> Passwd[run_as].gid,
                           groups |-> {Passwd[run_as].gid}]
       /\ proc[h].env = "minimal"

\* Whatever program runs on a host was asked for by an authentic operator whom the
\* policy and the host's own allowlist permit that kind and user there, and has
\* exactly that user's identity: across key rotation, refused configurations, the
\* anonymous fallback, per-host decisions and half-dropped privileges
\* (JwtAuth::call, RbacPolicyEngine::authorize, LocalAllowlist::permits, pre_exec).
RunsOnlyAsGranted ==
  \A h \in Hosts : Alive(h) =>
    /\ call.req.auth # <<>> /\ Authentic(call.req.auth[1].token[1])
    /\ Granted(h, call.req.auth[1].token[1].claims.sub, call.req.kind, call.req.run_as)
    /\ Is(h, call.req.run_as)

\* A finished exec that is not flagged as truncated or timed out has delivered all
\* that was written to its two pipes, also by processes it left behind (stream).
OutputComplete ==
  \A h \in Hosts : task[h].st = "done" /\ ~task[h].truncated /\ ~task[h].timed_out =>
    task[h].got = proc[h].wrote

\* The program closed both its streams and runs on.
Detached(h) == task[h].st = "wait" /\ task[h].eof = Streams /\ Alive(h)

\* The agent waits only for a program that has ended, that it has killed (the timeout,
\* the output cap) or that has closed both streams itself, and gives a shell up only
\* with its process group gone and the shell killed (stream, ShellStream's drop,
\* kill_on_drop): no end of an action forgets a program that runs on.
NoneLeftRunning ==
  \A h \in Hosts :
    /\ task[h].st = "wait" => ~Alive(h) \/ proc[h].killed \/ Detached(h)
    /\ task[h].st = "done" => ~Alive(h)
    /\ task[h].st \in {"dropped", "failed"} /\ Started(h) =>
         ~proc[h].group /\ (~Alive(h) \/ proc[h].killed)

\* An exec ends, by its timeout at the latest, unless the program has closed both
\* streams: then only the program's own exit ends it (the timeout of `stream` covers
\* the pump, not the wait).
DeadlineHolds == \A h \in Hosts : Pumping(h, "exec") ~> task[h].st = "done" \/ Detached(h)

\* A shell whose session is dropped, or whose PTY could not be set up, is reaped and
\* leaves nothing of its process group (ShellStream's drop, kill_on_drop).
ShellLeavesNothing ==
  \A h \in Hosts :
    task[h].st \in {"dropped", "failed"} /\ Started(h) ~> proc[h].st = "reaped" /\ ~proc[h].group

\* Once the issuer has settled on a usable document, a coordinator that takes its
\* keys from the URL trusts exactly that document, whatever fetches failed before
\* (spawn_refresh).
RotationPickedUp ==
  coord.st = "up" /\ coord.cli.url # Unset /\ served = Len(Documents) ~> coord.from = Len(Documents)

=============================================================================
