------------------------------- MODULE Session -------------------------------
(***************************************************************************)
(* The authenticated session between one agent and the coordinator.        *)
(*                                                                         *)
(* Agent side: control_channel.rs `run` / `on_publish` and session.rs      *)
(* (durable epoch, ClientHello, ServerHello, sealed control channel).      *)
(* Coordinator side: broker.rs `handle_client_hello`, `handle_ctrl_ack`,   *)
(* the session half of `handle_command` and `handle_result`, session.rs    *)
(* and epoch.rs.                                                           *)
(*                                                                         *)
(* The broker between them is the untrusted one the code is written for:   *)
(* `net` holds every message ever published, and a message of `net` may be *)
(* delivered never, late, twice, or in another order.  Cryptography is     *)
(* symbolic: a ServerHello or an envelope of `net` was signed or sealed by *)
(* its sender, and an envelope opens only under the key <<sid, eph>> that  *)
(* sealed it.  A host's coordinator state depends on other hosts only      *)
(* through the session cap, which is a nondeterministic refusal here.      *)
(***************************************************************************)
EXTENDS Integers, FiniteSets

CONSTANTS
  MaxEpoch,       \* the largest session epoch (u64::MAX in the code)
  MaxEph,         \* bound: sessions the coordinator may mint
  MaxJobs,        \* bound: dispatches the operator may send
  MaxResults,     \* bound: result envelopes the agent may seal
  DurableEpochs   \* TRUE: PgEpochs; FALSE: the in-memory EpochRegistry

ASSUME BoundsAssumption ==
  /\ MaxEpoch \in Nat
  /\ MaxEph \in Nat
  /\ MaxJobs \in Nat
  /\ MaxResults \in Nat
ASSUME StoreAssumption == DurableEpochs \in BOOLEAN

VARIABLES
  epochSeen,  \* the agent's epoch file, as a running system reads it
  epochDisk,  \* the epoch file as a power loss would leave it
  conn,       \* "down", "epoch" (inside next_epoch, after the rename) or "up"
  hs,         \* the sid of the handshake in flight (0: `handshaking` is None)
  est,        \* the agent's Established session
  nSid,       \* sids the agent has minted so far
  sess,       \* the coordinator's Session for this host
  hello,      \* the ClientHello the bridge task is working on
  high,       \* the host's session-epoch high-water mark
  revoked,    \* the host is in the revocation store
  nEph,       \* server ephemerals minted so far
  nJobs,      \* dispatches sealed so far
  nResults,   \* results sealed so far
  starts,     \* starts[j]: how often the agent accepted dispatch j
  delivered,  \* delivered[r]: how often the coordinator accepted result r
  net         \* every message ever published

agentVars == <<epochSeen, epochDisk, conn, hs, est, nSid>>
coordVars == <<sess, hello, high, revoked, nEph>>
jobVars   == <<nJobs, nResults, starts, delivered>>
vars == <<agentVars, coordVars, jobVars, net>>

-----------------------------------------------------------------------------
(* Messages and sessions *)

ClientHello(sid, epoch) == [t |-> "hello", sid |-> sid, epoch |-> epoch]
ServerHello(sid, eph)   == [t |-> "shello", sid |-> sid, eph |-> eph]

(* A sealed envelope: direction, the key it was sealed under, its seq (the
   AEAD nonce) and its payload (`id` tells dispatches and results apart). *)
Envelope(dir, s, body, id) ==
  [t |-> "env", dir |-> dir, sid |-> s.sid, eph |-> s.eph,
   seq |-> s.seq, body |-> body, id |-> id]

Hellos       == {m \in net : m.t = "hello"}
ServerHellos == {m \in net : m.t = "shello"}
Envelopes    == {m \in net : m.t = "env"}

(* One end of a session: the key, the next seq to seal with, and the highest
   seq accepted from the peer (-1: none yet).  sid 0: no session. *)
NoSession == [sid |-> 0, eph |-> 0, seq |-> 0, high |-> -1]
NewSession(sid, eph) == [sid |-> sid, eph |-> eph, seq |-> 0, high |-> -1]
Live(s) == s.sid # 0

(* seal_uplink / seal_downlink: the next envelope and the session after it. *)
Sealed(s) == [s EXCEPT !.seq = @ + 1]

(* open_uplink / open_downlink: authenticate under this session's key, then
   the strict high-water replay guard. *)
Opens(s, m) == Live(s) /\ m.sid = s.sid /\ m.eph = s.eph
\* mutant of Fresh: a repeat of the highest seq passes the guard
MutFreshNotStrict(s, m) == m.seq >= s.high
Fresh(s, m) == m.seq > s.high
Accepts(s, m) == Opens(s, m) /\ Fresh(s, m)
Accepted(s, m) == [s EXCEPT !.high = m.seq]

IdleHello == [stage |-> "idle", sid |-> 0, epoch |-> 0]
BridgeIdle == hello.stage = "idle"

-----------------------------------------------------------------------------
Init ==
  /\ epochSeen = 0 /\ epochDisk = 0
  /\ conn = "down" /\ hs = 0 /\ est = NoSession /\ nSid = 0
  /\ sess = NoSession /\ hello = IdleHello /\ high = 0
  /\ revoked = FALSE /\ nEph = 0
  /\ nJobs = 0 /\ nResults = 0
  /\ starts = [j \in 1..MaxJobs |-> 0]
  /\ delivered = [r \in 1..MaxResults |-> 0]
  /\ net = {}

-----------------------------------------------------------------------------
(* Agent *)

(* ConnAck: next_epoch reads the file, adds one and renames the new file into
   place.  The directory is not yet synced. *)
ConnAck ==
  /\ conn = "down"
  /\ epochSeen < MaxEpoch
  /\ epochSeen' = epochSeen + 1
  /\ conn' = "epoch"
  /\ UNCHANGED <<epochDisk, hs, est, nSid, coordVars, jobVars, net>>

(* next_epoch fails before the rename (overflow, unreadable or unwritable
   file): connected, but no handshake is started on this connection. *)
ConnAckNoEpoch ==
  /\ conn = "down"
  /\ conn' = "up"
  /\ UNCHANGED <<epochSeen, epochDisk, hs, est, nSid, coordVars, jobVars, net>>

\* mutant of BeginHandshake: the hello is sent before the epoch is durable
MutBeginHandshakeUnsynced ==
  /\ conn = "epoch"
  /\ conn' = "up"
  /\ nSid' = nSid + 1
  /\ hs' = nSid + 1
  /\ net' = net \union {ClientHello(nSid + 1, epochSeen)}
  /\ UNCHANGED <<epochSeen, epochDisk, est, coordVars, jobVars>>

(* The directory fsync makes the epoch durable, next_epoch returns it, and
   begin_handshake subscribes and publishes a signed ClientHello. *)
BeginHandshake ==
  /\ conn = "epoch"
  /\ epochDisk' = epochSeen
  /\ conn' = "up"
  /\ nSid' = nSid + 1
  /\ hs' = nSid + 1
  /\ net' = net \union {ClientHello(nSid + 1, epochSeen)}
  /\ UNCHANGED <<epochSeen, est, coordVars, jobVars>>

(* The epoch is burnt but no ClientHello leaves the agent: the directory
   fsync failed, or a try_subscribe / try_publish did. *)
BeginHandshakeFails ==
  /\ conn = "epoch"
  /\ epochDisk' \in {epochDisk, epochSeen}
  /\ conn' = "up"
  /\ UNCHANGED <<epochSeen, hs, est, nSid, coordVars, jobVars, net>>

\* mutant of OnServerHello: the handshake in flight is borrowed, not taken
MutOnServerHelloKeeps(m) ==
  /\ conn = "up"
  /\ hs # 0
  /\ est' = IF m.sid = hs THEN NewSession(m.sid, m.eph) ELSE est
  /\ UNCHANGED <<epochSeen, epochDisk, conn, hs, nSid, coordVars, jobVars, net>>

(* on_publish, hs_down: the handshake in flight is taken first; a ServerHello
   for another sid is rejected and the handshake is gone all the same.  With no
   handshake in flight the message is ignored. *)
OnServerHello(m) ==
  /\ conn = "up"
  /\ hs # 0
  /\ hs' = 0
  /\ est' = IF m.sid = hs THEN NewSession(m.sid, m.eph) ELSE est
  /\ UNCHANGED <<epochSeen, epochDisk, conn, nSid, coordVars, jobVars, net>>

(* on_publish, ctrl_down: open the session-ready beacon and publish the ack. *)
OnBeacon(m) ==
  /\ conn = "up"
  /\ Accepts(est, m)
  /\ est' = Sealed(Accepted(est, m))
  /\ net' = net \union {Envelope("up", est, "ack", 0)}
  /\ UNCHANGED <<epochSeen, epochDisk, conn, hs, nSid, coordVars, jobVars>>

(* on_publish, dispatch_down: open the dispatch and hand it to a job. *)
OnDispatch(m) ==
  /\ conn = "up"
  /\ Accepts(est, m)
  /\ est' = Accepted(est, m)
  /\ starts' = [starts EXCEPT ![m.id] = @ + 1]
  /\ UNCHANGED <<epochSeen, epochDisk, conn, hs, nSid, coordVars,
                 nJobs, nResults, delivered, net>>

(* A job task of the live session seals a result and publishes it. *)
SealResult ==
  /\ conn = "up" /\ Live(est)
  /\ \E m \in Envelopes : m.body = "job" /\ Opens(est, m) /\ starts[m.id] > 0
  /\ nResults < MaxResults
  /\ nResults' = nResults + 1
  /\ est' = Sealed(est)
  /\ net' = net \union {Envelope("up", est, "result", nResults + 1)}
  /\ UNCHANGED <<epochSeen, epochDisk, conn, hs, nSid, coordVars,
                 nJobs, starts, delivered>>

(* poll returns an error: the connection's handshake and session are dropped,
   and the loop reconnects after its backoff. *)
Disconnect ==
  /\ conn = "up"
  /\ conn' = "down"
  /\ hs' = 0
  /\ est' = NoSession
  /\ UNCHANGED <<epochSeen, epochDisk, nSid, coordVars, jobVars, net>>

(* The agent process dies.  A power loss may also undo a rename whose
   directory was not yet synced. *)
AgentCrash ==
  /\ conn' = "down"
  /\ hs' = 0
  /\ est' = NoSession
  /\ \/ UNCHANGED <<epochSeen, epochDisk>>
     \/ /\ epochSeen' \in {epochSeen, epochDisk}
        /\ epochDisk' = epochSeen'
  /\ UNCHANGED <<nSid, coordVars, jobVars, net>>

-----------------------------------------------------------------------------
(* Coordinator: the bridge is one task, so while a ClientHello is in progress
   (it awaits two stores) nothing else of the bridge runs. *)

\* mutant of HelloAllowed: the revocation store is not asked
MutHelloAllowedRevoked(m) == m.sid # sess.sid
(* handle_client_hello up to the revocation answer. *)
HelloAllowed(m) == m.sid # sess.sid /\ ~revoked
CheckHello(m) ==
  /\ BridgeIdle
  /\ HelloAllowed(m)
  /\ hello' = [stage |-> "checked", sid |-> m.sid, epoch |-> m.epoch]
  /\ UNCHANGED <<agentVars, sess, high, revoked, nEph, jobVars, net>>

\* mutants of Admissible: an equal epoch, any other epoch, or only the very
\* next one is admitted
MutAdmissibleEqual(epoch) == epoch >= high
MutAdmissibleOlder(epoch) == epoch # high
MutAdmissibleNext(epoch) == epoch = high + 1
(* Epochs::admit: one atomic check-and-set. *)
Admissible(epoch) == epoch > high
AdmitEpoch ==
  /\ hello.stage = "checked"
  /\ Admissible(hello.epoch)
  /\ high' = hello.epoch
  /\ hello' = [hello EXCEPT !.stage = "admitted"]
  /\ UNCHANGED <<agentVars, sess, revoked, nEph, jobVars, net>>

(* Every early return after the revocation check: bad signature, stale epoch,
   a store error (even one after the UPSERT committed), the session cap. *)
AbortHello ==
  /\ ~BridgeIdle
  /\ hello' = IdleHello
  /\ UNCHANGED <<agentVars, sess, high, revoked, nEph, jobVars, net>>

(* SessionStore::insert, then ServerHello, then the beacon sealed at seq 0. *)
InsertSession ==
  /\ hello.stage = "admitted"
  /\ nEph < MaxEph
  /\ nEph' = nEph + 1
  /\ hello' = IdleHello
  /\ LET s == NewSession(hello.sid, nEph + 1)
     IN  /\ sess' = Sealed(s)
         /\ net' = net \union {ServerHello(s.sid, s.eph), Envelope("down", s, "ready", 0)}
  /\ UNCHANGED <<agentVars, high, revoked, jobVars>>

(* The same, but publishing the ServerHello fails: the session stays in the
   store and the beacon is not sealed. *)
InsertSessionUnannounced ==
  /\ hello.stage = "admitted"
  /\ nEph < MaxEph
  /\ nEph' = nEph + 1
  /\ hello' = IdleHello
  /\ sess' = NewSession(hello.sid, nEph + 1)
  /\ UNCHANGED <<agentVars, high, revoked, jobVars, net>>

(* handle_command, Dispatch, with a live session. *)
SendDispatch ==
  /\ BridgeIdle /\ Live(sess)
  /\ nJobs < MaxJobs
  /\ nJobs' = nJobs + 1
  /\ sess' = Sealed(sess)
  /\ net' = net \union {Envelope("down", sess, "job", nJobs + 1)}
  /\ UNCHANGED <<agentVars, hello, high, revoked, nEph, nResults, starts, delivered>>

(* handle_ctrl_ack. *)
OnAck(m) ==
  /\ BridgeIdle
  /\ Accepts(sess, m)
  /\ sess' = Accepted(sess, m)
  /\ UNCHANGED <<agentVars, hello, high, revoked, nEph, jobVars, net>>

(* handle_result, up to handing the opened result to the operator's stream. *)
OnResult(m) ==
  /\ BridgeIdle
  /\ Accepts(sess, m)
  /\ sess' = Accepted(sess, m)
  /\ delivered' = [delivered EXCEPT ![m.id] = @ + 1]
  /\ UNCHANGED <<agentVars, hello, high, revoked, nEph, nJobs, nResults, starts, net>>

(* service.rs revoke: records the host; a live session is left alone. *)
Revoke ==
  /\ ~revoked
  /\ revoked' = TRUE
  /\ UNCHANGED <<agentVars, sess, hello, high, nEph, jobVars, net>>

\* mutant of CoordRestart: the high-water mark does not survive
MutCoordRestartForgets ==
  /\ sess' = NoSession
  /\ hello' = IdleHello
  /\ high' = 0
  /\ UNCHANGED <<agentVars, revoked, nEph, jobVars, net>>

(* The coordinator restarts: sessions and the hello in progress are gone; the
   revocations and, with Postgres, the epochs survive. *)
CoordRestart ==
  /\ sess' = NoSession
  /\ hello' = IdleHello
  /\ high' = IF DurableEpochs THEN high ELSE 0
  /\ UNCHANGED <<agentVars, revoked, nEph, jobVars, net>>

-----------------------------------------------------------------------------
Down(body) == {m \in Envelopes : m.dir = "down" /\ m.body = body}
Up(body)   == {m \in Envelopes : m.dir = "up" /\ m.body = body}

AgentNext ==
  \/ ConnAck \/ ConnAckNoEpoch \/ BeginHandshake \/ BeginHandshakeFails
  \/ \E m \in ServerHellos : OnServerHello(m)
  \/ \E m \in Down("ready") : OnBeacon(m)
  \/ \E m \in Down("job") : OnDispatch(m)
  \/ SealResult
  \/ Disconnect \/ AgentCrash

CoordNext ==
  \/ \E m \in Hellos : CheckHello(m)
  \/ AdmitEpoch \/ AbortHello \/ InsertSession \/ InsertSessionUnannounced
  \/ SendDispatch
  \/ \E m \in Up("ack") : OnAck(m)
  \/ \E m \in Up("result") : OnResult(m)
  \/ Revoke \/ CoordRestart

Next == AgentNext \/ CoordNext

Spec == Init /\ [][Next]_vars

-----------------------------------------------------------------------------
(* Properties *)

SessionType == [sid : Nat, eph : Nat, seq : Nat, high : Int]
HelloMsg    == [t : {"hello"}, sid : Nat, epoch : Nat]
ShelloMsg   == [t : {"shello"}, sid : Nat, eph : Nat]
EnvMsg      == [t : {"env"}, dir : {"up", "down"}, sid : Nat, eph : Nat,
                seq : Nat, body : {"ready", "ack", "job", "result"}, id : Nat]

HelloState  == [stage : {"idle", "checked", "admitted"}, sid : Nat, epoch : Nat]

(* The type of every piece of state. *)
TypeOK ==
  /\ epochSeen \in 0..MaxEpoch /\ epochDisk \in 0..MaxEpoch
  /\ conn \in {"down", "epoch", "up"}
  /\ hs \in Nat /\ nSid \in Nat
  /\ est \in SessionType /\ sess \in SessionType
  /\ hello \in HelloState
  /\ high \in Nat /\ revoked \in BOOLEAN
  /\ nEph \in 0..MaxEph /\ nJobs \in 0..MaxJobs /\ nResults \in 0..MaxResults
  /\ starts \in [1..MaxJobs -> Nat]
  /\ delivered \in [1..MaxResults -> Nat]
  /\ net \subseteq (HelloMsg \union ShelloMsg \union EnvMsg)

(* No two different payloads are ever sealed under the same key, direction and
   seq (the AES-GCM nonce): the caller contract of SessionKeys::seal.  It rests
   on the handshake being consumed by its ServerHello and on a fresh server
   ephemeral per session, not only on the seq counters. *)
NonceUnique ==
  \A e, f \in Envelopes :
    (e.dir = f.dir /\ e.sid = f.sid /\ e.eph = f.eph /\ e.seq = f.seq) => e = f

(* next_epoch: no two ClientHellos of a host carry the same epoch, and a later
   one carries a greater one, whatever crashes or power losses hit the agent
   between the rename, the directory fsync and the publish. *)
EpochNeverReused ==
  \A m, n \in Hellos : m.sid < n.sid => m.epoch < n.epoch

(* Whenever agent and coordinator both hold a session, they hold the same one
   (same sid, same key): replays, reconnects, crashes and coordinator restarts
   never leave the two ends keyed differently.  Needs the durable high-water. *)
BothEndsAgree ==
  DurableEpochs =>
    (Live(est) /\ Live(sess) => est.sid = sess.sid /\ est.eph = sess.eph)

(* A ClientHello yields at most one session, even replayed after the session
   ended or the coordinator restarted (anti-resurrection, epoch.rs). *)
OneSessionPerHello ==
  DurableEpochs =>
    \A m, n \in ServerHellos : m.sid = n.sid => m = n

(* The coordinator never replaces a live session by one of an older handshake
   of the agent. *)
NeverReplacedByOlder ==
  [][DurableEpochs /\ Live(sess) /\ Live(sess') => sess'.sid >= sess.sid]_vars

(* Each dispatch is accepted by the agent at most once and each result by the
   coordinator at most once, whatever the broker replays. *)
NoReplay ==
  /\ \A j \in 1..MaxJobs : starts[j] <= 1
  /\ \A r \in 1..MaxResults : delivered[r] <= 1

(* Once a host is revoked and no ClientHello of it is past the revocation
   check, no new session is ever minted for it, whatever is replayed. *)
RevocationSticks ==
  \A n \in 0..MaxEph :
    [](revoked /\ BridgeIdle /\ nEph = n => [](nEph = n))
=============================================================================
