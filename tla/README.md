# TLA+ verification of open-ssm-agent

open-ssm-agent runs commands and interactive shells on fleets of hosts. An
*agent* on every host dials out to a *coordinator* over MQTT; the broker is
embedded in the coordinator's process but treated as untrusted, so agent and
coordinator authenticate each other and seal everything end to end. Operators
talk gRPC to the coordinator.

## Inventory

| Component | Source | State | Operations | Hard behaviour | Correct when |
|---|---|---|---|---|---|
| Agent session | `osa-agent/src/control_channel.rs`, `session.rs` | epoch file, handshake in flight, `Established` (keys, send seq, receive high-water) | connect, begin handshake, ServerHello, beacon, dispatch, disconnect | crash between rename and fsync, late ServerHello, replay | epochs never repeat, nonces never repeat, nothing replayed |
| Coordinator session | `osa-coordinator/src/broker.rs`, `session.rs`, `epoch.rs`, `revocation.rs` | one session per host, epoch high-water, revocations | ClientHello (awaits two stores), ack, dispatch, result, revoke, restart | awaits in the handler, replay across restarts, publish failure after insert | both ends hold the same key, one session per hello, revocation holds |
| Job runner | `osa-agent/src/dispatch.rs`, `jobstore.rs`, `exec.rs` | claims, permits, one record per job on disk | deliver, claim, look up, mark, spawn, record, reply, prune | redelivery, crash and power loss between any two steps, store errors | a job runs at most once and answers are truthful |
| Exec fan-out | `service.rs` `exec`, `broker.rs` pending jobs | command queue, pending table, one event queue per call | fan out, dispatch, result, purge, reap | full queues, reconnect, deadline against late answer, shared uplink | every stream ends, well formed, every host reported |
| Interactive shell | `shell_stream.rs`, `broker.rs` shells, `service.rs` `shell` | stream keys and seqs, used ids, route per host | open, input, close, output, eof | a second operator, eof against a full queue, silent refusal, reconnect | no cross-talk, both sides close |
| Audit log | `osa-core/src/audit.rs`, `audit_log.rs`, `service.rs` `authorize_and_audit` | hash chain, a lock per replica and one in the database | decide, append, act, export, verify | concurrent appenders, dropped calls, lost COMMIT answers | never forks, always verifies, nothing done unaudited |
| Enrollment | `token.rs`, `ca.rs`, `revocation.rs`, `enroll.rs`, `service.rs` | tokens, the CA's row, revocations, four files on the host | mint, redeem, issue, persist, renew, revoke, start a replica | concurrent redemption, crash between files, renewal against re-enrolment | a token enrols one host; one CA; key and certificate match |
| Inventory and NetBox sync | `inventory.rs` (agent), `netbox.rs`, `broker.rs` `inventory_slots` | permits, lock and last hash per host, NetBox's rows | collect, shed, dedup, match, reconcile, finalize, delete, retry | concurrent snapshots, lost answers, failure half-way, two hosts with one serial | no device stolen, no duplicate row, no dangling primary, permits return |
| Authorization | `policy.rs`, `allowlist.rs`, `backstop.rs`, both `auth.rs`, `jwks.rs`, `osa-coordinator/src/main.rs` | options, bindings, signing keys, allowlist | start, fetch, swap, intercept, validate, resolve, authorize, permit | partial configurations, rotation against calls in flight, failing fetches, empty lists | nothing runs that was not granted; new keys are picked up |
| Process execution, PTY | `exec.rs`, `pty.rs`, `shell_stream.rs` `drop` | child, pipes, limits, process group | spawn, pre-exec steps, pump, kill, wait, drop | background children, timeout against exit, half-dropped privileges | the target user wholly, complete output, deadline, nothing left behind |
| Wire protection | `handshake.rs`, `seal.rs`, `wire.rs`, `topics.rs`, `ca.rs` `verify_host_cert` | keys of each side, counters | hello, respond, finish, seal, open, subkeys | an untrusted broker that redirects, replays and splices | keys agree, envelopes open only where they belong, nonces once |
| Operator CLI | `osa-cli/src/main.rs` | counts of outcomes and failures | exit status of `exec` | an incomplete stream | no success that did not happen |
| Reorder buffer | `osa-core/src/stream.rs` | next, window | accept, reset | window edges, u64::MAX | in order, exactly once (not called by the program) |

Interactions. One *bridge task* in the coordinator owns sessions, pending jobs
and shell routes; it receives broker messages through a bounded queue that
sheds when full (`forward_events`) and operator commands through another
(`BridgeCommand`). It never waits on an operator: events are `try_send`.
On the agent one event loop handles the connection; jobs are tasks of their
own that share the session's uplink counter and outlive the connection.

`PROJECT.json` lists the hazards line by line with the properties that cover
them.

## Plan

Modelled, in this order: `Session` with `HandshakeFifo`; `JobRunner` with its
`JobContract`; `ExecStream`; `Shell`; `AuditLog` with its `AuditContract`;
`Enrollment`; `Netbox`; `Access` and `ChildProcess`, composed by `ActionPath`;
`Wire`. Proved: the safety of all of them and the three refinements
(see Proofs).

## Modules

### Session
One agent, the coordinator and every message ever published (`net`). A message
of `net` may be delivered at any time, any number of times or never, which is
what the code assumes of its broker. Cryptography is symbolic: an envelope
opens only under the key `<<sid, eph>>` that sealed it, a ServerHello is the
coordinator's. Messages an outsider invents fail authentication and change
nothing, so they are left out. `epochSeen`/`epochDisk` are the epoch file as a
running system reads it and as a power loss leaves it; `ConnAck` ends at the
rename, `BeginHandshake` contains the directory fsync. `handle_client_hello` is
cut at its two awaits: `CheckHello` (up to the revocation answer), `AdmitEpoch`,
`InsertSession`. While it waits, the bridge handles nothing else
(`BridgeIdle`), but the agent moves, the operator revokes and the coordinator
may restart. Other hosts matter only through the session cap, which is one of
the refusals of `AbortHello`. `DurableEpochs` chooses between `PgEpochs` and
the in-memory registry, whose loss at a restart is documented in `epoch.rs`;
the properties that need durability say so.

### HandshakeFifo
The same actions, with messages taken from queues: one FIFO to the bridge, one
per downlink topic that exists while the connection holds its subscriptions.
Nothing is lost here; it is the setting in which a handshake ought to complete.
It implements `Session` (`OrderlyIsAllowed`): what a queue hands over was published,
and on the topic it is handled for.

### JobContract and JobRunner
`JobContract` is the promise: a job goes from fresh to running to ended (or is
lost sight of) once; a reported exit status is that of the only run; a failure
is reported only of a job that is not running. `JobRunner` is `run_job`, one
action per point at which another thread or a crash can get in. A durable write
is two steps (rename; directory fsync). `Restart` follows a power loss, which keeps
for every record either what was visible or what was synced, or the crash of the
process alone, which keeps both as they are; then it prunes. The outcome's wording
is abstracted to `Failed`, the exit status to `Exits`.

### ExecStream
The fan-out task (`todo`), the bridge's command queue and pending table, the
agents' job tasks and uplink, and the operators' event queues. `Seal` and
`HandOver` are separate because `seal_uplink` and `results.send().await` are.
`got` records what reached each job's stream. Which jobs of a sweep or purge
still find room is open (hash map order). `plan`, chosen at the start, says which
calls there are and on which hosts. `MayExitZero` is how `osa exec` turns the
stream into its exit status.

A refused host whose error event meets a full queue is not reported, and the CLI
may then exit with 0 for the hosts it heard of: `ReportedUnlessLagging` therefore
speaks of operators that keep up.

### Shell
Two operators' calls on one host, the coordinator's one route for the host
(`route`), the agent's one stream (`active`) and its PTYs. A frame is sealed
under the pair of session and stream id. `down` keeps the order of messages
within a topic and not between the two, so a close may overtake its open; `up`
may be shed. `seen` and `fed` record what reached each operator and each PTY;
`NoCrossTalk` is about them. `NoOrphanShell` relates the PTYs to the agent's stream:
every way in which the stream is replaced, closed or cut off kills its shell.

### AuditContract and AuditLog
`AuditContract` is the port: a sequence that grows by one record of a call at a
time; the in-memory adapter does just that. `AuditLog` is
`authorize_and_audit` over `PgAuditLog`, a step per SQL statement. The call
(`at`) and its transaction on the server (`tx`) live separate lives: a call is
dropped by its client, the 30 s request timeout or a crash, and its transaction
lingers until the server ends it; a COMMIT may take effect unanswered. The
primary key is modelled too, so without the advisory lock appends fail but do
not fork; that they never even collide is `HeadIsCurrent`. A hash is the
sequence of what was hashed, hence without collisions.

`verify` reports a non-empty chain that is shorter than the anchor as
`UnexpectedHead`; `Truncated`, whose message is about that case, is only
returned for an empty chain.

### Enrollment
One host's state directory and everybody who writes it: enrolments (some with
`--force`) and renewals, by the agent's loop or by hand, on top of the token table,
the revocations, and the replicas that load or generate the CA. `write_atomic` is the
three calls it makes, `Open` (create or truncate), `Fill` (write and fsync) and
`Rename`, on a temporary file whose name is fixed, so all writers of a file share it
(`tmp`). A process keeps its handle on the file it opened (`io`), wherever another
one's rename has put it since: it may then write into the file in place, and over
bytes of another writer (`Torn`). A process may die between any two calls and leave
its temporary file behind.

`owner` and `mixed` are history. `mixed` says that the four files may stem from two
identities: from when an enrolment opens a file while there is a key (a forced one, or
the slower of two first ones), a renewal opens the certificate for a key that was
replaced, or a renewal opens it while another process is in the middle of a write;
until one enrolment has written all four files with nobody else about (`owner`).
`WholeIdentity` is what the code guarantees outside those cases; the comments of
`persist` and `write_atomic` promise more (see Runs). `HostKeyBinding` shows that in
them the coordinator refuses to renew rather than bind a key to another host_id.
`Casts` bounds who takes part in a behaviour: all that act belong to one of its sets.

`CaLoad` and `CaGenerate` also allow a stale snapshot, since `load_or_generate` relies on the cluster's default
isolation level; the unique index then makes the start fail.

### Netbox
One task per snapshot (`task`), with the permit it holds, over the rows NetBox
keeps (`dev`, `ifaces`, `addrs`; external, with the uniqueness and deletion rules
the code counts on). Every REST call is a step; it fails, is refused, or takes
effect and its answer is lost, in which case the retry starts over from the match
as the code's loop does. The loop over interfaces and addresses is a position
(`i`, `j`) in the snapshot; what is no address is passed over (`SkipIp`). Of several
rows with one prefix the code takes the one listed first; the model takes any.
`content_hash`, `to_cidr`, the serial's normalisation and the order of the interfaces
are operators. What a device must show of a snapshot (`Shows`) is its interfaces, its
addresses and the interface each of them sits on, and a primary of each family that it
has. The row of an address is looked up in a map that was read before the first write
(`Existing`), so an address observed on two interfaces has one row, on one of them;
`Shows` asks for no more; `Reflects` is the reading of the port's comment that does.
`torn` and `contested` are history: hosts
with writes of an upsert that did not end, and devices that two hosts reconciled
at once, which the module's own documentation admits. The agent collects
snapshots for its `inventory` command and does not publish them yet; the sink is
driven as the bridge would drive it.

### Access, ChildProcess and ActionPath
`Access` is what the coordinator knows of callers: the options it starts with
(each check an operator, a refused start a state), the signing keys with the
refresher's fetch and swap as two steps, and a call's way through the interceptor,
the validation and the decision per host. The interceptor takes the validator and
releases it before it validates, so `Intercept` and `Validate` are two steps too.
Documents, tokens and bindings are records; parsing of JWT, JWKS and TOML is
reduced to which fields are there.
`ChildProcess` is one child: the steps of `pre_exec` in order, each of which the
kernel may refuse, the two pipes with a writer that may leave background
processes, the pump with its cap and its timeout, the wait, and the shell's drop.
`ActionPath` composes them: what is allowed and delivered passes the agent's
allowlist and is spawned. How the decision travels is `Session`'s and `Wire`'s.

A program that closes both its output streams and runs on is no longer under the
timeout (`stream` awaits it without a deadline); `DeadlineHolds` and
`NoneLeftRunning` name that case. The latter, which is proved, is the safety side of
the ends of an action: whatever still runs when the agent turns to waiting, or gives a
shell up, has been sent its SIGKILL.

### Wire
Several hosts at once, and cryptography as terms: a signature is who signed what,
a key is what it was derived from, a ciphertext carries key, nonce, additional
data and plaintext. `net` holds all that was ever published; the broker delivers
any of it to anyone, on any topic, and may put one cleartext field of a message
into another of its kind (`Delivered`). What fails every check changes nothing. A
renewal may change the certificate between two connections of a host. That the CA
signs no certificate of one host's key for another's id is an assumption here
(`WireAssumption`) and the theorem `HostKeepsItsKey` about `Enrollment`.

A shell's stream has a side of its own at either end: the agent's `shell`
(`handle_shell_open`, `seal_frame`, `route_downlink`) and the coordinator's `route`
(`open_shell`, `ShellRoute::seal_downlink`, `shell_input`, `shell_close`,
`handle_stream_up`), both with keys derived from the session's and the stream id and
with counters that start at 0. The coordinator may repeat a stream id here, although
it mints a UUID for every shell: the agent does not rely on that and refuses an id it
has seen in the session, but `open_shell` derives the same keys again and seals from 0.
`NonceOnce` therefore exempts the coordinator's direction of a stream that was opened
twice in a session, and nothing else. A fresh stream may still be refused (allowlist,
cap, no PTY). `Budgets` bounds connections and downlink envelopes per host.

## Runs

| Run | Bounds | Shows |
|---|---|---|
| `session` | 3 epochs, 3 sessions, 2 dispatches, 2 results | all safety of the session |
| `handshake_fifo` | 3 connections | a handshake that meets no older one completes |
| `job_runner` | one good and one malformed id, 3 permits, 2 exits | at-most-once, contract, permits return |
| `exec_fanout` | 1 call on 2 hosts with 2 sessions each, or 2 calls on 1 host; 1 chunk, event queue of 1 | streams end, well formed, complete, no false success |
| `exec_uplink_order` | the same, 2 calls on 1 host | violation: the uplink is not in seq order |
| `shell` | 2 operators on one host, 1 burst and 1 output of the first, output queue of 1, 2 sessions | no cross-talk, no orphaned shell, exits seen, closed shells reaped |
| `audit` | 2 calls on one replica, 1 on another | no fork, verifiable, append-only, audited before acting, calls end |
| `enrollment` | 2 enrolments that share a token, 2 replicas, 2 CAs; or 2 enrolments (1 forced), 2 renewal processes, 1 replica | one host per token, keys stay with host ids, one CA, whole identities |
| `netbox` | 4 devices, 2 permits, 1 retry, 10 row ids; 2 hosts with 2 snapshots, or 1 with 2 networks and 3 snapshots | no device stolen, no duplicates, primaries stay, Unchanged is what the device shows, permits return |
| `netbox_dedup` | 1 host, 3 snapshots, 1 permit | violation: Unchanged although the device shows part of a later snapshot |
| `action_path` | 16 command lines, 12 requests, 3 key documents (1 unusable), 2 hosts, 1 write per stream, cap of 1 | only what was granted runs, output complete, deadline, no leftovers, rotation |
| `wire` | 2 hosts with 2 connections (a renewed certificate) and 1, or with 1 each; 1 and 2, or 1 and 3 downlink envelopes; 1 stream id, 1 frame each way | keys agree, opened as sealed, nonces once |

Why the bounds are enough. Three epochs let a live session, its successor and
a replayed predecessor exist at once; two dispatches and results are needed to
reorder. In the job runner interference is between tasks that hold the same
job: three permits give a runner, a concurrent redelivery and a later one,
and jobs do not interact except through permits. The event queue of one makes
every `try_send` meet both room and none. The coordinator keeps one shell per
host, so two calls give a holder and a rival. Appends meet at two locks: two
calls contend for the local one and a third for the database's. Two
enrolments with one token give a rival for it, a forced one a successor for the
identity, two renewals a rival for the temporary file, and renewals repeat without
bound. Two snapshots give one host's tasks a rival for the
lock or two hosts a rival for the device; three let a snapshot be synced, another one
fail or succeed over it, and the first come back. The two networks of the host let
an address move between interfaces, sit on two, and be joined by another one. The
requests of `action_path` are chosen one per way to be
refused or allowed, and a cap of one chunk makes both ends of the cap happen. In
`wire` the host that connects twice gives replays an earlier session to come from,
and the other host a place to be redirected to; three envelopes are the beacon and
two shells with one id. Where two such instances are needed and their product is too
large, a bound is a set of alternatives (`Casts`, `Budgets`) of which a behaviour must
stay within one: the run is the union of the small instances. Symmetry is used for the
two replicas and the two renewals of `enrollment`, whose properties are all invariants.

The findings in `PROJECT.json`, with the quoted lines, are the two violations.

Three more comments promise more than the code does. They have no run of their own;
the passing property names the case it exempts:
- `persist` (`enroll.rs:107-109`) calls the key an all-or-nothing marker. With `--force`
  the old key is there while the other files are replaced, so a crash in between leaves
  it beside the new certificate (`WholeIdentity`, `mixed`).
- `write_atomic` (`enroll.rs:129`) shares one temporary file per name. When the agent's
  renewal loop and `osa-agent renew` overlap, one may rename what the other has just
  truncated, and `host.crt` is empty (`WholeIdentity`, `mixed`).
- `UpsertOutcome::Unchanged` (`ports.rs:104`) says that the record reflects the
  snapshot. An address on two interfaces ends on one of them, the snapshot is marked as
  synced and its repeat answered Unchanged (`SyncedIsCurrent`, `Shows`).

Observations that are not findings, because nothing in the repository promises
otherwise: a late ServerHello of an earlier connection uses up the handshake in
flight, and nothing retries until the connection drops (`HandshakeCompletes`
speaks of handshakes that meet no earlier one); a second shell that the agent refuses has already
taken over the coordinator's route, so the first shell runs on unattended until it
exits or the connection drops; a host revoked between a renewal's check and its
signature gets one more certificate, which buys it no session
(`RevocationSticks`).

## Fairness

`HandshakeFifo`: the agent's event loop and the bridge task keep taking
messages (tokio schedules them); connecting and dropping are not fair.
`JobRunner`: a task that can go on does; nothing is assumed of the process it
waits on. `ExecStream`: the fan-out task, the bridge, the sweep timer and the
deadlines are fair, and the operator reads what is queued; agents, connections
and the broker are not.
`Shell`: the bridge and the agent's event loop do work while there is some;
operators, shells and connections are not fair. `AuditLog`: a call goes on when
its next statement can be executed (both locks are queues), gets its error when
its transaction is gone, and the server ends transactions that were sent their
COMMIT or abandoned (a dropped sqlx transaction is rolled back). `Enrollment` has
safety properties only.
`Netbox`: a task goes on (the HTTP client gives up on a call that is not answered,
and the host's mutex is a queue). `ActionPath`: the agent's tasks go on, a killed
process dies, the timeout fires, a fetched document is applied; strongly fair is
only that a fetch succeeds, that is, an outage of the issuer ends. Programs,
issuers, callers and operators are not fair. `Wire` has safety properties only.
All runs but `session`, `handshake_fifo` and `job_runner` may stop for good (all
calls ended, or a bound reached), so they do not check for deadlock.

## Proofs

All constants are arbitrary, under the named assumptions of the modules
(bounds are naturals, `NoJob` is not a job, `Failed` is not an exit).

`SessionProofs`
- `TypeCorrect`: `TypeOK`.
- `AgreementInv` = `TypeOK`, `HelloInv` (hellos carry durable epochs, ordered
  like their sids), `AgentInv` (handshake or session is always of the newest
  sid, and the session was announced), `CoordInv` (everything announced or held
  was admitted, at an epoch not above the high-water mark). It is needed
  because agreement follows from the order of epochs, which neither end stores
  with its session. From it: `EpochsNeverReused`, `EndsAgree`, `NoResurrection`,
  `SessionsOnlyAdvance`.
- `NonceInv` = `TypeOK`, `KeyInv` (ephemerals and sids are fresh), `SeqInv` (an
  end's next seq is above all it sealed; nothing was sealed for a handshake in
  flight). From it: `NoncesUnique`, with either epoch store.

- `ReplayInv` adds to `NonceInv` that every dispatch and result has an id of its own
  and that one already taken lies at or below the receive mark of the session that
  could open it (and not under a handshake in flight), for the agent and for the
  coordinator. From it: `ReplaysRejected`.
- `RevocationHolds`: revoked and idle, the bridge derives no key any more, whatever
  happens; proved from `TypeOK` with the number of keys as a rigid value.

- `FifoInv`: the bridge's queue holds hellos and acks, and each downlink queue holds
  what was published there and its reader expects. With it every step of
  `HandshakeFifo` is a step of `Session`, or none. From it: the refinement
  `OrderlyIsAllowed`, and with the theorems above `OrderlyIsSafe`.

`AgentProofs`
- `JobInv` = `TypeOK`, `ClaimInv` (one holder per claim), `RunInv` (stage,
  process and run count agree), `MarkerInv` (a job that ran has a record that
  survives power loss, unless retired), `TruthInv` (recorded or carried
  statuses are the process's own). From it: `RunnerTypes`, `JobsRunAtMostOnce`,
  and the refinement `RunnerKeepsContract`.
- `ShellInv` = `ShellTypes`, `QueueInv` (a call opens once and its keystrokes are
  queued in order), `FreshInv` (of a shell whose open is not yet handled nothing is
  anywhere), `UpInv` (what the operator has seen comes before what is on its way, and
  that before what the shell has still to send; eof is last), `DownInv` (the same for
  keystrokes: fed, under way, queued, to be typed), `StreamInv` (with
  `NoOrphanShell`), `NoCrossTalk`. That a shell shows only its own output needs only
  the key of a frame; that it shows it in order, although `down` is two topics, frames
  are shed and a route is taken over and back, needs the chain of places as a whole.
  All steps change the queues by appending at the end or by taking some elements away
  and keeping the order of the rest (`Thinned`), so the chain is argued about twice
  and not once per action. From it: `ShellsDoNotCrossTalk`, `NoShellIsOrphaned`.

`AuditLogProofs`
- `AuditInv` = `TypeOK`, `PhaseInv` (how far a call is against how far its
  transaction is), `LockInv` (who holds the local and the database's lock),
  `TableInv` (the rows are a hash chain numbered without a gap), `HeadInv` (what the
  holder of the lock read is still the last row), `StagedInv` (an inserted row
  continues it), `RecordInv` (one row for each committed call and no other). The lock
  must be tied to the transaction and not to the call, since a dropped call's
  transaction lingers.
  From it: `HeadStaysCurrent`, `AuditBeforeAction`, the refinement
  `LogKeepsContract`, and `LogIsTamperEvident`, which also needs that a changed,
  removed or swapped row breaks a chain at that row or at the anchor.

`EnrollmentProofs`
- `EnrollInv` = `TypeOK`, `CaInv` (one replica at a time is past the CA's lock, and
  every replica that is up has the row's CA), `TokenInv` (of the enrolments with one
  token at most one is redeemed or has a certificate), `OriginInv` (each certificate,
  wherever it is, was issued for the key it carries, and a renewal is cleared only
  for its own key), `HandleInv` (who may have a handle, and on what), `OwnInv` (the
  owner is the only writer, its files are in place as far as it has come, and the
  temporary file holds what it put there), `SoleInv` (on a whole identity one renewal
  at a time writes, and the temporary file is its own), `WholeIdentity`. `OwnInv` and
  `SoleInv` are what the property lacks: a rename is only as good as the file it moves,
  and that is the writer's own only while nobody else has one open; a temporary file
  left by a crash is harmless because every write begins with a truncation. From it:
  `OneSharedCa`, `HostKeepsItsKey`, `TokenEnrolsOne`, `KeyMarksIdentity`.

`ActionPathProofs`
- `PathInv` = `AccessInv` and `ChildInv`. `AccessInv`: a running coordinator has the
  policy of its command line and the keys of a document it was given or fetched
  (`CoordInv`), a fetched document is one the issuer served (`FetchInv`), and a call
  is the anonymous caller's or that of an authentic token's subject, allowed only on
  hosts its bindings name (`CallInv`). The call keeps the keys it took when the cell
  is swapped, so it is related to the document of its own keys. `ChildInv`: the
  steps of `pre_exec` still to do fit the identity reached so far, and what the child
  wrote, the pipe holds, the pump delivered and the cap cut off add up. From it:
  `OnlyGrantedPrograms`, `AllOutputDelivered`.
- `EndInv`, on top of `ChildInv`: a child that has not begun to run has no process
  group, one that is waited for was killed, has ended or had both streams closed, one
  that is done has ended, and one given up was killed together with its group. The
  first part is what `NoneLeftRunning` lacks: a PTY that could not be set up fails
  without a KillGroup. From it: `NoProgramIsForgotten`.

`ExecStreamProofs`
- `ExecInv` = `TypeInv`, `PlaceInv` (a job is with its fan-out task, in the bridge's
  queue or pending, and only one of them), `AgentInv` (how far the agent is), `UpInv`
  (the uplink has the results of a job in order), `GotInv` (what the operator has is
  before all that is on its way, and a pending job has no terminal event), `ToldInv`
  (an operator who keeps up was told of every job that is nowhere any more),
  `WellFormedStream`. From it: `StreamsWellFormed`, `EveryJobReported`.

`WireProofs`
- `WireInv` = `TypeInv`, `HelloInv` (a published hello is signed by the host whose
  ephemeral and certificate it carries), `AgentInv`, `SessionInv`, `HeardInv` (a session
  that took anything was sent it under its keys), `RouteInv` (a route is of a stream
  opened in a session with its host), `MintedInv` (the
  coordinator's keys for a host each have an ephemeral of their own), `EnvelopeInv`
  (an envelope was sealed for what its header says, and lies behind the counter of
  its maker: a frame of the agent behind its stream's, since the agent opens an id once;
  a frame of the coordinator behind its route's, unless its stream was opened
  twice), `NonceOnce`. The broker's splices are dealt with once: each field of
  what it delivers was published, and what opens or verifies covers all the fields
  that matter, so it was sealed or signed as a whole (`SplicedFields`,
  `OpensOnlySealed`, `HelloOfItsHost`). From it: `EndsAgree`, `OnlyWhatWasSealed`,
  `NoNonceTwice`.

`NetboxProofs`
- `NetInv` = `RowInv` (ids are unique and every address has its interface),
  `PrimaryInv` (primaries are addresses of their device), `NoneDoubled`, `SyncInv`
  (the device shows what was synced last, unless noted in `torn` or `contested`), and
  for each task `TaskGood` (where it is, and that the rows it knows of are its
  device's for as long as they exist, even while another host interferes),
  `Undisturbed` (alone on its device, claim and primaries are as it left them) and
  `AllKnown`: alone on its device, it has made a row for every name and prefix behind
  its position in the snapshot, and whatever else is there is in the lists it read;
  and the rows it keeps sit where a place behind its position asks for them, with one
  at every place that is the only one for its prefix (`Seated`).
  That is what the properties lack: a retry starts over with nothing remembered, and
  finds all that an earlier attempt made only because its lists are complete. `Apart`
  says of two tasks that they are of different hosts, and on one device only if it is
  contested. A write is dealt with in two parts: what it does to the rows
  (`NewInterface`, `MovedAddress`, `NewAddress`, `GoneAddress`, `GoneInterface`,
  `NewPrimaries`), each a step that leaves other devices alone (`Frame`), and what
  that makes of the task (`LoopSound`, `DeleteSound`). From it:
  `PrimaryNeverDangles`, `RowsNeverDoubled`, `UnchangedIsCurrent`,
  `DevicesAreNotStolen`.

Each inductive invariant was also checked with TLC on an instance of its run, but for
the parts that only state types which TLC cannot enumerate.

Assumptions beyond bounds and distinct model values: `ClaimsAssumption` (the times in
a token are natural numbers), `ExecAssumption` (a call names no job twice and no two
calls share one; job ids are fresh UUIDs), `WireAssumption` (the certificates of a
host are a sequence, and the CA binds no key to another's id), `NetboxAssumption`
(NetBox's filter returns finitely many devices and every one that has the serial;
networks are finite; the two address families are disjoint).

What the proofs changed in the models: `verify` returned any of several answers where
the code returns the first that applies; a JWT was accepted although its algorithm
does not belong to its key's family, which `jsonwebtoken` refuses; the certificate
assumption of `Wire` was implicit; `Netbox` flattened a snapshot's addresses into one
list where the code skips what is no address inside its loop, and compared only the
first row with a prefix.

Only proved, and in no run: `TypeOK` of `Session`, `NoneLeftRunning`, and that
`HandshakeFifo` implements `Session`.

Only model-checked: the liveness properties (`HandshakeCompletes`, `PermitsReturn`,
`StreamEnds`, `ExitIsSeen`, `CloseReaps`, `CallsEnd`, `PermitsComeBack`,
`DeadlineHolds`, `ShellLeavesNothing`, `RotationPickedUp`; liveness under fairness is
out of the prover's reach) and the two violations.

## Not modelled

- Cryptographic primitives, X.509, JWT, JWKS and TOML syntax, MQTT, gRPC and HTTP
  transport, TLS: the models start from what they deliver.
- The reorder buffer of `osa-core/src/stream.rs`: no code of the program calls it.
- Heartbeats and presence: only logged.
- Power loss during enrolment: which of the renames of `persist` survive depends on
  the file system's journal; process crashes at every step are modelled.
- NetBox lists of more than the 1000 rows that one request asks for, and a call that
  takes effect only after the client has given it up and read the device again.
- The system facts of a snapshot and its gaps, which the reconciliation does not use.
- Jobs that an interactive shell puts into process groups of their own: the kill of
  the shell's group does not reach them, and `ShellLeavesNothing` does not speak of
  them. Reads of a child's pipe that fail (the pump would take it for the end).
- Keys of a JWKS document that cannot be decoded: they are skipped, as if not there.
- Terminal size and I/O, CLI output, wiring at start-up, generated protocol code.
- The in-memory registries of the coordinator without a database, which lose
  everything at a restart, except for the epochs (`DurableEpochs`).
