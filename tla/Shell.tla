-------------------------------- MODULE Shell --------------------------------
(***************************************************************************)
(* Interactive shells on one host: service.rs `shell` (one call per        *)
(* operator), the bridge's shell route (broker.rs `open_shell`,            *)
(* `shell_input`, `shell_close`, `handle_stream_up`), and on the agent     *)
(* `handle_shell_open`, the stream branch of `on_publish` and              *)
(* shell_stream.rs.                                                        *)
(*                                                                         *)
(* A call's stream id is fresh (a UUID), so the call is named by it.  The  *)
(* subkey of a stream is the pair of its session and its id: a frame opens *)
(* only under the pair that sealed it.  Messages to the agent keep their   *)
(* order within a topic (opens on dispatch_down, frames on stream_down),   *)
(* not across topics, which is what MQTT promises.  A frame on its way up  *)
(* may be shed.  Publishing fails only when the broker's router is gone,   *)
(* and every connection with it.                                           *)
(***************************************************************************)
EXTENDS Integers, SequencesExt

CONSTANTS
  Streams,   \* the shell calls, by stream id
  NoStream,  \* no stream
  MaxIn,     \* bound: MaxIn[s] keystroke bursts of the operator
  MaxOut,    \* bound: MaxOut[s] output frames of the shell
  QueueCap,  \* EXEC_EVENT_QUEUE
  MaxSid     \* bound: sessions of the host

ASSUME StreamsAssumption == NoStream \notin Streams
ASSUME BoundsAssumption ==
  /\ MaxIn \in [Streams -> Nat] /\ MaxOut \in [Streams -> Nat]
  /\ QueueCap \in Nat \ {0} /\ MaxSid \in Nat

VARIABLES
  op,        \* op[s]: "new", "open", "closed" (sends no more), "gone"
  typed,     \* typed[s]: keystroke bursts sent so far
  cmds,      \* the bridge's command queue
  csid,      \* the coordinator's session with the host (0: none)
  route,     \* the host's ShellRoute
  queue,     \* queue[s]: frames the operator has not read
  over,      \* calls whose output sender was dropped: the stream ends
  down,      \* messages on their way to the agent
  up,        \* stream frames on their way to the bridge
  asid,      \* the agent's session (0: no connection)
  active,    \* the agent's ShellStream
  used,      \* stream ids used in this session
  pty,       \* pty[s]: "none", "running", "exited" or "killed"
  sent,      \* sent[s]: output frames sealed so far
  seen,      \* seen[s]: frames put in the operator's queue (history)
  fed,       \* fed[s]: bursts handed to the PTY (history)
  lossy,     \* streams of which an uplink frame was shed or dropped (history)
  replaced,  \* streams whose route was taken over by another (history)
  crossed    \* streams a frame of which overtook their open (history)

opVars    == <<op, typed>>
coordVars == <<csid, route, over>>
agentVars == <<asid, active, used, pty, sent>>
outVars   == <<queue, seen>>
shellHist == <<lossy, replaced, crossed>>
shellVars == <<opVars, cmds, coordVars, outVars, down, up, agentVars, fed, shellHist>>

-----------------------------------------------------------------------------
Eof == 0
(* A command of an operator's call; `n` numbers the keystrokes of an input. *)
Cmd(do, s, n) == [do |-> do, id |-> s, n |-> n]
(* The shell dispatch, sealed for session `sid`; and a sealed stream frame of
   the key <<sid, id>>: burst or output number n of `from`, or Eof. *)
OpenMsg(s)  == [t |-> "open", sid |-> csid, id |-> s]
Frame(k, from, n) == [t |-> "frame", sid |-> k.sid, id |-> k.id, seq |-> k.seq,
                      from |-> from, n |-> n]

(* One end of a stream: its key, next seq to seal, highest seq accepted. *)
End(sid, s) == [sid |-> sid, id |-> s, seq |-> 0, high |-> -1]
NoEnd == End(0, NoStream)
Opens(k, m) == k.id = m.id /\ k.sid = m.sid /\ m.seq > k.high

(* ShellRoute::open_uplink, with the high-water mark of the route. *)
OpensUp(m) == Opens(route, m)

(* close_shell_route: seal an eof for the agent. *)
EofDown == Append(down, Frame(route, route.id, Eof))

ShellInit ==
  /\ op = [s \in Streams |-> "new"] /\ typed = [s \in Streams |-> 0]
  /\ cmds = <<>> /\ csid = 0 /\ route = NoEnd /\ over = {}
  /\ queue = [s \in Streams |-> 0] /\ seen = [s \in Streams |-> <<>>]
  /\ down = <<>> /\ up = <<>>
  /\ asid = 0 /\ active = NoEnd /\ used = {}
  /\ pty = [s \in Streams |-> "none"] /\ sent = [s \in Streams |-> 0]
  /\ fed = [s \in Streams |-> <<>>]
  /\ lossy = {} /\ replaced = {} /\ crossed = {}

-----------------------------------------------------------------------------
(* The operator and the service's input pump. *)

Call(s) ==
  /\ op[s] = "new"
  /\ op' = [op EXCEPT ![s] = "open"]
  /\ cmds' = Append(cmds, Cmd("open", s, 0))
  /\ UNCHANGED <<typed, coordVars, outVars, down, up, agentVars, fed, shellHist>>

Type(s) ==
  /\ op[s] = "open" /\ typed[s] < MaxIn[s]
  /\ typed' = [typed EXCEPT ![s] = @ + 1]
  /\ cmds' = Append(cmds, Cmd("input", s, typed[s] + 1))
  /\ UNCHANGED <<op, coordVars, outVars, down, up, agentVars, fed, shellHist>>

(* Close, or the end of the client's messages: the pump sends ShellClose. *)
Close(s) ==
  /\ op[s] = "open"
  /\ op' = [op EXCEPT ![s] = "closed"]
  /\ cmds' = Append(cmds, Cmd("close", s, 0))
  /\ UNCHANGED <<typed, coordVars, outVars, down, up, agentVars, fed, shellHist>>

(* The client is gone: its receiver is dropped too. *)
Leave(s) ==
  /\ op[s] \in {"open", "closed"}
  /\ op' = [op EXCEPT ![s] = "gone"]
  /\ cmds' = IF op[s] = "open" THEN Append(cmds, Cmd("close", s, 0)) ELSE cmds
  /\ queue' = [queue EXCEPT ![s] = 0]
  /\ UNCHANGED <<typed, coordVars, seen, down, up, agentVars, fed, shellHist>>

Read(s) ==
  /\ queue[s] > 0
  /\ queue' = [queue EXCEPT ![s] = @ - 1]
  /\ UNCHANGED <<opVars, cmds, coordVars, seen, down, up, agentVars, fed, shellHist>>

-----------------------------------------------------------------------------
(* The bridge. *)

Next1(do) == cmds # <<>> /\ Head(cmds).do = do /\ cmds' = Tail(cmds)
Dropped(k) == IF k = NoEnd THEN {} ELSE {k.id}
Put(s, item) ==
  /\ queue' = [queue EXCEPT ![s] = @ + 1]
  /\ seen' = [seen EXCEPT ![s] = Append(@, item)]

(* open_shell: offline, or the dispatch cannot be published (the broker is gone,
   and with it the connection): an eof at once. *)
OpenRefused ==
  /\ Next1("open")
  /\ LET s == Head(cmds).id IN
     /\ IF op[s] = "gone" THEN UNCHANGED outVars ELSE Put(s, [from |-> s, n |-> Eof])
     /\ over' = over \union {s}
  /\ csid = 0 \/ asid = 0
  /\ UNCHANGED <<opVars, csid, route, down, up, agentVars, fed, shellHist>>

(* open_shell: dispatch the open; the new route replaces the host's old one,
   whose output sender is dropped. *)
OpenShell ==
  /\ Next1("open") /\ csid # 0
  /\ LET s == Head(cmds).id IN
     /\ down' = IF asid = 0 THEN down ELSE Append(down, OpenMsg(s))
     /\ route' = End(csid, s)
  /\ over' = over \union Dropped(route)
  /\ replaced' = replaced \union Dropped(route)
  /\ UNCHANGED <<opVars, csid, outVars, up, agentVars, fed, lossy, crossed>>

\* mutant of Current: the id of the route is not compared
MutCurrentAny(s) == route # NoEnd
(* shell_input, shell_close: a command of a replaced shell is dropped. *)
Current(s) == route.id = s

ShellInput ==
  /\ Next1("input")
  /\ LET c == Head(cmds) IN
     \/ /\ ~Current(c.id)
        /\ UNCHANGED <<route, down>>
     \/ /\ Current(c.id)
        /\ down' = IF asid = 0 THEN down ELSE Append(down, Frame(route, c.id, c.n))
        /\ route' = [route EXCEPT !.seq = @ + 1]
  /\ UNCHANGED <<opVars, csid, over, outVars, up, agentVars, fed, shellHist>>

\* mutant of CloseRoute: the agent is not told
MutCloseRouteSilent ==
  /\ route' = NoEnd
  /\ over' = over \union {route.id}
  /\ UNCHANGED down
(* shell_close, and the end of a route in general: seal an eof, drop it. *)
CloseRoute ==
  /\ down' = IF asid = 0 THEN down ELSE EofDown
  /\ route' = NoEnd
  /\ over' = over \union {route.id}
KeepRoute == UNCHANGED <<down, route, over>>

ShellClose ==
  /\ Next1("close")
  /\ IF Current(Head(cmds).id) THEN CloseRoute ELSE KeepRoute
  /\ UNCHANGED <<opVars, csid, outVars, up, agentVars, fed, shellHist>>

(* handle_stream_up: a frame that does not open, or has no route. *)
StreamUpIgnored ==
  /\ up # <<>> /\ ~OpensUp(Head(up))
  /\ up' = Tail(up)
  /\ UNCHANGED <<opVars, cmds, coordVars, outVars, down, agentVars, fed, shellHist>>

\* mutant of StreamUp: the shell's eof leaves the route in place
MutStreamUpKeeps ==
  /\ up # <<>> /\ OpensUp(Head(up))
  /\ LET s == route.id IN op[s] # "gone" /\ queue[s] < QueueCap
  /\ up' = Tail(up)
  /\ Put(route.id, [from |-> Head(up).from, n |-> Head(up).n])
  /\ route' = [route EXCEPT !.high = Head(up).seq]
  /\ UNCHANGED <<opVars, cmds, csid, over, down, agentVars, fed, shellHist>>

(* handle_stream_up, room in the operator's queue: an eof ends the route. *)
StreamUp ==
  /\ up # <<>> /\ OpensUp(Head(up))
  /\ LET s == route.id IN op[s] # "gone" /\ queue[s] < QueueCap
  /\ up' = Tail(up)
  /\ Put(route.id, [from |-> Head(up).from, n |-> Head(up).n])
  /\ IF Head(up).n = Eof THEN CloseRoute
     ELSE route' = [route EXCEPT !.high = Head(up).seq] /\ UNCHANGED <<down, over>>
  /\ UNCHANGED <<opVars, cmds, csid, agentVars, fed, shellHist>>

(* handle_stream_up, queue full: the frame is dropped, whatever it is. *)
StreamUpFull ==
  /\ up # <<>> /\ OpensUp(Head(up))
  /\ op[route.id] # "gone" /\ queue[route.id] = QueueCap
  /\ up' = Tail(up)
  /\ route' = [route EXCEPT !.high = Head(up).seq]
  /\ lossy' = lossy \union {route.id}
  /\ UNCHANGED <<opVars, cmds, csid, over, outVars, down, agentVars, fed,
                 replaced, crossed>>

(* handle_stream_up, operator gone: the route ends. *)
StreamUpClosed ==
  /\ up # <<>> /\ OpensUp(Head(up))
  /\ op[route.id] = "gone"
  /\ up' = Tail(up)
  /\ CloseRoute
  /\ UNCHANGED <<opVars, cmds, csid, outVars, agentVars, fed, shellHist>>

(* forward_events sheds the frame: the bridge is behind. *)
Shed ==
  /\ up # <<>>
  /\ up' = Tail(up)
  /\ lossy' = lossy \union {Head(up).id}
  /\ UNCHANGED <<opVars, cmds, coordVars, outVars, down, agentVars, fed,
                 replaced, crossed>>

-----------------------------------------------------------------------------
(* The agent. *)

\* mutant of Killed: a ShellStream that is dropped leaves its shell alone
MutKilledNone(S) == pty
(* ShellStream::drop: the shell's process group is killed. *)
Killed(S) == [s \in Streams |-> IF s \in S /\ pty[s] = "running" THEN "killed" ELSE pty[s]]

(* The next message of either topic; what a frame overtakes is noted. *)
Ready(i) == \A j \in 1..(i - 1) : down[j].t # down[i].t
Take(i) ==
  /\ down' = RemoveAt(down, i)
  /\ crossed' = crossed \union {down[j].id : j \in {j \in 1..(i - 1) :
                                   down[j].t = "open" /\ down[j].id = down[i].id}}

(* The dispatch opens under the agent's session and its id is fresh. *)
OpenAllowed(m) == m.t = "open" /\ m.sid = asid /\ m.id \notin used

(* handle_shell_open: a PTY is spawned; the shell before it is dropped. *)
AgentOpens(i) ==
  /\ OpenAllowed(down[i])
  /\ LET s == down[i].id IN
     /\ pty' = [Killed(Dropped(active)) EXCEPT ![s] = "running"]
     /\ active' = End(asid, s)
     /\ used' = used \union {s}
  /\ Take(i)
  /\ UNCHANGED <<opVars, cmds, coordVars, outVars, up, asid, sent, fed, lossy, replaced>>

(* handle_shell_open returns early: a used id, the host backstop, a failed
   spawn.  Nobody is told, and the active shell stays. *)
AgentRefuses(i) ==
  /\ down[i].t = "open"
  /\ Take(i)
  /\ UNCHANGED <<opVars, cmds, coordVars, outVars, up, agentVars, fed, lossy, replaced>>

(* on_publish, stream_down: no shell, or route_downlink cannot open it. *)
AgentIgnores(i) ==
  /\ down[i].t = "frame" /\ ~Opens(active, down[i])
  /\ Take(i)
  /\ UNCHANGED <<opVars, cmds, coordVars, outVars, up, agentVars, fed, lossy, replaced>>

(* route_downlink: keystrokes for the PTY, dropped when its queue is full. *)
AgentFeeds(i) ==
  /\ down[i].t = "frame" /\ Opens(active, down[i]) /\ down[i].n # Eof
  /\ active' = [active EXCEPT !.high = down[i].seq]
  /\ LET m == down[i] IN
     \/ fed' = [fed EXCEPT ![active.id] = Append(@, [from |-> m.from, n |-> m.n])]
     \/ UNCHANGED fed
  /\ Take(i)
  /\ UNCHANGED <<opVars, cmds, coordVars, outVars, up, asid, used, pty, sent, lossy, replaced>>

(* route_downlink: the terminal eof; the stream is dropped. *)
AgentCloses(i) ==
  /\ down[i].t = "frame" /\ Opens(active, down[i]) /\ down[i].n = Eof
  /\ pty' = Killed({active.id})
  /\ active' = NoEnd
  /\ Take(i)
  /\ UNCHANGED <<opVars, cmds, coordVars, outVars, up, asid, used, sent, fed, lossy, replaced>>

(* uplink_pump: a slice of output, and the terminal eof when the shell ends. *)
Output(s) ==
  /\ pty[s] = "running" /\ active.id = s /\ sent[s] < MaxOut[s]
  /\ sent' = [sent EXCEPT ![s] = @ + 1]
  /\ up' = Append(up, Frame(active, s, sent[s] + 1))
  /\ active' = [active EXCEPT !.seq = @ + 1]
  /\ UNCHANGED <<opVars, cmds, coordVars, outVars, down, asid, used, pty, fed, shellHist>>

ShellExits(s) ==
  /\ pty[s] = "running" /\ active.id = s
  /\ pty' = [pty EXCEPT ![s] = "exited"]
  /\ up' = Append(up, Frame(active, s, Eof))
  /\ active' = [active EXCEPT !.seq = @ + 1]
  /\ UNCHANGED <<opVars, cmds, coordVars, outVars, down, asid, used, sent, fed, shellHist>>

(* The connection ends: its shell, its session and its used ids go with it. *)
Unplug ==
  /\ asid' = 0 /\ active' = NoEnd /\ used' = {}
  /\ pty' = Killed(Dropped(active))
  /\ down' = <<>>

Drop ==
  /\ asid # 0
  /\ Unplug
  /\ UNCHANGED <<opVars, cmds, coordVars, outVars, up, sent, fed, shellHist>>

(* The broker died under shell_input's publish: the route is removed, and the
   agent's connection is gone as well. *)
LinkDies ==
  /\ Next1("input") /\ Current(Head(cmds).id) /\ asid # 0
  /\ route' = NoEnd /\ over' = over \union {route.id}
  /\ Unplug
  /\ UNCHANGED <<opVars, csid, outVars, up, sent, fed, shellHist>>

(* A new session; the bridge drops the shell of the old one. *)
Rehello ==
  /\ asid = 0 /\ csid < MaxSid
  /\ csid' = csid + 1 /\ asid' = csid'
  /\ route' = NoEnd /\ over' = over \union Dropped(route)
  /\ UNCHANGED <<opVars, cmds, outVars, down, up, active, used, pty, sent, fed, shellHist>>

-----------------------------------------------------------------------------
Bridge == OpenRefused \/ OpenShell \/ ShellInput \/ ShellClose
Uplink == StreamUpIgnored \/ StreamUp \/ StreamUpFull \/ StreamUpClosed
Agent  == \E i \in DOMAIN down : Ready(i) /\
            (AgentOpens(i) \/ AgentRefuses(i) \/ AgentIgnores(i)
               \/ AgentFeeds(i) \/ AgentCloses(i))

ShellNext ==
  \/ \E s \in Streams : Call(s) \/ Type(s) \/ Close(s) \/ Leave(s) \/ Read(s)
                          \/ Output(s) \/ ShellExits(s)
  \/ Bridge \/ Uplink \/ Shed \/ Agent \/ Drop \/ LinkDies \/ Rehello

(* The bridge task and the agent's event loop keep running: while one of them
   has work, work is done.  Each queue only holds what others put there, so this
   weak form is enough.  Operators, shells and connections are not fair. *)
ShellFairness == WF_shellVars(Bridge \/ Uplink \/ Agent)

ShellSpec == ShellInit /\ [][ShellNext]_shellVars /\ ShellFairness

-----------------------------------------------------------------------------
(* Properties *)

(* The numbers of one side of a shell arrive in order, without repetition,
   from that shell alone, and nothing follows an eof. *)
Orderly(s, h) ==
  /\ \A m \in DOMAIN h : h[m].from = s
  /\ \A m, n \in DOMAIN h : m < n => h[m].n # Eof /\ (h[n].n = Eof \/ h[m].n < h[n].n)

(* An operator sees only the output of its own shell and a shell is fed only
   the keystrokes of its own operator, each in order and once, whatever shells
   replace one another on the host. *)
NoCrossTalk == \A s \in Streams : Orderly(s, seen[s]) /\ Orderly(s, fed[s])

(* A shell that runs is the agent's active stream, of the session it has now:
   one that a second open replaces, a close ends or a disconnect cuts off is
   killed with its ShellStream, so none is left that the agent no longer holds. *)
NoOrphanShell ==
  \A s \in Streams :
    pty[s] = "running" => active.id = s /\ active.sid = asid /\ asid # 0

(* When a shell exits, its operator's stream ends in the long run, unless a
   frame of it was shed or found the operator's queue full. *)
ExitIsSeen == <>[](\A s \in Streams : pty[s] = "exited" => s \in over \union lossy)

(* No shell runs on for good once its operator has closed it or left, unless
   another open took over its route, or its close overtook its open on the way
   to the agent. *)
Attended(s) == op[s] \in {"closed", "gone"} => pty[s] # "running"
CloseReaps == <>[](\A s \in Streams : Attended(s) \/ s \in replaced \union crossed)
=============================================================================
