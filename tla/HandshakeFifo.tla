---------------------------- MODULE HandshakeFifo ----------------------------
(***************************************************************************)
(* The handshake of module Session over the embedded broker when nothing   *)
(* misbehaves: no store error, nothing lost, duplicated or reordered.  The *)
(* agent's uplink reaches the bridge task through one FIFO queue (it may   *)
(* lag: the bridge awaits Postgres for every ClientHello); each downlink   *)
(* topic is a FIFO queue that exists while the agent's connection holds    *)
(* its subscriptions (clean MQTT sessions).                                *)
(*                                                                         *)
(* Every step of this module is a step of Session with its message taken   *)
(* from the head of a queue (OrderlyIsAllowed), so Session's safety        *)
(* properties carry over; what is asked besides is whether a handshake     *)
(* completes.                                                              *)
(***************************************************************************)
EXTENDS Session, Sequences, SequencesExt

VARIABLES
  bridgeQ,  \* messages on their way to the bridge task
  downQ,    \* downQ[t]: messages of downlink topic t on their way to the agent
  sub       \* the broker holds the subscriptions of the agent's connection

fifoVars == <<vars, bridgeQ, downQ, sub>>

Topics == {"hs_down", "ctrl_down"}
IsDown(m) == m.t = "shello" \/ (m.t = "env" /\ m.dir = "down")
Topic(m) == IF m.t = "shello" THEN "hs_down" ELSE "ctrl_down"
NoDown == [t \in Topics |-> <<>>]

(* Publish what this step added to `net`, on top of the queues as the step
   left them; a downlink message without a subscriber is discarded. *)
Publish(up, down) ==
  LET new == net' \ net
      sent(t) == {m \in new : IsDown(m) /\ Topic(m) = t}
  IN  /\ bridgeQ' = up \o SetToSeq({m \in new : ~IsDown(m)})
      /\ downQ' = [t \in Topics |->
                     IF sub' THEN down[t] \o SetToSeq(sent(t)) ELSE <<>>]

-----------------------------------------------------------------------------
FifoInit == Init /\ bridgeQ = <<>> /\ downQ = NoDown /\ sub = FALSE

Connect ==
  /\ ConnAck \/ ConnAckNoEpoch \/ BeginHandshakeFails
  /\ sub' = FALSE
  /\ Publish(bridgeQ, downQ)

(* begin_handshake subscribes before it publishes the ClientHello. *)
SubscribeAndHello ==
  /\ BeginHandshake
  /\ sub' = TRUE
  /\ Publish(bridgeQ, downQ)

Drop ==
  /\ Disconnect \/ AgentCrash
  /\ sub' = FALSE
  /\ Publish(bridgeQ, downQ)

(* on_publish takes the next message of a subscribed topic; a ServerHello
   with no handshake in flight and a beacon that does not open are ignored. *)
TakeServerHello ==
  /\ downQ["hs_down"] # <<>>
  /\ LET m == Head(downQ["hs_down"])
     IN  OnServerHello(m) \/ (hs = 0 /\ UNCHANGED vars)
  /\ UNCHANGED sub
  /\ Publish(bridgeQ, [downQ EXCEPT !["hs_down"] = Tail(@)])

TakeBeacon ==
  /\ downQ["ctrl_down"] # <<>>
  /\ LET m == Head(downQ["ctrl_down"])
     IN  OnBeacon(m) \/ (~Accepts(est, m) /\ UNCHANGED vars)
  /\ UNCHANGED sub
  /\ Publish(bridgeQ, [downQ EXCEPT !["ctrl_down"] = Tail(@)])

(* run_bridge takes the next message when no ClientHello is in progress. *)
BridgeRecv ==
  /\ bridgeQ # <<>> /\ BridgeIdle
  /\ LET m == Head(bridgeQ)
     IN  \/ m.t = "hello" /\ CheckHello(m)
         \/ m.t = "hello" /\ ~HelloAllowed(m) /\ UNCHANGED vars
         \/ m.t = "env" /\ OnAck(m)
         \/ m.t = "env" /\ ~Accepts(sess, m) /\ UNCHANGED vars
  /\ UNCHANGED sub
  /\ Publish(Tail(bridgeQ), downQ)

(* The rest of handle_client_hello; the only refusal is a stale epoch. *)
BridgeStep ==
  /\ \/ AdmitEpoch
     \/ hello.stage = "checked" /\ ~Admissible(hello.epoch) /\ AbortHello
     \/ InsertSession
  /\ UNCHANGED sub
  /\ Publish(bridgeQ, downQ)

OperatorRevoke == Revoke /\ UNCHANGED sub /\ Publish(bridgeQ, downQ)

(* The broker is in the coordinator's process: its queues and the agent's
   connection die with it. *)
Restart == CoordRestart /\ sub' = FALSE /\ Publish(<<>>, NoDown)

FifoNext ==
  \/ Connect \/ SubscribeAndHello \/ Drop \/ TakeServerHello \/ TakeBeacon
  \/ BridgeRecv \/ BridgeStep \/ OperatorRevoke \/ Restart

(* The event loops keep running: the agent drains its subscriptions (the
   select is biased to the network) and the bridge task its queue and the
   hello in progress.  Connecting, dropping and restarting are not fair. *)
Fairness ==
  /\ WF_fifoVars(TakeServerHello) /\ WF_fifoVars(TakeBeacon)
  /\ WF_fifoVars(BridgeRecv) /\ WF_fifoVars(BridgeStep)

FifoSpec == FifoInit /\ [][FifoNext]_fifoVars /\ Fairness

-----------------------------------------------------------------------------
(* Nothing of an earlier handshake of this host is still on its way. *)
NoneAhead(s) ==
  /\ \A i \in DOMAIN bridgeQ : bridgeQ[i].t = "hello" => bridgeQ[i].sid = s
  /\ ~BridgeIdle => hello.sid = s
  /\ \A i \in DOMAIN downQ["hs_down"] : downQ["hs_down"][i].sid = s

Settled(s) == est.sid = s \/ ~sub \/ revoked

(* A handshake started when nothing of an earlier one is under way ends with
   the agent holding the session, unless its connection drops first or the
   host is revoked. *)
HandshakeCompletes ==
  \A s \in 1..MaxEpoch : (sub /\ hs = s /\ NoneAhead(s)) ~> Settled(s)
=============================================================================
