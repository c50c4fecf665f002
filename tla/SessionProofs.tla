---------------------------- MODULE SessionProofs ----------------------------
(* Proofs about module Session, and about module HandshakeFifo, which implements
   it, for every value of their constants. *)
EXTENDS HandshakeFifo, FiniteSetTheorems, TLAPS

Messages == HelloMsg \union ShelloMsg \union EnvMsg

(* The absent session is a session record. *)
LEMMA NoSessionType == NoSession \in SessionType
  BY DEF NoSession, SessionType

(* The bridge's idle state, and every stage it sets, is a hello state. *)
LEMMA HelloStateType ==
  /\ IdleHello \in HelloState
  /\ \A sid, epoch \in Nat :
       [stage |-> "checked", sid |-> sid, epoch |-> epoch] \in HelloState
  /\ \A h \in HelloState : [h EXCEPT !.stage = "admitted"] \in HelloState
  BY DEF IdleHello, HelloState

(* A new session starts with the first seq and an empty replay guard. *)
LEMMA NewSessionType ==
  ASSUME NEW sid \in Nat, NEW eph \in Nat
  PROVE  NewSession(sid, eph) \in SessionType
  BY DEF NewSession, SessionType

(* Sealing (seal_uplink, seal_downlink) keeps a session a session. *)
LEMMA SealedType ==
  ASSUME NEW s \in SessionType
  PROVE  /\ Sealed(s) \in SessionType
         /\ Sealed(s).sid = s.sid /\ Sealed(s).eph = s.eph
         /\ Sealed(s).seq = s.seq + 1 /\ Sealed(s).high = s.high
  BY DEF Sealed, SessionType

(* Advancing the replay guard keeps a session a session. *)
LEMMA AcceptedType ==
  ASSUME NEW s \in SessionType, NEW m \in EnvMsg
  PROVE  /\ Accepted(s, m) \in SessionType
         /\ Accepted(s, m).sid = s.sid /\ Accepted(s, m).eph = s.eph
         /\ Accepted(s, m).seq = s.seq /\ Accepted(s, m).high = m.seq
  BY DEF Accepted, SessionType, EnvMsg

(* What a session seals is an envelope message. *)
LEMMA EnvelopeType ==
  ASSUME NEW s \in SessionType, NEW dir \in {"up", "down"},
         NEW body \in {"ready", "ack", "job", "result"}, NEW id \in Nat
  PROVE  Envelope(dir, s, body, id) \in EnvMsg
  BY DEF Envelope, SessionType, EnvMsg

(* The three kinds of message partition `net`, each with its fields. *)
LEMMA MessageKinds ==
  ASSUME net \subseteq Messages
  PROVE  /\ Hellos \subseteq HelloMsg
         /\ ServerHellos \subseteq ShelloMsg
         /\ Envelopes \subseteq EnvMsg
  BY DEF Messages, Hellos, ServerHellos, Envelopes, HelloMsg, ShelloMsg, EnvMsg

(* Counting one more start or delivery keeps the counters' type. *)
LEMMA BumpType ==
  ASSUME NEW S, NEW f \in [S -> Nat], NEW x
  PROVE  [f EXCEPT ![x] = @ + 1] \in [S -> Nat]
<1>1. CASE x \in S
  BY <1>1
<1>2. CASE x \notin S
  <2>1. [f EXCEPT ![x] = @ + 1] = f
    BY <1>2
  <2>2. QED  BY <2>1
<1>3. QED  BY <1>1, <1>2

(* The counters' initial value has their type. *)
LEMMA ZeroType ==
  ASSUME NEW S
  PROVE  [x \in S |-> 0] \in [S -> Nat]
  OBVIOUS

(* The initial state is well typed. *)
LEMMA InitType ==
  ASSUME Init
  PROVE  TypeOK
<1>1. /\ starts \in [1..MaxJobs -> Nat]
      /\ delivered \in [1..MaxResults -> Nat]
  BY ZeroType DEF Init
<1>2. /\ revoked \in BOOLEAN
      /\ net \subseteq (HelloMsg \union ShelloMsg \union EnvMsg)
  BY DEF Init
<1>3. /\ est \in SessionType /\ sess \in SessionType
      /\ hello \in HelloState
  BY NoSessionType, HelloStateType DEF Init
<1>4. QED  BY <1>1, <1>2, <1>3, BoundsAssumption DEF Init, TypeOK

(* Every action of the agent and of the coordinator keeps the types. *)
LEMMA StepType ==
  ASSUME TypeOK, [Next]_vars
  PROVE  TypeOK'
<1>m. /\ net \subseteq Messages
      /\ Hellos \subseteq HelloMsg
      /\ ServerHellos \subseteq ShelloMsg
      /\ Envelopes \subseteq EnvMsg
  BY MessageKinds DEF TypeOK, Messages
<1> USE BoundsAssumption, StoreAssumption DEF agentVars, coordVars, jobVars
<1>1. CASE ConnAck
  BY <1>1 DEF ConnAck, TypeOK
<1>2. CASE ConnAckNoEpoch
  BY <1>2 DEF ConnAckNoEpoch, TypeOK
<1>3. CASE BeginHandshake
  <2>1. ClientHello(nSid + 1, epochSeen) \in HelloMsg
    BY DEF ClientHello, HelloMsg, TypeOK
  <2>2. QED  BY <1>3, <2>1 DEF BeginHandshake, TypeOK
<1>4. CASE BeginHandshakeFails
  BY <1>4 DEF BeginHandshakeFails, TypeOK
<1>5. ASSUME NEW m \in ServerHellos, OnServerHello(m) PROVE TypeOK'
  <2>1. m \in ShelloMsg  BY <1>m
  <2>2. NewSession(m.sid, m.eph) \in SessionType
    BY <2>1, NewSessionType DEF ShelloMsg
  <2>3. QED  BY <1>5, <2>2 DEF OnServerHello, TypeOK
<1>6. ASSUME NEW m \in Down("ready"), OnBeacon(m) PROVE TypeOK'
  <2>1. m \in EnvMsg  BY <1>m DEF Down
  <2>2. est \in SessionType  BY DEF TypeOK
  <2>3. Accepted(est, m) \in SessionType  BY <2>1, <2>2, AcceptedType
  <2>4. Sealed(Accepted(est, m)) \in SessionType  BY <2>3, SealedType
  <2>5. Envelope("up", est, "ack", 0) \in EnvMsg  BY <2>2, EnvelopeType
  <2>6. QED  BY <1>6, <2>4, <2>5 DEF OnBeacon, TypeOK
<1>7. ASSUME NEW m \in Down("job"), OnDispatch(m) PROVE TypeOK'
  <2>1. m \in EnvMsg  BY <1>m DEF Down
  <2>2. Accepted(est, m) \in SessionType  BY <2>1, AcceptedType DEF TypeOK
  <2>3. [starts EXCEPT ![m.id] = @ + 1] \in [1..MaxJobs -> Nat]
    BY BumpType DEF TypeOK
  <2>4. QED  BY <1>7, <2>2, <2>3 DEF OnDispatch, TypeOK
<1>8. CASE SealResult
  <2>1. Sealed(est) \in SessionType  BY SealedType DEF TypeOK
  <2>2. Envelope("up", est, "result", nResults + 1) \in EnvMsg
    BY EnvelopeType DEF TypeOK
  <2>3. QED  BY <1>8, <2>1, <2>2 DEF SealResult, TypeOK
<1>9. CASE Disconnect
  BY <1>9, NoSessionType DEF Disconnect, TypeOK
<1>10. CASE AgentCrash
  BY <1>10, NoSessionType DEF AgentCrash, TypeOK
<1>11. ASSUME NEW m \in Hellos, CheckHello(m) PROVE TypeOK'
  <2>1. m \in HelloMsg  BY <1>m
  <2>2. QED  BY <1>11, <2>1, HelloStateType DEF CheckHello, TypeOK, HelloMsg
<1>12. CASE AdmitEpoch
  BY <1>12, HelloStateType DEF AdmitEpoch, TypeOK, HelloState
<1>13. CASE AbortHello
  BY <1>13, HelloStateType DEF AbortHello, TypeOK
<1>14. CASE InsertSession
  <2> DEFINE s == NewSession(hello.sid, nEph + 1)
  <2>1. s \in SessionType  BY NewSessionType DEF TypeOK, HelloState
  <2>2. Sealed(s) \in SessionType  BY <2>1, SealedType
  <2>3. Envelope("down", s, "ready", 0) \in EnvMsg  BY <2>1, EnvelopeType
  <2>4. ServerHello(s.sid, s.eph) \in ShelloMsg
    BY <2>1 DEF ServerHello, ShelloMsg, SessionType
  <2> HIDE DEF s
  <2>5. /\ sess' = Sealed(s)
        /\ net' = net \union {ServerHello(s.sid, s.eph), Envelope("down", s, "ready", 0)}
    BY <1>14 DEF InsertSession, s
  <2>6. /\ nEph < MaxEph /\ nEph' = nEph + 1 /\ hello' = IdleHello
        /\ UNCHANGED <<agentVars, high, revoked, jobVars>>
    BY <1>14 DEF InsertSession
  <2>7. net' \subseteq (HelloMsg \union ShelloMsg \union EnvMsg)
    BY <2>3, <2>4, <2>5 DEF TypeOK
  <2>8. QED
    BY <2>2, <2>5, <2>6, <2>7, HelloStateType, SMTT(40) DEF TypeOK
<1>15. CASE InsertSessionUnannounced
  <2>1. NewSession(hello.sid, nEph + 1) \in SessionType
    BY NewSessionType DEF TypeOK, HelloState
  <2>2. QED  BY <1>15, <2>1, HelloStateType, SMTT(40) DEF InsertSessionUnannounced, TypeOK
<1>16. CASE SendDispatch
  <2>1. Sealed(sess) \in SessionType  BY SealedType DEF TypeOK
  <2>2. Envelope("down", sess, "job", nJobs + 1) \in EnvMsg
    BY EnvelopeType DEF TypeOK
  <2>3. QED  BY <1>16, <2>1, <2>2 DEF SendDispatch, TypeOK
<1>17. ASSUME NEW m \in Up("ack"), OnAck(m) PROVE TypeOK'
  <2>1. m \in EnvMsg  BY <1>m DEF Up
  <2>2. Accepted(sess, m) \in SessionType  BY <2>1, AcceptedType DEF TypeOK
  <2>3. QED  BY <1>17, <2>2 DEF OnAck, TypeOK
<1>18. ASSUME NEW m \in Up("result"), OnResult(m) PROVE TypeOK'
  <2>1. m \in EnvMsg  BY <1>m DEF Up
  <2>2. Accepted(sess, m) \in SessionType  BY <2>1, AcceptedType DEF TypeOK
  <2>3. [delivered EXCEPT ![m.id] = @ + 1] \in [1..MaxResults -> Nat]
    BY BumpType DEF TypeOK
  <2>4. QED  BY <1>18, <2>2, <2>3 DEF OnResult, TypeOK
<1>19. CASE Revoke
  BY <1>19 DEF Revoke, TypeOK
<1>20. CASE CoordRestart
  BY <1>20, NoSessionType, HelloStateType DEF CoordRestart, TypeOK
<1>21. CASE UNCHANGED vars
  BY <1>21 DEF vars, TypeOK
<1>22. QED
  BY <1>1, <1>2, <1>3, <1>4, <1>5, <1>6, <1>7, <1>8, <1>9, <1>10, <1>11,
     <1>12, <1>13, <1>14, <1>15, <1>16, <1>17, <1>18, <1>19, <1>20, <1>21
  DEF Next, AgentNext, CoordNext

(* Every variable keeps its type in every step of the agent, of the bridge
   task and of the operator. *)
THEOREM TypeCorrect == Spec => []TypeOK
<1>1. Init => TypeOK  BY InitType
<1>2. TypeOK /\ [Next]_vars => TypeOK'  BY StepType
<1>3. QED  BY <1>1, <1>2, PTL DEF Spec

-----------------------------------------------------------------------------
(* Agreement of the two ends.  Hellos are issued with increasing sids and
   increasing durable epochs; the coordinator's high-water mark bounds the
   epoch of every session it ever announced or holds. *)

HelloInv ==
  /\ \A m \in Hellos : m.sid \in 1..nSid /\ m.epoch \in 1..epochDisk
  /\ epochDisk <= epochSeen
  /\ conn = "epoch" => epochDisk < epochSeen
  /\ \A m, n \in Hellos : m.sid < n.sid => m.epoch < n.epoch
  /\ \A m, n \in Hellos : m.sid = n.sid => m = n

AgentInv ==
  /\ hs # 0 => hs = nSid /\ ~Live(est)
  /\ conn # "up" => hs = 0 /\ ~Live(est)
  /\ Live(est) => est.sid = nSid /\ ServerHello(est.sid, est.eph) \in net

(* The hello of sid was admitted, and before the one now being admitted. *)
AdmittedSid(sid) ==
  \E h \in Hellos :
    /\ h.sid = sid
    /\ h.epoch <= high
    /\ hello.stage = "admitted" => h.epoch < high

CoordInv ==
  /\ ~BridgeIdle => ClientHello(hello.sid, hello.epoch) \in net
  /\ hello.stage = "admitted" => high = hello.epoch
  /\ \A m \in ServerHellos : AdmittedSid(m.sid)
  /\ Live(sess) => AdmittedSid(sess.sid)
  /\ \A m, n \in ServerHellos : m.sid = n.sid => m = n
  /\ Live(sess) => \A m \in ServerHellos :
       m.sid <= sess.sid /\ (m.sid = sess.sid => m.eph = sess.eph)

AgreementInv == TypeOK /\ HelloInv /\ AgentInv /\ CoordInv

(* Nonces.  Every envelope belongs to an announced or inserted key; under the
   key a side still holds, all its envelopes have a smaller seq. *)
KeyInv ==
  /\ \A m \in ServerHellos : m.eph \in 1..nEph
  /\ Live(sess) => sess.eph \in 1..nEph /\ sess.sid \in 1..nSid
  /\ \A e \in Envelopes : e.eph \in 1..nEph /\ e.sid \in 1..nSid
  /\ Live(est) => est.sid = nSid /\ est.eph \in 1..nEph
  /\ hs # 0 => hs = nSid /\ ~Live(est)
  /\ conn # "up" => hs = 0 /\ ~Live(est)
  /\ \A m \in Hellos : m.sid \in 1..nSid
  /\ ~BridgeIdle => hello.sid \in 1..nSid

SeqInv ==
  /\ \A e \in Envelopes : e.dir = "down" /\ Opens(sess, e) => e.seq < sess.seq
  /\ \A e \in Envelopes : e.dir = "up" /\ Opens(est, e) => e.seq < est.seq
  /\ \A e \in Envelopes : e.dir = "up" => e.sid # hs

NonceInv == TypeOK /\ KeyInv /\ SeqInv /\ NonceUnique
-----------------------------------------------------------------------------
(* Where messages come from. *)

(* A step that publishes no ClientHello leaves the set of hellos alone. *)
LEMMA HellosFrame ==
  ASSUME [Next]_vars, ~BeginHandshake
  PROVE  Hellos' = Hellos
  BY DEF Next, AgentNext, CoordNext, vars, agentVars, coordVars, jobVars, Hellos,
     ConnAck, ConnAckNoEpoch, BeginHandshakeFails, OnServerHello, OnBeacon,
     OnDispatch, SealResult, Disconnect, AgentCrash, CheckHello, AdmitEpoch,
     AbortHello, InsertSession, InsertSessionUnannounced, SendDispatch, OnAck,
     OnResult, Revoke, CoordRestart, ServerHello, Envelope, NewSession

(* A step that publishes no ServerHello leaves their set alone. *)
LEMMA ServerHellosFrame ==
  ASSUME [Next]_vars, ~InsertSession
  PROVE  ServerHellos' = ServerHellos
  BY DEF Next, AgentNext, CoordNext, vars, agentVars, coordVars, jobVars, ServerHellos,
     ConnAck, ConnAckNoEpoch, BeginHandshake, BeginHandshakeFails, OnServerHello, OnBeacon,
     OnDispatch, SealResult, Disconnect, AgentCrash, CheckHello, AdmitEpoch,
     AbortHello, InsertSessionUnannounced, SendDispatch, OnAck,
     OnResult, Revoke, CoordRestart, ClientHello, Envelope

(* Nothing published is ever taken back. *)
LEMMA NetGrows ==
  ASSUME [Next]_vars
  PROVE  net \subseteq net'
  BY DEF Next, AgentNext, CoordNext, vars, agentVars, coordVars, jobVars,
     ConnAck, ConnAckNoEpoch, BeginHandshake, BeginHandshakeFails, OnServerHello, OnBeacon,
     OnDispatch, SealResult, Disconnect, AgentCrash, CheckHello, AdmitEpoch,
     AbortHello, InsertSession, InsertSessionUnannounced, SendDispatch, OnAck,
     OnResult, Revoke, CoordRestart

-----------------------------------------------------------------------------
(* The agent's durable epochs order its hellos. *)
LEMMA HelloInvStep ==
  ASSUME TypeOK, HelloInv, [Next]_vars
  PROVE  HelloInv'
<1>m. Hellos \subseteq HelloMsg
  BY MessageKinds DEF TypeOK, Messages
<1>1. CASE BeginHandshake
  <2> DEFINE x == ClientHello(nSid + 1, epochSeen)
  <2>1. /\ Hellos' = Hellos \union {x}
        /\ x.sid = nSid + 1 /\ x.epoch = epochSeen
    BY <1>1 DEF BeginHandshake, Hellos, ClientHello
  <2>2. /\ epochDisk' = epochSeen /\ epochSeen' = epochSeen /\ nSid' = nSid + 1
        /\ conn' = "up" /\ epochDisk < epochSeen
    BY <1>1 DEF BeginHandshake, HelloInv
  <2>3. nSid \in Nat /\ epochSeen \in Nat /\ epochDisk \in Nat
    BY DEF TypeOK
  <2>4. \A m \in Hellos : /\ m.sid \in 1..nSid /\ m.epoch \in 1..epochDisk
                          /\ m.sid \in Nat /\ m.epoch \in Nat
    BY <1>m DEF HelloInv, HelloMsg
  <2> HIDE DEF x
  <2>5. \A m \in Hellos' : m.sid \in 1..nSid' /\ m.epoch \in 1..epochDisk'
    BY <2>1, <2>2, <2>3, <2>4
  <2>6. \A m, n \in Hellos' : m.sid < n.sid => m.epoch < n.epoch
    BY <2>1, <2>2, <2>3, <2>4 DEF HelloInv
  <2>7. \A m, n \in Hellos' : m.sid = n.sid => m = n
    BY <2>1, <2>2, <2>3, <2>4 DEF HelloInv
  <2>8. QED  BY <2>2, <2>3, <2>5, <2>6, <2>7 DEF HelloInv
<1>2. CASE ~BeginHandshake
  <2>1. Hellos' = Hellos  BY <1>2, HellosFrame
  <2>2. /\ nSid' = nSid
        /\ epochDisk' <= epochSeen'
        /\ conn' = "epoch" => epochDisk' < epochSeen'
        /\ epochDisk' >= epochDisk
    BY <1>2 DEF HelloInv, TypeOK, Next, AgentNext, CoordNext, vars, agentVars,
       coordVars, jobVars, ConnAck, ConnAckNoEpoch, BeginHandshakeFails,
       OnServerHello, OnBeacon, OnDispatch, SealResult, Disconnect, AgentCrash,
       CheckHello, AdmitEpoch, AbortHello, InsertSession,
       InsertSessionUnannounced, SendDispatch, OnAck, OnResult, Revoke, CoordRestart
  <2>3. epochDisk \in Nat /\ epochDisk' \in Int
    BY <1>2 DEF TypeOK, Next, AgentNext, CoordNext, vars, agentVars,
       coordVars, jobVars, ConnAck, ConnAckNoEpoch, BeginHandshakeFails,
       OnServerHello, OnBeacon, OnDispatch, SealResult, Disconnect, AgentCrash,
       CheckHello, AdmitEpoch, AbortHello, InsertSession,
       InsertSessionUnannounced, SendDispatch, OnAck, OnResult, Revoke, CoordRestart
  <2>4. \A m \in Hellos' : m.sid \in 1..nSid' /\ m.epoch \in 1..epochDisk'
    BY <2>1, <2>2, <2>3 DEF HelloInv
  <2>5. QED  BY <2>1, <2>2, <2>4 DEF HelloInv
<1>3. QED  BY <1>1, <1>2

(* A handshake in flight and an established session are always of the newest
   sid, and a session of the agent was announced by the coordinator. *)
LEMMA AgentInvStep ==
  ASSUME TypeOK, AgentInv, [Next]_vars
  PROVE  AgentInv'
<1>n. net \subseteq net'  BY NetGrows
<1>t. est \in SessionType  BY DEF TypeOK
<1> USE DEF agentVars, coordVars, jobVars
<1>1. CASE ConnAck \/ ConnAckNoEpoch \/ BeginHandshake \/ BeginHandshakeFails
  BY <1>1, <1>n DEF AgentInv, Live, ConnAck, ConnAckNoEpoch, BeginHandshake,
     BeginHandshakeFails, TypeOK
<1>2. ASSUME NEW m \in ServerHellos, OnServerHello(m) PROVE AgentInv'
  <2>1. /\ conn' = "up" /\ hs' = 0 /\ nSid' = nSid /\ net' = net
        /\ hs = nSid /\ ~Live(est)
        /\ est' = IF m.sid = hs THEN NewSession(m.sid, m.eph) ELSE est
    BY <1>2 DEF OnServerHello, AgentInv
  <2>2. m \in ShelloMsg /\ m \in net
    BY MessageKinds DEF TypeOK, Messages, ServerHellos
  <2>3. m = ServerHello(m.sid, m.eph)
    BY <2>2 DEF ServerHello, ShelloMsg
  <2>4. CASE m.sid = hs
    <3>1. est'.sid = m.sid /\ est'.eph = m.eph
      BY <2>1, <2>4 DEF NewSession
    <3>2. QED  BY <2>1, <2>2, <2>3, <2>4, <3>1 DEF AgentInv, Live
  <2>5. CASE m.sid # hs
    BY <2>1, <2>5 DEF AgentInv, Live
  <2>6. QED  BY <2>4, <2>5
<1>3. ASSUME NEW m \in Down("ready"), OnBeacon(m) PROVE AgentInv'
  <2>1. m \in EnvMsg
    BY MessageKinds DEF TypeOK, Messages, Down
  <2>2. est'.sid = est.sid /\ est'.eph = est.eph
    BY <1>3, <1>t, <2>1, AcceptedType, SealedType DEF OnBeacon
  <2>3. QED  BY <1>3, <1>n, <2>2 DEF OnBeacon, AgentInv, Live
<1>4. ASSUME NEW m \in Down("job"), OnDispatch(m) PROVE AgentInv'
  <2>1. m \in EnvMsg
    BY MessageKinds DEF TypeOK, Messages, Down
  <2>2. est'.sid = est.sid /\ est'.eph = est.eph
    BY <1>4, <1>t, <2>1, AcceptedType DEF OnDispatch
  <2>3. QED  BY <1>4, <1>n, <2>2 DEF OnDispatch, AgentInv, Live
<1>5. CASE SealResult
  <2>1. est'.sid = est.sid /\ est'.eph = est.eph
    BY <1>5, <1>t, SealedType DEF SealResult
  <2>2. QED  BY <1>5, <1>n, <2>1 DEF SealResult, AgentInv, Live
<1>6. CASE Disconnect \/ AgentCrash
  <2>1. hs' = 0 /\ est' = NoSession
    BY <1>6 DEF Disconnect, AgentCrash
  <2>2. QED  BY <2>1 DEF AgentInv, Live, NoSession
<1>7. CASE CoordNext \/ UNCHANGED vars
  <2>1. UNCHANGED <<conn, hs, est, nSid>>
    BY <1>7 DEF CoordNext, vars, CheckHello, AdmitEpoch, AbortHello, InsertSession,
       InsertSessionUnannounced, SendDispatch, OnAck, OnResult, Revoke, CoordRestart
  <2>2. QED  BY <1>n, <2>1 DEF AgentInv, Live
<1>8. QED
  BY <1>1, <1>2, <1>3, <1>4, <1>5, <1>6, <1>7 DEF Next, AgentNext

(* The hello being admitted is newer than every session announced or held. *)
LEMMA AdmittedIsNewest ==
  ASSUME TypeOK, HelloInv, CoordInv, hello.stage = "admitted"
  PROVE  /\ \A sid \in Nat : AdmittedSid(sid) => sid < hello.sid
         /\ hello.sid # 0
<1>1. /\ ClientHello(hello.sid, hello.epoch) \in Hellos
      /\ high = hello.epoch
  BY DEF CoordInv, BridgeIdle, Hellos, ClientHello
<1>2. Hellos \subseteq HelloMsg
  BY MessageKinds DEF TypeOK, Messages
<1> DEFINE x == ClientHello(hello.sid, hello.epoch)
<1>3. x \in Hellos /\ x.sid = hello.sid /\ x.epoch = hello.epoch
  BY <1>1 DEF ClientHello
<1>4. hello.sid \in Nat /\ hello.epoch \in Nat /\ nSid \in Nat
  BY DEF TypeOK, HelloState
<1> HIDE DEF x
<1>5. ASSUME NEW sid \in Nat, AdmittedSid(sid) PROVE sid < hello.sid
  <2>0. PICK h \in Hellos : h.sid = sid /\ (hello.stage = "admitted" => h.epoch < high)
    BY <1>5 DEF AdmittedSid
  <2>1. h.sid = sid /\ h.epoch < high
    BY <2>0
  <2>2. h.sid \in Nat /\ h.epoch \in Nat
    BY <1>2 DEF HelloMsg
  <2>3. h.sid # x.sid
    <3>1. SUFFICES ASSUME h.sid = x.sid PROVE FALSE
      OBVIOUS
    <3>2. h = x  BY <1>3, <3>1 DEF HelloInv
    <3>3. QED  BY <1>1, <1>3, <1>4, <2>1, <2>2, <3>2
  <2>4. ~(x.sid < h.sid)
    <3>1. SUFFICES ASSUME x.sid < h.sid PROVE FALSE
      OBVIOUS
    <3>2. x.epoch < h.epoch  BY <1>3, <3>1 DEF HelloInv
    <3>3. QED  BY <1>1, <1>3, <1>4, <2>1, <2>2, <3>2
  <2>5. QED  BY <1>3, <1>4, <2>1, <2>2, <2>3, <2>4
<1>6. hello.sid # 0
  BY <1>3, <1>4 DEF HelloInv
<1>7. QED  BY <1>5, <1>6

(* Every step keeps the coordinator's invariant: its session, its high-water
   mark and its announcements stay ordered by the epochs of the hellos. *)
LEMMA CoordInvStep ==
  ASSUME TypeOK, HelloInv, CoordInv, DurableEpochs, [Next]_vars
  PROVE  CoordInv'
<1>n. net \subseteq net'  BY NetGrows
<1>h. Hellos \subseteq Hellos'  BY <1>n DEF Hellos
<1>m. ServerHellos \subseteq ShelloMsg /\ Hellos \subseteq HelloMsg
  BY MessageKinds DEF TypeOK, Messages
<1>t. sess \in SessionType /\ hello \in HelloState /\ high \in Nat
  BY DEF TypeOK
<1>s. \A m \in ServerHellos : m.sid \in Nat
  BY <1>m DEF ShelloMsg
<1> USE DEF agentVars, coordVars, jobVars
<1>1. CASE UNCHANGED <<hello, high>> /\ ~InsertSession
           /\ (~Live(sess') \/ (sess'.sid = sess.sid /\ sess'.eph = sess.eph))
  <2>1. ServerHellos' = ServerHellos  BY <1>1, ServerHellosFrame
  <2>2. \A sid : AdmittedSid(sid) => AdmittedSid(sid)'
    BY <1>1, <1>h DEF AdmittedSid
  <2>3. Live(sess') => Live(sess) /\ sess'.sid = sess.sid /\ sess'.eph = sess.eph
    BY <1>1 DEF Live
  <2>4. Live(sess') => AdmittedSid(sess.sid)'
    BY <2>2, <2>3 DEF CoordInv
  <2>5. \A m \in ServerHellos' : AdmittedSid(m.sid)'
    BY <2>1, <2>2 DEF CoordInv
  <2>6. QED
    BY <1>1, <1>n, <2>1, <2>3, <2>4, <2>5 DEF CoordInv, BridgeIdle
<1>2. CASE AgentNext \/ UNCHANGED vars \/ Revoke \/ SendDispatch
  <2>1. UNCHANGED <<hello, high>> /\ ~InsertSession
    BY <1>2 DEF vars, AgentNext, Revoke, SendDispatch, InsertSession, BridgeIdle,
       ConnAck, ConnAckNoEpoch, BeginHandshake, BeginHandshakeFails, OnServerHello,
       OnBeacon, OnDispatch, SealResult, Disconnect, AgentCrash, TypeOK
  <2>2. sess'.sid = sess.sid /\ sess'.eph = sess.eph
    BY <1>2, <1>t, SealedType DEF vars, AgentNext, Revoke, SendDispatch,
       ConnAck, ConnAckNoEpoch, BeginHandshake, BeginHandshakeFails, OnServerHello,
       OnBeacon, OnDispatch, SealResult, Disconnect, AgentCrash
  <2>3. QED  BY <1>1, <2>1, <2>2
<1>3. ASSUME NEW m \in Up("ack") \union Up("result"), OnAck(m) \/ OnResult(m)
      PROVE  CoordInv'
  <2>1. m \in EnvMsg
    BY MessageKinds DEF TypeOK, Messages, Up
  <2>2. sess'.sid = sess.sid /\ sess'.eph = sess.eph
    BY <1>3, <1>t, <2>1, AcceptedType DEF OnAck, OnResult
  <2>3. UNCHANGED <<hello, high>> /\ ~InsertSession
    BY <1>3 DEF OnAck, OnResult, InsertSession, BridgeIdle
  <2>4. QED  BY <1>1, <2>2, <2>3
<1>4. ASSUME NEW m \in Hellos, CheckHello(m) PROVE CoordInv'
  <2>1. /\ hello' = [stage |-> "checked", sid |-> m.sid, epoch |-> m.epoch]
        /\ hello.stage = "idle"
        /\ UNCHANGED <<sess, high, net>>
    BY <1>4 DEF CheckHello, BridgeIdle
  <2>2. m \in HelloMsg /\ m \in net
    BY <1>m DEF Hellos
  <2>3. ClientHello(hello'.sid, hello'.epoch) = m
    BY <2>1, <2>2 DEF ClientHello, HelloMsg
  <2>4. /\ hello'.stage = "checked"
        /\ \A sid : AdmittedSid(sid) => AdmittedSid(sid)'
        /\ ServerHellos' = ServerHellos
    BY <2>1 DEF AdmittedSid, Hellos, ServerHellos
  <2>5. QED  BY <2>1, <2>2, <2>3, <2>4 DEF CoordInv, BridgeIdle, Live
<1>5. CASE AdmitEpoch
  <2>1. /\ hello.stage = "checked" /\ hello.epoch > high
        /\ high' = hello.epoch
        /\ hello'.stage = "admitted" /\ hello'.sid = hello.sid
        /\ hello'.epoch = hello.epoch
        /\ UNCHANGED <<sess, net>>
    BY <1>5, <1>t DEF AdmitEpoch, Admissible, HelloState
  <2>2. hello.epoch \in Nat  BY <1>t DEF HelloState
  <2>3. \A h \in Hellos : h.epoch \in Nat  BY <1>m DEF HelloMsg
  <2>4. Hellos' = Hellos /\ ServerHellos' = ServerHellos
    BY <2>1 DEF Hellos, ServerHellos
  <2>5. \A sid : AdmittedSid(sid) => AdmittedSid(sid)'
    BY <1>t, <2>1, <2>2, <2>3, <2>4 DEF AdmittedSid
  <2>6. QED  BY <2>1, <2>4, <2>5 DEF CoordInv, BridgeIdle, Live
<1>6. CASE AbortHello \/ CoordRestart
  <2>1. /\ hello'.stage = "idle" /\ UNCHANGED <<high, net>>
        /\ sess' = sess \/ sess' = NoSession
    BY <1>6 DEF AbortHello, CoordRestart, IdleHello
  <2>2. Hellos' = Hellos /\ ServerHellos' = ServerHellos
    BY <2>1 DEF Hellos, ServerHellos
  <2>3. \A sid : AdmittedSid(sid) => AdmittedSid(sid)'
    <3>1. hello'.stage # "admitted" /\ high' = high  BY <2>1
    <3>2. QED  BY <2>2, <3>1 DEF AdmittedSid
  <2>4. QED  BY <2>1, <2>2, <2>3 DEF CoordInv, BridgeIdle, Live, NoSession
<1>7. CASE InsertSession \/ InsertSessionUnannounced
  <2> DEFINE k == ServerHello(hello.sid, nEph + 1)
  <2>1. /\ hello.stage = "admitted" /\ hello'.stage = "idle"
        /\ high' = high
        /\ sess'.sid = hello.sid /\ sess'.eph = nEph + 1
    BY <1>7 DEF InsertSession, InsertSessionUnannounced, IdleHello, NewSession, Sealed
  <2>2. ServerHellos' \subseteq ServerHellos \union {k}
    BY <1>7 DEF InsertSession, InsertSessionUnannounced, ServerHellos, ServerHello,
       Envelope, NewSession
  <2>3. k.sid = hello.sid /\ k.eph = nEph + 1
    BY DEF ServerHello
  <2> HIDE DEF k
  <2>4. \A sid \in Nat : AdmittedSid(sid) => sid < hello.sid
    BY <2>1, AdmittedIsNewest
  <2>5. \A m \in ServerHellos : m.sid < hello.sid
    BY <1>s, <2>4 DEF CoordInv
  <2>6. \A sid : AdmittedSid(sid) => AdmittedSid(sid)'
    BY <1>h, <2>1 DEF AdmittedSid
  <2>7. \A sid : sid = hello.sid => AdmittedSid(sid)'
    <3> DEFINE x == ClientHello(hello.sid, hello.epoch)
    <3>1. x \in Hellos' /\ x.sid = hello.sid /\ x.epoch = high
      BY <1>h, <2>1 DEF CoordInv, BridgeIdle, ClientHello, Hellos
    <3> HIDE DEF x
    <3>2. QED  BY <1>t, <2>1, <3>1 DEF AdmittedSid
  <2>8. hello.sid \in Nat  BY <1>t DEF HelloState
  <2>9. \A m \in ServerHellos' : AdmittedSid(m.sid)'
    <3> SUFFICES ASSUME NEW m \in ServerHellos' PROVE AdmittedSid(m.sid)'
      OBVIOUS
    <3>1. CASE m \in ServerHellos
      <4>1. AdmittedSid(m.sid)  BY <3>1 DEF CoordInv
      <4>2. QED  BY <2>6, <4>1
    <3>2. CASE m = k
      BY <2>3, <2>7, <3>2
    <3>3. QED  BY <2>2, <3>1, <3>2
  <2>10. \A m, n \in ServerHellos' : m.sid = n.sid => m = n
    BY <1>s, <2>2, <2>3, <2>5, <2>8 DEF CoordInv
  <2>11. \A m \in ServerHellos' :
           m.sid <= sess'.sid /\ (m.sid = sess'.sid => m.eph = sess'.eph)
    BY <1>s, <2>1, <2>2, <2>3, <2>5, <2>8
  <2>12. AdmittedSid(sess.sid)'
    <3>1. AdmittedSid(sess.sid)' <=> \E sid : sid = sess'.sid /\ AdmittedSid(sid)'
      BY DEF AdmittedSid
    <3>2. QED  BY <2>1, <2>7, <3>1
  <2>13. QED  BY <2>1, <2>9, <2>10, <2>11, <2>12 DEF CoordInv, BridgeIdle
<1>8. QED
  BY <1>2, <1>3, <1>4, <1>5, <1>6, <1>7 DEF Next, CoordNext

(* AgreementInv is inductive, so it holds in every reachable state. *)
LEMMA AgreementInvariant ==
  ASSUME DurableEpochs
  PROVE  Spec => []AgreementInv
<1>1. Init => AgreementInv
  <2> SUFFICES ASSUME Init PROVE AgreementInv
    OBVIOUS
  <2>1. TypeOK  BY InitType
  <2>2. Hellos = {} /\ ServerHellos = {}
    BY DEF Init, Hellos, ServerHellos
  <2>3. QED
    BY <2>1, <2>2 DEF Init, AgreementInv, HelloInv, AgentInv, CoordInv, Live,
       NoSession, BridgeIdle, IdleHello
<1>2. AgreementInv /\ [Next]_vars => AgreementInv'
  BY StepType, HelloInvStep, AgentInvStep, CoordInvStep DEF AgreementInv
<1>3. QED  BY <1>1, <1>2, PTL DEF Spec

(* next_epoch: a later hello of the agent carries a greater epoch, whatever
   crashes between the rename and the directory fsync. *)
THEOREM EpochsNeverReused == Spec => []EpochNeverReused
<1>1. Init => TypeOK /\ HelloInv
  <2> SUFFICES ASSUME Init PROVE TypeOK /\ HelloInv
    OBVIOUS
  <2>1. Hellos = {}  BY DEF Init, Hellos
  <2>2. TypeOK  BY InitType
  <2>3. HelloInv  BY <2>1 DEF Init, HelloInv
  <2>4. QED  BY <2>2, <2>3
<1>2. (TypeOK /\ HelloInv) /\ [Next]_vars => (TypeOK /\ HelloInv)'
  BY StepType, HelloInvStep
<1>3. TypeOK /\ HelloInv => EpochNeverReused
  BY DEF HelloInv, EpochNeverReused
<1>4. QED  BY <1>1, <1>2, <1>3, PTL DEF Spec

(* Whenever both ends hold a session it is the same session, under the same
   key (with the durable high-water store). *)
THEOREM EndsAgree == Spec => []BothEndsAgree
<1>1. CASE DurableEpochs
  <2>1. AgreementInv => BothEndsAgree
    <3> SUFFICES ASSUME AgreementInv, Live(est), Live(sess)
                 PROVE  est.sid = sess.sid /\ est.eph = sess.eph
      BY DEF BothEndsAgree
    <3> DEFINE k == ServerHello(est.sid, est.eph)
    <3>1. k \in ServerHellos /\ k.sid = est.sid /\ k.eph = est.eph /\ est.sid = nSid
      BY DEF AgreementInv, AgentInv, ServerHello, ServerHellos
    <3> HIDE DEF k
    <3>2. est.sid <= sess.sid /\ (est.sid = sess.sid => est.eph = sess.eph)
      BY <3>1 DEF AgreementInv, CoordInv
    <3>3. sess.sid <= nSid
      <4>1. AdmittedSid(sess.sid)  BY DEF AgreementInv, CoordInv
      <4>2. PICK h \in Hellos : h.sid = sess.sid  BY <4>1 DEF AdmittedSid
      <4>3. h.sid \in 1..nSid  BY DEF AgreementInv, HelloInv
      <4>4. QED  BY <4>2, <4>3 DEF AgreementInv, TypeOK
    <3>4. nSid \in Nat /\ sess.sid \in Nat
      BY DEF AgreementInv, TypeOK, SessionType
    <3>5. QED  BY <3>1, <3>2, <3>3, <3>4
  <2>2. QED  BY <1>1, <2>1, AgreementInvariant, PTL
<1>2. CASE ~DurableEpochs
  <2>1. BothEndsAgree  BY <1>2 DEF BothEndsAgree
  <2>2. QED  BY <2>1, PTL
<1>3. QED  BY <1>1, <1>2

(* A ClientHello yields at most one session, whatever is replayed and however
   often the coordinator restarts (with the durable high-water store). *)
THEOREM NoResurrection == Spec => []OneSessionPerHello
<1>1. CASE DurableEpochs
  <2>1. AgreementInv => OneSessionPerHello
    BY DEF AgreementInv, CoordInv, OneSessionPerHello
  <2>2. QED  BY <1>1, <2>1, AgreementInvariant, PTL
<1>2. CASE ~DurableEpochs
  <2>1. OneSessionPerHello  BY <1>2 DEF OneSessionPerHello
  <2>2. QED  BY <2>1, PTL
<1>3. QED  BY <1>1, <1>2

(* The coordinator replaces a live session only by one of a newer handshake. *)
THEOREM SessionsOnlyAdvance == Spec => NeverReplacedByOlder
<1> DEFINE Adv == DurableEpochs /\ Live(sess) /\ Live(sess') => sess'.sid >= sess.sid
<1>1. CASE DurableEpochs
  <2>1. AgreementInv /\ [Next]_vars => [Adv]_vars
    <3> SUFFICES ASSUME AgreementInv, Next, Live(sess), Live(sess')
                 PROVE  sess'.sid >= sess.sid
      BY DEF vars, Adv
    <3>t. sess \in SessionType /\ sess.sid \in Nat /\ hello.sid \in Nat
      BY DEF AgreementInv, TypeOK, SessionType, HelloState
    <3>1. CASE InsertSession \/ InsertSessionUnannounced
      <4>1. hello.stage = "admitted" /\ sess'.sid = hello.sid
        BY <3>1 DEF InsertSession, InsertSessionUnannounced, NewSession, Sealed
      <4>2. AdmittedSid(sess.sid)  BY DEF AgreementInv, CoordInv
      <4>3. sess.sid < hello.sid
        BY <3>t, <4>1, <4>2, AdmittedIsNewest DEF AgreementInv
      <4>4. QED  BY <3>t, <4>1, <4>3
    <3>2. ASSUME NEW m \in Up("ack") \union Up("result"), OnAck(m) \/ OnResult(m)
          PROVE  sess'.sid = sess.sid
      <4>1. m \in EnvMsg
        BY MessageKinds DEF AgreementInv, TypeOK, Messages, Up
      <4>2. QED  BY <3>2, <3>t, <4>1, AcceptedType DEF OnAck, OnResult
    <3>3. CASE SendDispatch
      BY <3>3, <3>t, SealedType DEF SendDispatch
    <3>4. CASE CoordRestart
      BY <3>4 DEF CoordRestart, Live, NoSession
    <3>5. ASSUME AgentNext \/ (\E m \in Hellos : CheckHello(m))
                 \/ AdmitEpoch \/ AbortHello \/ Revoke
          PROVE  sess' = sess
      BY <3>5 DEF AgentNext, CheckHello, AdmitEpoch, AbortHello, Revoke, coordVars,
         ConnAck, ConnAckNoEpoch, BeginHandshake, BeginHandshakeFails, OnServerHello,
         OnBeacon, OnDispatch, SealResult, Disconnect, AgentCrash
    <3>6. QED
      BY <3>t, <3>1, <3>2, <3>3, <3>4, <3>5 DEF Next, CoordNext
  <2>2. Spec => [][Next]_vars
    BY PTL DEF Spec
  <2>3. QED
    BY <1>1, <2>1, <2>2, AgreementInvariant, PTL DEF NeverReplacedByOlder, Adv
<1>2. CASE ~DurableEpochs
  <2>1. [Adv]_vars  BY <1>2 DEF Adv
  <2>2. QED  BY <2>1, PTL DEF NeverReplacedByOlder, Adv
<1>3. QED  BY <1>1, <1>2

-----------------------------------------------------------------------------
(* No nonce is used twice; this needs neither the epochs nor their store. *)

(* One more envelope, sealed with the session's next seq. *)
LEMMA SealKeepsNonces ==
  ASSUME TypeOK, NonceUnique, NEW dir \in {"up", "down"}, NEW s \in SessionType,
         NEW body, NEW id,
         \A e \in Envelopes : e.dir = dir /\ Opens(s, e) => e.seq < s.seq,
         Live(s),
         Envelopes' = Envelopes \union {Envelope(dir, s, body, id)}
  PROVE  /\ NonceUnique'
         /\ \A e \in Envelopes' : e.dir = dir /\ Opens(s, e) => e.seq < s.seq + 1
<1> DEFINE x == Envelope(dir, s, body, id)
<1>1. x.dir = dir /\ x.sid = s.sid /\ x.eph = s.eph /\ x.seq = s.seq
  BY DEF Envelope
<1>2. \A e \in Envelopes : e.seq \in Nat
  BY MessageKinds DEF TypeOK, Messages, EnvMsg
<1>3. s.seq \in Nat  BY DEF SessionType
<1>4. Envelopes' = Envelopes \union {x}  OBVIOUS
<1> HIDE DEF x
<1>5. \A e \in Envelopes :
        e.dir = dir /\ e.sid = x.sid /\ e.eph = x.eph => e.seq < x.seq
  BY <1>1 DEF Opens
<1>6. NonceUnique'
  BY <1>1, <1>2, <1>3, <1>4, <1>5 DEF NonceUnique
<1>7. QED  BY <1>1, <1>2, <1>3, <1>4, <1>6 DEF Opens

(* Every step keeps the seqs of both ends above what they have sealed. *)
LEMMA NonceInvStep ==
  ASSUME NonceInv, [Next]_vars
  PROVE  NonceInv'
<1> USE DEF NonceInv
<1>y. TypeOK'  BY StepType
<1>e. \A e \in Envelopes : /\ e \in EnvMsg
                           /\ e.seq \in Nat /\ e.sid \in Nat /\ e.eph \in Nat
  BY MessageKinds DEF TypeOK, Messages, EnvMsg
<1>t. /\ est \in SessionType /\ sess \in SessionType /\ hello \in HelloState
      /\ est.sid \in Nat /\ est.eph \in Nat /\ est.seq \in Nat
      /\ sess.sid \in Nat /\ sess.eph \in Nat /\ sess.seq \in Nat
      /\ hs \in Nat /\ nSid \in Nat /\ nEph \in Nat
  BY DEF TypeOK, SessionType
<1>s. \A m \in ServerHellos : m.sid \in Nat /\ m.eph \in Nat
  BY MessageKinds DEF TypeOK, Messages, ShelloMsg
<1> USE DEF agentVars, coordVars, jobVars
<1>1. ASSUME NEW x \in EnvMsg,
             x = Envelope("up", est, x.body, x.id),
             Live(est), conn = "up",
             Envelopes' = Envelopes \union {x},
             Hellos' = Hellos, ServerHellos' = ServerHellos,
             est'.sid = est.sid, est'.eph = est.eph, est'.seq = est.seq + 1,
             UNCHANGED <<conn, hs, nSid, coordVars>>
      PROVE  NonceInv'
  <2>1. x.dir = "up" /\ x.sid = est.sid /\ x.eph = est.eph /\ x.seq = est.seq
    BY <1>1 DEF Envelope
  <2>2. hs = 0 /\ est.sid = nSid /\ est.sid # 0
    BY <1>1, <1>t DEF KeyInv, Live
  <2>3. KeyInv'
    BY <1>1, <1>t, <1>e, <2>1, <2>2 DEF KeyInv, Live, BridgeIdle
  <2>4. /\ NonceUnique'
        /\ \A e \in Envelopes' : e.dir = "up" /\ Opens(est, e) => e.seq < est.seq + 1
    BY <1>1, <1>t, SealKeepsNonces DEF SeqInv
  <2>5. SeqInv'
    BY <1>1, <1>e, <1>t, <2>1, <2>2, <2>4 DEF SeqInv, Opens, Live, KeyInv
  <2>6. QED  BY <1>y, <2>3, <2>4, <2>5
<1>2. ASSUME NEW m \in Down("ready"), OnBeacon(m) PROVE NonceInv'
  <2> DEFINE x == Envelope("up", est, "ack", 0)
  <2>1. m \in EnvMsg  BY <1>e DEF Down
  <2>2. x \in EnvMsg /\ x.body = "ack" /\ x.id = 0 /\ x.t = "env"
    BY <1>t, EnvelopeType DEF Envelope
  <2>3. /\ est'.sid = est.sid /\ est'.eph = est.eph /\ est'.seq = est.seq + 1
    BY <1>2, <1>t, <2>1, AcceptedType, SealedType DEF OnBeacon
  <2>4. /\ Live(est) /\ conn = "up" /\ net' = net \union {x}
        /\ UNCHANGED <<conn, hs, nSid, coordVars>>
    BY <1>2 DEF OnBeacon, Accepts, Opens
  <2>5. x = Envelope("up", est, x.body, x.id)  BY <2>2
  <2> HIDE DEF x
  <2>6. /\ Envelopes' = Envelopes \union {x}
        /\ Hellos' = Hellos /\ ServerHellos' = ServerHellos
    BY <2>2, <2>4 DEF Envelopes, Hellos, ServerHellos
  <2>7. QED  BY <1>1, <2>2, <2>3, <2>4, <2>5, <2>6
<1>3. CASE SealResult
  <2> DEFINE x == Envelope("up", est, "result", nResults + 1)
  <2>2. x \in EnvMsg /\ x.body = "result" /\ x.id = nResults + 1 /\ x.t = "env"
    BY <1>t, EnvelopeType DEF Envelope, TypeOK
  <2>3. /\ est'.sid = est.sid /\ est'.eph = est.eph /\ est'.seq = est.seq + 1
    BY <1>3, <1>t, SealedType DEF SealResult
  <2>4. /\ Live(est) /\ conn = "up" /\ net' = net \union {x}
        /\ UNCHANGED <<conn, hs, nSid, coordVars>>
    BY <1>3 DEF SealResult
  <2>5. x = Envelope("up", est, x.body, x.id)  BY <2>2
  <2> HIDE DEF x
  <2>6. /\ Envelopes' = Envelopes \union {x}
        /\ Hellos' = Hellos /\ ServerHellos' = ServerHellos
    BY <2>2, <2>4 DEF Envelopes, Hellos, ServerHellos
  <2>7. QED  BY <1>1, <2>2, <2>3, <2>4, <2>5, <2>6
<1>4. CASE SendDispatch
  <2> DEFINE x == Envelope("down", sess, "job", nJobs + 1)
  <2>1. x.t = "env" /\ x.dir = "down" /\ x.sid = sess.sid /\ x.eph = sess.eph
        /\ x.seq = sess.seq /\ x.body = "job" /\ x.id = nJobs + 1
    BY DEF Envelope
  <2>2. /\ sess'.sid = sess.sid /\ sess'.eph = sess.eph /\ sess'.seq = sess.seq + 1
    BY <1>4, <1>t, SealedType DEF SendDispatch
  <2>3. /\ Live(sess) /\ net' = net \union {x}
        /\ UNCHANGED <<agentVars, hello, nEph>>
    BY <1>4 DEF SendDispatch
  <2>4. x = Envelope("down", sess, x.body, x.id)  BY <2>1
  <2> HIDE DEF x
  <2>5. /\ Envelopes' = Envelopes \union {x}
        /\ Hellos' = Hellos /\ ServerHellos' = ServerHellos
    BY <2>1, <2>3 DEF Envelopes, Hellos, ServerHellos
  <2>6. /\ NonceUnique'
        /\ \A e \in Envelopes' : e.dir = "down" /\ Opens(sess, e) => e.seq < sess.seq + 1
    BY <1>t, <2>3, <2>4, <2>5, SealKeepsNonces DEF SeqInv
  <2>7. KeyInv'
    BY <1>t, <1>e, <2>1, <2>2, <2>3, <2>5 DEF KeyInv, Live, BridgeIdle
  <2>8. SeqInv'
    BY <1>e, <1>t, <2>1, <2>2, <2>3, <2>5, <2>6 DEF SeqInv, Opens, Live
  <2>9. QED  BY <1>y, <2>6, <2>7, <2>8
<1>5. CASE InsertSession
  <2> DEFINE s == NewSession(hello.sid, nEph + 1)
             x == Envelope("down", s, "ready", 0)
             k == ServerHello(s.sid, s.eph)
  <2>1. /\ s.sid = hello.sid /\ s.eph = nEph + 1 /\ s.seq = 0
        /\ x.t = "env" /\ x.dir = "down" /\ x.sid = hello.sid /\ x.eph = nEph + 1
        /\ x.seq = 0 /\ k.t = "shello" /\ k.sid = hello.sid /\ k.eph = nEph + 1
    BY DEF NewSession, Envelope, ServerHello
  <2>2. /\ sess'.sid = hello.sid /\ sess'.eph = nEph + 1 /\ sess'.seq = 1
    BY <1>5 DEF InsertSession, NewSession, Sealed
  <2>3. /\ net' = net \union {k, x} /\ UNCHANGED agentVars
        /\ nEph' = nEph + 1 /\ hello'.stage = "idle" /\ hello.stage = "admitted"
    BY <1>5 DEF InsertSession, IdleHello
  <2>4. hello.sid \in 1..nSid
    BY <2>3 DEF KeyInv, BridgeIdle
  <2> HIDE DEF s, x, k
  <2>5. /\ Envelopes' = Envelopes \union {x}
        /\ Hellos' = Hellos /\ ServerHellos' = ServerHellos \union {k}
    BY <2>1, <2>3 DEF Envelopes, Hellos, ServerHellos
  <2>6. \A e \in Envelopes : e.eph # nEph + 1
    BY <1>t DEF KeyInv
  <2>7. NonceUnique'
    BY <1>e, <2>1, <2>5, <2>6 DEF NonceUnique
  <2>8. KeyInv'
    BY <1>t, <1>e, <1>s, <2>1, <2>2, <2>3, <2>4, <2>5 DEF KeyInv, Live, BridgeIdle
  <2>9. SeqInv'
    BY <1>e, <1>t, <2>1, <2>2, <2>3, <2>4, <2>5, <2>6 DEF SeqInv, Opens, Live
  <2>10. QED  BY <1>y, <2>7, <2>8, <2>9
<1>6. ASSUME Envelopes' = Envelopes, SeqInv', KeyInv' PROVE NonceInv'
  BY <1>y, <1>6 DEF NonceUnique
<1>7. CASE BeginHandshake
  <2>1. /\ Envelopes' = Envelopes /\ ServerHellos' = ServerHellos
        /\ \A m \in Hellos' : m \in Hellos \/ m.sid = nSid + 1
        /\ hs' = nSid + 1 /\ nSid' = nSid + 1 /\ conn' = "up" /\ conn = "epoch"
        /\ UNCHANGED <<est, coordVars>>
    BY <1>7 DEF BeginHandshake, Envelopes, ServerHellos, Hellos, ClientHello
  <2>2. ~Live(est)  BY <2>1 DEF KeyInv
  <2>3. \A m \in Hellos : m.sid \in 1..nSid  BY DEF KeyInv
  <2>4. KeyInv'
    BY <1>t, <1>e, <2>1, <2>2, <2>3 DEF KeyInv, Live, BridgeIdle
  <2>5. SeqInv'
    BY <1>t, <1>e, <2>1, <2>2 DEF SeqInv, KeyInv, Opens, Live
  <2>6. QED  BY <1>6, <2>1, <2>4, <2>5
<1>8. ASSUME NEW m \in ServerHellos, OnServerHello(m) PROVE NonceInv'
  <2>1. /\ UNCHANGED <<conn, nSid, coordVars, net>> /\ hs' = 0 /\ conn = "up" /\ hs # 0
        /\ hs = nSid /\ ~Live(est)
        /\ est' = IF m.sid = hs THEN NewSession(m.sid, m.eph) ELSE est
    BY <1>8 DEF OnServerHello, KeyInv
  <2>2. /\ Envelopes' = Envelopes /\ ServerHellos' = ServerHellos /\ Hellos' = Hellos
    BY <2>1 DEF Envelopes, ServerHellos, Hellos
  <2>3. Live(est') => est'.sid = nSid /\ est'.sid = hs /\ est'.eph = m.eph
    BY <2>1 DEF NewSession, Live
  <2>4. m.eph \in 1..nEph  BY DEF KeyInv
  <2>5. KeyInv'
    BY <1>t, <2>1, <2>2, <2>3, <2>4 DEF KeyInv, Live, BridgeIdle
  <2>6. SeqInv'
    BY <1>t, <1>e, <2>1, <2>2, <2>3 DEF SeqInv, KeyInv, Opens, Live
  <2>7. QED  BY <1>6, <2>2, <2>5, <2>6
<1>9. CASE InsertSessionUnannounced
  <2>1. /\ UNCHANGED <<agentVars, net>>
        /\ nEph' = nEph + 1 /\ hello'.stage = "idle" /\ hello.stage = "admitted"
        /\ sess'.sid = hello.sid /\ sess'.eph = nEph + 1
    BY <1>9 DEF InsertSessionUnannounced, IdleHello, NewSession
  <2>2. /\ Envelopes' = Envelopes /\ ServerHellos' = ServerHellos /\ Hellos' = Hellos
    BY <2>1 DEF Envelopes, ServerHellos, Hellos
  <2>3. hello.sid \in 1..nSid  BY <2>1 DEF KeyInv, BridgeIdle
  <2>4. KeyInv'
    BY <1>t, <1>e, <1>s, <2>1, <2>2, <2>3 DEF KeyInv, Live, BridgeIdle
  <2>5. SeqInv'
    BY <1>t, <1>e, <2>1, <2>2 DEF SeqInv, KeyInv, Opens, Live
  <2>6. QED  BY <1>6, <2>2, <2>4, <2>5
<1>10. ASSUME UNCHANGED <<net, hs, nSid, conn, nEph>>,
              ~Live(est') \/ (est'.sid = est.sid /\ est'.eph = est.eph /\ est'.seq = est.seq),
              ~Live(sess') \/ (sess'.sid = sess.sid /\ sess'.eph = sess.eph /\ sess'.seq = sess.seq),
              hello'.stage = "idle" \/ (hello'.sid = hello.sid /\ hello.stage # "idle")
                \/ \E m \in Hellos : hello'.sid = m.sid
       PROVE  NonceInv'
  <2>1. /\ Envelopes' = Envelopes /\ ServerHellos' = ServerHellos /\ Hellos' = Hellos
    BY <1>10 DEF Envelopes, ServerHellos, Hellos
  <2>2. KeyInv'
    BY <1>10, <1>t, <2>1 DEF KeyInv, Live, BridgeIdle
  <2>3. SeqInv'
    BY <1>10, <1>t, <1>e, <2>1 DEF SeqInv, Opens, Live
  <2>4. QED  BY <1>6, <2>1, <2>2, <2>3
<1>11. CASE ConnAck \/ ConnAckNoEpoch \/ BeginHandshakeFails \/ Disconnect \/ AgentCrash
  <2>1. /\ UNCHANGED <<net, nSid, coordVars>>
        /\ hs' = 0 /\ ~Live(est')
    BY <1>11 DEF ConnAck, ConnAckNoEpoch, BeginHandshakeFails, Disconnect, AgentCrash,
       KeyInv, Live, NoSession
  <2>2. /\ Envelopes' = Envelopes /\ ServerHellos' = ServerHellos /\ Hellos' = Hellos
    BY <2>1 DEF Envelopes, ServerHellos, Hellos
  <2>3. KeyInv'
    BY <1>t, <2>1, <2>2 DEF KeyInv, Live, BridgeIdle
  <2>4. SeqInv'
    BY <1>t, <1>e, <2>1, <2>2 DEF SeqInv, KeyInv, Opens, Live
  <2>5. QED  BY <1>6, <2>2, <2>3, <2>4
<1>12. ASSUME NEW m \in Down("job"), OnDispatch(m) PROVE NonceInv'
  <2>1. m \in EnvMsg  BY <1>e DEF Down
  <2>2. est'.sid = est.sid /\ est'.eph = est.eph /\ est'.seq = est.seq
    BY <1>12, <1>t, <2>1, AcceptedType DEF OnDispatch
  <2>3. QED  BY <1>10, <1>12, <2>2 DEF OnDispatch, BridgeIdle
<1>13. ASSUME NEW m \in Up("ack") \union Up("result"), OnAck(m) \/ OnResult(m)
       PROVE  NonceInv'
  <2>1. m \in EnvMsg  BY <1>e DEF Up
  <2>2. sess'.sid = sess.sid /\ sess'.eph = sess.eph /\ sess'.seq = sess.seq
    BY <1>13, <1>t, <2>1, AcceptedType DEF OnAck, OnResult
  <2>3. QED  BY <1>10, <1>13, <2>2 DEF OnAck, OnResult, BridgeIdle
<1>14. ASSUME NEW m \in Hellos, CheckHello(m) PROVE NonceInv'
  BY <1>10, <1>14 DEF CheckHello
<1>15. CASE AdmitEpoch
  <2>1. hello'.sid = hello.sid /\ hello.stage # "idle"
    BY <1>15, <1>t DEF AdmitEpoch, HelloState
  <2>2. QED  BY <1>10, <1>15, <2>1 DEF AdmitEpoch
<1>16. CASE AbortHello \/ CoordRestart
  BY <1>10, <1>16 DEF AbortHello, CoordRestart, IdleHello, Live, NoSession
<1>17. CASE Revoke \/ UNCHANGED vars
  BY <1>10, <1>17 DEF Revoke, vars
<1>18. QED
  BY <1>2, <1>3, <1>4, <1>5, <1>7, <1>8, <1>9, <1>11, <1>12, <1>13, <1>14, <1>15,
     <1>16, <1>17 DEF Next, AgentNext, CoordNext

(* Nothing has been sealed yet. *)
LEMMA InitNonce ==
  ASSUME Init
  PROVE  NonceInv
<1>1. TypeOK  BY InitType
<1>2. Hellos = {} /\ ServerHellos = {} /\ Envelopes = {}
  BY DEF Init, Hellos, ServerHellos, Envelopes
<1>3. QED
  BY <1>1, <1>2 DEF Init, NonceInv, KeyInv, SeqInv, NonceUnique, Live, NoSession,
     BridgeIdle, IdleHello

(* No (key, direction, seq) ever seals two payloads: the contract of
   SessionKeys::seal, for any number of reconnects, restarts and replays and
   with either epoch store. *)
THEOREM NoncesUnique == Spec => []NonceUnique
<1>1. Init => NonceInv
  BY InitNonce
<1>2. NonceInv /\ [Next]_vars => NonceInv'
  BY NonceInvStep
<1>3. NonceInv => NonceUnique
  BY DEF NonceInv
<1>4. QED  BY <1>1, <1>2, <1>3, PTL DEF Spec

-----------------------------------------------------------------------------
(* Replays.  A started dispatch no longer passes the agent's replay guard: its
   key is gone for good, or the guard is already at its seq.  The same for the
   results the coordinator has delivered. *)

(* Every envelope of this body has an id of its own, not beyond the last. *)
IdsUnique(S, last) ==
  /\ \A e \in S : e.id \in 1..last
  /\ \A e, f \in S : e.id = f.id => e = f

AgentReplayInv ==
  /\ IdsUnique(Down("job"), nJobs)
  /\ \A j \in 1..MaxJobs : starts[j] \in {0, 1}
  /\ \A j \in 1..MaxJobs : j > nJobs => starts[j] = 0
  /\ \A e \in Down("job") :
       starts[e.id] # 0 => e.sid # hs /\ (Opens(est, e) => e.seq <= est.high)

CoordReplayInv ==
  /\ IdsUnique(Up("result"), nResults)
  /\ \A r \in 1..MaxResults : delivered[r] \in {0, 1}
  /\ \A r \in 1..MaxResults : r > nResults => delivered[r] = 0
  /\ \A e \in Up("result") :
       delivered[e.id] # 0 => (Opens(sess, e) => e.seq <= sess.high)

ReplayInv == AgentReplayInv /\ CoordReplayInv

(* Only SendDispatch publishes a dispatch, and only SealResult a result. *)
LEMMA PayloadsFrame ==
  ASSUME [Next]_vars
  PROVE  /\ ~SendDispatch => Down("job")' = Down("job")
         /\ ~SealResult => Up("result")' = Up("result")
<1>1. ~SendDispatch => Down("job")' = Down("job")
  BY DEF Next, AgentNext, CoordNext, vars, agentVars, coordVars, jobVars, Down, Envelopes,
     ConnAck, ConnAckNoEpoch, BeginHandshake, BeginHandshakeFails, OnServerHello, OnBeacon,
     OnDispatch, SealResult, Disconnect, AgentCrash, CheckHello, AdmitEpoch,
     AbortHello, InsertSession, InsertSessionUnannounced, OnAck,
     OnResult, Revoke, CoordRestart, ClientHello, ServerHello, Envelope, NewSession
<1>2. ~SealResult => Up("result")' = Up("result")
  BY DEF Next, AgentNext, CoordNext, vars, agentVars, coordVars, jobVars, Up, Envelopes,
     ConnAck, ConnAckNoEpoch, BeginHandshake, BeginHandshakeFails, OnServerHello, OnBeacon,
     OnDispatch, Disconnect, AgentCrash, CheckHello, AdmitEpoch,
     AbortHello, InsertSession, InsertSessionUnannounced, SendDispatch, OnAck,
     OnResult, Revoke, CoordRestart, ClientHello, ServerHello, Envelope, NewSession
<1>3. QED  BY <1>1, <1>2

(* The agent's replay guard stays at or above every dispatch it has started. *)
LEMMA AgentReplayStep ==
  ASSUME NonceInv, AgentReplayInv, [Next]_vars
  PROVE  AgentReplayInv'
<1> USE DEF NonceInv
<1>e. \A e \in Down("job") :
        /\ e \in EnvMsg /\ e \in Envelopes /\ e.seq \in Nat /\ e.id \in 1..nJobs
        /\ e.sid \in 1..nSid /\ e.id \in 1..MaxJobs
  BY MessageKinds, BoundsAssumption, SMTT(40)
  DEF TypeOK, Messages, EnvMsg, Down, AgentReplayInv, IdsUnique, KeyInv
<1>t. /\ est \in SessionType /\ est.high \in Int
      /\ hs \in Nat /\ nSid \in Nat /\ nJobs \in 0..MaxJobs /\ MaxJobs \in Nat
      /\ starts \in [1..MaxJobs -> Nat]
  BY BoundsAssumption DEF TypeOK, SessionType
<1> USE DEF agentVars, coordVars, jobVars
<1>1. CASE SendDispatch
  <2> DEFINE x == Envelope("down", sess, "job", nJobs + 1)
  <2>1. x.t = "env" /\ x.dir = "down" /\ x.body = "job" /\ x.id = nJobs + 1
    BY DEF Envelope
  <2>2. /\ nJobs < MaxJobs /\ nJobs' = nJobs + 1 /\ net' = net \union {x}
        /\ UNCHANGED <<est, hs, starts>>
    BY <1>1 DEF SendDispatch
  <2> HIDE DEF x
  <2>3. Down("job")' = Down("job") \union {x}
    BY <2>1, <2>2 DEF Down, Envelopes
  <2>4. starts[x.id] = 0
    BY <1>t, <2>1, <2>2 DEF AgentReplayInv
  <2>5. IdsUnique(Down("job"), nJobs)'
    BY <1>e, <1>t, <2>1, <2>2, <2>3, SMTT(40) DEF IdsUnique, AgentReplayInv
  <2>6. QED
    BY <1>t, <2>2, <2>3, <2>4, <2>5 DEF AgentReplayInv, Opens, Live
<1>2. ASSUME ~SendDispatch PROVE Down("job")' = Down("job") /\ nJobs' = nJobs
  <2>1. nJobs' = nJobs
    BY <1>2 DEF Next, AgentNext, CoordNext, vars, ConnAck, ConnAckNoEpoch,
       BeginHandshake, BeginHandshakeFails, OnServerHello, OnBeacon, OnDispatch,
       SealResult, Disconnect, AgentCrash, CheckHello, AdmitEpoch, AbortHello,
       InsertSession, InsertSessionUnannounced, OnAck, OnResult, Revoke, CoordRestart
  <2>2. QED  BY <1>2, <2>1, PayloadsFrame
<1>3. ASSUME NEW m \in Down("job"), OnDispatch(m), ~SendDispatch PROVE AgentReplayInv'
  <2>1. /\ Live(est) /\ Opens(est, m) /\ m.seq > est.high /\ hs' = hs
        /\ starts' = [starts EXCEPT ![m.id] = @ + 1]
    BY <1>3 DEF OnDispatch, Accepts, Opens, Fresh
  <2>2. /\ est'.sid = est.sid /\ est'.eph = est.eph /\ est'.high = m.seq
    BY <1>3, <1>e, <1>t, AcceptedType DEF OnDispatch
  <2>3. m.id \in 1..MaxJobs /\ starts[m.id] = 0
    BY <1>e, <1>t, <2>1 DEF AgentReplayInv
  <2>4. /\ starts'[m.id] = 1
        /\ \A j \in 1..MaxJobs : j # m.id => starts'[j] = starts[j]
    BY <1>t, <2>1, <2>3
  <2>5. hs = 0
    BY <2>1 DEF KeyInv
  <2>6. ASSUME NEW e \in Down("job"), starts'[e.id] # 0
        PROVE  e.sid # hs /\ (Opens(est', e) => e.seq <= est'.high)
    <3>1. CASE e = m
      BY <3>1, <1>e, <1>t, <2>2, <2>5
    <3>2. CASE e # m
      <4>1. starts[e.id] # 0
        BY <3>2, <1>e, <2>4, <2>6 DEF AgentReplayInv, IdsUnique
      <4>2. e.sid # hs /\ (Opens(est, e) => e.seq <= est.high)
        BY <4>1 DEF AgentReplayInv
      <4>3. Opens(est', e) => Opens(est, e)
        BY <2>2 DEF Opens, Live
      <4>4. QED  BY <4>2, <4>3, <1>e, <1>t, <2>1, <2>2
    <3>3. QED  BY <3>1, <3>2
  <2>7. \A j \in 1..MaxJobs : starts'[j] \in {0, 1} /\ (j > nJobs => starts'[j] = 0)
    BY <1>e, <1>t, <2>3, <2>4 DEF AgentReplayInv
  <2>8. QED
    BY <1>2, <1>3, <2>1, <2>6, <2>7 DEF AgentReplayInv, IdsUnique, Opens, Live
<1>4. ASSUME ~SendDispatch, starts' = starts,
             \A e \in Down("job") :
               e.sid # hs /\ (Opens(est, e) => e.seq <= est.high)
               => e.sid # hs' /\ (Opens(est', e) => e.seq <= est'.high)
      PROVE  AgentReplayInv'
  <2>1. IdsUnique(Down("job"), nJobs)'
    BY <1>2, <1>4 DEF IdsUnique, AgentReplayInv
  <2>2. QED
    BY <1>2, <1>4, <2>1 DEF AgentReplayInv, Opens, Live
<1>5. CASE BeginHandshake
  <2>1. hs' = nSid + 1 /\ est' = est /\ starts' = starts /\ ~SendDispatch
    BY <1>5, <1>t DEF BeginHandshake, SendDispatch
  <2>2. \A e \in Down("job") : e.sid # nSid + 1
    BY <1>e, <1>t
  <2>3. QED  BY <1>4, <2>1, <2>2
<1>6. ASSUME NEW m \in ServerHellos, OnServerHello(m), ~SendDispatch
      PROVE  AgentReplayInv'
  <2>1. /\ hs' = 0 /\ starts' = starts
        /\ est' = est \/ est'.sid = hs
    BY <1>6 DEF OnServerHello, NewSession
  <2>2. \A e \in Down("job") : e.sid # 0
    BY <1>e, <1>t
  <2>3. \A e \in Down("job") :
          e.sid # hs /\ (Opens(est, e) => e.seq <= est.high)
          => e.sid # hs' /\ (Opens(est', e) => e.seq <= est'.high)
    BY <2>1, <2>2 DEF Opens
  <2>4. QED  BY <1>4, <1>6, <2>1, <2>3
<1>7. ASSUME NEW m \in Down("ready"), OnBeacon(m), ~SendDispatch PROVE AgentReplayInv'
  <2>1. m \in EnvMsg /\ m.seq \in Nat
    BY MessageKinds DEF TypeOK, Messages, EnvMsg, Down
  <2>2. /\ m.seq > est.high /\ hs' = hs /\ starts' = starts
        /\ est' = Sealed(Accepted(est, m))
    BY <1>7 DEF OnBeacon, Accepts, Fresh
  <2>3. /\ est'.sid = est.sid /\ est'.eph = est.eph /\ est'.high = m.seq
    BY <1>t, <2>1, <2>2, AcceptedType, SealedType
  <2>4. \A e \in Down("job") :
          e.sid # hs /\ (Opens(est, e) => e.seq <= est.high)
          => e.sid # hs' /\ (Opens(est', e) => e.seq <= est'.high)
    BY <1>e, <1>t, <2>1, <2>2, <2>3 DEF Opens, Live
  <2>5. QED  BY <1>4, <1>7, <2>2, <2>4
<1>8. CASE SealResult /\ ~SendDispatch
  <2>1. hs' = hs /\ starts' = starts /\ est' = Sealed(est)
    BY <1>8 DEF SealResult
  <2>2. /\ est'.sid = est.sid /\ est'.eph = est.eph /\ est'.high = est.high
    BY <1>t, <2>1, SealedType
  <2>3. \A e \in Down("job") : Opens(est', e) <=> Opens(est, e)
    BY <2>2 DEF Opens, Live
  <2>4. QED  BY <1>4, <1>8, <2>1, <2>2, <2>3
<1>9. CASE (Disconnect \/ AgentCrash) /\ ~SendDispatch
  <2>1. hs' = 0 /\ starts' = starts /\ est' = NoSession
    BY <1>9 DEF Disconnect, AgentCrash
  <2>2. \A e \in Down("job") : e.sid # 0 /\ ~Opens(est', e)
    BY <1>e, <1>t, <2>1 DEF Opens, Live, NoSession
  <2>3. QED  BY <1>4, <1>9, <2>1, <2>2
<1>10. ASSUME ~SendDispatch, UNCHANGED <<hs, est, starts>> PROVE AgentReplayInv'
  BY <1>4, <1>10
<1>11. CASE ConnAck \/ ConnAckNoEpoch \/ BeginHandshakeFails \/ UNCHANGED vars
  BY <1>1, <1>10, <1>11 DEF ConnAck, ConnAckNoEpoch, BeginHandshakeFails, vars
<1>12. CASE CoordNext /\ ~SendDispatch
  <2>1. UNCHANGED <<hs, est, starts>>
    BY <1>12 DEF CoordNext, CheckHello, AdmitEpoch, AbortHello, InsertSession,
       InsertSessionUnannounced, OnAck, OnResult, Revoke, CoordRestart
  <2>2. QED  BY <1>10, <1>12, <2>1
<1>13. QED
  BY <1>1, <1>3, <1>5, <1>6, <1>7, <1>8, <1>9, <1>11, <1>12 DEF Next, AgentNext

(* The coordinator's replay guard stays at or above every result it has
   delivered. *)
LEMMA CoordReplayStep ==
  ASSUME NonceInv, CoordReplayInv, [Next]_vars
  PROVE  CoordReplayInv'
<1> USE DEF NonceInv
<1>e. \A e \in Up("result") :
        /\ e \in EnvMsg /\ e \in Envelopes /\ e.seq \in Nat /\ e.id \in 1..nResults
        /\ e.eph \in 1..nEph /\ e.id \in 1..MaxResults
  BY MessageKinds, BoundsAssumption, SMTT(40)
  DEF TypeOK, Messages, EnvMsg, Up, CoordReplayInv, IdsUnique, KeyInv
<1>t. /\ sess \in SessionType /\ sess.high \in Int /\ nEph \in Nat
      /\ nResults \in 0..MaxResults /\ MaxResults \in Nat
      /\ delivered \in [1..MaxResults -> Nat]
  BY BoundsAssumption DEF TypeOK, SessionType
<1> USE DEF agentVars, coordVars, jobVars
<1>1. CASE SealResult
  <2> DEFINE x == Envelope("up", est, "result", nResults + 1)
  <2>1. x.t = "env" /\ x.dir = "up" /\ x.body = "result" /\ x.id = nResults + 1
    BY DEF Envelope
  <2>2. /\ nResults < MaxResults /\ nResults' = nResults + 1 /\ net' = net \union {x}
        /\ UNCHANGED <<sess, delivered>>
    BY <1>1 DEF SealResult
  <2> HIDE DEF x
  <2>3. Up("result")' = Up("result") \union {x}
    BY <2>1, <2>2 DEF Up, Envelopes
  <2>4. delivered[x.id] = 0
    BY <1>t, <2>1, <2>2 DEF CoordReplayInv
  <2>5. IdsUnique(Up("result"), nResults)'
    BY <1>e, <1>t, <2>1, <2>2, <2>3, SMTT(40) DEF IdsUnique, CoordReplayInv
  <2>6. QED
    BY <1>t, <2>2, <2>3, <2>4, <2>5 DEF CoordReplayInv, Opens, Live
<1>2. ASSUME ~SealResult PROVE Up("result")' = Up("result") /\ nResults' = nResults
  <2>1. nResults' = nResults
    BY <1>2 DEF Next, AgentNext, CoordNext, vars, ConnAck, ConnAckNoEpoch,
       BeginHandshake, BeginHandshakeFails, OnServerHello, OnBeacon, OnDispatch,
       SendDispatch, Disconnect, AgentCrash, CheckHello, AdmitEpoch, AbortHello,
       InsertSession, InsertSessionUnannounced, OnAck, OnResult, Revoke, CoordRestart
  <2>2. QED  BY <1>2, <2>1, PayloadsFrame
<1>3. ASSUME NEW m \in Up("result"), OnResult(m), ~SealResult PROVE CoordReplayInv'
  <2>1. /\ Live(sess) /\ Opens(sess, m) /\ m.seq > sess.high
        /\ delivered' = [delivered EXCEPT ![m.id] = @ + 1]
    BY <1>3 DEF OnResult, Accepts, Opens, Fresh
  <2>2. /\ sess'.sid = sess.sid /\ sess'.eph = sess.eph /\ sess'.high = m.seq
    BY <1>3, <1>e, <1>t, AcceptedType DEF OnResult
  <2>3. m.id \in 1..MaxResults /\ delivered[m.id] = 0
    BY <1>e, <1>t, <2>1 DEF CoordReplayInv
  <2>4. /\ delivered'[m.id] = 1
        /\ \A r \in 1..MaxResults : r # m.id => delivered'[r] = delivered[r]
    BY <1>t, <2>1, <2>3
  <2>5. ASSUME NEW e \in Up("result"), delivered'[e.id] # 0
        PROVE  Opens(sess', e) => e.seq <= sess'.high
    <3>1. CASE e = m
      BY <3>1, <1>e, <1>t, <2>2
    <3>2. CASE e # m
      <4>1. delivered[e.id] # 0
        BY <3>2, <1>e, <2>4, <2>5 DEF CoordReplayInv, IdsUnique
      <4>2. Opens(sess, e) => e.seq <= sess.high
        BY <4>1 DEF CoordReplayInv
      <4>3. Opens(sess', e) => Opens(sess, e)
        BY <2>2 DEF Opens, Live
      <4>4. QED  BY <4>2, <4>3, <1>e, <1>t, <2>1, <2>2
    <3>3. QED  BY <3>1, <3>2
  <2>6. \A r \in 1..MaxResults :
          delivered'[r] \in {0, 1} /\ (r > nResults => delivered'[r] = 0)
    BY <1>e, <1>t, <2>3, <2>4 DEF CoordReplayInv
  <2>7. QED
    BY <1>2, <1>3, <2>5, <2>6 DEF CoordReplayInv, IdsUnique, Opens, Live
<1>4. ASSUME ~SealResult, delivered' = delivered,
             \A e \in Up("result") :
               (Opens(sess, e) => e.seq <= sess.high)
               => (Opens(sess', e) => e.seq <= sess'.high)
      PROVE  CoordReplayInv'
  <2>1. IdsUnique(Up("result"), nResults)'
    BY <1>2, <1>4 DEF IdsUnique, CoordReplayInv
  <2>2. QED
    BY <1>2, <1>4, <2>1 DEF CoordReplayInv, Opens, Live
<1>5. CASE (InsertSession \/ InsertSessionUnannounced) /\ ~SealResult
  <2>1. sess'.eph = nEph + 1 /\ delivered' = delivered
    BY <1>5 DEF InsertSession, InsertSessionUnannounced, NewSession, Sealed
  <2>2. \A e \in Up("result") : ~Opens(sess', e)
    BY <1>e, <1>t, <2>1 DEF Opens
  <2>3. QED  BY <1>4, <1>5, <2>1, <2>2
<1>6. CASE SendDispatch /\ ~SealResult
  <2>1. delivered' = delivered /\ sess' = Sealed(sess)
    BY <1>6 DEF SendDispatch
  <2>2. /\ sess'.sid = sess.sid /\ sess'.eph = sess.eph /\ sess'.high = sess.high
    BY <1>t, <2>1, SealedType
  <2>3. \A e \in Up("result") : Opens(sess', e) <=> Opens(sess, e)
    BY <2>2 DEF Opens, Live
  <2>4. QED  BY <1>4, <1>6, <2>1, <2>2, <2>3
<1>7. ASSUME NEW m \in Up("ack"), OnAck(m), ~SealResult PROVE CoordReplayInv'
  <2>1. m \in EnvMsg /\ m.seq \in Nat
    BY MessageKinds DEF TypeOK, Messages, EnvMsg, Up
  <2>2. /\ m.seq > sess.high /\ delivered' = delivered /\ sess' = Accepted(sess, m)
    BY <1>7 DEF OnAck, Accepts, Fresh
  <2>3. /\ sess'.sid = sess.sid /\ sess'.eph = sess.eph /\ sess'.high = m.seq
    BY <1>t, <2>1, <2>2, AcceptedType
  <2>4. \A e \in Up("result") :
          (Opens(sess, e) => e.seq <= sess.high)
          => (Opens(sess', e) => e.seq <= sess'.high)
    BY <1>e, <1>t, <2>1, <2>2, <2>3 DEF Opens, Live
  <2>5. QED  BY <1>4, <1>7, <2>2, <2>4
<1>8. CASE CoordRestart /\ ~SealResult
  <2>1. delivered' = delivered /\ sess' = NoSession
    BY <1>8 DEF CoordRestart
  <2>2. \A e \in Up("result") : ~Opens(sess', e)
    BY <2>1 DEF Opens, Live, NoSession
  <2>3. QED  BY <1>4, <1>8, <2>1, <2>2
<1>9. ASSUME ~SealResult, UNCHANGED <<sess, delivered>> PROVE CoordReplayInv'
  BY <1>4, <1>9
<1>10. CASE (AgentNext \/ UNCHANGED vars) /\ ~SealResult
  <2>1. UNCHANGED <<sess, delivered>>
    BY <1>10 DEF AgentNext, ConnAck, ConnAckNoEpoch, BeginHandshake,
       BeginHandshakeFails, OnServerHello, OnBeacon, OnDispatch, Disconnect,
       AgentCrash, vars
  <2>2. QED  BY <1>9, <1>10, <2>1
<1>11. ASSUME (\E m \in Hellos : CheckHello(m)) \/ AdmitEpoch \/ AbortHello \/ Revoke,
              ~SealResult
       PROVE  CoordReplayInv'
  <2>1. UNCHANGED <<sess, delivered>>
    BY <1>11 DEF CheckHello, AdmitEpoch, AbortHello, Revoke
  <2>2. QED  BY <1>9, <1>11, <2>1
<1>12. QED
  BY <1>1, <1>3, <1>5, <1>6, <1>7, <1>8, <1>10, <1>11 DEF Next, CoordNext

(* A dispatch is accepted by the agent at most once and a result by the
   coordinator at most once, for any number of replays, reconnects, crashes and
   coordinator restarts and with either epoch store. *)
THEOREM ReplaysRejected == Spec => []NoReplay
<1>1. Init => NonceInv /\ ReplayInv
  <2> SUFFICES ASSUME Init PROVE NonceInv /\ ReplayInv
    OBVIOUS
  <2>1. NonceInv  BY InitNonce
  <2>2. Down("job") = {} /\ Up("result") = {}
    BY DEF Init, Down, Up, Envelopes
  <2>3. QED
    BY <2>1, <2>2 DEF Init, ReplayInv, AgentReplayInv, CoordReplayInv, IdsUnique
<1>2. NonceInv /\ ReplayInv /\ [Next]_vars => (NonceInv /\ ReplayInv)'
  BY NonceInvStep, AgentReplayStep, CoordReplayStep DEF ReplayInv
<1>3. ReplayInv => NoReplay
  BY DEF ReplayInv, AgentReplayInv, CoordReplayInv, NoReplay
<1>4. QED  BY <1>1, <1>2, <1>3, PTL DEF Spec

-----------------------------------------------------------------------------
(* Revocation. *)

(* Once no ClientHello is past the revocation check, none passes it again, so
   no server ephemeral is minted for a revoked host. *)
THEOREM RevocationHolds == Spec => RevocationSticks
<1> DEFINE Shut(n) == revoked /\ BridgeIdle /\ nEph = n
<1>1. ASSUME NEW n \in 0..MaxEph
      PROVE  Spec => [](Shut(n) => [](nEph = n))
  <2>1. Shut(n) /\ [Next]_vars => Shut(n)'
    <3> SUFFICES ASSUME Shut(n), [Next]_vars PROVE Shut(n)'
      OBVIOUS
    <3>0. revoked /\ hello.stage = "idle" /\ nEph = n
      BY DEF BridgeIdle
    <3>1. CASE AgentNext \/ UNCHANGED vars
      <4>1. UNCHANGED <<revoked, hello, nEph>>
        BY <3>1 DEF AgentNext, vars, coordVars, ConnAck, ConnAckNoEpoch, BeginHandshake,
           BeginHandshakeFails, OnServerHello, OnBeacon, OnDispatch, SealResult,
           Disconnect, AgentCrash
      <4>2. QED  BY <3>0, <4>1 DEF BridgeIdle
    <3>2. CASE SendDispatch \/ (\E m \in Up("ack") : OnAck(m))
               \/ (\E m \in Up("result") : OnResult(m))
      <4>1. UNCHANGED <<revoked, hello, nEph>>
        BY <3>2 DEF SendDispatch, OnAck, OnResult
      <4>2. QED  BY <3>0, <4>1 DEF BridgeIdle
    <3>3. CASE AbortHello \/ CoordRestart
      <4>1. UNCHANGED <<revoked, nEph>> /\ hello' = IdleHello
        BY <3>3 DEF AbortHello, CoordRestart
      <4>2. QED  BY <3>0, <4>1 DEF BridgeIdle, IdleHello
    <3>4. ~(\E m \in Hellos : CheckHello(m)) /\ ~Revoke
      BY <3>0 DEF CheckHello, HelloAllowed, Revoke
    <3>5. ~AdmitEpoch /\ ~InsertSession /\ ~InsertSessionUnannounced
      BY <3>0 DEF AdmitEpoch, InsertSession, InsertSessionUnannounced
    <3>6. QED  BY <3>1, <3>2, <3>3, <3>4, <3>5 DEF Next, CoordNext
  <2>2. Shut(n) => nEph = n  OBVIOUS
  <2> HIDE DEF Shut
  <2>3. QED  BY <2>1, <2>2, PTL DEF Spec
<1>2. QED  BY <1>1 DEF RevocationSticks
-----------------------------------------------------------------------------
(* The handshake over FIFO queues *)

(* What the queues of the embedded broker hold was published, and each queue
   holds what its reader expects there. *)
FifoInv ==
  /\ bridgeQ \in Seq(Hellos \union Up("ack"))
  /\ downQ \in [Topics -> Seq(net)]
  /\ downQ["hs_down"] \in Seq(ServerHellos)
  /\ downQ["ctrl_down"] \in Seq(Down("ready"))

(* What an orderly step may publish. *)
Handshaking(m) ==
  \/ m.t = "hello" \/ m.t = "shello"
  \/ m.t = "env" /\ m.dir = "up" /\ m.body = "ack"
  \/ m.t = "env" /\ m.dir = "down" /\ m.body = "ready"

(* The elements of a finite set, in some order, are a sequence over it. *)
LEMMA SetToSeqType ==
  ASSUME NEW S, IsFiniteSet(S)
  PROVE  SetToSeq(S) \in Seq(S)
<1>1. PICK n \in Nat : ExistsBijection(1..n, S)  BY FS_NatBijection
<1>2. Cardinality(S) = n  BY <1>1, FS_CountingElements
<1>3. PICK f : f \in Bijection(1..n, S)  BY <1>1 DEF ExistsBijection
<1>4. f \in [1..n -> S] /\ IsInjective(f)  BY <1>3 DEF Bijection, Injection
<1>5. SetToSeq(S) \in [1..n -> S]  BY <1>2, <1>4 DEF SetToSeq
<1>6. QED  BY <1>5

(* A sequence over S followed by some elements of a finite set within T. *)
LEMMA QueueGrows ==
  ASSUME NEW S, NEW T, S \subseteq T, NEW q \in Seq(S),
         NEW A, IsFiniteSet(A), A \subseteq T
  PROVE  q \o SetToSeq(A) \in Seq(T)
<1>1. SetToSeq(A) \in Seq(A)  BY SetToSeqType
<1>2. q \in Seq(T) /\ SetToSeq(A) \in Seq(T)
  <2>1. \A R : \A s \in Seq(R) : R \subseteq T => s \in Seq(T)  OBVIOUS
  <2>2. QED  BY <1>1, <2>1
<1>3. QED  BY <1>2

(* Publish puts what a step added on the queue of its reader. *)
LEMMA PublishKeeps ==
  ASSUME FifoInv, NEW q, q \in Seq(Hellos \union Up("ack")),
         NEW d, d["hs_down"] \in Seq(ServerHellos), d["ctrl_down"] \in Seq(Down("ready")),
         Publish(q, d), net \subseteq net', IsFiniteSet(net' \ net),
         \A m \in net' \ net : Handshaking(m)
  PROVE  FifoInv'
<1>1. PICK new : new = net' \ net  OBVIOUS
<1>2. /\ Hellos \subseteq Hellos' /\ ServerHellos \subseteq ServerHellos'
      /\ Up("ack") \subseteq Up("ack")' /\ Down("ready") \subseteq Down("ready")'
  BY DEF Hellos, ServerHellos, Envelopes, Up, Down
<1>3. PICK U, H, C :
        /\ U = {m \in new : ~IsDown(m)}
        /\ H = {m \in new : IsDown(m) /\ Topic(m) = "hs_down"}
        /\ C = {m \in new : IsDown(m) /\ Topic(m) = "ctrl_down"}
  OBVIOUS
<1>4. IsFiniteSet(U) /\ IsFiniteSet(H) /\ IsFiniteSet(C)
  <2>1. U \in SUBSET new /\ H \in SUBSET new /\ C \in SUBSET new  BY <1>3
  <2>2. IsFiniteSet(new)  BY <1>1
  <2>3. QED  BY <2>1, <2>2, FS_Subset
<1>5. U \subseteq (Hellos \union Up("ack"))'
  BY <1>1, <1>3 DEF Handshaking, IsDown, Hellos, Up, Envelopes
<1>6. H \subseteq ServerHellos'
  BY <1>1, <1>3 DEF IsDown, Topic, ServerHellos
<1>7. C \subseteq Down("ready")'
  BY <1>1, <1>3 DEF Handshaking, IsDown, Topic, Down, Envelopes
<1>8. /\ bridgeQ' = q \o SetToSeq(U)
      /\ downQ' = [t \in Topics |->
           IF sub' THEN d[t] \o SetToSeq({m \in new : IsDown(m) /\ Topic(m) = t}) ELSE <<>>]
  BY <1>1, <1>3 DEF Publish
<1>9. bridgeQ' \in Seq((Hellos \union Up("ack"))')
  BY <1>2, <1>4, <1>5, <1>8, QueueGrows
<1>10. "hs_down" \in Topics /\ "ctrl_down" \in Topics  BY DEF Topics
<1>11. downQ'["hs_down"] \in Seq(ServerHellos')
  <2>1. d["hs_down"] \o SetToSeq(H) \in Seq(ServerHellos')
    BY <1>2, <1>4, <1>6, QueueGrows
  <2>2. downQ'["hs_down"] = IF sub' THEN d["hs_down"] \o SetToSeq(H) ELSE <<>>
    BY <1>3, <1>8, <1>10
  <2>3. QED  BY <2>1, <2>2
<1>12. downQ'["ctrl_down"] \in Seq(Down("ready")')
  <2>1. d["ctrl_down"] \o SetToSeq(C) \in Seq(Down("ready")')
    BY <1>2, <1>4, <1>7, QueueGrows
  <2>2. downQ'["ctrl_down"] = IF sub' THEN d["ctrl_down"] \o SetToSeq(C) ELSE <<>>
    BY <1>3, <1>8, <1>10
  <2>3. QED  BY <2>1, <2>2
<1>13. downQ' \in [Topics -> Seq(net')]
  <2>1. \A t \in Topics : t = "hs_down" \/ t = "ctrl_down"  BY DEF Topics
  <2>2. ServerHellos' \subseteq net' /\ Down("ready")' \subseteq net'
    BY DEF ServerHellos, Down, Envelopes
  <2>3. \A t \in Topics : downQ'[t] \in Seq(net')  BY <1>11, <1>12, <2>1, <2>2
  <2>4. DOMAIN downQ' = Topics  BY <1>8
  <2>5. QED  BY <1>8, <2>3, <2>4
<1>14. QED  BY <1>9, <1>11, <1>12, <1>13 DEF FifoInv

(* A step that publishes nothing has nothing to put on a queue. *)
LEMMA NothingNew ==
  ASSUME UNCHANGED net
  PROVE  /\ net \subseteq net' /\ IsFiniteSet(net' \ net)
         /\ \A m \in net' \ net : Handshaking(m)
<1>1. net' \ net = {}  OBVIOUS
<1>2. QED  BY <1>1, FS_EmptySet

(* The ClientHello, the ack, and the ServerHello with its beacon. *)
LEMMA SomethingNew ==
  ASSUME NEW x, NEW y, net' = net \union {x, y}, Handshaking(x), Handshaking(y)
  PROVE  /\ net \subseteq net' /\ IsFiniteSet(net' \ net)
         /\ \A m \in net' \ net : Handshaking(m)
<1>1. IsFiniteSet({x, y})
  <2>1. IsFiniteSet({x})  BY FS_Singleton
  <2>2. {x, y} = {x} \union {y}  OBVIOUS
  <2>3. QED  BY <2>1, <2>2, FS_AddElement
<1>2. net' \ net \in SUBSET {x, y}  OBVIOUS
<1>3. IsFiniteSet(net' \ net)  BY <1>1, <1>2, FS_Subset
<1>4. QED  BY <1>2, <1>3

(* The head of a queue is an element of it; the rest is a queue. *)
LEMMA QueueHead ==
  ASSUME NEW S, NEW q \in Seq(S), q # <<>>
  PROVE  Head(q) \in S /\ Tail(q) \in Seq(S)
  OBVIOUS

(* Every orderly step is one Session allows and leaves the queues in order. *)
LEMMA FifoStep ==
  ASSUME FifoInv, [FifoNext]_fifoVars
  PROVE  FifoInv' /\ [Next]_vars
<1>1. /\ bridgeQ \in Seq(Hellos \union Up("ack"))
      /\ downQ["hs_down"] \in Seq(ServerHellos) /\ downQ["ctrl_down"] \in Seq(Down("ready"))
      /\ downQ \in [Topics -> Seq(net)]
  BY DEF FifoInv
<1>2. /\ "hs_down" \in Topics /\ "ctrl_down" \in Topics /\ "hs_down" # "ctrl_down"
  BY DEF Topics
<1>3. CASE Connect
  <2>1. UNCHANGED net /\ Publish(bridgeQ, downQ)
    BY <1>3 DEF Connect, ConnAck, ConnAckNoEpoch, BeginHandshakeFails
  <2>2. Next  BY <1>3 DEF Connect, Next, AgentNext
  <2>3. QED  BY <1>1, <2>1, <2>2, NothingNew, PublishKeeps
<1>4. CASE SubscribeAndHello
  <2>1. PICK x : x = ClientHello(nSid + 1, epochSeen)  OBVIOUS
  <2>2. net' = net \union {x, x} /\ Handshaking(x) /\ Publish(bridgeQ, downQ)
    BY <1>4, <2>1 DEF SubscribeAndHello, BeginHandshake, ClientHello, Handshaking
  <2>3. Next  BY <1>4 DEF SubscribeAndHello, Next, AgentNext
  <2>4. QED  BY <1>1, <2>2, <2>3, SomethingNew, PublishKeeps
<1>5. CASE Drop
  <2>1. UNCHANGED net /\ Publish(bridgeQ, downQ)
    BY <1>5 DEF Drop, Disconnect, AgentCrash
  <2>2. Next  BY <1>5 DEF Drop, Next, AgentNext
  <2>3. QED  BY <1>1, <2>1, <2>2, NothingNew, PublishKeeps
<1>6. CASE TakeServerHello
  <2>1. PICK m, d : m = Head(downQ["hs_down"])
                    /\ d = [downQ EXCEPT !["hs_down"] = Tail(@)]
    OBVIOUS
  <2>2. /\ OnServerHello(m) \/ UNCHANGED vars
        /\ Publish(bridgeQ, d) /\ downQ["hs_down"] # <<>>
    BY <1>6, <2>1 DEF TakeServerHello
  <2>3. m \in ServerHellos /\ Tail(downQ["hs_down"]) \in Seq(ServerHellos)
    BY <1>1, <2>1, <2>2, QueueHead
  <2>4. d["hs_down"] \in Seq(ServerHellos) /\ d["ctrl_down"] \in Seq(Down("ready"))
    BY <1>1, <1>2, <2>1, <2>3
  <2>5. UNCHANGED net  BY <2>2 DEF OnServerHello, vars
  <2>6. [Next]_vars  BY <2>2, <2>3 DEF Next, AgentNext
  <2>7. QED  BY <1>1, <2>2, <2>4, <2>5, <2>6, NothingNew, PublishKeeps
<1>7. CASE TakeBeacon
  <2>1. PICK m, d : m = Head(downQ["ctrl_down"])
                    /\ d = [downQ EXCEPT !["ctrl_down"] = Tail(@)]
    OBVIOUS
  <2>2. /\ OnBeacon(m) \/ UNCHANGED vars
        /\ Publish(bridgeQ, d) /\ downQ["ctrl_down"] # <<>>
    BY <1>7, <2>1 DEF TakeBeacon
  <2>3. m \in Down("ready") /\ Tail(downQ["ctrl_down"]) \in Seq(Down("ready"))
    BY <1>1, <2>1, <2>2, QueueHead
  <2>4. d["hs_down"] \in Seq(ServerHellos) /\ d["ctrl_down"] \in Seq(Down("ready"))
    BY <1>1, <1>2, <2>1, <2>3
  <2>5. PICK x : x = Envelope("up", est, "ack", 0)  OBVIOUS
  <2>6. net' = net \/ net' = net \union {x, x}  BY <2>2, <2>5 DEF OnBeacon, vars
  <2>7. Handshaking(x)  BY <2>5 DEF Envelope, Handshaking
  <2>8. [Next]_vars  BY <2>2, <2>3 DEF Next, AgentNext
  <2>9. QED
    BY <1>1, <2>2, <2>4, <2>6, <2>7, <2>8, NothingNew, SomethingNew, PublishKeeps
<1>8. CASE BridgeRecv
  <2>1. PICK m : m = Head(bridgeQ)  OBVIOUS
  <2>2. /\ \/ m.t = "hello" /\ CheckHello(m)
           \/ m.t = "env" /\ OnAck(m)
           \/ UNCHANGED vars
        /\ Publish(Tail(bridgeQ), downQ) /\ bridgeQ # <<>>
    BY <1>8, <2>1 DEF BridgeRecv
  <2>3. m \in Hellos \union Up("ack") /\ Tail(bridgeQ) \in Seq(Hellos \union Up("ack"))
    BY <1>1, <2>1, <2>2, QueueHead
  <2>4. UNCHANGED net  BY <2>2 DEF CheckHello, OnAck, vars
  <2>5. (m.t = "hello" => m \in Hellos) /\ (m.t = "env" => m \in Up("ack"))
    BY <2>3 DEF Hellos, Up, Envelopes
  <2>6. [Next]_vars  BY <2>2, <2>5 DEF Next, CoordNext
  <2>7. QED  BY <1>1, <2>2, <2>3, <2>4, <2>6, NothingNew, PublishKeeps
<1>9. CASE BridgeStep
  <2>1. AdmitEpoch \/ AbortHello \/ InsertSession  BY <1>9 DEF BridgeStep
  <2>2. PICK x, y : /\ x = ServerHello(hello.sid, nEph + 1)
                    /\ y = Envelope("down", NewSession(hello.sid, nEph + 1), "ready", 0)
    OBVIOUS
  <2>3. net' = net \/ net' = net \union {x, y}
    BY <2>1, <2>2 DEF AdmitEpoch, AbortHello, InsertSession, NewSession
  <2>4. Handshaking(x) /\ Handshaking(y)
    BY <2>2 DEF ServerHello, Envelope, Handshaking
  <2>5. Next  BY <2>1 DEF Next, CoordNext
  <2>6. Publish(bridgeQ, downQ)  BY <1>9 DEF BridgeStep
  <2>7. QED  BY <1>1, <2>3, <2>4, <2>5, <2>6, NothingNew, SomethingNew, PublishKeeps
<1>10. CASE OperatorRevoke
  <2>1. UNCHANGED net /\ Publish(bridgeQ, downQ) /\ Next
    BY <1>10 DEF OperatorRevoke, Revoke, Next, CoordNext
  <2>2. QED  BY <1>1, <2>1, NothingNew, PublishKeeps
<1>11. CASE Restart
  <2>1. UNCHANGED net /\ Publish(<<>>, NoDown) /\ Next
    BY <1>11 DEF Restart, CoordRestart, Next, CoordNext
  <2>2. /\ <<>> \in Seq(Hellos \union Up("ack"))
        /\ NoDown["hs_down"] \in Seq(ServerHellos)
        /\ NoDown["ctrl_down"] \in Seq(Down("ready"))
    BY <1>2 DEF NoDown
  <2>3. QED  BY <2>1, <2>2, NothingNew, PublishKeeps
<1>12. CASE UNCHANGED fifoVars
  <2>1. UNCHANGED <<vars, net, bridgeQ, downQ>>  BY <1>12 DEF fifoVars, vars
  <2>2. QED
    BY <2>1 DEF FifoInv, Hellos, Up, Down, ServerHellos, Envelopes
<1>13. QED
  BY <1>3, <1>4, <1>5, <1>6, <1>7, <1>8, <1>9, <1>10, <1>11, <1>12 DEF FifoNext

(* Nothing is on its way when the two processes start. *)
LEMMA FifoStart ==
  ASSUME FifoInit
  PROVE  FifoInv /\ Init
<1>1. "hs_down" \in Topics /\ "ctrl_down" \in Topics  BY DEF Topics
<1>2. QED  BY <1>1 DEF FifoInit, FifoInv, NoDown

(* The handshake over the embedded broker's FIFO queues implements module
   Session, for every bound: each message that on_publish or run_bridge takes
   from a queue was published and is of the kind its handler expects. *)
THEOREM OrderlyIsAllowed == FifoSpec => Spec
<1>1. FifoInit => FifoInv /\ Init  BY FifoStart
<1>2. FifoInv /\ [FifoNext]_fifoVars => FifoInv' /\ [Next]_vars  BY FifoStep
<1>3. QED  BY <1>1, <1>2, PTL DEF FifoSpec, Spec

(* So over the embedded broker too the two ends never disagree on their session,
   no nonce is sealed with twice and no hello yields two sessions. *)
THEOREM OrderlyIsSafe ==
  FifoSpec => [](BothEndsAgree /\ NonceUnique /\ OneSessionPerHello)
<1>1. Spec => [](BothEndsAgree /\ NonceUnique /\ OneSessionPerHello)
  BY EndsAgree, NoncesUnique, NoResurrection, PTL
<1>2. QED  BY <1>1, OrderlyIsAllowed, PTL
=============================================================================
