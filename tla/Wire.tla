-------------------------------- MODULE Wire --------------------------------
(* What protects messages between several hosts and the coordinator: topics,   *)
(* certificates, the signed handshake transcripts, the keys derived from them  *)
(* and the sealed envelopes.  Session has the life of one host's session; here *)
(* the cryptography is spelled out, as terms.                                  *)
(*                                                                             *)
(* The broker is untrusted: it keeps every message, delivers any of them to    *)
(* anyone, any number of times, and may put a cleartext field of one message   *)
(* into another.                                                               *)
EXTENDS Naturals, Sequences, FiniteSets

CONSTANTS
  Hosts,
  CertsOf,        \* host -> the certificates it holds in turn, all for its one key; the CA
                  \* signs none for another host's id (Enrollment, HostKeyBinding)
  Dispatches,     \* host -> what is dispatched to it: 0 a job, n > 0 a shell with stream id n
  Budgets,        \* bounds, of which one is kept: host -> its connections, and the
                  \* envelopes the coordinator seals in a session with it
  MaxFrames       \* bound: frames of output, and of input, sealed for one shell stream

CA == "ca"

ASSUME WireAssumption ==
  /\ CA \notin Hosts /\ Dispatches \in [Hosts -> SUBSET Nat] /\ MaxFrames \in Nat
  /\ \A h \in Hosts :
       /\ DOMAIN CertsOf[h] = 1 .. Len(CertsOf[h])
       /\ \A c \in {CertsOf[h][k] : k \in DOMAIN CertsOf[h]} :
            c.key = h /\ (c.issuer = CA => c.san = h)

VARIABLES
  agent,      \* host -> its agent's side
  sess,       \* host -> the coordinator's session with it
  route,      \* host -> the coordinator's side of its shell, a ShellRoute
  admitted,   \* host -> the highest epoch admitted
  net,        \* every message published
  minted      \* history: host -> the keys the coordinator derived for it

vars == <<agent, sess, route, admitted, net, minted>>

-----------------------------------------------------------------------------
(* Topics: [tenant, tail].  A tenant, the host id without its hyphens, names    *)
(* the same host: both parse to one UUID.                                      *)

tenant(h) == h

topic(h, tail) == [tenant |-> tenant(h), tail |-> tail]

\* The host a topic of that tail belongs to.
tenant_for_tail(t, tail) == {h \in Hosts : t.tail = tail /\ t.tenant = tenant(h)}

-----------------------------------------------------------------------------
(* Signatures and transcripts.                                                 *)

sign(key, msg) == [by |-> key, msg |-> msg]
verify(key, msg, sig) == sig = sign(key, msg)

client_transcript(sid, epoch, client_eph) == <<"c2s", sid, epoch, client_eph>>
server_transcript(sid, client_eph, server_eph) == <<"s2c", sid, client_eph, server_eph>>
session_binding(sid, client_eph, server_eph, cert) == <<sid, client_eph, server_eph, cert>>

-----------------------------------------------------------------------------
(* Keys.  An ephemeral's public half stands for it; the shared secret of two is *)
(* their unordered pair, which only their owners can form.  A set of keys is    *)
(* what it was derived from; a key is that and a direction.                    *)

from_shared(shared, transcript) == [shared |-> shared, salt |-> transcript, stream |-> 0]

\* The transcript is the binding and the pair, which the shared secret holds already.
derive(mine, peer, binding) == from_shared({mine, peer}, binding)

\* The subkeys of a stream; 0 is no stream's id.
derive_stream(keys, stream_id) == [keys EXCEPT !.stream = stream_id]

MutCipherOneKey(keys, dir) == <<"a2c", keys>>

cipher(keys, dir) == <<dir, keys>>

nonce(seq) == seq

aad(host, sid, seq, kind) == <<host, sid, seq, kind>>

seal(keys, dir, seq, ad, pt) == [key |-> cipher(keys, dir), nonce |-> nonce(seq), ad |-> ad, pt |-> pt]

open(keys, dir, seq, ad, ct) == ct.key = cipher(keys, dir) /\ ct.nonce = nonce(seq) /\ ct.ad = ad

\* The plaintext notes who sealed it, for whom and as which message of a session.
seal_envelope(keys, dir, host, sid, seq, kind, by, body, shell) ==
  [t |-> "env", host |-> host, sid |-> sid, seq |-> seq, kind |-> kind,
   ct |-> seal(keys, dir, seq, aad(host, sid, seq, kind),
               [by |-> by, host |-> host, sid |-> sid, seq |-> seq,
                body |-> body, shell |-> shell])]

open_envelope(keys, dir, env) == open(keys, dir, env.seq, aad(env.host, env.sid, env.seq, env.kind), env.ct)

-----------------------------------------------------------------------------
(* What the broker may deliver: a message of the kind, with at most one         *)
(* cleartext field taken from another.                                         *)

Published(t) == {m.msg : m \in {n \in net : n.msg.t = t}}

\* m itself, and m with one field of n.
Spliced(m, n) == {[m EXCEPT ![f] = n[f]] : f \in DOMAIN m}

Delivered(t) == UNION {Spliced(m, n) : m, n \in Published(t)}

Publish(h, tail, msg) == {[topic |-> topic(h, tail), msg |-> msg]}

-----------------------------------------------------------------------------
(* The agent's side.                                                           *)

\* The bounds.
InBudget ==
  \E b \in Budgets : \A h \in Hosts :
    agent[h].n <= b[h].connects /\ (sess[h] # <<>> => sess[h][1].seq <= b[h].down)

Away == [st |-> "down", n |-> 0, k |-> 1]

Init ==
  /\ agent = [h \in Hosts |-> Away]
  /\ sess = [h \in Hosts |-> <<>>]
  /\ route = [h \in Hosts |-> <<>>]
  /\ admitted = [h \in Hosts |-> 0]
  /\ net = {}
  /\ minted = [h \in Hosts |-> {}]

\* AgentIdentity::load and start_handshake, on each (re)connection: the certificate on
\* disk, which renewals replace, the next epoch, a fresh sid and a fresh ephemeral.
\* What the agent had of an earlier connection is gone.
start_handshake(h) ==
  LET n == agent[h].n + 1
      sid == <<h, "sid", n>>
      eph == <<h, "eph", n>>
  IN /\ \E k \in agent[h].k .. Len(CertsOf[h]) :
          LET cert == CertsOf[h][k] IN
          /\ agent' = [agent EXCEPT ![h] = [st |-> "hs", n |-> n, k |-> k, sid |-> sid, eph |-> eph, cert |-> cert]]
          /\ net' = net \cup Publish(h, "up/hs",
               [t |-> "hello", sid |-> sid, client_eph |-> eph, cert |-> cert, epoch |-> n,
                sig |-> sign(cert.key, client_transcript(sid, n, eph))])
     /\ UNCHANGED <<sess, route, admitted, minted>> /\ InBudget'

\* The ServerHello must be for this sid and signed by the pinned CA; whatever it is,
\* the handshake in flight is used up.
finish_handshake(h) ==
  /\ agent[h].st = "hs"
  /\ \E m \in Delivered("shello") :
       LET a == agent[h]
           ok == /\ m.sid = a.sid
                 /\ verify(CA, server_transcript(a.sid, a.eph, m.server_eph), m.sig)
           keys == derive(a.eph, m.server_eph, session_binding(a.sid, a.eph, m.server_eph, a.cert))
       IN agent' = [agent EXCEPT ![h] =
            IF ok THEN [st |-> "est", n |-> a.n, k |-> a.k, sid |-> a.sid, keys |-> keys,
                        seq |-> 0, high |-> <<>>, took |-> <<>>, used |-> {}, shell |-> <<>>]
            ELSE [st |-> "down", n |-> a.n, k |-> a.k]]
  /\ UNCHANGED <<sess, route, admitted, net, minted>>

\* Strictly newer than all accepted so far.
accept_recv(high, seq) == IF high = <<>> THEN TRUE ELSE seq > high[1]

\* One end takes an envelope: first the seal, then the replay guard.
Took(end, env) == [end EXCEPT !.high = <<env.seq>>, !.took = Append(@, env.ct.pt)]

\* It seals one with its next sequence number.
Sends(end) == [end EXCEPT !.seq = @ + 1]

open_downlink(h, env) ==
  open_envelope(agent[h].keys, "c2a", env) /\ accept_recv(agent[h].high, env.seq)

\* The next envelope of a side, all of them of the kind Control.  (The results of jobs
\* are sealed here too; Session and ExecStream have them.)
seal_uplink(h, tail, body) ==
  Publish(h, tail,
    seal_envelope(agent[h].keys, "a2c", h, agent[h].sid, agent[h].seq, "Control", h, body, 0))

\* confirm_session: an envelope of this session that opens moves the replay guard;
\* the beacon is answered.
confirm_session(h) ==
  /\ agent[h].st = "est"
  /\ \E env \in Delivered("env") :
       LET ready == env.ct.pt.body = "ready" IN
       /\ env.sid = agent[h].sid /\ open_downlink(h, env)
       /\ agent' = [agent EXCEPT ![h] = IF ready THEN Sends(Took(@, env)) ELSE Took(@, env)]
       /\ net' = net \cup (IF ready THEN seal_uplink(h, "up/ctrl", "ack") ELSE {})
  /\ UNCHANGED <<sess, route, admitted, minted>>

MutFreshStream(h, id) == id # 0

\* The nonce-reuse guard of handle_shell_open.
FreshStream(h, id) == id # 0 /\ id \notin agent[h].used

\* ShellStream::open: keys of its own, and so a counter and a replay guard of its own.
NewShell(id, of) == [id |-> id, seq |-> 0, of |-> of, high |-> <<>>, took |-> <<>>]

TookShell(end, env) ==
  LET id == env.ct.pt.shell IN
  [Took(end, env) EXCEPT !.used = @ \cup {id}, !.shell = <<NewShell(id, env.seq)>>]

\* open_dispatch, then handle_shell_open: a new shell replaces the one there is.
\* Any dispatch may be no shell's, or undecodable, or refused: by the host's allowlist,
\* the cap on shells, or the PTY.
OnDispatch(h) ==
  /\ agent[h].st = "est"
  /\ \E env \in Delivered("env") :
       /\ open_downlink(h, env)
       /\ \/ FreshStream(h, env.ct.pt.shell) /\ agent' = [agent EXCEPT ![h] = TookShell(@, env)]
          \/ agent' = [agent EXCEPT ![h] = Took(@, env)]
  /\ UNCHANGED <<sess, route, admitted, net, minted>>

\* A frame of the shell's output, or its terminal one, under the stream's own keys and
\* counter.
SealStream(h) ==
  /\ agent[h].st = "est" /\ agent[h].shell # <<>> /\ agent[h].shell[1].seq < MaxFrames
  /\ LET sh == agent[h].shell[1]
     IN /\ net' = net \cup Publish(h, "up/stream",
             seal_envelope(derive_stream(agent[h].keys, sh.id), "a2c", h, agent[h].sid, sh.seq, "Stream", h,
                           "output", sh.of))
        /\ agent' = [agent EXCEPT ![h].shell = <<Sends(sh)>>]
  /\ UNCHANGED <<sess, route, admitted, minted>>

\* A frame for the shell; the operator's eof ends it.
route_downlink(h) ==
  /\ agent[h].st = "est" /\ agent[h].shell # <<>>
  /\ \E env \in Delivered("env") :
       LET sh == agent[h].shell[1] IN
       /\ open_envelope(derive_stream(agent[h].keys, sh.id), "c2a", env) /\ accept_recv(sh.high, env.seq)
       /\ agent' = [agent EXCEPT ![h].shell = IF env.ct.pt.body = "eof" THEN <<>> ELSE <<Took(sh, env)>>]
  /\ UNCHANGED <<sess, route, admitted, net, minted>>

-----------------------------------------------------------------------------
(* The coordinator's side.                                                     *)

\* The host its SAN names, if it names one.
host_id_from_cert(cert) == {h \in Hosts : cert.san = h}

\* Issued by this CA, currently valid, an EC key.
verify_host_cert(cert) ==
  IF cert.issuer = CA /\ cert.valid /\ cert.ec THEN host_id_from_cert(cert) ELSE {}

\* respond: the hello's signature is by the certificate's key.
respond(m) == verify(m.cert.key, client_transcript(m.sid, m.epoch, m.client_eph), m.sig)

\* The answer, with a fresh ephemeral, is signed with the CA's own key.
respond_handshake(m, eph) ==
  [t |-> "shello", sid |-> m.sid, server_eph |-> eph,
   sig |-> sign(CA, server_transcript(m.sid, m.client_eph, eph))]

\* The sid of the host's live session: a hello with it is a repeat.
LiveSid(h, sid) == IF sess[h] = <<>> THEN FALSE ELSE sess[h][1].sid = sid

MutHelloOfTenant(h, t, m) ==
  /\ h \in tenant_for_tail(t, "up/hs") /\ verify_host_cert(m.cert) # {}
  /\ ~LiveSid(h, m.sid)
  /\ m.epoch > admitted[h]

\* The checks of handle_client_hello beside respond, for the host h of the certificate.
HelloOk(h, t, m) ==
  /\ h \in verify_host_cert(m.cert)
  /\ h \in tenant_for_tail(t, "up/hs")
  /\ ~LiveSid(h, m.sid)
  /\ m.epoch > admitted[h]

seal_downlink(h, s, tail, body, shell) ==
  Publish(h, tail,
    seal_envelope(s.keys, "c2a", h, s.sid, s.seq, "Control", CA, body, shell))

\* The epoch is admitted; then the store may be full, or publishing the ServerHello
\* fail, or it and the beacon are published.  Only then is the host's shell forgotten:
\* else it stays, with the keys of its own session.  (A refusal for revocation or a
\* store error changes nothing: it is a hello not delivered.)
handle_client_hello ==
  \E m \in Delivered("hello"), t \in {topic(x, "up/hs") : x \in Hosts}, h \in Hosts :
    LET eph == <<CA, "eph", Cardinality(minted[h]), h>>
        keys == derive(eph, m.client_eph, session_binding(m.sid, m.client_eph, eph, m.cert))
        s == [sid |-> m.sid, keys |-> keys, seq |-> 0, high |-> <<>>, took |-> <<>>]
    IN /\ respond(m) /\ HelloOk(h, t, m)
       /\ admitted' = [admitted EXCEPT ![h] = m.epoch]
       /\ minted' = [minted EXCEPT ![h] = @ \cup {keys}]
       /\ \/ UNCHANGED <<sess, route, net>>
          \/ sess' = [sess EXCEPT ![h] = <<s>>] /\ UNCHANGED <<route, net>>
          \/ /\ sess' = [sess EXCEPT ![h] = <<Sends(s)>>]
             /\ route' = [route EXCEPT ![h] = <<>>]
             /\ net' = net \cup seal_downlink(h, s, "down/ctrl", "ready", 0) \cup Publish(h, "down/hs", respond_handshake(m, eph))
       /\ UNCHANGED agent

\* handle_ctrl_ack finds the session by the envelope's host id and compares sids.
AckFor(env) == {h \in Hosts : env.host = h /\ LiveSid(h, env.sid)}

\* handle_result and decode_inventory find it by the topic's tenant.
SessionOf(t, tail) == {h \in tenant_for_tail(t, tail) : sess[h] # <<>>}

open_uplink(h) ==
  /\ sess[h] # <<>>
  /\ \E env \in Delivered("env") :
    /\ open_envelope(sess[h][1].keys, "a2c", env) /\ accept_recv(sess[h][1].high, env.seq)
    /\ \/ h \in AckFor(env)
       \/ \E x \in Hosts, tail \in {"up/result", "up/inventory"} : h \in SessionOf(topic(x, tail), tail)
    /\ sess' = [sess EXCEPT ![h] = <<Took(@[1], env)>>]
  /\ UNCHANGED <<agent, route, admitted, net, minted>>

\* The coordinator's side of a shell, of dispatch of: the stream's keys, the sid, a
\* counter and a replay guard.
NewRoute(s, id, of) ==
  [keys |-> derive_stream(s.keys, id), sid |-> s.sid, of |-> of, seq |-> 0, high |-> <<>>, took |-> <<>>]

\* A job (0) or, in open_shell, a shell, whose route replaces the host's.  The dispatch
\* takes a number even if publishing it fails.  Ids are UUIDs minted afresh; nothing
\* checks it here, so an id may come up again: then see NonceOnce.
SealDispatch(h, shell) ==
  /\ sess[h] # <<>>
  /\ LET s == sess[h][1] IN
     /\ sess' = [sess EXCEPT ![h] = <<Sends(s)>>]
     /\ \/ UNCHANGED <<route, net>>
        \/ /\ net' = net \cup seal_downlink(h, s, "down/dispatch", "dispatch", shell)
           /\ route' = IF shell = 0 THEN route ELSE [route EXCEPT ![h] = <<NewRoute(s, shell, s.seq)>>]
  /\ UNCHANGED <<agent, admitted, minted>> /\ InBudget'

\* ShellRoute::seal_downlink.
seal_frame(h, r, body) ==
  Publish(h, "down/stream",
    seal_envelope(r.keys, "c2a", h, r.sid, r.seq, "Stream", CA, body, r.of))

\* The route goes: with a terminal frame, or without one where publishing failed.
Closes(h) ==
  /\ route' = [route EXCEPT ![h] = <<>>]
  /\ net' \in {net, net \cup seal_frame(h, route[h][1], "eof")}

\* shell_input, shell_close.
ShellDown(h) ==
  /\ route[h] # <<>>
  /\ \/ /\ route[h][1].seq < MaxFrames
        /\ net' = net \cup seal_frame(h, route[h][1], "input")
        /\ route' = [route EXCEPT ![h] = <<Sends(@[1])>>]
     \/ Closes(h)
  /\ UNCHANGED <<agent, sess, admitted, minted>>

\* The route is found by the topic's tenant, which the broker chooses.  The frame goes to
\* the operator, or is dropped when the queue is full; the shell's last one, or an
\* operator who has left, ends the route.
handle_stream_up(h) ==
  /\ route[h] # <<>>
  /\ \E env \in Delivered("env") :
       LET r == route[h][1] IN
       /\ open_envelope(r.keys, "a2c", env) /\ accept_recv(r.high, env.seq)
       /\ \/ route' = [route EXCEPT ![h] = <<Took(r, env)>>] /\ UNCHANGED net
          \/ Closes(h)
  /\ UNCHANGED <<agent, sess, admitted, minted>>

Next ==
  \/ \E h \in Hosts :
       \/ start_handshake(h) \/ finish_handshake(h)
       \/ confirm_session(h) \/ OnDispatch(h)
       \/ SealStream(h) \/ route_downlink(h)
       \/ open_uplink(h) \/ \E id \in Dispatches[h] : SealDispatch(h, id)
       \/ ShellDown(h) \/ handle_stream_up(h)
  \/ handle_client_hello

Spec == Init /\ [][Next]_vars

-----------------------------------------------------------------------------
(* Properties.                                                                 *)

\* An agent that has opened anything holds keys that the coordinator derived for that
\* very host; and once the coordinator has heard from a host in a session, no other
\* host holds its keys, and the host's agent, if still in that session, holds no other
\* keys: whatever fields of the hellos the broker has exchanged (respond, finish,
\* confirm_session).
KeysAgree ==
  \A h \in Hosts :
    /\ agent[h].st = "est" /\ agent[h].took # <<>> => agent[h].keys \in minted[h]
    /\ sess[h] # <<>> /\ sess[h][1].took # <<>> =>
         \A g \in Hosts :
           (agent[g].st = "est" /\ (agent[g].keys = sess[h][1].keys \/ agent[g].sid = sess[h][1].sid)) =>
             g = h /\ agent[g].keys = sess[h][1].keys

Genuine(took, by, h, sid) ==
  /\ \A i \in DOMAIN took : took[i].by = by /\ took[i].host = h /\ took[i].sid = sid
  /\ \A i, j \in DOMAIN took : i < j => took[i].seq < took[j].seq

\* What either end accepts in a session, or for the shell it has open, was sealed by the
\* other end of the same host's session, each message once and in order: never another
\* host's, never its own reflected, never one of an earlier session (open_uplink,
\* open_downlink, aad).
OpenedAsSealed ==
  \A h \in Hosts :
    /\ agent[h].st = "est" =>
         /\ Genuine(agent[h].took, CA, h, agent[h].sid)
         /\ agent[h].shell # <<>> => Genuine(agent[h].shell[1].took, CA, h, agent[h].sid)
    /\ sess[h] # <<>> => Genuine(sess[h][1].took, h, h, sess[h][1].sid)
    /\ route[h] # <<>> => Genuine(route[h][1].took, h, h, route[h][1].sid)

\* The dispatches that opened the stream with these keys.
Opens(keys) ==
  {m \in Published("env") :
     m.ct.key = <<"c2a", derive_stream(keys, 0)>> /\ m.ct.pt.shell = keys.stream /\ keys.stream # 0}

\* No key and nonce ever seal two messages, over all hosts, sessions, directions and the
\* streams within a session.  A stream id that comes up twice in a session is refused by
\* the agent, which does not trust the coordinator (handle_shell_open); the coordinator's
\* own direction of such a stream is exempt: its open_shell derives the same keys again
\* and counts from 0, and nothing but the fresh UUID of every shell prevents it
\* (from_shared, derive_stream, nonce, ShellRoute).
NonceOnce ==
  \A m, n \in Published("env") :
    m.ct.key = n.ct.key /\ m.ct.nonce = n.ct.nonce =>
      m = n \/ (m.ct.key[1] = "c2a" /\ \E x, y \in Opens(m.ct.key[2]) : x # y)

=============================================================================
