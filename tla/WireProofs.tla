------------------------------ MODULE WireProofs ------------------------------
(* Proofs about Wire: whatever the broker replays, redirects or splices, both   *)
(* ends hold the keys of one handshake, take only what the other end sealed,    *)
(* and no key and nonce seal twice - for any hosts, certificates, connections,  *)
(* dispatches and frames.                                                      *)
EXTENDS Wire, FiniteSetTheorems, SequenceTheorems, TLAPS

(* The shape of the state.  Client and Connection read off keys whose handshake *)
(* they are of, Serial and ServerFor the coordinator's ephemeral.              *)

AllCerts == UNION {{CertsOf[h][k] : k \in DOMAIN CertsOf[h]} : h \in Hosts}
Sids == Hosts \X {"sid"} \X Nat
ClientEphs == Hosts \X {"eph"} \X Nat
ServerEphs == {CA} \X {"eph"} \X Nat \X Hosts
Keys == [shared : SUBSET (ClientEphs \cup ServerEphs),
         salt : Sids \X ClientEphs \X ServerEphs \X AllCerts,
         stream : Nat]

Client(keys) == keys.salt[2][1]
Connection(keys) == keys.salt[2][3]
Serial(keys) == keys.salt[3][3]
ServerFor(keys) == keys.salt[3][4]

Kinds == {"Control", "Stream"}
Bodies == {"ready", "ack", "dispatch", "output", "input", "eof"}
Plains == [by : Hosts \cup {CA}, host : Hosts, sid : Sids, seq : Nat, body : Bodies, shell : Nat]
Ciphertexts == [key : {"a2c", "c2a"} \X Keys, nonce : Nat, ad : Hosts \X Sids \X Nat \X Kinds, pt : Plains]

Hellos == [t : {"hello"}, sid : Sids, client_eph : ClientEphs, cert : AllCerts, epoch : Nat,
           sig : [by : Hosts, msg : {"c2s"} \X Sids \X Nat \X ClientEphs]]
ServerHellos == [t : {"shello"}, sid : Sids, server_eph : ServerEphs,
                 sig : [by : {CA}, msg : {"s2c"} \X Sids \X ClientEphs \X ServerEphs]]
Envelopes == [t : {"env"}, host : Hosts, sid : Sids, seq : Nat, kind : Kinds, ct : Ciphertexts]

Highs == {<<>>} \cup {<<x>> : x \in Nat}
Shell == [id : Nat, seq : Nat, of : Nat, high : Highs, took : Seq(Plains)]
Shells == {<<>>} \cup {<<x>> : x \in Shell}

Downs == [st : {"down"}, n : Nat, k : Nat]
Greeting == [st : {"hs"}, n : Nat, k : Nat, sid : Sids, eph : ClientEphs, cert : AllCerts]
Established == [st : {"est"}, n : Nat, k : Nat, sid : Sids, keys : Keys, seq : Nat, high : Highs,
                took : Seq(Plains), used : SUBSET Nat, shell : Shells]
Sessions == [sid : Sids, keys : Keys, seq : Nat, high : Highs, took : Seq(Plains)]
Routes == [keys : Keys, sid : Sids, of : Nat, seq : Nat, high : Highs, took : Seq(Plains)]

SessionOpts == {<<>>} \cup {<<s>> : s \in Sessions}
RouteOpts == {<<>>} \cup {<<r>> : r \in Routes}

TypeInv ==
  /\ agent \in [Hosts -> Downs \cup Greeting \cup Established]
  /\ sess \in [Hosts -> SessionOpts]
  /\ route \in [Hosts -> RouteOpts]
  /\ admitted \in [Hosts -> Nat]
  /\ minted \in [Hosts -> SUBSET Keys]

\* What has been published has its shape, and a hello is signed by the host whose
\* ephemeral and certificate it carries.
HelloInv ==
  /\ Published("hello") \subseteq Hellos
  /\ Published("shello") \subseteq ServerHellos
  /\ \A m \in Published("hello") :
       /\ m.sig = sign(m.cert.key, client_transcript(m.sid, m.epoch, m.client_eph))
       /\ m.client_eph[1] = m.cert.key

\* The replay guard is at the last message taken.
Guarded(end) ==
  /\ end.high = <<>> => end.took = <<>>
  /\ end.high # <<>> => \A i \in DOMAIN end.took : end.took[i].seq <= end.high[1]

\* The session keys that a stream's keys are derived from.
Base(keys) == derive_stream(keys, 0)

ShellGood(h, a) ==
  a.shell # <<>> =>
    /\ a.shell[1].id \in a.used /\ a.shell[1].id # 0
    /\ Guarded(a.shell[1]) /\ Genuine(a.shell[1].took, CA, h, a.sid)

\* The sid and the keys of an agent are of its own, current connection; once it has
\* taken something, the keys are among those the coordinator derived, M; the stream it
\* is on is one it has noted.
AgentGood(h, a, M) ==
  /\ a.k >= 1
  /\ a.st = "hs" => a.eph = <<h, "eph", a.n>> /\ a.sid = <<h, "sid", a.n>>
  /\ a.st = "est" =>
       /\ Client(a.keys) = h /\ Connection(a.keys) = a.n /\ a.sid = <<h, "sid", a.n>>
       /\ a.keys.stream = 0 /\ a.keys.salt[1] = a.sid
       /\ a.took # <<>> => a.keys \in M
       /\ ShellGood(h, a)
       /\ Guarded(a) /\ Genuine(a.took, CA, h, a.sid)

AgentInv == \A h \in Hosts : AgentGood(h, agent[h], minted[h])

SessionGood(h, s, M) ==
  /\ s.keys \in M /\ s.keys.salt[1] = s.sid
  /\ Guarded(s) /\ Genuine(s.took, h, h, s.sid)

SessionInv == \A h \in Hosts : sess[h] # <<>> => SessionGood(h, sess[h][1], minted[h])

\* A session that has taken anything has been sent an envelope under its keys.
HeardIn(s, S) == s.took # <<>> => \E e \in S : e.ct.key = <<"a2c", s.keys>>

HeardInv == \A h \in Hosts : sess[h] # <<>> => HeardIn(sess[h][1], Published("env"))

\* Among the envelopes S is a dispatch that opened the stream with these keys; two are.
Opening(keys, x) == x.ct.key = <<"c2a", Base(keys)>> /\ x.ct.pt.shell = keys.stream /\ keys.stream # 0
OpenedIn(keys, S) == \E x \in S : Opening(keys, x)
TwiceIn(keys, S) == \E x, y \in S : Opening(keys, x) /\ Opening(keys, y) /\ x # y

\* A route is of a stream that was opened in a session with the host.
RouteGood(h, r, M, S) ==
  /\ r.keys.stream # 0 /\ Base(r.keys) \in M /\ r.keys.salt[1] = r.sid
  /\ OpenedIn(r.keys, S)
  /\ Guarded(r) /\ Genuine(r.took, h, h, r.sid)

RouteInv == \A h \in Hosts : route[h] # <<>> => RouteGood(h, route[h][1], minted[h], Published("env"))

\* The coordinator's keys for a host are of handshakes of that host, each with an
\* ephemeral of its own, numbered in order.
MintedInv ==
  \A h \in Hosts :
    /\ IsFiniteSet(minted[h])
    /\ \A k \in minted[h] :
         /\ Client(k) = h /\ k.stream = 0
         /\ ServerFor(k) = h /\ Serial(k) < Cardinality(minted[h])

\* An envelope is what its sealer made of it, the coordinator with keys of M or of their
\* streams.
Made(m, M) ==
  /\ m \in Envelopes
  /\ m.ct.nonce = m.seq /\ m.ct.ad = aad(m.host, m.sid, m.seq, m.kind)
  /\ m.ct.pt.seq = m.seq /\ m.ct.pt.sid = m.sid /\ m.ct.pt.host = m.host
  /\ m.ct.key[2].salt[1] = m.sid /\ Client(m.ct.key[2]) = m.host
  /\ m.ct.key[1] = "a2c" => m.ct.pt.by = m.host /\ m.sid = <<m.host, "sid", Connection(m.ct.key[2])>>
  /\ m.ct.key[1] = "c2a" => m.ct.pt.by = CA /\ Base(m.ct.key[2]) \in M

Sealed(m) == Made(m, minted[m.host])

\* An uplink envelope lies behind the counter of the agent a that made it.
BehindAgent(a, m) ==
  LET keys == m.ct.key[2] IN
  /\ Connection(keys) <= a.n
  /\ a.st = "hs" => Connection(keys) < a.n
  /\ (a.st = "est" /\ Connection(keys) = a.n) => Base(keys) = a.keys
  /\ (a.st = "est" /\ Connection(keys) = a.n /\ keys.stream = 0) => m.seq < a.seq
  /\ (a.st = "est" /\ Connection(keys) = a.n /\ keys.stream # 0) =>
       /\ keys.stream \in a.used
       /\ (a.shell # <<>> /\ a.shell[1].id = keys.stream) => m.seq < a.shell[1].seq

\* As does a downlink envelope of the session s, and one of the route r, unless its
\* stream has been opened twice.
BehindSession(s, m) == s.keys = m.ct.key[2] => m.seq < s.seq
BehindRoute(r, m, S) == r.keys = m.ct.key[2] => m.seq < r.seq \/ TwiceIn(r.keys, S)

\* A downlink envelope among S, for a host with session v and route w, if any.
BehindDown(v, w, m, S) ==
  /\ v # <<>> => BehindSession(v[1], m)
  /\ w # <<>> => BehindRoute(w[1], m, S)
  /\ m.ct.key[2].stream # 0 => OpenedIn(m.ct.key[2], S)

Behind(m) ==
  /\ m.ct.key[1] = "a2c" => BehindAgent(agent[m.host], m)
  /\ m.ct.key[1] = "c2a" => BehindDown(sess[m.host], route[m.host], m, Published("env"))

EnvelopeInv == \A m \in Published("env") : Sealed(m) /\ Behind(m)

WireInv ==
  /\ TypeInv /\ HelloInv /\ AgentInv /\ SessionInv /\ HeardInv /\ RouteInv /\ MintedInv
  /\ EnvelopeInv /\ NonceOnce

-----------------------------------------------------------------------------
(* What the broker can deliver.                                                *)

\* A spliced message has each field from one message or the other.
LEMMA SplicedFields ==
  ASSUME NEW m, NEW n, NEW x \in Spliced(m, n)
  PROVE  /\ DOMAIN x = DOMAIN m
         /\ \A f \in DOMAIN m : x[f] = m[f] \/ x[f] = n[f]
BY DEF Spliced

\* Publishing one message.
LEMMA PublishOne ==
  ASSUME NEW h, NEW tail, NEW msg, NEW t, net' = net \cup Publish(h, tail, msg)
  PROVE  Published(t)' = IF msg.t = t THEN Published(t) \cup {msg} ELSE Published(t)
<1> PICK to : to = topic(h, tail) OBVIOUS
<1> PICK r : r = [topic |-> to, msg |-> msg] OBVIOUS
<1>1. net' = net \cup {r} /\ r.msg = msg BY DEF Publish
<1>2. ASSUME NEW y PROVE y \in Published(t)' <=> (y \in Published(t) \/ (y = msg /\ msg.t = t))
  BY <1>1 DEF Published
<1> QED BY <1>2

\* An envelope that opens is one that was sealed, whatever its cleartext says.
LEMMA OpensOnlySealed ==
  ASSUME WireInv, NEW env \in Delivered("env"),
         NEW keys, NEW dir, open_envelope(keys, dir, env)
  PROVE  \E e \in Published("env") :
            /\ env.ct = e.ct /\ env.seq = e.seq /\ env.sid = e.sid
            /\ e.ct.key = <<dir, keys>>
<1> PICK m \in Published("env"), n \in Published("env") : env \in Spliced(m, n) BY DEF Delivered
<1>1. m \in Envelopes /\ n \in Envelopes BY DEF WireInv, EnvelopeInv, Sealed, Made
<1>2. env.ct = m.ct \/ env.ct = n.ct BY <1>1, SplicedFields DEF Envelopes
<1>3. PICK e \in {m, n} : env.ct = e.ct BY <1>2
<1>4. Sealed(e) BY DEF WireInv, EnvelopeInv
<1>5. /\ e.ct.key = <<dir, keys>> /\ e.ct.nonce = env.seq
      /\ e.ct.ad = <<env.host, env.sid, env.seq, env.kind>>
  BY <1>3 DEF open_envelope, open, cipher, nonce, aad
<1>6. <<env.host, env.sid, env.seq, env.kind>> = <<e.host, e.sid, e.seq, e.kind>>
  BY <1>4, <1>5 DEF Sealed, Made, aad
<1>7. env.seq = e.seq /\ env.sid = e.sid BY <1>6
<1>8. e \in Published("env") OBVIOUS
<1> QED BY <1>3, <1>5, <1>7, <1>8

\* What an envelope says that opens with these keys.
OpensAs(env, dir, keys) ==
  \E pt \in Plains :
    /\ pt = env.ct.pt /\ pt.seq = env.seq /\ pt.host = Client(keys) /\ pt.sid = keys.salt[1]
    /\ dir = "a2c" => pt.by = Client(keys)
    /\ dir = "c2a" => pt.by = CA /\ Base(keys) \in minted[Client(keys)]
    /\ \E e \in Published("env") : e.ct.key = <<dir, keys>>

LEMMA OpensGenuine ==
  ASSUME WireInv, NEW env \in Delivered("env"), NEW keys, NEW dir, open_envelope(keys, dir, env)
  PROVE  OpensAs(env, dir, keys)
<1>1. PICK e \in Published("env") :
        env.ct = e.ct /\ env.seq = e.seq /\ env.sid = e.sid /\ e.ct.key = <<dir, keys>>
  BY OpensOnlySealed
<1>2. Sealed(e) /\ e.ct.key[1] = dir /\ e.ct.key[2] = keys BY <1>1 DEF WireInv, EnvelopeInv
<1> PICK pt : pt = e.ct.pt OBVIOUS
<1>3. /\ pt \in Plains /\ pt = env.ct.pt /\ pt.seq = env.seq /\ pt.host = Client(keys) /\ pt.sid = keys.salt[1]
  BY <1>1, <1>2 DEF Sealed, Made, Envelopes, Ciphertexts
<1>4. /\ dir = "a2c" => pt.by = Client(keys)
      /\ dir = "c2a" => pt.by = CA /\ Base(keys) \in minted[Client(keys)]
  BY <1>1, <1>2 DEF Sealed, Made
<1> QED BY <1>1, <1>3, <1>4 DEF OpensAs

\* A hello whose signature verifies carries an ephemeral of the host whose key the
\* certificate has, though the certificate may be another of that host's.
LEMMA HelloOfItsHost ==
  ASSUME WireInv, NEW x \in Delivered("hello"), respond(x)
  PROVE  x \in Hellos /\ x.client_eph[1] = x.cert.key
<1> PICK m \in Published("hello"), n \in Published("hello") : x \in Spliced(m, n) BY DEF Delivered
<1>1. m \in Hellos /\ n \in Hellos BY DEF WireInv, HelloInv
<1>2. x \in Hellos
  <2>1. /\ x.t \in {"hello"} /\ x.sid \in Sids /\ x.client_eph \in ClientEphs /\ x.cert \in AllCerts
        /\ x.epoch \in Nat /\ x.sig \in [by : Hosts, msg : {"c2s"} \X Sids \X Nat \X ClientEphs]
    BY <1>1, SplicedFields DEF Hellos
  <2>2. PICK f \in DOMAIN m : x = [m EXCEPT ![f] = n[f]] BY DEF Spliced
  <2>3. x = [t |-> x.t, sid |-> x.sid, client_eph |-> x.client_eph, cert |-> x.cert, epoch |-> x.epoch,
             sig |-> x.sig]
    BY <1>1, <2>2 DEF Hellos
  <2> QED BY <2>1, <2>3 DEF Hellos
<1>3. PICK e \in {m, n} : x.sig = e.sig BY <1>1, SplicedFields DEF Hellos
<1>4. /\ e.sig = sign(e.cert.key, client_transcript(e.sid, e.epoch, e.client_eph))
      /\ e.client_eph[1] = e.cert.key
  BY DEF WireInv, HelloInv
<1>5. x.sig = sign(x.cert.key, client_transcript(x.sid, x.epoch, x.client_eph)) BY DEF respond, verify
<1>6. x.cert.key = e.cert.key /\ x.client_eph = e.client_eph
  BY <1>3, <1>4, <1>5 DEF sign, client_transcript
<1> QED BY <1>2, <1>4, <1>6

\* An end that takes a message the guard lets through keeps its order and its guard.
LEMMA TakesOne ==
  ASSUME NEW end, NEW new, NEW pt \in Plains, NEW by, NEW h, NEW sid,
         end.took \in Seq(Plains), end.high \in Highs,
         Guarded(end), Genuine(end.took, by, h, sid), accept_recv(end.high, pt.seq),
         pt.by = by, pt.host = h, pt.sid = sid,
         new.took = Append(end.took, pt), new.high = <<pt.seq>>
  PROVE  Guarded(new) /\ Genuine(new.took, by, h, sid)
<1> PICK k \in Nat : k = Len(end.took) OBVIOUS
<1>1. /\ DOMAIN end.took = 1 .. k /\ DOMAIN new.took = 1 .. (k + 1)
      /\ \A i \in 1 .. k : new.took[i] = end.took[i] /\ end.took[i] \in Plains
      /\ new.took[k + 1] = pt
  OBVIOUS
<1>2. pt.seq \in Nat /\ \A i \in 1 .. k : end.took[i].seq \in Nat BY <1>1 DEF Plains
<1>3. \A i \in 1 .. k : end.took[i].seq < pt.seq
  <2>1. CASE end.high = <<>> BY <2>1, <1>1 DEF Guarded
  <2>2. CASE end.high # <<>>
    <3>1. PICK y \in Nat : end.high = <<y>> BY <2>2 DEF Highs
    <3>2. pt.seq > y BY <3>1 DEF accept_recv
    <3>3. \A i \in 1 .. k : end.took[i].seq <= y BY <3>1, <1>1 DEF Guarded
    <3> QED BY <3>2, <3>3, <1>2
  <2> QED BY <2>1, <2>2
<1>4. Guarded(new)
  <2>1. \A i \in 1 .. (k + 1) : new.took[i].seq <= pt.seq BY <1>1, <1>2, <1>3
  <2> QED BY <2>1, <1>1 DEF Guarded
<1>5. \A i \in DOMAIN new.took : new.took[i].by = by /\ new.took[i].host = h /\ new.took[i].sid = sid
  BY <1>1 DEF Genuine
<1>6. \A i, j \in DOMAIN new.took : i < j => new.took[i].seq < new.took[j].seq
  <2> SUFFICES ASSUME NEW i \in 1 .. (k + 1), NEW j \in 1 .. (k + 1), i < j
               PROVE  new.took[i].seq < new.took[j].seq
    BY <1>1
  <2>1. CASE j = k + 1 BY <2>1, <1>1, <1>3
  <2>2. CASE j # k + 1
    <3>1. i \in 1 .. k /\ j \in 1 .. k BY <2>2
    <3> QED BY <3>1, <1>1 DEF Genuine
  <2> QED BY <2>1, <2>2
<1> QED BY <1>4, <1>5, <1>6 DEF Genuine

-----------------------------------------------------------------------------
(* A step is about one host, h: it publishes the envelopes E of that host and   *)
(* leaves the others' agents and sessions alone.                               *)

Once(S) ==
  \A m, n \in S : m.ct.key = n.ct.key /\ m.ct.nonce = n.ct.nonce =>
                    m = n \/ (m.ct.key[1] = "c2a" /\ TwiceIn(m.ct.key[2], S))

\* This is NonceOnce, of the envelopes published.
LEMMA OnceIs == NonceOnce <=> Once(Published("env"))
<1>1. ASSUME NEW keys PROVE (\E x, y \in Opens(keys) : x # y) <=> TwiceIn(keys, Published("env"))
  BY DEF Opens, TwiceIn, Opening, Base
<1> QED BY <1>1 DEF NonceOnce, Once

\* What more envelopes leave true.
LEMMA MoreSeals ==
  ASSUME NEW S, NEW T, S \subseteq T
  PROVE  /\ \A keys : OpenedIn(keys, S) => OpenedIn(keys, T)
         /\ \A keys : TwiceIn(keys, S) => TwiceIn(keys, T)
         /\ \A s : HeardIn(s, S) => HeardIn(s, T)
         /\ \A h, r, M : RouteGood(h, r, M, S) => RouteGood(h, r, M, T)
         /\ \A v, w, m : BehindDown(v, w, m, S) => BehindDown(v, w, m, T)
<1>1. \A keys : OpenedIn(keys, S) => OpenedIn(keys, T) BY DEF OpenedIn
<1>2. \A keys : TwiceIn(keys, S) => TwiceIn(keys, T) BY DEF TwiceIn
<1>3. \A s : HeardIn(s, S) => HeardIn(s, T) BY DEF HeardIn
<1>4. \A h, r, M : RouteGood(h, r, M, S) => RouteGood(h, r, M, T) BY <1>1 DEF RouteGood
<1>5. \A v, w, m : BehindDown(v, w, m, S) => BehindDown(v, w, m, T)
  BY <1>1, <1>2 DEF BehindDown, BehindRoute
<1> QED BY <1>1, <1>2, <1>3, <1>4, <1>5

\* Keys and the keys of their streams.
LEMMA StreamKeys ==
  ASSUME NEW keys \in Keys, NEW id \in Nat
  PROVE  /\ Base(keys) \in Keys /\ Base(keys).salt = keys.salt /\ Base(keys).stream = 0
         /\ keys.stream = 0 => Base(keys) = keys
         /\ derive_stream(keys, id) \in Keys /\ derive_stream(keys, id).salt = keys.salt
         /\ derive_stream(keys, id).stream = id
         /\ keys.stream = 0 => Base(derive_stream(keys, id)) = keys
<1>1. /\ derive_stream(keys, id) \in Keys /\ derive_stream(keys, id).salt = keys.salt
      /\ derive_stream(keys, id).stream = id
  BY DEF derive_stream, Keys
<1>2. Base(keys) \in Keys /\ Base(keys).salt = keys.salt /\ Base(keys).stream = 0
  BY DEF derive_stream, Keys, Base
<1>3. keys.stream = 0 => Base(keys) = keys BY DEF derive_stream, Keys, Base
<1>4. keys.stream = 0 => Base(derive_stream(keys, id)) = keys BY DEF derive_stream, Keys, Base
<1> QED BY <1>1, <1>2, <1>3, <1>4

About(h, E) ==
  /\ \A g \in Hosts : minted[g] \subseteq minted'[g]
  /\ \A g \in Hosts \ {h} : agent'[g] = agent[g] /\ sess'[g] = sess[g] /\ route'[g] = route[g]
  /\ Published("env")' = Published("env") \cup E
  /\ \A m \in E : m.host = h /\ Sealed(m)'

\* Such a step keeps the invariant if it does so for that host.
LEMMA OneHost ==
  ASSUME WireInv, NEW h \in Hosts, NEW E, About(h, E),
         TypeInv', HelloInv', MintedInv',
         AgentGood(h, agent'[h], minted'[h]),
         sess'[h] # <<>> => SessionGood(h, sess'[h][1], minted'[h]) /\ HeardIn(sess'[h][1], Published("env")'),
         route'[h] # <<>> => RouteGood(h, route'[h][1], minted'[h], Published("env")'),
         \A m \in Published("env")' : m.host = h => Behind(m)',
         Once(Published("env") \cup E)
  PROVE  WireInv'
<1> PICK S, T : S = Published("env") /\ T = Published("env")' OBVIOUS
<1>1. S \subseteq T BY DEF About
<1>2. /\ \A s : HeardIn(s, S) => HeardIn(s, T)
      /\ \A g, r, M : RouteGood(g, r, M, S) => RouteGood(g, r, M, T)
      /\ \A v, w, m : BehindDown(v, w, m, S) => BehindDown(v, w, m, T)
  BY ONLY <1>1, MoreSeals
<1>3. AgentInv'
  <2> SUFFICES ASSUME NEW g \in Hosts, g # h PROVE AgentGood(g, agent'[g], minted'[g]) BY DEF AgentInv
  <2>1. AgentGood(g, agent[g], minted[g]) /\ agent'[g] = agent[g] /\ minted[g] \subseteq minted'[g]
    BY DEF WireInv, AgentInv, About
  <2> QED BY <2>1 DEF AgentGood
<1>4. SessionInv' /\ HeardInv'
  <2> SUFFICES ASSUME NEW g \in Hosts, g # h, sess'[g] # <<>>
               PROVE  SessionGood(g, sess'[g][1], minted'[g]) /\ HeardIn(sess'[g][1], T)
    BY DEF SessionInv, HeardInv
  <2>1. sess'[g] = sess[g] /\ minted[g] \subseteq minted'[g] BY DEF About
  <2>2. SessionGood(g, sess[g][1], minted[g]) /\ HeardIn(sess[g][1], S)
    BY <2>1 DEF WireInv, SessionInv, HeardInv
  <2> QED BY <1>2, <2>1, <2>2 DEF SessionGood
<1>5. RouteInv'
  <2> SUFFICES ASSUME NEW g \in Hosts, g # h, route'[g] # <<>>
               PROVE  RouteGood(g, route'[g][1], minted'[g], T)
    BY DEF RouteInv
  <2>1. route'[g] = route[g] /\ minted[g] \subseteq minted'[g] BY DEF About
  <2>2. RouteGood(g, route[g][1], minted[g], S) BY <2>1 DEF WireInv, RouteInv
  <2>3. RouteGood(g, route[g][1], minted[g], T) BY <1>2, <2>2
  <2> QED BY <2>1, <2>3 DEF RouteGood
<1>6. EnvelopeInv'
  <2> SUFFICES ASSUME NEW m \in Published("env")' PROVE Sealed(m)' /\ Behind(m)' BY DEF EnvelopeInv
  <2>1. m \in Published("env") \/ m \in E BY DEF About
  <2>2. CASE m \in E BY <2>2 DEF About
  <2>3. CASE m \in Published("env")
    <3>1. Sealed(m) /\ Behind(m) BY <2>3 DEF WireInv, EnvelopeInv
    <3>2. m.host \in Hosts BY <3>1 DEF Sealed, Made, Envelopes
    <3>3. Sealed(m)' BY <3>1, <3>2 DEF Sealed, Made, About
    <3>4. CASE m.host = h BY <3>3, <3>4
    <3>5. CASE m.host # h
      <4>1. /\ agent'[m.host] = agent[m.host] /\ sess'[m.host] = sess[m.host]
            /\ route'[m.host] = route[m.host]
        BY <3>2, <3>5 DEF About
      <4> QED BY <1>2, <3>1, <3>3, <4>1 DEF Behind
    <3> QED BY <3>4, <3>5
  <2> QED BY <2>1, <2>2, <2>3
<1>7. NonceOnce'
  <2>1. Once(T) BY DEF About
  <2>2. ASSUME NEW keys PROVE TwiceIn(keys, T) => \E x, y \in Opens(keys)' : x # y
    BY DEF Opens, TwiceIn, Opening, Base
  <2> QED BY <2>1, <2>2 DEF NonceOnce, Once
<1> QED BY <1>3, <1>4, <1>5, <1>6, <1>7 DEF WireInv

AgentRecords == Downs \cup Greeting \cup Established

\* What is known of an envelope already published for h.
LEMMA WasBehind ==
  ASSUME WireInv, NEW m \in Published("env"), NEW h, m.host = h
  PROVE  /\ Sealed(m) /\ m.seq \in Nat /\ m.ct.nonce = m.seq
         /\ m.ct.key[1] = "a2c" => BehindAgent(agent[h], m)
         /\ m.ct.key[1] = "c2a" => BehindDown(sess[h], route[h], m, Published("env"))
<1>1. Sealed(m) /\ Behind(m) BY DEF WireInv, EnvelopeInv
<1>2. m.seq \in Nat /\ m.ct.nonce = m.seq BY <1>1 DEF Sealed, Made, Envelopes
<1> QED BY <1>1, <1>2 DEF Behind

\* A step of the agent of h, to a.
LEMMA AgentStep ==
  ASSUME WireInv, NEW h \in Hosts, NEW a \in AgentRecords, NEW E,
         agent' = [agent EXCEPT ![h] = a], UNCHANGED <<sess, route, admitted, minted>>,
         AgentGood(h, a, minted[h]), HelloInv', Published("env")' = Published("env") \cup E,
         \A m \in E : m.host = h /\ Sealed(m) /\ m.ct.key[1] = "a2c",
         \A m \in Published("env") \cup E : m.host = h /\ m.ct.key[1] = "a2c" => BehindAgent(a, m),
         Once(Published("env") \cup E)
  PROVE  WireInv'
<1> PICK S, T : S = Published("env") /\ T = Published("env")' OBVIOUS
<1>0. S \subseteq T OBVIOUS
<1>1. agent'[h] = a /\ \A g \in Hosts \ {h} : agent'[g] = agent[g] BY DEF WireInv, TypeInv
<1>2. TypeInv' BY DEF WireInv, TypeInv, AgentRecords
<1>3. MintedInv' BY DEF WireInv, MintedInv
<1>4. About(h, E)
  <2>1. \A m \in E : Sealed(m)' BY DEF Sealed, Made
  <2> QED BY <1>1, <2>1 DEF About
<1>5. /\ AgentGood(h, agent'[h], minted'[h])
      /\ sess'[h] # <<>> => SessionGood(h, sess'[h][1], minted'[h]) /\ HeardIn(sess'[h][1], T)
      /\ route'[h] # <<>> => RouteGood(h, route'[h][1], minted'[h], T)
  <2>1. /\ sess[h] # <<>> => SessionGood(h, sess[h][1], minted[h]) /\ HeardIn(sess[h][1], S)
        /\ route[h] # <<>> => RouteGood(h, route[h][1], minted[h], S)
    BY DEF WireInv, SessionInv, HeardInv, RouteInv
  <2>2. /\ \A s : HeardIn(s, S) => HeardIn(s, T)
        /\ \A g, r, M : RouteGood(g, r, M, S) => RouteGood(g, r, M, T)
    BY ONLY <1>0, MoreSeals
  <2> QED BY <1>1, <2>1, <2>2
<1>6. ASSUME NEW m \in Published("env")', m.host = h PROVE Behind(m)'
  <2>1. m \in Published("env") \cup E OBVIOUS
  <2>2. m.ct.key[1] = "a2c" => BehindAgent(a, m) BY <2>1, <1>6
  <2>3. m.ct.key[1] = "c2a" => BehindDown(sess[h], route[h], m, T)
    <3>1. CASE m \in E
      <4>1. m.ct.key[1] = "a2c" BY <3>1
      <4> QED BY <4>1
    <3>2. CASE m \in Published("env")
      <4>1. m.ct.key[1] = "c2a" => BehindDown(sess[h], route[h], m, S) BY <3>2, <1>6, WasBehind
      <4>2. \A v, w, x : BehindDown(v, w, x, S) => BehindDown(v, w, x, T) BY ONLY <1>0, MoreSeals
      <4> QED BY <4>1, <4>2
    <3> QED BY <2>1, <3>1, <3>2
  <2> QED BY <2>2, <2>3, <1>1, <1>6 DEF Behind
<1> QED BY <1>2, <1>3, <1>4, <1>5, <1>6, OneHost DEF WireInv

\* The coordinator's session with h and its route become v and w, and the envelopes E
\* are published, so that there are T.
CoordMoves(h, v, w, E, T) ==
  /\ v \in SessionOpts /\ w \in RouteOpts
  /\ sess' = [sess EXCEPT ![h] = v] /\ route' = [route EXCEPT ![h] = w]
  /\ UNCHANGED <<agent, admitted, minted>> /\ T = Published("env") \cup E
  /\ v # <<>> => SessionGood(h, v[1], minted[h]) /\ HeardIn(v[1], T)
  /\ w # <<>> => RouteGood(h, w[1], minted[h], T)
  /\ HelloInv' /\ Published("env")' = T
  /\ \A m \in E : m.host = h /\ Sealed(m) /\ m.ct.key[1] = "c2a"
  /\ \A m \in T : m.host = h /\ m.ct.key[1] = "c2a" => BehindDown(v, w, m, T)
  /\ Once(T)

\* Such a step keeps the invariant.
LEMMA CoordStep ==
  ASSUME WireInv, NEW h \in Hosts, NEW v, NEW w, NEW E, NEW T, CoordMoves(h, v, w, E, T)
  PROVE  WireInv'
<1> USE DEF CoordMoves
<1>1. /\ sess'[h] = v /\ \A g \in Hosts \ {h} : sess'[g] = sess[g]
      /\ route'[h] = w /\ \A g \in Hosts \ {h} : route'[g] = route[g]
  BY DEF WireInv, TypeInv
<1>2. TypeInv' BY DEF WireInv, TypeInv
<1>3. MintedInv' BY DEF WireInv, MintedInv
<1>4. About(h, E)
  <2>1. \A m \in E : Sealed(m)' BY DEF Sealed, Made
  <2> QED BY <1>1, <2>1 DEF About
<1>5. /\ AgentGood(h, agent'[h], minted'[h])
      /\ sess'[h] # <<>> => SessionGood(h, sess'[h][1], minted'[h]) /\ HeardIn(sess'[h][1], Published("env")')
      /\ route'[h] # <<>> => RouteGood(h, route'[h][1], minted'[h], Published("env")')
  BY <1>1 DEF WireInv, AgentInv
<1>6. ASSUME NEW m \in Published("env")', m.host = h PROVE Behind(m)'
  <2>1. m.ct.key[1] = "c2a" => BehindDown(v, w, m, T) BY <1>6
  <2>2. m.ct.key[1] = "a2c" => BehindAgent(agent[h], m)
    <3>1. CASE m \in E
      <4>1. m.ct.key[1] = "c2a" BY <3>1
      <4> QED BY <4>1
    <3>2. CASE m \in Published("env") BY <3>2, <1>6, WasBehind
    <3> QED BY <3>1, <3>2
  <2> QED BY <2>1, <2>2, <1>1, <1>6 DEF Behind
<1>7. Once(Published("env") \cup E) OBVIOUS
<1> QED BY ONLY WireInv, h \in Hosts, HelloInv', <1>2, <1>3, <1>4, <1>5, <1>6, <1>7, OneHost

\* What a step without a message leaves as it is.
LEMMA QuietNet ==
  ASSUME WireInv, UNCHANGED net
  PROVE  \E E : /\ E = {} /\ HelloInv' /\ Published("env")' = Published("env") \cup E
                /\ Once(Published("env") \cup E)
<1>1. \A t : Published(t)' = Published(t) BY DEF Published
<1>2. HelloInv' /\ Published("env")' = Published("env") BY <1>1 DEF WireInv, HelloInv
<1>3. Once(Published("env")) BY OnceIs DEF WireInv
<1>4. Published("env") \cup {} = Published("env") OBVIOUS
<1> QED BY <1>2, <1>3, <1>4

\* A step of the agent of h that publishes nothing.
LEMMA AgentQuiet ==
  ASSUME WireInv, NEW h \in Hosts, NEW a \in AgentRecords,
         agent' = [agent EXCEPT ![h] = a], UNCHANGED <<sess, route, admitted, net, minted>>,
         AgentGood(h, a, minted[h]),
         \A m \in Published("env") : m.host = h /\ m.ct.key[1] = "a2c" => BehindAgent(a, m)
  PROVE  WireInv'
<1>1. PICK E : /\ E = {} /\ HelloInv' /\ Published("env")' = Published("env") \cup E
               /\ Once(Published("env") \cup E)
  BY QuietNet
<1>2. \A m \in Published("env") \cup E : m.host = h /\ m.ct.key[1] = "a2c" => BehindAgent(a, m)
  BY <1>1
<1>3. \A m \in E : m.host = h /\ Sealed(m) /\ m.ct.key[1] = "a2c" BY <1>1
<1> QED BY <1>1, <1>2, <1>3, AgentStep

-----------------------------------------------------------------------------
(* The agent's actions.                                                        *)

\* Finishing a handshake gives the agent keys of its own connection, with which
\* nothing is sealed yet.
LEMMA FinishHandshake ==
  ASSUME WireInv, NEW h \in Hosts, finish_handshake(h)
  PROVE  WireInv'
<1> PICK a : a = agent[h] OBVIOUS
<1>1. a \in Greeting /\ a.eph = <<h, "eph", a.n>> /\ a.sid = <<h, "sid", a.n>> /\ a.k >= 1
  BY DEF finish_handshake, WireInv, TypeInv, Downs, Established, Greeting, AgentInv, AgentGood
<1>2. PICK m \in Delivered("shello") :
        LET ok == /\ m.sid = a.sid
                  /\ verify(CA, server_transcript(a.sid, a.eph, m.server_eph), m.sig)
            keys == derive(a.eph, m.server_eph, session_binding(a.sid, a.eph, m.server_eph, a.cert))
        IN agent' = [agent EXCEPT ![h] =
             IF ok THEN [st |-> "est", n |-> a.n, k |-> a.k, sid |-> a.sid, keys |-> keys,
                         seq |-> 0, high |-> <<>>, took |-> <<>>, used |-> {}, shell |-> <<>>]
             ELSE [st |-> "down", n |-> a.n, k |-> a.k]]
  BY DEF finish_handshake
<1>3. m.server_eph \in ServerEphs
  <2>1. PICK p \in Published("shello"), q \in Published("shello") : m \in Spliced(p, q) BY DEF Delivered
  <2>2. p \in ServerHellos /\ q \in ServerHellos BY DEF WireInv, HelloInv
  <2> QED BY <2>1, <2>2, SplicedFields DEF ServerHellos
<1> PICK keys : keys = derive(a.eph, m.server_eph, session_binding(a.sid, a.eph, m.server_eph, a.cert))
  OBVIOUS
<1>4. /\ keys \in Keys /\ Client(keys) = h /\ Connection(keys) = a.n /\ keys.stream = 0
      /\ keys.salt[1] = a.sid
  BY <1>1, <1>3 DEF derive, from_shared, session_binding, Keys, Client, Connection, Greeting
<1> PICK est : est = [st |-> "est", n |-> a.n, k |-> a.k, sid |-> a.sid, keys |-> keys,
                      seq |-> 0, high |-> <<>>, took |-> <<>>, used |-> {}, shell |-> <<>>]
  OBVIOUS
<1> PICK down : down = [st |-> "down", n |-> a.n, k |-> a.k] OBVIOUS
<1>5. PICK b \in {est, down} : agent' = [agent EXCEPT ![h] = b] BY <1>2
<1>6. est \in Established /\ down \in Downs
  BY <1>1, <1>4 DEF Established, Downs, Greeting, Highs, Shells
<1>7. AgentGood(h, est, minted[h]) /\ AgentGood(h, down, minted[h])
  <2>1. /\ est.k = a.k /\ est.st = "est" /\ est.keys = keys /\ est.n = a.n /\ est.sid = a.sid
        /\ est.took = <<>> /\ est.high = <<>> /\ est.shell = <<>>
    OBVIOUS
  <2>2. Guarded(est) /\ Genuine(est.took, CA, h, est.sid) /\ ShellGood(h, est)
    BY <2>1 DEF ShellGood, Guarded, Genuine
  <2>3. AgentGood(h, est, minted[h]) BY <1>1, <1>4, <2>1, <2>2 DEF AgentGood
  <2>4. AgentGood(h, down, minted[h]) BY <1>1 DEF AgentGood
  <2> QED BY <2>3, <2>4
<1>8. ASSUME NEW e \in Published("env"), e.host = h, e.ct.key[1] = "a2c"
      PROVE  BehindAgent(est, e) /\ BehindAgent(down, e)
  <2>1. BehindAgent(a, e) /\ a.st = "hs" /\ e \in Envelopes
    BY <1>1, <1>8 DEF WireInv, EnvelopeInv, Behind, Greeting, Sealed, Made
  <2>2. Connection(e.ct.key[2]) < a.n BY <2>1 DEF BehindAgent
  <2>3. Connection(e.ct.key[2]) \in Nat /\ a.n \in Nat
    BY <2>1, <1>1 DEF Connection, Envelopes, Ciphertexts, Keys, Greeting, ClientEphs
  <2> QED BY <2>2, <2>3 DEF BehindAgent
<1>9. b \in AgentRecords /\ AgentGood(h, b, minted[h]) BY <1>6, <1>7 DEF AgentRecords
<1>10. UNCHANGED <<sess, route, admitted, net, minted>> BY DEF finish_handshake
<1>11. \A e \in Published("env") : e.host = h /\ e.ct.key[1] = "a2c" => BehindAgent(b, e)
  BY <1>5, <1>8
<1> QED BY <1>5, <1>9, <1>10, <1>11, AgentQuiet

\* A handshake begins: a new connection, with its own sid and ephemeral.
LEMMA StartHandshake ==
  ASSUME WireInv, NEW h \in Hosts, start_handshake(h)
  PROVE  WireInv'
<1> PICK n : n = agent[h].n + 1 OBVIOUS
<1>1. agent[h].n \in Nat /\ agent[h].k \in Nat /\ agent[h].k >= 1 /\ n \in Nat
  BY DEF WireInv, TypeInv, Downs, Greeting, Established, AgentInv, AgentGood
<1> PICK sid, eph : sid = <<h, "sid", n>> /\ eph = <<h, "eph", n>> OBVIOUS
<1>2. PICK k \in agent[h].k .. Len(CertsOf[h]) :
        /\ agent' = [agent EXCEPT ![h] =
             [st |-> "hs", n |-> n, k |-> k, sid |-> sid, eph |-> eph, cert |-> CertsOf[h][k]]]
        /\ net' = net \cup Publish(h, "up/hs",
             [t |-> "hello", sid |-> sid, client_eph |-> eph, cert |-> CertsOf[h][k], epoch |-> n,
              sig |-> sign(CertsOf[h][k].key, client_transcript(sid, n, eph))])
  BY DEF start_handshake
<1> PICK cert : cert = CertsOf[h][k] OBVIOUS
<1>3. k \in 1 .. Len(CertsOf[h]) /\ k \in Nat
  BY <1>1, WireAssumption
<1>4. cert \in AllCerts /\ cert.key = h BY <1>3, WireAssumption DEF AllCerts
<1> PICK a : a = [st |-> "hs", n |-> n, k |-> k, sid |-> sid, eph |-> eph, cert |-> cert] OBVIOUS
<1> PICK hello : hello = [t |-> "hello", sid |-> sid, client_eph |-> eph, cert |-> cert, epoch |-> n,
                          sig |-> sign(cert.key, client_transcript(sid, n, eph))]
  OBVIOUS
<1>5. agent' = [agent EXCEPT ![h] = a] /\ net' = net \cup Publish(h, "up/hs", hello) BY <1>2
<1>6. sid \in Sids /\ eph \in ClientEphs BY <1>1 DEF Sids, ClientEphs
<1>7. a \in AgentRecords BY <1>1, <1>3, <1>4, <1>6 DEF AgentRecords, Greeting
<1>8. hello \in Hellos BY <1>1, <1>4, <1>6 DEF Hellos, sign, client_transcript
<1>9. AgentGood(h, a, minted[h]) BY <1>1, <1>3 DEF AgentGood
<1>10. /\ Published("hello")' = Published("hello") \cup {hello}
       /\ Published("shello")' = Published("shello") /\ Published("env")' = Published("env")
  <2> PICK up : up = "up/hs" OBVIOUS
  <2>1. net' = net \cup Publish(h, up, hello) BY <1>5
  <2>2. ASSUME NEW t
        PROVE  Published(t)' = IF hello.t = t THEN Published(t) \cup {hello} ELSE Published(t)
    BY ONLY <2>1, PublishOne
  <2>3. hello.t = "hello" OBVIOUS
  <2> QED BY <2>2, <2>3
<1>11. HelloInv'
  <2>1. /\ hello.sig = sign(hello.cert.key, client_transcript(hello.sid, hello.epoch, hello.client_eph))
        /\ hello.client_eph[1] = hello.cert.key
    BY <1>4
  <2> QED BY <1>8, <1>10, <2>1, ZenonT(60) DEF WireInv, HelloInv
<1> PICK E : E = {} OBVIOUS
<1>12. Published("env") \cup E = Published("env") OBVIOUS
<1>13. ASSUME NEW m \in Published("env"), m.host = h, m.ct.key[1] = "a2c" PROVE BehindAgent(a, m)
  <2>1. BehindAgent(agent[h], m) /\ m \in Envelopes BY <1>13 DEF WireInv, EnvelopeInv, Behind, Sealed, Made
  <2>2. Connection(m.ct.key[2]) <= agent[h].n BY <2>1 DEF BehindAgent
  <2>3. Connection(m.ct.key[2]) \in Nat BY <2>1 DEF Connection, Envelopes, Ciphertexts, Keys, ClientEphs
  <2> QED BY <1>1, <2>2, <2>3 DEF BehindAgent
<1>14. UNCHANGED <<sess, route, admitted, minted>> BY DEF start_handshake
<1>15. Once(Published("env") \cup E) BY <1>12, OnceIs DEF WireInv
<1>16. \A m \in Published("env") \cup E : m.host = h /\ m.ct.key[1] = "a2c" => BehindAgent(a, m)
  BY <1>12, <1>13
<1>17. \A m \in E : m.host = h /\ Sealed(m) /\ m.ct.key[1] = "a2c" OBVIOUS
<1>18. Published("env")' = Published("env") \cup E BY <1>10, <1>12
<1> QED BY <1>5, <1>7, <1>9, <1>11, <1>14, <1>15, <1>16, <1>17, <1>18, AgentStep

SealedAs(e, dir, keys, h, q, M) ==
  /\ Made(e, M) /\ e.t = "env" /\ e.host = h /\ e.seq = q
  /\ e.ct.key = <<dir, keys>> /\ e.ct.nonce = q

\* What sealing an envelope makes.
LEMMA Seals ==
  ASSUME NEW keys \in Keys, NEW dir, NEW h \in Hosts, NEW sid \in Sids,
         NEW q \in Nat, NEW kind \in Kinds, NEW by, NEW body \in Bodies,
         NEW shell \in Nat, NEW e, NEW M,
         keys.salt[1] = sid, Client(keys) = h,
         \/ dir = "a2c" /\ by = h /\ sid = <<h, "sid", Connection(keys)>>
         \/ dir = "c2a" /\ by = CA /\ Base(keys) \in M,
         e = seal_envelope(keys, dir, h, sid, q, kind, by, body, shell)
  PROVE  SealedAs(e, dir, keys, h, q, M)
<1> PICK pt : pt = [by |-> by, host |-> h, sid |-> sid, seq |-> q, body |-> body, shell |-> shell]
  OBVIOUS
<1>1. pt \in Plains /\ dir \in {"a2c", "c2a"} BY DEF Plains
<1> PICK ct : ct = [key |-> <<dir, keys>>, nonce |-> q, ad |-> <<h, sid, q, kind>>, pt |-> pt] OBVIOUS
<1>2. ct \in Ciphertexts BY <1>1 DEF Ciphertexts
<1>3. e = [t |-> "env", host |-> h, sid |-> sid, seq |-> q, kind |-> kind, ct |-> ct]
  BY DEF seal_envelope, seal, cipher, nonce, aad
<1>4. e \in Envelopes BY <1>2, <1>3 DEF Envelopes
<1> QED BY <1>3, <1>4 DEF SealedAs, Sealed, Made, aad

\* What an agent seals, with its keys or a stream's.
LEMMA UplinkSeals ==
  ASSUME NEW keys \in Keys, NEW h \in Hosts, NEW sid \in Sids, NEW q \in Nat, NEW kind \in Kinds,
         NEW body \in Bodies, NEW shell \in Nat, NEW e, NEW M, keys.salt[1] = sid, Client(keys) = h,
         sid = <<h, "sid", Connection(keys)>>,
         e = seal_envelope(keys, "a2c", h, sid, q, kind, h, body, shell)
  PROVE  SealedAs(e, "a2c", keys, h, q, M)
<1> PICK dir, by : dir = "a2c" /\ by = h OBVIOUS
<1>1. e = seal_envelope(keys, dir, h, sid, q, kind, by, body, shell) OBVIOUS
<1>2. SealedAs(e, dir, keys, h, q, M)
  BY <1>1, Seals
<1> QED BY <1>2

\* A message whose key and nonce no other has, or are of a stream opened twice, can join
\* the rest.
LEMMA OnceMore ==
  ASSUME NEW S, NEW e, Once(S),
         \A m \in S : m.ct.key = e.ct.key /\ m.ct.nonce = e.ct.nonce =>
                        m.ct.key[1] = "c2a" /\ TwiceIn(m.ct.key[2], S)
  PROVE  Once(S \cup {e})
<1> PICK T : T = S \cup {e} OBVIOUS
<1>1. \A keys : TwiceIn(keys, S) => TwiceIn(keys, T)
  <2>1. S \subseteq T OBVIOUS
  <2> QED BY ONLY <2>1, MoreSeals
<1> QED BY <1>1 DEF Once

\* An agent that opens an envelope takes a message the coordinator sealed for it, under
\* keys the coordinator derived for it.
LEMMA AgentTakes ==
  ASSUME WireInv, NEW h \in Hosts, agent[h].st = "est", NEW env \in Delivered("env"),
         open_downlink(h, env), NEW b, b = Took(agent[h], env)
  PROVE  /\ agent[h] \in Established /\ b \in Established /\ AgentGood(h, b, minted[h])
         /\ env.seq \in Nat /\ env.ct.pt \in Plains
         /\ b.st = "est" /\ b.n = agent[h].n /\ b.seq = agent[h].seq /\ b.keys = agent[h].keys
         /\ b.used = agent[h].used /\ b.shell = agent[h].shell
<1> PICK a : a = agent[h] OBVIOUS
<1>1. a \in Established BY DEF WireInv, TypeInv, Downs, Greeting, Established
<1>2. AgentGood(h, a, minted[h]) BY DEF WireInv, AgentInv
<1>3. open_envelope(a.keys, "c2a", env) /\ accept_recv(a.high, env.seq) BY DEF open_downlink
<1>4. PICK e \in Published("env") :
        /\ env.ct = e.ct /\ env.seq = e.seq /\ env.sid = e.sid /\ e.ct.key = <<"c2a", a.keys>>
  <2> PICK dir, ks : dir = "c2a" /\ ks = a.keys OBVIOUS
  <2>1. open_envelope(ks, dir, env) BY <1>3
  <2>2. PICK e \in Published("env") :
          env.ct = e.ct /\ env.seq = e.seq /\ env.sid = e.sid /\ e.ct.key = <<dir, ks>>
    BY ONLY WireInv, env \in Delivered("env"), <2>1, OpensOnlySealed
  <2> QED BY <2>2
<1>5. Sealed(e) BY DEF WireInv, EnvelopeInv
<1>6. /\ a.st = "est" /\ Client(a.keys) = h /\ a.keys.salt[1] = a.sid /\ a.keys.stream = 0
      /\ ShellGood(h, a) /\ Guarded(a) /\ Genuine(a.took, CA, h, a.sid)
  BY <1>2 DEF AgentGood
<1>7. e.ct.key[1] = "c2a" /\ e.ct.key[2] = a.keys BY <1>4
<1>8. /\ e.host = h /\ e.sid = a.sid /\ e.ct.pt.by = CA /\ a.keys \in minted[h]
      /\ e.ct.pt.host = h /\ e.ct.pt.sid = a.sid /\ e.ct.pt.seq = e.seq
  <2>1. Base(a.keys) = a.keys
    <3>1. a.keys \in Keys /\ 0 \in Nat BY <1>1 DEF Established
    <3> QED BY ONLY <1>6, <3>1, StreamKeys
  <2> QED BY <1>5, <1>6, <1>7, <2>1 DEF Sealed, Made
<1> PICK pt : pt = e.ct.pt OBVIOUS
<1>9. pt \in Plains /\ pt.seq \in Nat BY <1>5 DEF Sealed, Made, Envelopes, Ciphertexts, Plains
<1>10. b = [[a EXCEPT !.high = <<pt.seq>>] EXCEPT !.took = Append(a.took, pt)]
  BY <1>1, <1>4, <1>8 DEF Took, Established
<1>11. /\ b.st = a.st /\ b.n = a.n /\ b.k = a.k /\ b.sid = a.sid /\ b.keys = a.keys /\ b.seq = a.seq
       /\ b.used = a.used /\ b.shell = a.shell /\ b.high = <<pt.seq>> /\ b.took = Append(a.took, pt)
  BY <1>1, <1>10 DEF Established
<1>12. b \in Established
  <2>1. <<pt.seq>> \in Highs /\ Append(a.took, pt) \in Seq(Plains) BY <1>1, <1>9 DEF Highs, Established
  <2> QED BY <1>1, <1>10, <2>1 DEF Established
<1>13. Guarded(b) /\ Genuine(b.took, CA, h, a.sid)
  <2>1. a.took \in Seq(Plains) /\ a.high \in Highs BY <1>1 DEF Established
  <2>2. accept_recv(a.high, pt.seq) BY <1>3, <1>4, <1>8
  <2>3. pt.by = CA /\ pt.host = h /\ pt.sid = a.sid BY <1>8
  <2>4. b.took = Append(a.took, pt) /\ b.high = <<pt.seq>> BY <1>11
  <2> PICK by, sid : by = CA /\ sid = a.sid OBVIOUS
  <2>5. Guarded(a) /\ Genuine(a.took, by, h, sid) /\ pt.by = by /\ pt.sid = sid BY <1>6, <2>3
  <2>6. Guarded(b) /\ Genuine(b.took, by, h, sid)
    BY ONLY <1>9, <2>1, <2>2, <2>3, <2>4, <2>5, TakesOne
  <2> QED BY <2>6
<1>14. AgentGood(h, b, minted[h])
  <2>1. ShellGood(h, b) BY <1>6, <1>11 DEF ShellGood
  <2> QED BY <1>2, <1>6, <1>8, <1>11, <1>13, <2>1 DEF AgentGood
<1> QED BY <1>1, <1>4, <1>8, <1>9, <1>11, <1>12, <1>14

\* Publishing an envelope.
LEMMA PublishEnvelope ==
  ASSUME WireInv, NEW h, NEW tail, NEW e, net' = net \cup Publish(h, tail, e), e.t = "env"
  PROVE  HelloInv' /\ Published("env")' = Published("env") \cup {e}
<1>1. ASSUME NEW t PROVE Published(t)' = IF e.t = t THEN Published(t) \cup {e} ELSE Published(t)
  BY ONLY net' = net \cup Publish(h, tail, e), PublishOne
<1>2. /\ Published("hello")' = Published("hello") /\ Published("shello")' = Published("shello")
      /\ Published("env")' = Published("env") \cup {e}
  BY <1>1
<1> QED BY <1>2 DEF WireInv, HelloInv

\* The shell b has, if any, is a's and has sealed no more.
SameCount(a, b) ==
  b.shell # <<>> => /\ a.shell # <<>> /\ b.shell[1].id = a.shell[1].id
                    /\ b.shell[1].seq = a.shell[1].seq

\* An agent that has only taken a message, or also begun a stream it had not noted,
\* is as far ahead of its envelopes as it was.
LEMMA StillAhead ==
  ASSUME NEW a, NEW b, NEW m, BehindAgent(a, m), b.n = a.n, b.st = a.st, b.seq = a.seq,
         b.st = "est" => b.keys = a.keys,
         \/ b.used = a.used /\ SameCount(a, b)
         \/ \E id : id \notin a.used /\ b.used = a.used \cup {id} /\ b.shell # <<>> /\ b.shell[1].id = id
  PROVE  BehindAgent(b, m)
<1>1. CASE b.used = a.used /\ SameCount(a, b) BY <1>1 DEF BehindAgent, SameCount
<1>2. CASE \E id : id \notin a.used /\ b.used = a.used \cup {id} /\ b.shell # <<>> /\ b.shell[1].id = id
  <2> PICK id : id \notin a.used /\ b.used = a.used \cup {id} /\ b.shell # <<>> /\ b.shell[1].id = id
    BY <1>2
  <2> QED BY DEF BehindAgent
<1> QED BY <1>1, <1>2

\* A dispatch is taken, and a shell of it begun only on a stream not used before.
LEMMA Dispatch ==
  ASSUME WireInv, NEW h \in Hosts, OnDispatch(h)
  PROVE  WireInv'
<1> PICK a : a = agent[h] OBVIOUS
<1>1. PICK env \in Delivered("env") :
        /\ open_downlink(h, env)
        /\ \/ /\ FreshStream(h, env.ct.pt.shell)
              /\ agent' = [agent EXCEPT ![h] = TookShell(a, env)]
           \/ agent' = [agent EXCEPT ![h] = Took(a, env)]
  BY DEF OnDispatch
<1> PICK b, id : b = Took(a, env) /\ id = env.ct.pt.shell OBVIOUS
<1>2. a.st = "est" /\ UNCHANGED <<sess, route, admitted, net, minted>> BY DEF OnDispatch
<1>3. /\ a \in Established /\ b \in Established /\ AgentGood(h, b, minted[h])
      /\ env.seq \in Nat /\ env.ct.pt \in Plains /\ b.st = a.st /\ b.n = a.n /\ b.seq = a.seq
      /\ b.used = a.used /\ b.shell = a.shell /\ b.keys = a.keys
  BY <1>1, <1>2, AgentTakes
<1>4. id \in Nat BY <1>3 DEF Plains
<1> PICK sh : sh = NewShell(id, env.seq) OBVIOUS
<1>5. sh \in Shell /\ sh.id = id /\ sh.high = <<>> /\ sh.took = <<>>
  BY <1>3, <1>4 DEF NewShell, Shell, Highs
<1> PICK u : u = b.used \cup {id} OBVIOUS
<1> PICK w : w = <<sh>> OBVIOUS
<1>6. u \in SUBSET Nat /\ w \in Shells /\ w # <<>> /\ w[1] = sh /\ id \in u
  BY <1>3, <1>4, <1>5, SMTT(40) DEF Established, Shells
<1> PICK d : d = [b EXCEPT !.used = u, !.shell = w] OBVIOUS
<1>7. /\ d \in Established /\ d.used = u /\ d.shell = w /\ d.st = b.st /\ d.n = b.n /\ d.k = b.k
      /\ d.sid = b.sid /\ d.keys = b.keys /\ d.seq = b.seq /\ d.high = b.high /\ d.took = b.took
  BY <1>3, <1>6, ZenonT(60) DEF Established
<1>8. \/ FreshStream(h, id) /\ agent' = [agent EXCEPT ![h] = d]
      \/ agent' = [agent EXCEPT ![h] = b]
  <2>1. TookShell(a, env) = [b EXCEPT !.used = @ \cup {id}, !.shell = w] BY DEF TookShell
  <2>2. TookShell(a, env) = d BY <1>3, <2>1 DEF Established
  <2> QED BY <1>1, <2>2
<1>9. id # 0 => AgentGood(h, d, minted[h])
  <2>1. Guarded(d) BY <1>3, <1>7 DEF AgentGood, Guarded, Established
  <2>2. id # 0 => ShellGood(h, d)
    <3>1. d.shell[1] = sh /\ id \in d.used BY <1>6, <1>7
    <3>2. Guarded(sh) /\ Genuine(sh.took, CA, h, d.sid) BY <1>5 DEF Guarded, Genuine
    <3> QED BY <1>5, <3>1, <3>2 DEF ShellGood
  <2> QED BY <1>3, <1>7, <2>1, <2>2 DEF AgentGood, Established
<1>10. CASE FreshStream(h, id) /\ agent' = [agent EXCEPT ![h] = d]
  <2>1. id # 0 /\ id \notin a.used BY <1>10 DEF FreshStream
  <2>2. agent' = [agent EXCEPT ![h] = d] BY <1>10
  <2>3. ASSUME NEW m, BehindAgent(a, m) PROVE BehindAgent(d, m)
    <3>1. id \notin a.used /\ d.used = a.used \cup {id} /\ d.shell # <<>> /\ d.shell[1].id = id
      BY <1>3, <1>5, <1>6, <1>7, <2>1
    <3>2. d.st = a.st /\ d.n = a.n /\ d.seq = a.seq /\ d.keys = a.keys BY <1>3, <1>7
    <3> QED BY ONLY <2>3, <3>1, <3>2, StillAhead
  <2>4. \A m \in Published("env") : m.host = h /\ m.ct.key[1] = "a2c" => BehindAgent(d, m)
    BY <2>3 DEF WireInv, EnvelopeInv, Behind
  <2> QED BY <1>2, <1>7, <1>9, <2>1, <2>2, <2>4, AgentQuiet DEF AgentRecords
<1>11. CASE agent' = [agent EXCEPT ![h] = b]
  <2>1. agent' = [agent EXCEPT ![h] = b] BY <1>11
  <2>2. ASSUME NEW m, BehindAgent(a, m) PROVE BehindAgent(b, m)
    <3>1. SameCount(a, b) BY <1>3 DEF SameCount
    <3> QED BY <1>2, <1>3, <2>2, <3>1, StillAhead
  <2>3. \A m \in Published("env") : m.host = h /\ m.ct.key[1] = "a2c" => BehindAgent(b, m)
    BY <2>2 DEF WireInv, EnvelopeInv, Behind
  <2> QED BY <1>2, <1>3, <2>1, <2>3, AgentQuiet DEF AgentRecords
<1> QED BY <1>8, <1>10, <1>11

\* A step of the agent of h that publishes an envelope it has not sealed before.
LEMMA AgentSends ==
  ASSUME WireInv, NEW h \in Hosts, NEW a \in AgentRecords, NEW e, NEW tail,
         agent' = [agent EXCEPT ![h] = a], UNCHANGED <<sess, route, admitted, minted>>,
         net' = net \cup Publish(h, tail, e), e.t = "env", e.host = h, Sealed(e),
         e.ct.key[1] = "a2c", AgentGood(h, a, minted[h]), BehindAgent(a, e),
         \A m \in Published("env") : m.host = h /\ m.ct.key[1] = "a2c" => BehindAgent(a, m),
         \A m \in Published("env") : m.host = h /\ m.ct.key = e.ct.key => m.ct.nonce # e.ct.nonce
  PROVE  WireInv'
<1> PICK E : E = {e} OBVIOUS
<1>1. HelloInv' /\ Published("env")' = Published("env") \cup E BY PublishEnvelope
<1>2. \A m \in Published("env") \cup E : m.host = h /\ m.ct.key[1] = "a2c" => BehindAgent(a, m) OBVIOUS
<1>3. \A m \in E : m.host = h /\ Sealed(m) /\ m.ct.key[1] = "a2c" OBVIOUS
<1>4. Once(Published("env") \cup E)
  <2>1. \A m \in Published("env") : m.ct.key = e.ct.key => m.host = h
    BY DEF WireInv, EnvelopeInv, Sealed, Made
  <2>2. Once(Published("env")) BY OnceIs DEF WireInv
  <2> QED BY <2>1, <2>2, OnceMore
<1> QED BY <1>1, <1>2, <1>3, <1>4, AgentStep

\* A frame of a shell, under the stream's keys and the next nonce of them.
LEMMA Frame ==
  ASSUME WireInv, NEW h \in Hosts, SealStream(h)
  PROVE  WireInv'
<1> PICK a : a = agent[h] OBVIOUS
<1>1. a \in Established /\ AgentGood(h, a, minted[h]) /\ a.st = "est"
  BY DEF SealStream, WireInv, TypeInv, Downs, Greeting, Established, AgentInv
<1>2. PICK sh \in Shell : a.shell = <<sh>>
  BY <1>1 DEF SealStream, Established, Shells
<1>3. /\ sh.id \in a.used /\ sh.id # 0 /\ a.keys.stream = 0 /\ a.sid = <<h, "sid", a.n>>
      /\ Guarded(sh) /\ Genuine(sh.took, CA, h, a.sid)
  <2>1. a.shell # <<>> /\ a.shell[1] = sh BY <1>2
  <2> QED BY <1>1, <2>1 DEF AgentGood, ShellGood
<1> PICK keys : keys = derive_stream(a.keys, sh.id) OBVIOUS
<1>4. /\ keys \in Keys /\ keys.salt = a.keys.salt /\ keys.stream = sh.id /\ Base(keys) = a.keys
  <2>1. a.keys \in Keys /\ sh.id \in Nat BY <1>1, <1>2 DEF Established, Shell
  <2> QED BY <1>3, <2>1, StreamKeys
<1>5. keys.salt[1] = a.sid /\ Client(keys) = h /\ Connection(keys) = a.n
  BY <1>1, <1>4 DEF AgentGood, Client, Connection
<1> PICK e : e = seal_envelope(keys, "a2c", h, a.sid, sh.seq, "Stream", h, "output", sh.of) OBVIOUS
<1>6. /\ Sealed(e) /\ e.t = "env" /\ e.host = h /\ e.seq = sh.seq
      /\ e.ct.key = <<"a2c", keys>> /\ e.ct.nonce = sh.seq
  <2> PICK kind, body, sid, q, z : /\ kind = "Stream" /\ body = "output"
                                   /\ sid = a.sid /\ q = sh.seq /\ z = sh.of
    OBVIOUS
  <2>1. sid \in Sids /\ q \in Nat /\ z \in Nat BY <1>1 DEF Established, Shell
  <2>2. e = seal_envelope(keys, "a2c", h, sid, q, kind, h, body, z) OBVIOUS
  <2>3. kind \in Kinds /\ body \in Bodies BY DEF Kinds, Bodies
  <2>4. keys.salt[1] = sid /\ Client(keys) = h /\ keys \in Keys /\ sid = <<h, "sid", Connection(keys)>>
    BY <1>3, <1>4, <1>5
  <2>5. SealedAs(e, "a2c", keys, h, q, minted[h]) BY ONLY h \in Hosts, <2>1, <2>2, <2>3, <2>4, UplinkSeals
  <2> QED BY <2>5 DEF SealedAs, Sealed
<1> PICK sh2 : sh2 = Sends(sh) OBVIOUS
<1> PICK w : w = <<sh2>> OBVIOUS
<1> PICK b : b = [a EXCEPT !.shell = w] OBVIOUS
<1>7. /\ w \in Shells /\ w # <<>> /\ w[1] = sh2 /\ sh2.id = sh.id /\ sh2.seq = sh.seq + 1
      /\ sh2.high = sh.high /\ sh2.took = sh.took
  <2>1. sh2 \in Shell /\ sh2.id = sh.id /\ sh2.seq = sh.seq + 1 /\ sh2.high = sh.high /\ sh2.took = sh.took
    BY DEF Shell, Sends
  <2> QED BY <2>1 DEF Shells
<1>8. /\ b \in Established /\ b.shell = w /\ b.st = a.st /\ b.n = a.n /\ b.k = a.k /\ b.sid = a.sid
      /\ b.keys = a.keys /\ b.seq = a.seq /\ b.high = a.high /\ b.took = a.took /\ b.used = a.used
  BY <1>1, <1>7 DEF Established
<1>9. agent' = [agent EXCEPT ![h] = b]
  <2>1. agent' = [agent EXCEPT ![h].shell = w] BY <1>2 DEF SealStream
  <2> QED BY <2>1
<1>10. AgentGood(h, b, minted[h])
  <2>1. Guarded(b) BY <1>1, <1>8 DEF AgentGood, Guarded
  <2>2. ShellGood(h, b) BY <1>3, <1>7, <1>8 DEF ShellGood, Guarded
  <2> QED BY <1>1, <1>8, <2>1, <2>2 DEF AgentGood
<1>11. ASSUME NEW m \in Published("env"), m.host = h, m.ct.key[1] = "a2c"
       PROVE  /\ BehindAgent(b, m)
              /\ m.ct.key = e.ct.key => m.ct.nonce # e.ct.nonce
  <2>1. BehindAgent(a, m) /\ m.ct.nonce = m.seq /\ m.seq \in Nat
    BY <1>11 DEF WireInv, EnvelopeInv, Behind, Sealed, Made, Envelopes
  <2>2. BehindAgent(b, m)
    <3>1. sh.seq \in Nat BY DEF Shell
    <3> QED BY <1>2, <1>7, <1>8, <2>1, <3>1, SMTT(40) DEF BehindAgent
  <2>3. ASSUME m.ct.key = e.ct.key PROVE m.ct.nonce # e.ct.nonce
    <3>1. m.ct.key[2] = keys BY <2>3, <1>6
    <3>2. m.seq < sh.seq BY <1>1, <1>2, <1>3, <1>4, <1>5, <2>1, <3>1, SMTT(40) DEF BehindAgent
    <3>3. e.ct.nonce = sh.seq BY ONLY <1>6, Zenon
    <3>4. sh.seq \in Nat BY DEF Shell
    <3> QED BY ONLY <2>1, <3>2, <3>3, <3>4
  <2> QED BY <2>2, <2>3
<1>12. BehindAgent(b, e)
  <2>1. e.ct.key[2] = keys BY <1>6
  <2>2. a.n \in Nat /\ sh.seq \in Nat BY <1>1 DEF Established, Shell
  <2> QED BY <1>2, <1>3, <1>4, <1>5, <1>6, <1>7, <1>8, <1>1, <2>1, <2>2 DEF BehindAgent
<1>13. PICK tail : net' = net \cup Publish(h, tail, e)
  BY <1>2 DEF SealStream
<1>14. UNCHANGED <<sess, route, admitted, minted>> BY DEF SealStream
<1>15. e.ct.key[1] = "a2c" /\ b \in AgentRecords BY <1>6, <1>8 DEF AgentRecords
<1>16. /\ \A m \in Published("env") : m.host = h /\ m.ct.key[1] = "a2c" => BehindAgent(b, m)
       /\ \A m \in Published("env") : m.host = h /\ m.ct.key = e.ct.key => m.ct.nonce # e.ct.nonce
  BY <1>11, <1>15
<1> QED BY ONLY WireInv, h \in Hosts, <1>6, <1>9, <1>10, <1>12, <1>13, <1>14, <1>15, <1>16, AgentSends

\* The beacon is taken and answered, with the next nonce of the agent.
LEMMA Confirm ==
  ASSUME WireInv, NEW h \in Hosts, confirm_session(h)
  PROVE  WireInv'
<1> PICK a : a = agent[h] OBVIOUS
<1>1. PICK env \in Delivered("env") :
        /\ open_downlink(h, env)
        /\ agent' = [agent EXCEPT ![h] =
             IF env.ct.pt.body = "ready" THEN Sends(Took(a, env)) ELSE Took(a, env)]
        /\ net' = net \cup (IF env.ct.pt.body = "ready" THEN seal_uplink(h, "up/ctrl", "ack") ELSE {})
  BY DEF confirm_session
<1> PICK b : b = Took(a, env) OBVIOUS
<1>2. a.st = "est" /\ UNCHANGED <<sess, route, admitted, minted>> BY DEF confirm_session
<1>3. /\ a \in Established /\ b \in Established /\ AgentGood(h, b, minted[h])
      /\ b.st = a.st /\ b.n = a.n /\ b.seq = a.seq /\ b.keys = a.keys
      /\ b.used = a.used /\ b.shell = a.shell
  BY <1>1, <1>2, AgentTakes
<1>4. AgentGood(h, a, minted[h]) BY DEF WireInv, AgentInv
<1>5. ASSUME NEW m \in Published("env"), m.host = h, m.ct.key[1] = "a2c"
      PROVE  BehindAgent(a, m) /\ m.ct.nonce = m.seq /\ m.seq \in Nat
  BY <1>5 DEF WireInv, EnvelopeInv, Behind, Sealed, Made, Envelopes
<1>6. CASE env.ct.pt.body # "ready"
  <2>1. agent' = [agent EXCEPT ![h] = b]
    BY <1>1, <1>6
  <2>2. UNCHANGED net BY <1>1, <1>6
  <2>3. \A m \in Published("env") : m.host = h /\ m.ct.key[1] = "a2c" => BehindAgent(b, m)
    <3>1. SameCount(a, b) BY <1>3 DEF SameCount
    <3> QED BY <1>3, <1>5, <3>1, StillAhead
  <2> QED BY <1>2, <1>3, <2>1, <2>2, <2>3, AgentQuiet DEF AgentRecords
<1>7. CASE env.ct.pt.body = "ready"
  <2> PICK q \in Nat : q = a.seq BY <1>3 DEF Established
  <2> PICK d : d = [b EXCEPT !.seq = q + 1] OBVIOUS
  <2>1. agent' = [agent EXCEPT ![h] = d]
    <3>1. Sends(b) = d BY <1>3 DEF Sends
    <3> QED BY <1>1, <1>7, <3>1
  <2>2. /\ d \in Established /\ d.seq = q + 1 /\ d.st = b.st /\ d.n = b.n /\ d.k = b.k /\ d.sid = b.sid
        /\ d.keys = b.keys /\ d.high = b.high /\ d.took = b.took /\ d.used = b.used /\ d.shell = b.shell
    BY <1>3, SMTT(40) DEF Established
  <2>3. AgentGood(h, d, minted[h])
    <3>1. Guarded(d) BY <1>2, <1>3, <2>2 DEF AgentGood, Guarded
    <3>2. ShellGood(h, d) BY <1>2, <1>3, <2>2 DEF AgentGood, ShellGood
    <3> QED BY <1>3, <2>2, <3>1, <3>2 DEF AgentGood
  <2> PICK e : e = seal_envelope(a.keys, "a2c", h, a.sid, q, "Control", h, "ack", 0) OBVIOUS
  <2>4. /\ Sealed(e) /\ e.t = "env" /\ e.host = h /\ e.seq = q
        /\ e.ct.key = <<"a2c", a.keys>> /\ e.ct.nonce = q
    <3> PICK kind, body, keys, sid, z : /\ kind = "Control" /\ body = "ack"
                                        /\ keys = a.keys /\ sid = a.sid /\ z = 0
      OBVIOUS
    <3>1. sid \in Sids /\ keys \in Keys /\ z \in Nat BY <1>3 DEF Established
    <3>2. keys.salt[1] = sid /\ Client(keys) = h /\ sid = <<h, "sid", Connection(keys)>>
      BY <1>2, <1>4 DEF AgentGood
    <3>3. e = seal_envelope(keys, "a2c", h, sid, q, kind, h, body, z) OBVIOUS
    <3>4. kind \in Kinds /\ body \in Bodies BY DEF Kinds, Bodies
    <3>5. SealedAs(e, "a2c", keys, h, q, minted[h])
      BY ONLY h \in Hosts, q \in Nat, <3>1, <3>2, <3>3, <3>4, UplinkSeals
    <3> QED BY <3>5 DEF SealedAs, Sealed
  <2>5. e.ct.key[1] = "a2c" /\ e.ct.key[2] = a.keys /\ d \in AgentRecords
    BY <2>2, <2>4 DEF AgentRecords
  <2>6. PICK tail : net' = net \cup Publish(h, tail, e) BY <1>1, <1>7 DEF seal_uplink
  <2>7. a.keys.stream = 0 /\ Connection(a.keys) = a.n /\ a.n \in Nat /\ Base(a.keys) = a.keys
    <3>1. a.keys.stream = 0 /\ Connection(a.keys) = a.n BY <1>2, <1>4 DEF AgentGood
    <3>2. a.n \in Nat /\ a.keys \in Keys /\ 0 \in Nat BY <1>3 DEF Established
    <3>3. Base(a.keys) = a.keys BY ONLY <3>1, <3>2, StreamKeys
    <3> QED BY <3>1, <3>2, <3>3
  <2>8. BehindAgent(d, e) BY <1>2, <1>3, <2>2, <2>4, <2>5, <2>7 DEF BehindAgent
  <2>9. ASSUME NEW m \in Published("env"), m.host = h, m.ct.key[1] = "a2c"
        PROVE  /\ BehindAgent(d, m)
               /\ m.ct.key = e.ct.key => m.ct.nonce # e.ct.nonce
    <3>1. BehindAgent(a, m) /\ m.ct.nonce = m.seq /\ m.seq \in Nat BY <1>5, <2>9
    <3>2. BehindAgent(d, m) BY <1>3, <2>2, <3>1, SMTT(40) DEF BehindAgent
    <3>3. ASSUME m.ct.key = e.ct.key PROVE m.ct.nonce # e.ct.nonce
      <4>1. m.seq < q BY <1>2, <2>5, <2>7, <3>1, <3>3, SMTT(40) DEF BehindAgent
      <4> QED BY <2>4, <3>1, <4>1
    <3> QED BY <3>2, <3>3
  <2>10. /\ \A m \in Published("env") : m.host = h /\ m.ct.key[1] = "a2c" => BehindAgent(d, m)
         /\ \A m \in Published("env") : m.host = h /\ m.ct.key = e.ct.key => m.ct.nonce # e.ct.nonce
    BY <2>5, <2>9
  <2> QED BY ONLY WireInv, h \in Hosts, <1>2, <2>1, <2>3, <2>4, <2>5, <2>6, <2>8, <2>10, AgentSends
<1> QED BY <1>6, <1>7

\* The shell takes a frame the coordinator sealed for its stream, or ends.
LEMMA Downlink ==
  ASSUME WireInv, NEW h \in Hosts, route_downlink(h)
  PROVE  WireInv'
<1> PICK a : a = agent[h] OBVIOUS
<1>1. a \in Established /\ AgentGood(h, a, minted[h]) /\ a.st = "est"
  BY DEF route_downlink, WireInv, TypeInv, Downs, Greeting, Established, AgentInv
<1>2. PICK sh \in Shell : a.shell = <<sh>> BY <1>1 DEF route_downlink, Established, Shells
<1>3. /\ sh.id \in a.used /\ sh.id # 0 /\ Guarded(sh) /\ Genuine(sh.took, CA, h, a.sid)
      /\ Client(a.keys) = h /\ a.keys.salt[1] = a.sid
  <2>1. a.shell # <<>> /\ a.shell[1] = sh BY <1>2
  <2> QED BY <1>1, <2>1 DEF AgentGood, ShellGood
<1> PICK keys : keys = derive_stream(a.keys, sh.id) OBVIOUS
<1>4. keys.salt = a.keys.salt
  <2>1. a.keys \in Keys /\ sh.id \in Nat BY <1>1 DEF Established, Shell
  <2> QED BY <2>1, StreamKeys
<1>5. Client(keys) = h /\ keys.salt[1] = a.sid BY <1>3, <1>4 DEF Client
<1>6. PICK env \in Delivered("env") :
        /\ open_envelope(keys, "c2a", env) /\ accept_recv(sh.high, env.seq)
        /\ agent' = [agent EXCEPT ![h].shell = IF env.ct.pt.body = "eof" THEN <<>> ELSE <<Took(sh, env)>>]
  <2>1. a.shell[1] = sh BY <1>2
  <2> QED BY <2>1 DEF route_downlink
<1>7. UNCHANGED <<sess, route, admitted, net, minted>> BY DEF route_downlink
<1>8. PICK pt \in Plains : /\ pt = env.ct.pt /\ pt.seq = env.seq /\ pt.by = CA /\ pt.host = h /\ pt.sid = a.sid
  <2> PICK dir : dir = "c2a" OBVIOUS
  <2>1. open_envelope(keys, dir, env) BY <1>6
  <2>2. OpensAs(env, dir, keys) BY ONLY WireInv, env \in Delivered("env"), <2>1, OpensGenuine
  <2> QED BY <1>5, <2>2 DEF OpensAs
<1> PICK sh2 : sh2 = Took(sh, env) OBVIOUS
<1>9. /\ sh2 \in Shell /\ sh2.id = sh.id /\ sh2.seq = sh.seq
      /\ sh2.high = <<pt.seq>> /\ sh2.took = Append(sh.took, pt)
  <2>1. pt.seq \in Nat BY DEF Plains
  <2>2. <<pt.seq>> \in Highs /\ Append(sh.took, pt) \in Seq(Plains) BY <2>1 DEF Highs, Shell
  <2>3. sh2 = [[sh EXCEPT !.high = <<pt.seq>>] EXCEPT !.took = Append(sh.took, pt)]
    BY <1>8 DEF Took, Shell
  <2> QED BY <2>2, <2>3 DEF Shell
<1>10. Guarded(sh2) /\ Genuine(sh2.took, CA, h, a.sid)
  <2> PICK by, sid : by = CA /\ sid = a.sid OBVIOUS
  <2>1. sh.took \in Seq(Plains) /\ sh.high \in Highs BY DEF Shell
  <2>2. accept_recv(sh.high, pt.seq) BY <1>6, <1>8
  <2>3. /\ Guarded(sh) /\ Genuine(sh.took, by, h, sid) /\ pt.by = by /\ pt.host = h /\ pt.sid = sid
        /\ sh2.took = Append(sh.took, pt) /\ sh2.high = <<pt.seq>>
    BY <1>3, <1>8, <1>9
  <2>4. Guarded(sh2) /\ Genuine(sh2.took, by, h, sid)
    BY ONLY pt \in Plains, <2>1, <2>2, <2>3, TakesOne
  <2> QED BY <2>4
<1> PICK w : w = IF env.ct.pt.body = "eof" THEN <<>> ELSE <<sh2>> OBVIOUS
<1>11. w \in Shells /\ (w = <<>> \/ w = <<sh2>>) BY <1>9 DEF Shells
<1> PICK b : b = [a EXCEPT !.shell = w] OBVIOUS
<1>12. /\ b \in Established /\ b.shell = w /\ b.st = a.st /\ b.n = a.n /\ b.k = a.k /\ b.sid = a.sid
       /\ b.keys = a.keys /\ b.seq = a.seq /\ b.high = a.high /\ b.took = a.took /\ b.used = a.used
  BY <1>1, <1>11 DEF Established
<1>13. agent' = [agent EXCEPT ![h] = b]
  <2>1. agent' = [agent EXCEPT ![h].shell = w] BY <1>6
  <2> QED BY <2>1
<1>14. AgentGood(h, b, minted[h])
  <2>1. Guarded(b) BY <1>1, <1>12 DEF AgentGood, Guarded
  <2>2. ASSUME w = <<sh2>> PROVE ShellGood(h, b)
    <3>0. b.shell[1] = sh2 BY ONLY <1>12, <2>2
    <3>1. b.shell[1] = sh2 /\ sh2.id \in b.used /\ sh2.id # 0 BY ONLY <1>3, <1>9, <1>12, <3>0
    <3>2. Genuine(sh2.took, CA, h, b.sid) BY <1>10, <1>12
    <3> QED BY <1>10, <3>1, <3>2 DEF ShellGood
  <2>3. w = <<>> => ShellGood(h, b) BY <1>12 DEF ShellGood
  <2> QED BY <1>1, <1>11, <1>12, <2>1, <2>2, <2>3 DEF AgentGood
<1>15. ASSUME NEW m \in Published("env"), m.host = h, m.ct.key[1] = "a2c" PROVE BehindAgent(b, m)
  <2>1. BehindAgent(a, m) BY <1>15, WasBehind
  <2>2. SameCount(a, b) BY <1>2, <1>9, <1>11, <1>12 DEF SameCount
  <2> QED BY ONLY <1>12, <2>1, <2>2, StillAhead
<1> QED BY <1>7, <1>12, <1>13, <1>14, <1>15, AgentQuiet DEF AgentRecords

-----------------------------------------------------------------------------
(* The coordinator's actions.                                                  *)

\* The coordinator takes a message of the host's agent, and of no stream.
LEMMA Uplink ==
  ASSUME WireInv, NEW h \in Hosts, open_uplink(h)
  PROVE  WireInv'
<1>1. PICK s \in Sessions : sess[h] = <<s>> BY DEF open_uplink, WireInv, TypeInv, SessionOpts
<1>2. PICK env \in Delivered("env") :
        /\ open_envelope(s.keys, "a2c", env) /\ accept_recv(s.high, env.seq)
        /\ sess' = [sess EXCEPT ![h] = <<Took(s, env)>>]
  <2>1. sess[h][1] = s BY <1>1
  <2> HIDE <1>1
  <2>2. PICK env \in Delivered("env") :
          /\ open_envelope(sess[h][1].keys, "a2c", env) /\ accept_recv(sess[h][1].high, env.seq)
          /\ sess' = [sess EXCEPT ![h] = <<Took(sess[h][1], env)>>]
    BY DEF open_uplink
  <2> QED BY <2>1, <2>2
<1>3. UNCHANGED <<agent, route, admitted, net, minted>> BY DEF open_uplink
<1>4. SessionGood(h, s, minted[h])
  <2>1. sess[h] # <<>> /\ sess[h][1] = s BY <1>1
  <2>2. SessionGood(h, sess[h][1], minted[h]) BY <2>1 DEF WireInv, SessionInv
  <2> QED BY <2>1, <2>2
<1>5. Client(s.keys) = h BY <1>4 DEF WireInv, MintedInv, SessionGood
<1>6. PICK pt \in Plains : /\ pt = env.ct.pt /\ pt.seq = env.seq /\ pt.by = h /\ pt.host = h /\ pt.sid = s.sid
                           /\ \E e \in Published("env") : e.ct.key = <<"a2c", s.keys>>
  <2> PICK dir, ks : dir = "a2c" /\ ks = s.keys OBVIOUS
  <2>1. open_envelope(ks, dir, env) BY <1>2
  <2>2. OpensAs(env, dir, ks) BY ONLY WireInv, env \in Delivered("env"), <2>1, OpensGenuine
  <2> QED BY <1>4, <1>5, <2>2 DEF OpensAs, SessionGood
<1> PICK b : b = Took(s, env) OBVIOUS
<1>7. b = [[s EXCEPT !.high = <<pt.seq>>] EXCEPT !.took = Append(s.took, pt)]
  BY <1>6 DEF Took, Sessions
<1>8. /\ b.sid = s.sid /\ b.keys = s.keys /\ b.seq = s.seq
      /\ b.high = <<pt.seq>> /\ b.took = Append(s.took, pt)
  BY <1>7 DEF Sessions
<1>9. b \in Sessions
  <2>1. pt.seq \in Nat BY DEF Plains
  <2>2. <<pt.seq>> \in Highs /\ Append(s.took, pt) \in Seq(Plains) BY <2>1 DEF Highs, Sessions
  <2> QED BY <1>7, <2>2 DEF Sessions
<1>10. Guarded(b) /\ Genuine(b.took, h, h, s.sid)
  <2>1. s.took \in Seq(Plains) /\ s.high \in Highs BY DEF Sessions
  <2>2. accept_recv(s.high, pt.seq) BY <1>2, <1>6
  <2>3. b.took = Append(s.took, pt) /\ b.high = <<pt.seq>> BY <1>8
  <2> PICK by, sid : by = h /\ sid = s.sid OBVIOUS
  <2>4. Guarded(s) /\ Genuine(s.took, by, h, sid) /\ pt.by = by /\ pt.sid = sid /\ pt.host = h
    BY <1>4, <1>6 DEF SessionGood
  <2>5. Guarded(b) /\ Genuine(b.took, by, h, sid)
    BY ONLY pt \in Plains, <2>1, <2>2, <2>3, <2>4, TakesOne
  <2> QED BY <2>5
<1>11. SessionGood(h, b, minted[h]) BY <1>4, <1>8, <1>10 DEF SessionGood
<1>12. PICK E : /\ E = {} /\ HelloInv' /\ Published("env")' = Published("env") \cup E
                /\ Once(Published("env") \cup E)
  BY <1>3, QuietNet
<1> PICK T, v, w : T = Published("env") \cup E /\ v = <<b>> /\ w = route[h] OBVIOUS
<1>13. T = Published("env") BY <1>12
<1>14. v # <<>> /\ v[1] = b /\ v \in SessionOpts /\ w \in RouteOpts
  BY <1>9 DEF SessionOpts, WireInv, TypeInv
<1>15. HeardIn(b, T) BY <1>6, <1>8, <1>13 DEF HeardIn
<1>16. w # <<>> => RouteGood(h, w[1], minted[h], T) BY <1>13 DEF WireInv, RouteInv
<1>17. ASSUME NEW m \in T, m.host = h, m.ct.key[1] = "c2a" PROVE BehindDown(v, w, m, T)
  <2>1. BehindDown(<<s>>, w, m, T) BY <1>1, <1>13, <1>17, WasBehind
  <2>2. BehindSession(b, m) BY <1>8, <2>1 DEF BehindSession, BehindDown
  <2> QED BY <1>14, <2>1, <2>2 DEF BehindDown
<1>18. /\ sess' = [sess EXCEPT ![h] = v] /\ route' = [route EXCEPT ![h] = w]
       /\ UNCHANGED <<agent, admitted, minted>>
  BY <1>2, <1>3 DEF WireInv, TypeInv
<1>19. \A m \in E : m.host = h /\ Sealed(m) /\ m.ct.key[1] = "c2a" BY <1>12
<1>20. /\ T = Published("env") \cup E /\ HelloInv' /\ Published("env")' = T /\ Once(T)
       /\ (v # <<>> => SessionGood(h, v[1], minted[h]) /\ HeardIn(v[1], T))
  BY <1>11, <1>12, <1>14, <1>15
<1>21. CoordMoves(h, v, w, E, T)
  BY ONLY <1>14, <1>16, <1>17, <1>18, <1>19, <1>20 DEF CoordMoves
<1> QED BY <1>21, CoordStep

\* What the coordinator seals for a host, with keys it derived or their streams'.
SealsDown(h, keys, sid, q, kind, body, shell, e, M) ==
  /\ keys \in Keys /\ sid \in Sids /\ q \in Nat /\ kind \in Kinds /\ body \in Bodies /\ shell \in Nat
  /\ Base(keys) \in M /\ Client(keys) = h /\ keys.salt[1] = sid
  /\ e = seal_envelope(keys, "c2a", h, sid, q, kind, CA, body, shell)

LEMMA DownlinkSeals ==
  ASSUME NEW h \in Hosts, NEW keys, NEW sid, NEW q, NEW kind, NEW body, NEW shell, NEW e, NEW M,
         SealsDown(h, keys, sid, q, kind, body, shell, e, M)
  PROVE  SealedAs(e, "c2a", keys, h, q, M) /\ e.ct.pt.shell = shell
<1> USE DEF SealsDown
<1> PICK dir, by : dir = "c2a" /\ by = CA OBVIOUS
<1>1. e = seal_envelope(keys, dir, h, sid, q, kind, by, body, shell) OBVIOUS
<1>2. dir = "c2a" /\ by = CA /\ Base(keys) \in M OBVIOUS
<1>3. SealedAs(e, dir, keys, h, q, M) BY <1>1, <1>2, Seals
<1>4. e.ct.pt.shell = shell BY DEF seal_envelope, seal
<1> QED BY <1>3, <1>4

\* A dispatch takes the next nonce of the session; a shell's begins a route.
LEMMA SealOne ==
  ASSUME WireInv, NEW h \in Hosts, NEW shell \in Dispatches[h], SealDispatch(h, shell)
  PROVE  WireInv'
<1>1. PICK s \in Sessions : sess[h] = <<s>> BY DEF SealDispatch, WireInv, TypeInv, SessionOpts
<1>2. sess[h] # <<>> /\ sess[h][1] = s BY <1>1
<1>3. SessionGood(h, s, minted[h]) /\ HeardIn(s, Published("env"))
  BY <1>2 DEF WireInv, SessionInv, HeardInv
<1>4. /\ s.keys \in minted[h] /\ Client(s.keys) = h /\ s.keys.salt[1] = s.sid /\ s.keys.stream = 0
      /\ s.keys \in Keys /\ s.sid \in Sids /\ s.seq \in Nat
  BY <1>3 DEF WireInv, MintedInv, SessionGood, Sessions
<1>5. shell \in Nat BY WireAssumption
<1>6. /\ Base(s.keys) = s.keys /\ derive_stream(s.keys, shell) \in Keys
      /\ derive_stream(s.keys, shell).stream = shell /\ derive_stream(s.keys, shell).salt = s.keys.salt
      /\ Base(derive_stream(s.keys, shell)) = s.keys
  BY ONLY <1>4, <1>5, StreamKeys
<1> PICK kind, body : kind = "Control" /\ body = "dispatch" OBVIOUS
<1> PICK e : e = seal_envelope(s.keys, "c2a", h, s.sid, s.seq, kind, CA, body, shell) OBVIOUS
<1>7. /\ SealedAs(e, "c2a", s.keys, h, s.seq, minted[h]) /\ e.ct.pt.shell = shell
  <2>1. body \in Bodies /\ kind \in Kinds BY DEF Bodies, Kinds
  <2> PICK keys, sid, q, M : keys = s.keys /\ sid = s.sid /\ q = s.seq /\ M = minted[h] OBVIOUS
  <2>2. SealsDown(h, keys, sid, q, kind, body, shell, e, M) BY <1>4, <1>5, <1>6, <2>1 DEF SealsDown
  <2>3. SealedAs(e, "c2a", keys, h, q, M) /\ e.ct.pt.shell = shell
    BY ONLY h \in Hosts, <2>2, DownlinkSeals
  <2> QED BY <2>3
<1>8. /\ Sealed(e) /\ e.t = "env" /\ e.host = h /\ e.seq = s.seq
      /\ e.ct.key = <<"c2a", s.keys>> /\ e.ct.nonce = s.seq
  BY <1>7 DEF SealedAs, Sealed
<1>9. e.ct.key[1] = "c2a" /\ e.ct.key[2] = s.keys BY <1>8
<1> PICK b : b = Sends(s) OBVIOUS
<1>10. /\ b \in Sessions /\ b.sid = s.sid /\ b.keys = s.keys /\ b.seq = s.seq + 1
       /\ b.high = s.high /\ b.took = s.took
  BY DEF Sends, Sessions
<1> PICK v : v = <<b>> OBVIOUS
<1>11. v # <<>> /\ v[1] = b /\ v \in SessionOpts /\ sess' = [sess EXCEPT ![h] = v]
  BY <1>1, <1>10 DEF SealDispatch, SessionOpts
<1>12. SessionGood(h, b, minted[h])
  <2>1. Guarded(b) BY <1>3, <1>10 DEF SessionGood, Guarded
  <2> QED BY <1>3, <1>10, <2>1 DEF SessionGood
<1>13. UNCHANGED <<agent, admitted, minted>> BY DEF SealDispatch
<1>14. ASSUME NEW m \in Published("env"), m.host = h, m.ct.key[1] = "c2a"
       PROVE  /\ BehindDown(sess[h], route[h], m, Published("env"))
              /\ BehindSession(b, m) /\ (m.ct.key = e.ct.key => m.ct.nonce # e.ct.nonce /\ m.seq # e.seq)
  <2>1. /\ BehindDown(sess[h], route[h], m, Published("env")) /\ m.seq \in Nat /\ m.ct.nonce = m.seq
    BY <1>14, WasBehind
  <2>2. BehindSession(s, m) BY <1>2, <2>1 DEF BehindDown
  <2>3. BehindSession(b, m) BY <1>4, <1>10, <2>1, <2>2 DEF BehindSession
  <2>4. m.ct.key = e.ct.key => m.seq < s.seq BY <1>8, <2>2 DEF BehindSession
  <2> QED BY <1>4, <1>8, <2>1, <2>3, <2>4
<1>15. \A m \in Published("env") : m.ct.key = e.ct.key => m.host = h
  BY <1>4, <1>9 DEF WireInv, EnvelopeInv, Sealed, Made
<1> PICK w : w = route[h] OBVIOUS
<1>16. w \in RouteOpts /\ (w # <<>> => RouteGood(h, w[1], minted[h], Published("env")))
  BY DEF WireInv, TypeInv, RouteInv
<1>17. CASE UNCHANGED <<route, net>>
  <2>1. PICK E : /\ E = {} /\ HelloInv' /\ Published("env")' = Published("env") \cup E
                 /\ Once(Published("env") \cup E)
    BY <1>17, QuietNet
  <2> PICK T : T = Published("env") \cup E OBVIOUS
  <2>2. T = Published("env") BY <2>1
  <2>3. HeardIn(b, T) BY <1>3, <1>10, <2>2 DEF HeardIn
  <2>4. ASSUME NEW m \in T, m.host = h, m.ct.key[1] = "c2a" PROVE BehindDown(v, w, m, T)
    BY <1>11, <1>14, <2>2, <2>4 DEF BehindDown
  <2>5. route' = [route EXCEPT ![h] = w] BY <1>17 DEF WireInv, TypeInv
  <2>6. \A m \in E : m.host = h /\ Sealed(m) /\ m.ct.key[1] = "c2a" BY <2>1
  <2>7. /\ T = Published("env") \cup E /\ HelloInv' /\ Published("env")' = T /\ Once(T)
        /\ (v # <<>> => SessionGood(h, v[1], minted[h]) /\ HeardIn(v[1], T))
        /\ (w # <<>> => RouteGood(h, w[1], minted[h], T))
    BY <1>11, <1>12, <1>16, <2>1, <2>2, <2>3
  <2>8. CoordMoves(h, v, w, E, T) BY ONLY <1>11, <1>13, <1>16, <2>4, <2>5, <2>6, <2>7 DEF CoordMoves
  <2> QED BY <2>8, CoordStep
<1>18. CASE /\ net' = net \cup seal_downlink(h, s, "down/dispatch", "dispatch", shell)
            /\ route' = IF shell = 0 THEN route ELSE [route EXCEPT ![h] = <<NewRoute(s, shell, s.seq)>>]
  <2> PICK E : E = {e} OBVIOUS
  <2> PICK S, T : S = Published("env") /\ T = Published("env") \cup E OBVIOUS
  <2>0. S \subseteq T OBVIOUS
  <2>1. HelloInv' /\ Published("env")' = T
    <3>1. PICK tail : net' = net \cup Publish(h, tail, e) BY <1>18 DEF seal_downlink
    <3> QED BY <1>8, <3>1, PublishEnvelope
  <2>2. Once(T)
    <3>1. Once(S) BY OnceIs DEF WireInv
    <3>2. \A m \in S : m.ct.key = e.ct.key => m.ct.nonce # e.ct.nonce BY <1>9, <1>14, <1>15
    <3>3. Once(S \cup {e}) BY ONLY <3>1, <3>2, OnceMore
    <3> QED BY <3>3
  <2>3. /\ \A keys : OpenedIn(keys, S) => OpenedIn(keys, T)
        /\ \A keys : TwiceIn(keys, S) => TwiceIn(keys, T)
        /\ HeardIn(s, S) => HeardIn(s, T)
        /\ \A r : RouteGood(h, r, minted[h], S) => RouteGood(h, r, minted[h], T)
        /\ \A x, y, m : BehindDown(x, y, m, S) => BehindDown(x, y, m, T)
    BY ONLY <2>0, MoreSeals
  <2>4. HeardIn(b, T) BY <1>3, <1>10, <2>3 DEF HeardIn
  <2>5. /\ T = Published("env") \cup E /\ HelloInv' /\ Published("env")' = T /\ Once(T)
        /\ (v # <<>> => SessionGood(h, v[1], minted[h]) /\ HeardIn(v[1], T))
    BY <1>11, <1>12, <2>1, <2>2, <2>4
  <2>6. \A m \in E : m.host = h /\ Sealed(m) /\ m.ct.key[1] = "c2a" BY <1>8, <1>9
  <2>7. BehindSession(b, e) BY <1>4, <1>8, <1>10 DEF BehindSession
  <2>8. ASSUME NEW r, r.keys.stream # 0 PROVE BehindRoute(r, e, T)
    <3>1. r.keys # e.ct.key[2] BY <1>4, <1>9, <2>8
    <3> QED BY <3>1 DEF BehindRoute
  <2>9. CASE shell = 0
    <3>1. route' = [route EXCEPT ![h] = w] BY <1>18, <2>9 DEF WireInv, TypeInv
    <3>2. w # <<>> => RouteGood(h, w[1], minted[h], T) BY <1>16, <2>3
    <3>3. ASSUME NEW m \in T, m.host = h, m.ct.key[1] = "c2a" PROVE BehindDown(v, w, m, T)
      <4>1. CASE m = e
        <5>1. w # <<>> => BehindRoute(w[1], e, T) BY <1>16, <2>8 DEF RouteGood
        <5> QED BY <1>4, <1>9, <1>11, <2>7, <4>1, <5>1 DEF BehindDown
      <4>2. CASE m \in S
        <5>1. BehindDown(sess[h], w, m, T) BY <1>14, <2>3, <3>3, <4>2
        <5>2. BehindSession(b, m) BY <1>14, <3>3, <4>2
        <5> QED BY <1>11, <5>1, <5>2 DEF BehindDown
      <4> QED BY <3>3, <4>1, <4>2
    <3>4. CoordMoves(h, v, w, E, T)
      BY ONLY <1>11, <1>13, <1>16, <2>5, <2>6, <3>1, <3>2, <3>3 DEF CoordMoves
    <3> QED BY <3>4, CoordStep
  <2>10. CASE shell # 0
    <3> PICK r : r = NewRoute(s, shell, s.seq) OBVIOUS
    <3> PICK u : u = <<r>> OBVIOUS
    <3>1. /\ r \in Routes /\ r.keys = derive_stream(s.keys, shell) /\ r.sid = s.sid /\ r.seq = 0
          /\ r.high = <<>> /\ r.took = <<>>
      BY <1>4, <1>6 DEF NewRoute, Routes, Highs
    <3>2. u # <<>> /\ u[1] = r /\ u \in RouteOpts /\ route' = [route EXCEPT ![h] = u]
      BY <1>18, <2>10, <3>1 DEF RouteOpts
    <3>3. Opening(r.keys, e) BY <1>6, <1>7, <1>8, <2>10, <3>1 DEF Opening
    <3>4. RouteGood(h, r, minted[h], T)
      <4>1. OpenedIn(r.keys, T) BY <3>3 DEF OpenedIn
      <4>2. Guarded(r) /\ Genuine(r.took, h, h, r.sid) BY <3>1 DEF Guarded, Genuine
      <4> QED BY <1>4, <1>6, <2>10, <3>1, <4>1, <4>2 DEF RouteGood
    <3>5. ASSUME NEW m \in T, m.host = h, m.ct.key[1] = "c2a" PROVE BehindDown(v, u, m, T)
      <4>1. CASE m = e
        <5>1. BehindRoute(r, e, T) BY <2>8, <3>4 DEF RouteGood
        <5> QED BY <1>4, <1>9, <1>11, <2>7, <3>2, <4>1, <5>1 DEF BehindDown
      <4>2. CASE m \in S
        <5>1. BehindDown(sess[h], w, m, S) /\ BehindSession(b, m) BY <1>14, <3>5, <4>2
        <5>2. m.ct.key[2].stream # 0 => OpenedIn(m.ct.key[2], S) BY <5>1 DEF BehindDown
        <5>3. ASSUME r.keys = m.ct.key[2] PROVE TwiceIn(r.keys, T)
          <6>1. PICK x \in S : Opening(r.keys, x) BY <3>4, <5>2, <5>3 DEF RouteGood, OpenedIn
          <6>2. x.ct.key = e.ct.key BY <3>3, <6>1 DEF Opening
          <6>3. x.host = h /\ x.ct.key[1] = "c2a" BY <1>9, <1>15, <6>2
          <6>4. x # e BY <1>14, <6>2, <6>3
          <6> QED BY <3>3, <6>1, <6>4 DEF TwiceIn
        <5>4. BehindRoute(r, m, T) BY <5>3 DEF BehindRoute
        <5> QED BY <1>11, <2>3, <3>2, <5>1, <5>2, <5>4 DEF BehindDown
      <4> QED BY <3>5, <4>1, <4>2
    <3>6. u # <<>> => RouteGood(h, u[1], minted[h], T) BY <3>2, <3>4
    <3>7. CoordMoves(h, v, u, E, T) BY ONLY <1>11, <1>13, <2>5, <2>6, <3>2, <3>5, <3>6 DEF CoordMoves
    <3> QED BY <3>7, CoordStep
  <2> QED BY <2>9, <2>10
<1> QED BY <1>2, <1>17, <1>18 DEF SealDispatch

\* The route r of h becomes w, having sealed the one envelope of E, if there is one.
RouteMoves(h, r, w, E) ==
  /\ r \in Routes /\ route[h] = <<r>> /\ w \in RouteOpts /\ route' = [route EXCEPT ![h] = w]
  /\ UNCHANGED <<agent, sess, admitted, minted>>
  /\ HelloInv' /\ Published("env")' = Published("env") \cup E
  /\ w # <<>> =>
       /\ w[1].keys = r.keys /\ w[1].sid = r.sid
       /\ Guarded(w[1]) /\ Genuine(w[1].took, h, h, r.sid)
       /\ (E = {} /\ w[1].seq = r.seq) \/ w[1].seq = r.seq + 1
  /\ E = {} \/ \E e : E = {e} /\ SealedAs(e, "c2a", r.keys, h, r.seq, minted[h])

\* Such a step keeps the invariant: the nonce is the next of the stream.
LEMMA RouteStep ==
  ASSUME WireInv, NEW h \in Hosts, NEW r, NEW w, NEW E, RouteMoves(h, r, w, E)
  PROVE  WireInv'
<1> USE DEF RouteMoves
<1> PICK S, T, v : S = Published("env") /\ T = Published("env") \cup E /\ v = sess[h] OBVIOUS
<1>1. S \subseteq T OBVIOUS
<1>2. RouteGood(h, r, minted[h], S)
  <2>1. route[h] # <<>> /\ route[h][1] = r OBVIOUS
  <2>2. RouteGood(h, route[h][1], minted[h], S) BY <2>1 DEF WireInv, RouteInv
  <2> QED BY <2>1, <2>2
<1>3. /\ \A keys : OpenedIn(keys, S) => OpenedIn(keys, T)
      /\ \A keys : TwiceIn(keys, S) => TwiceIn(keys, T)
      /\ \A s : HeardIn(s, S) => HeardIn(s, T)
  BY ONLY <1>1, MoreSeals
<1>4. w # <<>> => RouteGood(h, w[1], minted[h], T) BY <1>2, <1>3 DEF RouteGood
<1>5. v \in SessionOpts /\ (v # <<>> => SessionGood(h, v[1], minted[h]) /\ HeardIn(v[1], T))
  BY <1>3 DEF WireInv, TypeInv, SessionInv, HeardInv
<1>6. r.keys.stream # 0 /\ r.seq \in Nat /\ Client(r.keys) = h
  <2>1. r.keys \in Keys /\ 0 \in Nat /\ r.seq \in Nat BY DEF Routes
  <2>2. Base(r.keys).salt = r.keys.salt BY ONLY <2>1, StreamKeys
  <2>3. Client(Base(r.keys)) = h /\ r.keys.stream # 0 BY <1>2 DEF RouteGood, WireInv, MintedInv
  <2> QED BY <2>1, <2>2, <2>3 DEF Client
<1>7. ASSUME NEW e \in E
      PROVE  /\ Sealed(e) /\ e.host = h /\ e.seq = r.seq /\ e.ct.nonce = r.seq
             /\ e.ct.key = <<"c2a", r.keys>> /\ e.ct.key[1] = "c2a" /\ e.ct.key[2] = r.keys
  <2>1. SealedAs(e, "c2a", r.keys, h, r.seq, minted[h]) BY <1>7
  <2>2. Sealed(e) /\ e.host = h /\ e.seq = r.seq /\ e.ct.nonce = r.seq /\ e.ct.key = <<"c2a", r.keys>>
    BY <2>1 DEF SealedAs, Sealed
  <2> QED BY <2>2
<1>8. ASSUME NEW m \in S, m.host = h, m.ct.key[1] = "c2a"
      PROVE  BehindDown(v, <<r>>, m, S) /\ m.seq \in Nat /\ m.ct.nonce = m.seq
  BY <1>8, WasBehind
<1>9. ASSUME NEW m \in T, m.host = h, m.ct.key[1] = "c2a" PROVE BehindDown(v, w, m, T)
  <2>1. CASE m \in E
    <3>1. m.ct.key[2] = r.keys /\ m.seq = r.seq BY <1>7, <2>1
    <3>2. v # <<>> => BehindSession(v[1], m)
      <4>1. v # <<>> => v[1].keys.stream = 0 BY <1>5 DEF SessionGood, WireInv, MintedInv
      <4> QED BY <1>6, <3>1, <4>1 DEF BehindSession
    <3>3. w # <<>> => BehindRoute(w[1], m, T)
      <4>1. w # <<>> => w[1].seq = r.seq + 1 BY <2>1
      <4> QED BY <1>6, <3>1, <4>1 DEF BehindRoute
    <3>4. OpenedIn(m.ct.key[2], T) BY <1>2, <1>3, <3>1 DEF RouteGood
    <3> QED BY <3>2, <3>3, <3>4 DEF BehindDown
  <2>2. CASE m \in S
    <3>1. BehindDown(v, <<r>>, m, S) /\ m.seq \in Nat BY <1>8, <1>9, <2>2
    <3>2. /\ v # <<>> => BehindSession(v[1], m)
          /\ m.ct.key[2].stream # 0 => OpenedIn(m.ct.key[2], T)
      BY <1>3, <3>1 DEF BehindDown
    <3>3. BehindRoute(r, m, S)
      <4>1. <<r>> # <<>> /\ <<r>>[1] = r OBVIOUS
      <4> QED BY <3>1, <4>1 DEF BehindDown
    <3>4. w # <<>> => BehindRoute(w[1], m, T)
      <4>1. w # <<>> => w[1].keys = r.keys /\ (w[1].seq = r.seq \/ w[1].seq = r.seq + 1) OBVIOUS
      <4> QED BY ONLY <1>3, <1>6, <3>1, <3>3, <4>1 DEF BehindRoute
    <3> QED BY <3>2, <3>4 DEF BehindDown
  <2> QED BY <2>1, <2>2
<1>10. Once(T)
  <2>1. Once(S) BY OnceIs DEF WireInv
  <2>2. CASE E = {}
    <3>1. S = T BY <2>2
    <3> QED BY ONLY <2>1, <3>1
  <2>3. CASE E # {}
    <3>1. PICK e : E = {e} /\ e \in E BY <2>3
    <3>2. ASSUME NEW m \in S, m.ct.key = e.ct.key, m.ct.nonce = e.ct.nonce
          PROVE  m.ct.key[1] = "c2a" /\ TwiceIn(m.ct.key[2], S)
      <4>1. m.ct.key[1] = "c2a" /\ m.ct.key[2] = r.keys BY <1>7, <3>1, <3>2
      <4>2. Sealed(m) BY DEF WireInv, EnvelopeInv
      <4>3. m.host = h BY <1>6, <4>1, <4>2 DEF Sealed, Made
      <4>4. BehindDown(v, <<r>>, m, S) /\ m.seq \in Nat /\ m.ct.nonce = m.seq BY <1>8, <4>1, <4>3
      <4>5. BehindRoute(r, m, S)
        <5>1. <<r>> # <<>> /\ <<r>>[1] = r OBVIOUS
        <5> QED BY <4>4, <5>1 DEF BehindDown
      <4>6. m.seq = r.seq BY <1>7, <3>1, <3>2, <4>4
      <4> QED BY ONLY <1>6, <4>1, <4>5, <4>6 DEF BehindRoute
    <3>3. Once(S \cup {e}) BY ONLY <2>1, <3>2, OnceMore
    <3> QED BY <3>1, <3>3
  <2> QED BY <2>2, <2>3
<1>11. /\ sess' = [sess EXCEPT ![h] = v] /\ route' = [route EXCEPT ![h] = w] /\ w \in RouteOpts
       /\ UNCHANGED <<agent, admitted, minted>>
       /\ HelloInv' /\ Published("env")' = T /\ T = Published("env") \cup E
  BY DEF WireInv, TypeInv
<1>12. \A m \in E : m.host = h /\ Sealed(m) /\ m.ct.key[1] = "c2a" BY <1>7
<1>13. CoordMoves(h, v, w, E, T) BY ONLY <1>4, <1>5, <1>9, <1>10, <1>11, <1>12 DEF CoordMoves
<1> QED BY <1>13, CoordStep

\* What is known of the host's route.
LEMMA RouteOf ==
  ASSUME WireInv, NEW h \in Hosts, route[h] # <<>>
  PROVE  \E r \in Routes : /\ route[h] = <<r>> /\ route[h][1] = r
                           /\ RouteGood(h, r, minted[h], Published("env")) /\ Client(r.keys) = h
<1>1. PICK r \in Routes : route[h] = <<r>> BY DEF WireInv, TypeInv, RouteOpts
<1>2. route[h][1] = r BY <1>1
<1>3. RouteGood(h, r, minted[h], Published("env")) BY <1>2 DEF WireInv, RouteInv
<1>4. r.keys \in Keys /\ 0 \in Nat BY DEF Routes
<1>5. Base(r.keys).salt = r.keys.salt BY ONLY <1>4, StreamKeys
<1>6. Client(Base(r.keys)) = h BY <1>3 DEF RouteGood, WireInv, MintedInv
<1>7. Client(r.keys) = h BY <1>5, <1>6 DEF Client
<1> QED BY <1>1, <1>2, <1>3, <1>7

\* What the route seals.
LEMMA FrameSeals ==
  ASSUME WireInv, NEW h \in Hosts, NEW r \in Routes, NEW body \in Bodies,
         RouteGood(h, r, minted[h], Published("env")), Client(r.keys) = h,
         net' = net \cup seal_frame(h, r, body)
  PROVE  \E e : /\ SealedAs(e, "c2a", r.keys, h, r.seq, minted[h])
                /\ HelloInv' /\ Published("env")' = Published("env") \cup {e}
<1> PICK kind : kind = "Stream" OBVIOUS
<1> PICK e : e = seal_envelope(r.keys, "c2a", h, r.sid, r.seq, kind, CA, body, r.of) OBVIOUS
<1> PICK keys, sid, q, z, M : keys = r.keys /\ sid = r.sid /\ q = r.seq /\ z = r.of /\ M = minted[h]
  OBVIOUS
<1>1. SealsDown(h, keys, sid, q, kind, body, z, e, M)
  <2>1. keys \in Keys /\ sid \in Sids /\ q \in Nat /\ z \in Nat BY DEF Routes
  <2>2. kind \in Kinds BY DEF Kinds
  <2>3. Base(keys) \in M /\ Client(keys) = h /\ keys.salt[1] = sid BY DEF RouteGood
  <2> QED BY <2>1, <2>2, <2>3 DEF SealsDown
<1>2. SealedAs(e, "c2a", keys, h, q, M) BY ONLY h \in Hosts, <1>1, DownlinkSeals
<1>3. PICK tail : net' = net \cup Publish(h, tail, e) BY DEF seal_frame
<1>4. e.t = "env" BY <1>2 DEF SealedAs
<1>5. HelloInv' /\ Published("env")' = Published("env") \cup {e}
  BY ONLY WireInv, <1>3, <1>4, PublishEnvelope
<1> QED BY <1>2, <1>5

\* A route ends, perhaps with a last frame.
LEMMA CloseRoute ==
  ASSUME WireInv, NEW h \in Hosts, route[h] # <<>>, Closes(h), UNCHANGED <<agent, sess, admitted, minted>>
  PROVE  WireInv'
<1>1. PICK r \in Routes : /\ route[h] = <<r>> /\ route[h][1] = r
                          /\ RouteGood(h, r, minted[h], Published("env")) /\ Client(r.keys) = h
  BY RouteOf
<1> PICK w, body : w = <<>> /\ body = "eof" OBVIOUS
<1>2. w \in RouteOpts /\ body \in Bodies /\ route' = [route EXCEPT ![h] = w]
  BY DEF Closes, RouteOpts, Bodies
<1>3. CASE net' = net
  <2>1. PICK E : E = {} /\ HelloInv' /\ Published("env")' = Published("env") \cup E BY <1>3, QuietNet
  <2>2. RouteMoves(h, r, w, E) BY <1>1, <1>2, <2>1 DEF RouteMoves
  <2> QED BY <2>2, RouteStep
<1>4. CASE net' = net \cup seal_frame(h, r, body)
  <2>1. PICK e : /\ SealedAs(e, "c2a", r.keys, h, r.seq, minted[h])
                 /\ HelloInv' /\ Published("env")' = Published("env") \cup {e}
    BY <1>1, <1>2, <1>4, FrameSeals
  <2> PICK E : E = {e} OBVIOUS
  <2>2. RouteMoves(h, r, w, E) BY <1>1, <1>2, <2>1 DEF RouteMoves
  <2> QED BY <2>2, RouteStep
<1> QED BY <1>1, <1>3, <1>4 DEF Closes

\* The operator's input, under the stream's keys and the next nonce of them.
LEMMA Input ==
  ASSUME WireInv, NEW h \in Hosts, ShellDown(h)
  PROVE  WireInv'
<1>1. route[h] # <<>> /\ UNCHANGED <<agent, sess, admitted, minted>> BY DEF ShellDown
<1>2. CASE Closes(h) BY <1>1, <1>2, CloseRoute
<1>3. CASE /\ net' = net \cup seal_frame(h, route[h][1], "input")
           /\ route' = [route EXCEPT ![h] = <<Sends(route[h][1])>>]
  <2>1. PICK r \in Routes : /\ route[h] = <<r>> /\ route[h][1] = r
                            /\ RouteGood(h, r, minted[h], Published("env")) /\ Client(r.keys) = h
    BY <1>1, RouteOf
  <2> PICK body : body = "input" OBVIOUS
  <2>2. body \in Bodies /\ net' = net \cup seal_frame(h, r, body) BY <1>3, <2>1 DEF Bodies
  <2>3. PICK e : /\ SealedAs(e, "c2a", r.keys, h, r.seq, minted[h])
                 /\ HelloInv' /\ Published("env")' = Published("env") \cup {e}
    BY <2>1, <2>2, FrameSeals
  <2> PICK E : E = {e} OBVIOUS
  <2> PICK b : b = Sends(r) OBVIOUS
  <2> PICK w : w = <<b>> OBVIOUS
  <2>4. /\ b \in Routes /\ b.keys = r.keys /\ b.sid = r.sid /\ b.seq = r.seq + 1
        /\ b.high = r.high /\ b.took = r.took
    BY DEF Sends, Routes
  <2>5. w[1] = b /\ w \in RouteOpts /\ route' = [route EXCEPT ![h] = w] BY <1>3, <2>1, <2>4 DEF RouteOpts
  <2>6. Guarded(b) /\ Genuine(b.took, h, h, r.sid) BY <2>1, <2>4 DEF RouteGood, Guarded
  <2>7. RouteMoves(h, r, w, E)
    BY ONLY <1>1, r \in Routes, <2>1, <2>3, <2>4, <2>5, <2>6, E = {e} DEF RouteMoves
  <2> QED BY <2>7, RouteStep
<1> QED BY <1>2, <1>3 DEF ShellDown

\* A frame of the shell is taken, or ends the route.
LEMMA StreamUp ==
  ASSUME WireInv, NEW h \in Hosts, handle_stream_up(h)
  PROVE  WireInv'
<1>1. route[h] # <<>> /\ UNCHANGED <<agent, sess, admitted, minted>> BY DEF handle_stream_up
<1>2. PICK r \in Routes : /\ route[h] = <<r>> /\ route[h][1] = r
                          /\ RouteGood(h, r, minted[h], Published("env")) /\ Client(r.keys) = h
  BY <1>1, RouteOf
<1>3. PICK env \in Delivered("env") :
        /\ open_envelope(r.keys, "a2c", env) /\ accept_recv(r.high, env.seq)
        /\ \/ route' = [route EXCEPT ![h] = <<Took(r, env)>>] /\ UNCHANGED net
           \/ Closes(h)
  BY <1>2 DEF handle_stream_up
<1>4. CASE Closes(h) BY <1>1, <1>4, CloseRoute
<1>5. CASE route' = [route EXCEPT ![h] = <<Took(r, env)>>] /\ UNCHANGED net
  <2>1. PICK pt \in Plains : /\ pt = env.ct.pt /\ pt.seq = env.seq /\ pt.by = h /\ pt.host = h
                             /\ pt.sid = r.sid
    <3> PICK dir, ks : dir = "a2c" /\ ks = r.keys OBVIOUS
    <3>1. open_envelope(ks, dir, env) BY <1>3
    <3>2. OpensAs(env, dir, ks) BY ONLY WireInv, env \in Delivered("env"), <3>1, OpensGenuine
    <3> QED BY <1>2, <3>2 DEF OpensAs, RouteGood
  <2> PICK b : b = Took(r, env) OBVIOUS
  <2> PICK w : w = <<b>> OBVIOUS
  <2>2. b = [[r EXCEPT !.high = <<pt.seq>>] EXCEPT !.took = Append(r.took, pt)]
    BY <2>1 DEF Took, Routes
  <2>3. /\ b \in Routes /\ b.keys = r.keys /\ b.sid = r.sid /\ b.seq = r.seq
        /\ b.high = <<pt.seq>> /\ b.took = Append(r.took, pt)
    <3>1. pt.seq \in Nat BY DEF Plains
    <3>2. <<pt.seq>> \in Highs /\ Append(r.took, pt) \in Seq(Plains) BY <3>1 DEF Highs, Routes
    <3> QED BY <2>2, <3>2 DEF Routes
  <2>4. Guarded(b) /\ Genuine(b.took, h, h, r.sid)
    <3> PICK by, sid : by = h /\ sid = r.sid OBVIOUS
    <3>1. r.took \in Seq(Plains) /\ r.high \in Highs BY DEF Routes
    <3>2. accept_recv(r.high, pt.seq) BY <1>3, <2>1
    <3>3. /\ Guarded(r) /\ Genuine(r.took, by, h, sid) /\ pt.by = by /\ pt.host = h /\ pt.sid = sid
          /\ b.took = Append(r.took, pt) /\ b.high = <<pt.seq>>
      BY <1>2, <2>1, <2>3 DEF RouteGood
    <3>4. Guarded(b) /\ Genuine(b.took, by, h, sid) BY ONLY pt \in Plains, <3>1, <3>2, <3>3, TakesOne
    <3> QED BY <3>4
  <2>5. w[1] = b /\ w \in RouteOpts /\ route' = [route EXCEPT ![h] = w] BY <1>5, <2>3 DEF RouteOpts
  <2>6. PICK E : E = {} /\ HelloInv' /\ Published("env")' = Published("env") \cup E BY <1>5, QuietNet
  <2>7. RouteMoves(h, r, w, E)
    BY ONLY <1>1, r \in Routes, <1>2, <2>3, <2>4, <2>5, <2>6 DEF RouteMoves
  <2> QED BY <2>7, RouteStep
<1> QED BY <1>3, <1>4, <1>5

\* Publishing two messages.
LEMMA PublishTwo ==
  ASSUME NEW h, NEW tail, NEW msg, NEW tail2, NEW msg2, NEW t,
         net' = net \cup Publish(h, tail, msg) \cup Publish(h, tail2, msg2)
  PROVE  Published(t)' = Published(t) \cup {m \in {msg, msg2} : m.t = t}
<1> PICK to, to2 : to = topic(h, tail) /\ to2 = topic(h, tail2) OBVIOUS
<1> PICK r : r = [topic |-> to, msg |-> msg] OBVIOUS
<1> PICK r2 : r2 = [topic |-> to2, msg |-> msg2] OBVIOUS
<1>1. net' = net \cup {r, r2} /\ r.msg = msg /\ r2.msg = msg2 BY DEF Publish
<1>2. ASSUME NEW y
      PROVE  y \in Published(t)' <=> \/ y \in Published(t)
                                     \/ y = msg /\ msg.t = t
                                     \/ y = msg2 /\ msg2.t = t
  BY <1>1 DEF Published
<1> QED BY <1>2

\* The coordinator's keys for an accepted hello are keys of the host's own handshake,
\* which it has not derived before.
LEMMA FreshKeys ==
  ASSUME WireInv, NEW h \in Hosts, NEW m \in Delivered("hello"), respond(m), NEW t, HelloOk(h, t, m),
         NEW eph, eph = <<CA, "eph", Cardinality(minted[h]), h>>,
         NEW keys, keys = derive(eph, m.client_eph, session_binding(m.sid, m.client_eph, eph, m.cert))
  PROVE  /\ m \in Hellos /\ keys \in Keys /\ keys \notin minted[h] /\ Client(keys) = h
         /\ keys.stream = 0 /\ keys.salt[1] = m.sid /\ eph \in ServerEphs
         /\ ServerFor(keys) = h /\ Serial(keys) = Cardinality(minted[h])
<1>1. m \in Hellos /\ m.client_eph[1] = m.cert.key BY HelloOfItsHost
<1>2. m.cert.key = h
  <2>1. m.cert.issuer = CA /\ m.cert.san = h
    BY DEF HelloOk, verify_host_cert, host_id_from_cert
  <2>2. PICK g \in Hosts : m.cert \in {CertsOf[g][k] : k \in DOMAIN CertsOf[g]}
    BY <1>1 DEF Hellos, AllCerts
  <2> QED BY <2>1, <2>2, WireAssumption, SMTT(40)
<1>3. Cardinality(minted[h]) \in Nat BY FS_CardinalityType DEF WireInv, MintedInv
<1>4. eph \in ServerEphs BY <1>3 DEF ServerEphs
<1>5. m.sid \in Sids /\ m.client_eph \in ClientEphs /\ m.cert \in AllCerts BY <1>1 DEF Hellos
<1>6. /\ keys = [shared |-> {eph, m.client_eph}, salt |-> <<m.sid, m.client_eph, eph, m.cert>>, stream |-> 0]
  BY DEF derive, from_shared, session_binding
<1>7. keys \in Keys BY <1>4, <1>5, <1>6 DEF Keys
<1>8. /\ Client(keys) = h /\ keys.stream = 0 /\ keys.salt[1] = m.sid
      /\ ServerFor(keys) = h /\ Serial(keys) = Cardinality(minted[h])
  BY <1>1, <1>2, <1>6 DEF Client, ServerFor, Serial
<1>9. keys \notin minted[h]
  <2> SUFFICES ASSUME keys \in minted[h] PROVE FALSE OBVIOUS
  <2>1. Serial(keys) < Cardinality(minted[h]) BY DEF WireInv, MintedInv
  <2> QED BY <1>3, <1>8, <2>1
<1> QED BY <1>1, <1>4, <1>7, <1>8, <1>9

\* The coordinator derives keys it did not have and admits the epoch; the session is
\* h's old one, or the new one s, which seals the envelopes E; the route may go.
Admits(h, keys, epoch, s, E) ==
  /\ keys \in Keys /\ keys \notin minted[h] /\ Client(keys) = h
  /\ keys.stream = 0 /\ ServerFor(keys) = h /\ Serial(keys) = Cardinality(minted[h])
  /\ epoch \in Nat /\ admitted' = [admitted EXCEPT ![h] = epoch]
  /\ minted' = [minted EXCEPT ![h] = @ \cup {keys}] /\ UNCHANGED agent
  /\ s \in Sessions /\ s.keys = keys /\ keys.salt[1] = s.sid /\ s.took = <<>>
  /\ sess' = sess \/ sess' = [sess EXCEPT ![h] = <<s>>]
  /\ route' = route \/ route' = [route EXCEPT ![h] = <<>>]
  /\ E = {} \/ sess' = [sess EXCEPT ![h] = <<s>>]
  /\ HelloInv' /\ Published("env")' = Published("env") \cup E /\ Once(Published("env") \cup E)
  /\ \A e \in E : e.host = h /\ Sealed(e)' /\ e.ct.key = <<"c2a", keys>> /\ BehindSession(s, e)

\* Such a step keeps the invariant.
LEMMA Admit ==
  ASSUME WireInv, NEW h \in Hosts, NEW keys, NEW epoch, NEW s, NEW E, Admits(h, keys, epoch, s, E)
  PROVE  WireInv'
<1> USE DEF Admits
<1> PICK S, T : S = Published("env") /\ T = Published("env")' OBVIOUS
<1>0. /\ S \subseteq T
      /\ \A x : HeardIn(x, S) => HeardIn(x, T)
      /\ \A r, M : RouteGood(h, r, M, S) => RouteGood(h, r, M, T)
      /\ \A v, w, m : BehindDown(v, w, m, S) => BehindDown(v, w, m, T)
  <2>1. S \subseteq T OBVIOUS
  <2> QED BY ONLY <2>1, MoreSeals
<1>1. /\ minted'[h] = minted[h] \cup {keys} /\ keys \in minted'[h]
      /\ \A g \in Hosts \ {h} : minted'[g] = minted[g] /\ agent'[g] = agent[g] /\ sess'[g] = sess[g]
      /\ \A g \in Hosts \ {h} : route'[g] = route[g]
      /\ route'[h] = route[h] \/ route'[h] = <<>>
  BY DEF WireInv, TypeInv
<1>2. \A g \in Hosts : minted[g] \subseteq minted'[g] BY <1>1
<1>3. About(h, E) BY <1>1, <1>2 DEF About
<1>4. TypeInv'
  <2>0. TypeInv BY DEF WireInv
  <2>1. <<s>> \in SessionOpts /\ <<>> \in RouteOpts BY DEF SessionOpts, RouteOpts
  <2>2. agent' \in [Hosts -> Downs \cup Greeting \cup Established] BY <2>0 DEF TypeInv
  <2>3. sess' \in [Hosts -> SessionOpts] BY <2>0, <2>1 DEF TypeInv
  <2>4. route' \in [Hosts -> RouteOpts] BY <2>0, <2>1 DEF TypeInv
  <2>5. admitted' \in [Hosts -> Nat] BY <2>0 DEF TypeInv
  <2>6. minted' \in [Hosts -> SUBSET Keys] BY <2>0 DEF TypeInv
  <2> QED BY <2>2, <2>3, <2>4, <2>5, <2>6 DEF TypeInv
<1>5. MintedInv'
  <2>1. IsFiniteSet(minted[h]) /\ Cardinality(minted[h]) \in Nat
    BY FS_CardinalityType DEF WireInv, MintedInv
  <2>2. IsFiniteSet(minted'[h]) /\ Cardinality(minted'[h]) = Cardinality(minted[h]) + 1
    <3> PICK M : M = minted[h] OBVIOUS
    <3>1. IsFiniteSet(M) /\ keys \notin M BY <2>1
    <3>2. IsFiniteSet(M \cup {keys}) /\ Cardinality(M \cup {keys}) = Cardinality(M) + 1
      BY ONLY <3>1, FS_AddElement
    <3> QED BY <1>1, <3>2
  <2>3. ASSUME NEW k \in minted'[h]
        PROVE  Client(k) = h /\ k.stream = 0 /\ ServerFor(k) = h /\ Serial(k) < Cardinality(minted'[h])
    <3>1. CASE k = keys BY <2>1, <2>2, <3>1
    <3>2. CASE k \in minted[h]
      <4>1. Client(k) = h /\ k.stream = 0 /\ ServerFor(k) = h /\ Serial(k) < Cardinality(minted[h])
        BY <3>2 DEF WireInv, MintedInv
      <4>2. Serial(k) \in Nat
        <5>1. k \in Keys BY <3>2 DEF WireInv, TypeInv
        <5> QED BY <5>1 DEF Serial, Keys, ServerEphs
      <4> QED BY <2>1, <2>2, <4>1, <4>2
    <3> QED BY <1>1, <3>1, <3>2
  <2>4. ASSUME NEW g \in Hosts, g # h
        PROVE  /\ IsFiniteSet(minted'[g])
               /\ \A k \in minted'[g] : /\ Client(k) = g /\ k.stream = 0
                                        /\ ServerFor(k) = g /\ Serial(k) < Cardinality(minted'[g])
    BY <1>1, <2>4 DEF WireInv, MintedInv
  <2> QED BY <2>2, <2>3, <2>4 DEF MintedInv
<1>6. AgentGood(h, agent'[h], minted'[h])
  <2>1. AgentGood(h, agent[h], minted[h]) BY DEF WireInv, AgentInv
  <2> QED BY <1>1, <2>1 DEF AgentGood
<1>7. sess'[h] = sess[h] \/ sess'[h] = <<s>> BY DEF WireInv, TypeInv
<1>8. SessionGood(h, s, minted'[h]) BY <1>1 DEF SessionGood, Guarded, Genuine
<1>9. sess'[h] # <<>> => SessionGood(h, sess'[h][1], minted'[h]) /\ HeardIn(sess'[h][1], T)
  <2>1. CASE sess'[h] = <<s>>
    <3>1. HeardIn(s, T) BY DEF HeardIn
    <3> QED BY <1>8, <2>1, <3>1
  <2>2. CASE sess'[h] = sess[h] /\ sess'[h] # <<>>
    <3>1. SessionGood(h, sess[h][1], minted[h]) /\ HeardIn(sess[h][1], S)
      BY <2>2 DEF WireInv, SessionInv, HeardInv
    <3> QED BY <1>0, <1>1, <2>2, <3>1 DEF SessionGood
  <2> QED BY <1>7, <2>1, <2>2
<1>10. route'[h] # <<>> => RouteGood(h, route'[h][1], minted'[h], T)
  <2> SUFFICES ASSUME route'[h] # <<>> PROVE RouteGood(h, route'[h][1], minted'[h], T) OBVIOUS
  <2>1. route'[h] = route[h] BY <1>1
  <2>2. RouteGood(h, route[h][1], minted[h], S) BY <2>1 DEF WireInv, RouteInv
  <2>3. RouteGood(h, route[h][1], minted[h], T) BY <1>0, <2>2
  <2> QED BY <1>1, <2>1, <2>3 DEF RouteGood
<1>11. ASSUME NEW m \in Published("env")', m.host = h PROVE Behind(m)'
  <2>1. CASE m \in E
    <3>1. m.ct.key = <<"c2a", keys>> /\ BehindSession(s, m) BY <2>1
    <3>2. m.ct.key[1] = "c2a" /\ m.ct.key[1] # "a2c" /\ m.ct.key[2] = keys BY <3>1
    <3>3. sess'[h] = <<s>> BY <2>1 DEF WireInv, TypeInv
    <3>4. route'[h] # <<>> => BehindRoute(route'[h][1], m, T)
      <4>1. route'[h] # <<>> => route'[h][1].keys.stream # 0 BY <1>10 DEF RouteGood
      <4> QED BY <3>2, <4>1 DEF BehindRoute
    <3>5. BehindDown(sess'[h], route'[h], m, T) BY <3>1, <3>2, <3>3, <3>4 DEF BehindDown
    <3> QED BY <1>11, <3>2, <3>5 DEF Behind
  <2>2. CASE m \in Published("env")
    <3>1. Sealed(m) BY <2>2 DEF WireInv, EnvelopeInv
    <3>2. m.ct.key[1] = "a2c" => BehindAgent(agent'[h], m) BY <1>11, <2>2, WasBehind
    <3>3. ASSUME m.ct.key[1] = "c2a" PROVE BehindDown(sess'[h], route'[h], m, T)
      <4>1. BehindDown(sess[h], route[h], m, S) BY <1>11, <2>2, <3>3, WasBehind
      <4>2. BehindDown(sess[h], route[h], m, T) BY <1>0, <4>1
      <4>3. m.ct.key[2] # keys
        <5>1. Base(m.ct.key[2]) \in minted[h] BY <1>11, <3>1, <3>3 DEF Sealed, Made
        <5>2. keys \in Keys /\ 0 \in Nat OBVIOUS
        <5>3. Base(keys) = keys BY ONLY keys.stream = 0, <5>2, StreamKeys
        <5> QED BY <5>1, <5>3
      <4>4. BehindSession(s, m) BY <4>3 DEF BehindSession
      <4>5. sess'[h] # <<>> => BehindSession(sess'[h][1], m)
        <5>1. CASE sess'[h] = <<s>> BY <4>4, <5>1
        <5>2. CASE sess'[h] = sess[h] BY <4>2, <5>2 DEF BehindDown
        <5> QED BY <1>7, <5>1, <5>2
      <4> QED BY <1>1, <4>2, <4>5 DEF BehindDown
    <3> QED BY <1>11, <3>2, <3>3 DEF Behind
  <2> QED BY <2>1, <2>2
<1>12. HelloInv' /\ Once(Published("env") \cup E) OBVIOUS
<1> QED BY ONLY WireInv, h \in Hosts, <1>3, <1>4, <1>5, <1>6, <1>9, <1>10, <1>11, <1>12,
                T = Published("env")', OneHost

\* A hello is admitted: then the store may be full, the answer fail to be published,
\* or it and the beacon be published.
LEMMA Hello ==
  ASSUME WireInv, handle_client_hello
  PROVE  WireInv'
<1>1. PICK m \in Delivered("hello"), t \in {topic(x, "up/hs") : x \in Hosts}, h \in Hosts :
        LET eph == <<CA, "eph", Cardinality(minted[h]), h>>
            keys == derive(eph, m.client_eph, session_binding(m.sid, m.client_eph, eph, m.cert))
            s == [sid |-> m.sid, keys |-> keys, seq |-> 0, high |-> <<>>, took |-> <<>>]
        IN /\ respond(m) /\ HelloOk(h, t, m)
           /\ admitted' = [admitted EXCEPT ![h] = m.epoch]
           /\ minted' = [minted EXCEPT ![h] = @ \cup {keys}]
           /\ \/ UNCHANGED <<sess, route, net>>
              \/ sess' = [sess EXCEPT ![h] = <<s>>] /\ UNCHANGED <<route, net>>
              \/ /\ sess' = [sess EXCEPT ![h] = <<Sends(s)>>]
                 /\ route' = [route EXCEPT ![h] = <<>>]
                 /\ net' = net \cup seal_downlink(h, s, "down/ctrl", "ready", 0)
                               \cup Publish(h, "down/hs", respond_handshake(m, eph))
           /\ UNCHANGED agent
  BY DEF handle_client_hello
<1> PICK eph : eph = <<CA, "eph", Cardinality(minted[h]), h>> OBVIOUS
<1> PICK keys : keys = derive(eph, m.client_eph, session_binding(m.sid, m.client_eph, eph, m.cert))
  OBVIOUS
<1> PICK s : s = [sid |-> m.sid, keys |-> keys, seq |-> 0, high |-> <<>>, took |-> <<>>] OBVIOUS
<1>2. /\ respond(m) /\ HelloOk(h, t, m)
      /\ admitted' = [admitted EXCEPT ![h] = m.epoch]
      /\ minted' = [minted EXCEPT ![h] = @ \cup {keys}]
      /\ UNCHANGED agent
  BY <1>1
<1>3. \/ UNCHANGED <<sess, route, net>>
      \/ sess' = [sess EXCEPT ![h] = <<s>>] /\ UNCHANGED <<route, net>>
      \/ /\ sess' = [sess EXCEPT ![h] = <<Sends(s)>>]
         /\ route' = [route EXCEPT ![h] = <<>>]
         /\ net' = net \cup seal_downlink(h, s, "down/ctrl", "ready", 0)
                       \cup Publish(h, "down/hs", respond_handshake(m, eph))
  BY <1>1
<1>4. /\ m \in Hellos /\ keys \in Keys /\ keys \notin minted[h] /\ Client(keys) = h
      /\ keys.stream = 0 /\ keys.salt[1] = m.sid /\ eph \in ServerEphs
      /\ ServerFor(keys) = h /\ Serial(keys) = Cardinality(minted[h])
  BY <1>2, FreshKeys
<1> HIDE <1>1
<1>5. m.sid \in Sids /\ m.epoch \in Nat /\ m.client_eph \in ClientEphs BY <1>4 DEF Hellos
<1>6. s \in Sessions /\ s.keys = keys /\ s.sid = m.sid /\ s.took = <<>> /\ s.seq = 0
  BY <1>4, <1>5 DEF Sessions, Highs
<1>7. CASE UNCHANGED <<route, net>> /\ (sess' = sess \/ sess' = [sess EXCEPT ![h] = <<s>>])
  <2>1. PICK E : /\ E = {} /\ HelloInv' /\ Published("env")' = Published("env") \cup E
                 /\ Once(Published("env") \cup E)
    BY <1>7, QuietNet
  <2> PICK epoch : epoch = m.epoch OBVIOUS
  <2>2. epoch \in Nat /\ admitted' = [admitted EXCEPT ![h] = epoch] BY <1>2, <1>5
  <2>3. \A e \in E : e.host = h /\ Sealed(e)' /\ e.ct.key = <<"c2a", keys>> /\ BehindSession(s, e) BY <2>1
  <2>4. keys.salt[1] = s.sid BY <1>4, <1>6
  <2>5. Admits(h, keys, epoch, s, E) BY ONLY <1>2, <1>4, <1>6, <1>7, <2>1, <2>2, <2>3, <2>4 DEF Admits
  <2> QED BY <2>5, Admit
<1>8. CASE /\ sess' = [sess EXCEPT ![h] = <<Sends(s)>>]
           /\ route' = [route EXCEPT ![h] = <<>>]
           /\ net' = net \cup seal_downlink(h, s, "down/ctrl", "ready", 0)
                         \cup Publish(h, "down/hs", respond_handshake(m, eph))
  <2> PICK s2 : s2 = Sends(s) OBVIOUS
  <2>1. /\ s2 \in Sessions /\ s2.keys = keys /\ s2.sid = m.sid /\ s2.took = <<>> /\ s2.seq = 1
    <3>1. s2 = [s EXCEPT !.seq = s.seq + 1] BY <1>6 DEF Sends
    <3>2. s \in Sessions /\ s.seq + 1 \in Nat BY <1>6
    <3>3. /\ s2 \in Sessions /\ s2.keys = s.keys /\ s2.sid = s.sid /\ s2.took = s.took /\ s2.seq = s.seq + 1
      BY ONLY <3>1, <3>2 DEF Sessions
    <3> QED BY <1>6, <3>3
  <2> PICK kind, body, z : kind = "Control" /\ body = "ready" /\ z = 0 OBVIOUS
  <2> PICK e : e = seal_envelope(s.keys, "c2a", h, s.sid, s.seq, kind, CA, body, z) OBVIOUS
  <2>2. e.t = "env" /\ e.host = h /\ e.seq = 0 /\ e.ct.key = <<"c2a", keys>> /\ Sealed(e)'
    <3> PICK sid, q, M : sid = s.sid /\ q = s.seq /\ M = minted'[h] OBVIOUS
    <3>1. body \in Bodies /\ kind \in Kinds /\ z \in Nat BY DEF Bodies, Kinds
    <3>2. keys \in M BY <1>2 DEF WireInv, TypeInv
    <3>3. Base(keys) = keys
      <4>1. keys \in Keys /\ keys.stream = 0 /\ 0 \in Nat BY <1>4
      <4> QED BY ONLY <4>1, StreamKeys
    <3>4. SealsDown(h, keys, sid, q, kind, body, z, e, M)
      BY <1>4, <1>5, <1>6, <3>1, <3>2, <3>3 DEF SealsDown
    <3>5. SealedAs(e, "c2a", keys, h, q, M) BY ONLY h \in Hosts, <3>4, DownlinkSeals
    <3> QED BY <1>6, <3>5 DEF SealedAs, Sealed
  <2> PICK hello : hello = respond_handshake(m, eph) OBVIOUS
  <2>3. hello \in ServerHellos /\ hello.t = "shello"
    BY <1>4, <1>5 DEF respond_handshake, ServerHellos, sign, server_transcript
  <2> PICK tail, tail2 : tail = "down/ctrl" /\ tail2 = "down/hs" OBVIOUS
  <2>4. net' = net \cup Publish(h, tail, e) \cup Publish(h, tail2, hello) BY <1>8 DEF seal_downlink
  <2>5. ASSUME NEW k PROVE Published(k)' = Published(k) \cup {x \in {e, hello} : x.t = k}
    BY ONLY <2>4, PublishTwo
  <2> PICK E : E = {e} OBVIOUS
  <2>6. /\ Published("hello")' = Published("hello")
        /\ Published("shello")' = Published("shello") \cup {hello}
        /\ Published("env")' = Published("env") \cup E
    <3>1. /\ {x \in {e, hello} : x.t = "hello"} = {} /\ {x \in {e, hello} : x.t = "shello"} = {hello}
          /\ {x \in {e, hello} : x.t = "env"} = {e}
      <4>1. e.t = "env" /\ hello.t = "shello" BY <2>2, <2>3
      <4> QED BY ONLY <4>1
    <3>2. Published("hello")' = Published("hello") \cup {x \in {e, hello} : x.t = "hello"} BY ONLY <2>5
    <3>3. Published("shello")' = Published("shello") \cup {x \in {e, hello} : x.t = "shello"} BY ONLY <2>5
    <3>4. Published("env")' = Published("env") \cup {x \in {e, hello} : x.t = "env"} BY ONLY <2>5
    <3> QED BY ONLY E = {e}, <3>1, <3>2, <3>3, <3>4
  <2>7. HelloInv' BY <2>3, <2>6 DEF WireInv, HelloInv
  <2>8. Once(Published("env") \cup E)
    <3>1. Once(Published("env")) BY OnceIs DEF WireInv
    <3>2. ASSUME NEW x \in Published("env"), x.ct.key = e.ct.key PROVE FALSE
      <4>1. Sealed(x) /\ x.ct.key[1] = "c2a" /\ x.ct.key[2] = keys
        BY <2>2, <3>2 DEF WireInv, EnvelopeInv
      <4>2. x.host = h BY <1>4, <4>1 DEF Sealed, Made
      <4>3. Base(keys) = keys
        <5>1. keys \in Keys /\ keys.stream = 0 /\ 0 \in Nat BY <1>4
        <5> QED BY ONLY <5>1, StreamKeys
      <4>4. keys \in minted[h] BY <4>1, <4>2, <4>3 DEF Sealed, Made
      <4> QED BY <1>4, <4>4
    <3> QED BY <3>1, <3>2, OnceMore
  <2>9. \A x \in E : x.host = h /\ Sealed(x)' /\ x.ct.key = <<"c2a", keys>> /\ BehindSession(s2, x)
    BY <2>1, <2>2 DEF BehindSession
  <2>10. sess' = [sess EXCEPT ![h] = <<s2>>] /\ route' = [route EXCEPT ![h] = <<>>] BY <1>8
  <2>11. keys.salt[1] = s2.sid BY <1>4, <2>1
  <2> PICK epoch : epoch = m.epoch OBVIOUS
  <2>12. epoch \in Nat /\ admitted' = [admitted EXCEPT ![h] = epoch] BY <1>2, <1>5
  <2>13. Admits(h, keys, epoch, s2, E)
    BY ONLY <1>2, <1>4, <2>1, <2>6, <2>7, <2>8, <2>9, <2>10, <2>11, <2>12 DEF Admits
  <2> QED BY <2>13, Admit
<1> QED BY <1>3, <1>7, <1>8

-----------------------------------------------------------------------------
(* The theorems.                                                               *)

\* Nothing is up and nothing is published at first.
LEMMA WireInit == Init => WireInv
<1> SUFFICES ASSUME Init PROVE WireInv OBVIOUS
<1>1. \A t : Published(t) = {} BY DEF Init, Published
<1>2. TypeInv BY DEF Init, TypeInv, Away, Downs, SessionOpts, RouteOpts
<1>3. AgentInv BY DEF Init, AgentInv, AgentGood, Away
<1>4. SessionInv /\ HeardInv /\ RouteInv BY DEF Init, SessionInv, HeardInv, RouteInv
<1>5. MintedInv BY FS_EmptySet DEF Init, MintedInv
<1>6. HelloInv /\ EnvelopeInv /\ NonceOnce BY <1>1 DEF HelloInv, EnvelopeInv, NonceOnce
<1> QED BY <1>2, <1>3, <1>4, <1>5, <1>6 DEF WireInv

\* Every step keeps the invariant, and so does stuttering.
LEMMA WireStep == WireInv /\ [Next]_vars => WireInv'
<1> SUFFICES ASSUME WireInv, [Next]_vars PROVE WireInv' OBVIOUS
<1>1. ASSUME NEW h \in Hosts, start_handshake(h) PROVE WireInv' BY <1>1, StartHandshake
<1>2. ASSUME NEW h \in Hosts, finish_handshake(h) PROVE WireInv' BY <1>2, FinishHandshake
<1>3. ASSUME NEW h \in Hosts, confirm_session(h) PROVE WireInv' BY <1>3, Confirm
<1>4. ASSUME NEW h \in Hosts, OnDispatch(h) PROVE WireInv' BY <1>4, Dispatch
<1>5. ASSUME NEW h \in Hosts, SealStream(h) PROVE WireInv' BY <1>5, Frame
<1>6. ASSUME NEW h \in Hosts, open_uplink(h) PROVE WireInv' BY <1>6, Uplink
<1>7. ASSUME NEW h \in Hosts, NEW id \in Dispatches[h], SealDispatch(h, id) PROVE WireInv'
  BY <1>7, SealOne
<1>8. CASE handle_client_hello BY <1>8, Hello
<1>10. ASSUME NEW h \in Hosts, route_downlink(h) PROVE WireInv' BY <1>10, Downlink
<1>11. ASSUME NEW h \in Hosts, ShellDown(h) PROVE WireInv' BY <1>11, Input
<1>12. ASSUME NEW h \in Hosts, handle_stream_up(h) PROVE WireInv' BY <1>12, StreamUp
<1>13. CASE UNCHANGED vars
  <2>1. UNCHANGED <<agent, sess, route, admitted, net, minted>> BY <1>13 DEF vars
  <2>2. \A t : Published(t)' = Published(t) BY <2>1 DEF Published
  <2>3. TypeInv' /\ HelloInv' BY <2>1, <2>2 DEF WireInv, TypeInv, HelloInv
  <2>4. AgentInv' /\ SessionInv' /\ MintedInv' BY <2>1 DEF WireInv, AgentInv, SessionInv, MintedInv
  <2>5. EnvelopeInv' /\ HeardInv' /\ RouteInv'
    BY <2>1, <2>2 DEF WireInv, EnvelopeInv, Sealed, Behind, HeardInv, RouteInv
  <2>6. NonceOnce'
    <3>1. \A k : Opens(k)' = Opens(k) BY <2>2 DEF Opens
    <3> QED BY <2>2, <3>1 DEF WireInv, NonceOnce
  <2> QED BY <2>3, <2>4, <2>5, <2>6 DEF WireInv
<1> QED BY <1>1, <1>2, <1>3, <1>4, <1>5, <1>6, <1>7, <1>8, <1>10,
            <1>11, <1>12, <1>13 DEF Next

\* The invariant holds throughout.
LEMMA WireAlways == Spec => []WireInv
<1>1. Init => WireInv BY WireInit
<1>2. WireInv /\ [Next]_vars => WireInv' BY WireStep
<1> QED BY <1>1, <1>2, PTL DEF Spec

\* An agent that has opened anything holds keys that the coordinator derived for that
\* very host; and once the coordinator has heard from a host in a session, no other
\* host holds its keys, and the host's agent, if still in that session, holds no other
\* keys (respond, finish, confirm_session).
THEOREM EndsAgree == Spec => []KeysAgree
<1>1. WireInv => KeysAgree
  <2> SUFFICES ASSUME WireInv, NEW h \in Hosts
               PROVE  /\ agent[h].st = "est" /\ agent[h].took # <<>> => agent[h].keys \in minted[h]
                      /\ sess[h] # <<>> /\ sess[h][1].took # <<>> =>
                           \A g \in Hosts :
                             (agent[g].st = "est" /\ (agent[g].keys = sess[h][1].keys
                                                      \/ agent[g].sid = sess[h][1].sid)) =>
                               g = h /\ agent[g].keys = sess[h][1].keys
    BY DEF KeysAgree
  <2>1. agent[h].st = "est" /\ agent[h].took # <<>> => agent[h].keys \in minted[h]
    BY DEF WireInv, AgentInv, AgentGood
  <2>2. ASSUME sess[h] # <<>>, sess[h][1].took # <<>>, NEW g \in Hosts, agent[g].st = "est",
               agent[g].keys = sess[h][1].keys \/ agent[g].sid = sess[h][1].sid
        PROVE  g = h /\ agent[g].keys = sess[h][1].keys
    <3> PICK s, a : s = sess[h][1] /\ a = agent[g] OBVIOUS
    <3>1. SessionGood(h, s, minted[h]) /\ HeardIn(s, Published("env"))
      BY <2>2 DEF WireInv, SessionInv, HeardInv
    <3>2. /\ s.keys \in Keys /\ s.keys.stream = 0 /\ Client(s.keys) = h /\ s.keys.salt[1] = s.sid
      BY <3>1 DEF SessionGood, WireInv, MintedInv, TypeInv
    <3>3. Client(a.keys) = g /\ a.sid = <<g, "sid", a.n>> BY <2>2 DEF WireInv, AgentInv, AgentGood
    <3>4. a.keys = s.keys => g = h BY <3>2, <3>3
    <3>5. ASSUME a.sid = s.sid PROVE g = h /\ a.keys = s.keys
      <4>1. PICK e \in Published("env") : e.ct.key = <<"a2c", s.keys>> BY <2>2, <3>1 DEF HeardIn
      <4>2. e.ct.key[1] = "a2c" /\ e.ct.key[2] = s.keys BY <4>1
      <4>3. Sealed(e) BY DEF WireInv, EnvelopeInv
      <4>4. e.host = h /\ s.sid = <<h, "sid", Connection(s.keys)>> BY <3>2, <4>2, <4>3 DEF Sealed, Made
      <4>5. g = h /\ Connection(s.keys) = a.n BY <3>3, <3>5, <4>4
      <4>6. BehindAgent(a, e) BY <4>2, <4>4, <4>5, WasBehind
      <4>7. Base(s.keys) = a.keys BY <2>2, <4>2, <4>5, <4>6 DEF BehindAgent
      <4>8. s.keys \in Keys /\ s.keys.stream = 0 /\ 0 \in Nat BY <3>2
      <4>9. Base(s.keys) = s.keys BY ONLY <4>8, StreamKeys
      <4> QED BY <4>5, <4>7, <4>9
    <3> QED BY <2>2, <3>4, <3>5
  <2> QED BY <2>1, <2>2
<1> QED BY <1>1, WireAlways, PTL

\* What either end accepts in a session, or for the shell it has open, was sealed by the
\* other end of the same host's session, each message once and in order: never another
\* host's, never its own reflected, never one of an earlier session (open_uplink,
\* open_downlink, aad).
THEOREM OnlyWhatWasSealed == Spec => []OpenedAsSealed
<1>1. WireInv => OpenedAsSealed
  BY DEF WireInv, AgentInv, AgentGood, ShellGood, SessionInv, SessionGood, RouteInv, RouteGood, OpenedAsSealed
<1> QED BY <1>1, WireAlways, PTL

\* No key and nonce ever seal two messages, over all hosts, sessions, directions and
\* streams, the agent's direction even when the coordinator opens a stream with an id it
\* has used; the coordinator's own direction of such a stream is exempt, there only the
\* fresh UUID of every shell protects (from_shared, derive_stream, nonce,
\* handle_shell_open, ShellRoute).
THEOREM NoNonceTwice == Spec => []NonceOnce
<1>1. WireInv => NonceOnce BY DEF WireInv
<1> QED BY <1>1, WireAlways, PTL
=============================================================================
