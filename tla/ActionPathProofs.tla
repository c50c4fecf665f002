-------------------------- MODULE ActionPathProofs --------------------------
(* Proofs about ActionPath: what the operator's token, the policy, the host's   *)
(* allowlist and the child's identity guarantee of every process that runs,     *)
(* and what a finished exec has delivered, for all command lines, key           *)
(* documents, requests, policies and users.                                     *)
EXTENDS ActionPath, SequenceTheorems, TLAPS

-----------------------------------------------------------------------------
(* The coordinator.                                                            *)

\* The document a coordinator takes its keys from.
KeyDoc(from) == IF coord.cli.jwks # <<>> THEN coord.cli.jwks[1] ELSE Documents[from]

CoordFields == {"st", "cell", "bindings", "leeway", "live", "from", "cli"}

\* A running coordinator keeps its command line; its keys are those of a document
\* it was given or has fetched.
CoordInv ==
  /\ coord.st \in {"down", "refused", "up"}
  /\ coord.st # "up" => ~coord.live
  /\ coord.st = "up" =>
       /\ DOMAIN coord = CoordFields
       /\ coord.cli \in CommandLines
       /\ build_policy_engine(coord.cli).ok
       /\ coord.bindings = build_policy_engine(coord.cli).bindings
       /\ coord.leeway = coord.cli.leeway
       /\ coord.cell # <<>> =>
            coord.leeway <= MAX_LEEWAY_SECS /\ coord.cell = from_jwks_json(KeyDoc(coord.from))
       /\ coord.live => coord.cell # <<>> /\ coord.cli.jwks = <<>>

\* A fetched document is one the issuer served.
FetchInv ==
  inflight # <<>> =>
    /\ coord.st = "up" /\ coord.live
    /\ inflight[1].doc # <<>> => inflight[1].doc = <<Documents[inflight[1].from]>>

Bearer == call.req.auth[1].token[1]

\* The call's caller is the nobody of a coordinator without OIDC, or the subject of an
\* authentic token.
Caller ==
  \/ call.subject = ANONYMOUS_SUBJECT
  \/ call.req.auth # <<>> /\ Authentic(Bearer) /\ call.subject = Bearer.claims.sub

CallInv ==
  /\ now \in Nat
  /\ call.st \in {"validate", "handler", "authorize"} =>
       coord.st = "up" /\ call.req \in Requests
  /\ call.st = "validate" =>
       /\ coord.cell # <<>> /\ bearer_token(call.req) # <<>>
       /\ from_jwks_json(KeyDoc(call.from)) # <<>>
       /\ call.keys = from_jwks_json(KeyDoc(call.from))[1]
  /\ call.st \in {"handler", "authorize"} => Caller
  /\ call.st = "authorize" =>
       \A h \in call.allowed : authorize(call.subject, call.req.kind, h, call.req.run_as)

AccessInv == CoordInv /\ FetchInv /\ CallInv

-----------------------------------------------------------------------------
(* The child.                                                                  *)

Creds == [uid : Nat, gid : Nat, groups : SUBSET Nat]

Drops == <<"setgid", "setgroups", "setuid">>

\* What a child may still have to do before its program runs.
Todos ==
  {<<"setsid", "TIOCSCTTY", "setgid", "setgroups", "setuid">>,
   <<"TIOCSCTTY", "setgid", "setgroups", "setuid">>, Drops,
   <<"setgroups", "setuid">>, <<"setuid">>, <<"setsid", "TIOCSCTTY">>, <<"TIOCSCTTY">>, <<>>}

ProcRec ==
  [st : {"pre", "running", "zombie", "reaped"}, user : DOMAIN Passwd \cup {""},
   todo : Todos, creds : Creds, env : {"agent", "minimal"},
   isolated : SUBSET {"setsid", "TIOCSCTTY"}, held : SUBSET Streams, heirs : SUBSET Streams,
   group : BOOLEAN, killed : BOOLEAN, wrote : [Streams -> Nat]]

\* How much of the agent's identity is left, by the calls still to be made.
Identity(h, p) ==
  LET u == Passwd[p.user]
  IN /\ p.env = Environment(p.user)
     /\ p.st # "pre" => p.todo = <<>>
     /\ IF p.user = ""
        THEN /\ p.creds = AgentCreds[h]
             /\ p.todo \in {<<"setsid", "TIOCSCTTY">>, <<"TIOCSCTTY">>, <<>>}
        ELSE \/ p.todo \in {<<"setsid", "TIOCSCTTY", "setgid", "setgroups", "setuid">>,
                            <<"TIOCSCTTY", "setgid", "setgroups", "setuid">>, Drops}
             \/ p.todo = <<"setgroups", "setuid">> /\ p.creds.gid = u.gid
             \/ p.todo = <<"setuid">> /\ p.creds.gid = u.gid /\ p.creds.groups = {u.gid}
             \/ p.todo = <<>> /\ p.creds = [uid |-> u.uid, gid |-> u.gid, groups |-> {u.gid}]

\* A child was asked for by a call that was permitted on both sides.
Permitted(h, p) ==
  /\ call.st = "authorize" /\ h \in call.allowed
  /\ Runs(h) /\ Backstop(h, call.req.kind, call.req.run_as)
  /\ p.user = call.req.run_as

ProcOk(h, p) == p = NoProc \/ (p \in ProcRec /\ Identity(h, p) /\ Permitted(h, p))

Kinds == {"exec", "shell"}

TaskRec ==
  [st : {"pump", "wait", "done", "dropped"}, kind : Kinds,
   eof : SUBSET Streams, got : [Streams -> Nat], truncated : BOOLEAN, timed_out : BOOLEAN]

Failed == [st |-> "failed"]
Forked == [st : {"fork"}, kind : Kinds]

\* The pump is never ahead of the program, a pipe that has ended stays at its end,
\* and a pump that is over without a flag has seen both ends.
Delivered(t, p) ==
  /\ p \in ProcRec /\ p.st # "pre"
  /\ \A s \in Streams : t.got[s] <= p.wrote[s]
  /\ \A s \in t.eof : t.got[s] = p.wrote[s] /\ s \notin p.held /\ s \notin p.heirs
  /\ t.st \in {"wait", "done"} /\ ~t.truncated /\ ~t.timed_out => t.eof = Streams

TaskOk(t, p) ==
  \/ t = NoTask /\ p = NoProc
  \/ t = Failed /\ (p = NoProc \/ (p \in ProcRec /\ p.st # "pre"))
  \/ t \in Forked /\ p \in ProcRec /\ p.st = "pre"
  \/ t \in TaskRec /\ Delivered(t, p)

ChildInv ==
  /\ DOMAIN proc = Hosts /\ DOMAIN task = Hosts
  /\ \A h \in Hosts : ProcOk(h, proc[h]) /\ TaskOk(task[h], proc[h])

PathInv == AccessInv /\ ChildInv

-----------------------------------------------------------------------------
(* Tokens.                                                                     *)

(* A validator's key is one of the keys of its document (from_jwks_json). *)
LEMMA JwksKey ==
  ASSUME NEW doc, from_jwks_json(doc) # <<>>, NEW kid \in DOMAIN from_jwks_json(doc)[1]
  PROVE  \E k \in DOMAIN doc.keys : from_jwks_json(doc)[1][kid] = VerifyingKey(doc.keys[k])
<1> DEFINE usable == UsableKeys(doc)
           kids == {doc.keys[k].kid : k \in usable}
           place(x) == CHOOSE k \in usable : doc.keys[k].kid = x
           keys == [x \in kids |-> VerifyingKey(doc.keys[place(x)])]
<1>1. from_jwks_json(doc) = <<keys>>
  BY DEF from_jwks_json
<1>2. from_jwks_json(doc)[1] = keys
  BY <1>1
<1>3. kid \in kids
  BY <1>2
<1>4. place(kid) \in usable
  BY <1>3
<1>5. usable \subseteq DOMAIN doc.keys
  BY DEF UsableKeys
<1>6. QED  BY <1>2, <1>3, <1>4, <1>5

(* A token that a validator accepts was signed with a public key of the document,
   for this issuer and audience, in its lifetime (validate). *)
LEMMA Validated ==
  ASSUME NEW doc, from_jwks_json(doc) # <<>>, NEW tok,
         NEW leeway \in Nat, leeway <= MAX_LEEWAY_SECS, NEW t \in Nat,
         \A x \in DOMAIN tok.claims \cap {"exp", "nbf"} : tok.claims[x] \in Nat,
         validate(from_jwks_json(doc)[1], leeway, tok, t) # <<>>
  PROVE  /\ \E k \in DOMAIN doc.keys : doc.keys[k].pub = tok.signer /\ doc.keys[k].kty # "oct"
         /\ tok.claims.iss = Issuer /\ tok.claims.aud = Audience
         /\ tok.claims.exp + MAX_LEEWAY_SECS >= t
         /\ "nbf" \in DOMAIN tok.claims => tok.claims.nbf <= t + MAX_LEEWAY_SECS
         /\ validate(from_jwks_json(doc)[1], leeway, tok, t) = <<tok.claims.sub>>
<1> DEFINE keys == from_jwks_json(doc)[1]
           c == tok.claims
<1>1. /\ tok.kid \in DOMAIN keys
      /\ tok.signer = keys[tok.kid].pub
      /\ SameFamily(keys[tok.kid].kty, tok.alg)
      /\ {"exp", "iss", "aud", "sub"} \subseteq DOMAIN c
      /\ c.iss = Issuer /\ c.aud = Audience
      /\ c.exp + leeway >= t
      /\ "nbf" \in DOMAIN c => c.nbf <= t + leeway
      /\ validate(keys, leeway, tok, t) = <<c.sub>>
  BY DEF validate
<1>2. PICK k \in DOMAIN doc.keys : keys[tok.kid] = VerifyingKey(doc.keys[k])
  BY <1>1, JwksKey
<1>3. doc.keys[k].pub = tok.signer /\ doc.keys[k].kty # "oct"
  BY <1>1, <1>2 DEF VerifyingKey, SameFamily
<1>4. c.exp \in Nat /\ ("nbf" \in DOMAIN c => c.nbf \in Nat)
  BY <1>1
<1>5. MAX_LEEWAY_SECS \in Nat
  BY AccessAssumption
<1> HIDE DEF c, keys
<1>6. /\ c.exp + MAX_LEEWAY_SECS >= t
      /\ "nbf" \in DOMAIN c => c.nbf <= t + MAX_LEEWAY_SECS
  BY <1>1, <1>4, <1>5, SMTT(40)
<1>7. QED  BY <1>1, <1>3, <1>6 DEF c, keys

-----------------------------------------------------------------------------
(* The coordinator's steps.                                                    *)

(* Nothing of the call's decision depends on the child processes, nor on which keys
   the refresher has swapped in meanwhile. *)
LEMMA CallFrame ==
  ASSUME CallInv, call' = call, now' \in Nat,
         call.st \in {"validate", "handler", "authorize"} =>
           /\ coord'.st = "up" /\ coord'.cli = coord.cli /\ coord'.bindings = coord.bindings
           /\ coord.cell # <<>> => coord'.cell # <<>>
  PROVE  CallInv'
<1> DEFINE Busy == call.st \in {"validate", "handler", "authorize"}
<1>1. Busy => \A from : KeyDoc(from)' = KeyDoc(from)
  BY SMTT(40) DEF KeyDoc
<1>2. Busy => Caller' = Caller
  BY DEF Caller, Authentic, TrustedDoc, Bearer
<1>3. Busy => \A subject, kind, h, run_as :
        authorize(subject, kind, h, run_as)' = authorize(subject, kind, h, run_as)
  BY DEF authorize
<1>4. call.st = "validate" => from_jwks_json(KeyDoc(call.from))' = from_jwks_json(KeyDoc(call.from))
  BY DEF KeyDoc
<1>5. QED  BY <1>2, <1>3, <1>4 DEF CallInv

(* Start-up: a coordinator that serves was given a sound policy, and keys if it
   asks its operators for tokens. *)
LEMMA StartStep ==
  ASSUME AccessInv, NEW cli \in CommandLines, Start(cli)
  PROVE  AccessInv'
<1>1. PICK fetched \in fetch_bytes :
        LET auth == build_operator_auth(cli, fetched)
            engine == build_policy_engine(cli)
        IN coord' = IF auth.ok /\ engine.ok /\ build_inventory_sink(cli)
                    THEN [st |-> "up", cell |-> auth.cell, bindings |-> engine.bindings,
                          leeway |-> cli.leeway, live |-> auth.live, from |-> served, cli |-> cli]
                    ELSE [Down EXCEPT !.st = "refused"]
  BY DEF Start
<1> DEFINE auth == build_operator_auth(cli, fetched)
           engine == build_policy_engine(cli)
           doc == IF cli.jwks # <<>> THEN cli.jwks[1] ELSE Documents[served]
<1>2. coord.st = "down" /\ UNCHANGED <<served, inflight, now, call>>
  BY DEF Start
<1>3. inflight = <<>> /\ call.st \notin {"validate", "handler", "authorize"}
  BY <1>2 DEF AccessInv, FetchInv, CallInv
<1>4. CASE ~(auth.ok /\ engine.ok /\ build_inventory_sink(cli))
  <2>1. coord' = [Down EXCEPT !.st = "refused"]
    BY <1>1, <1>4
  <2>2. coord'.st = "refused" /\ ~coord'.live
    BY <2>1 DEF Down
  <2>3. QED  BY <1>2, <1>3, <2>2 DEF AccessInv, CoordInv, FetchInv, CallInv
<1>5. CASE auth.ok /\ engine.ok /\ build_inventory_sink(cli)
  <2>1. coord' = [st |-> "up", cell |-> auth.cell, bindings |-> engine.bindings,
                  leeway |-> cli.leeway, live |-> auth.live, from |-> served, cli |-> cli]
    BY <1>1, <1>5
  <2>2. auth.ok /\ engine.ok
    BY <1>5
  <2> HIDE DEF engine
  <2>3. fetched = <<>> \/ fetched = <<Documents[served]>>
    BY DEF fetch_bytes
  <2>4. auth.cell # <<>> => cli.leeway <= MAX_LEEWAY_SECS /\ auth.cell = from_jwks_json(doc)
    BY <2>2, <2>3 DEF build_operator_auth
  <2>5. auth.live => auth.cell # <<>> /\ cli.jwks = <<>>
    BY <2>2 DEF build_operator_auth
  <2>6. KeyDoc(coord.from)' = doc
    BY <2>1 DEF KeyDoc
  <2> HIDE DEF auth, doc
  <2>7. /\ DOMAIN coord' = CoordFields
        /\ coord'.st = "up" /\ coord'.cell = auth.cell /\ coord'.bindings = engine.bindings
        /\ coord'.leeway = cli.leeway /\ coord'.live = auth.live /\ coord'.from = served
        /\ coord'.cli = cli
    BY <2>1 DEF CoordFields
  <2>8. CoordInv'
    BY <2>2, <2>4, <2>5, <2>6, <2>7 DEF CoordInv, engine
  <2>9. QED  BY <1>2, <1>3, <2>8 DEF AccessInv, FetchInv, CallInv
<1>6. QED  BY <1>4, <1>5

\* A coordinator record with other keys.
WithKeys(c, keys, newer) == [c EXCEPT !.cell = keys, !.from = newer]

SwapOf(c, keys, newer, d) ==
  /\ DOMAIN d = CoordFields
  /\ d.cell = keys /\ d.from = newer
  /\ d.st = c.st /\ d.bindings = c.bindings /\ d.leeway = c.leeway
  /\ d.live = c.live /\ d.cli = c.cli

(* What a swap leaves of a running coordinator's record. *)
LEMMA SwappedKeys ==
  ASSUME NEW c, NEW keys, NEW newer, DOMAIN c = CoordFields
  PROVE  SwapOf(c, keys, newer, WithKeys(c, keys, newer))
  BY DEF CoordFields, WithKeys, SwapOf

(* The refresher replaces the keys by those of a document the issuer served, and
   nothing else (spawn_refresh). *)
LEMMA SwapStep ==
  ASSUME AccessInv, Swap
  PROVE  AccessInv'
<1>1. /\ inflight # <<>> /\ coord' = Refreshed(inflight[1]) /\ inflight' = <<>>
      /\ UNCHANGED <<served, now, call>>
  BY DEF Swap
<1>2. /\ coord.st = "up" /\ coord.live /\ coord.cli.jwks = <<>>
      /\ inflight[1].doc # <<>> => inflight[1].doc = <<Documents[inflight[1].from]>>
  BY <1>1 DEF AccessInv, FetchInv, CoordInv
<1> DEFINE r == inflight[1]
           keys == IF r.doc = <<>> THEN <<>> ELSE from_jwks_json(r.doc[1])
<1>3. CASE keys = <<>>
  <2>1. coord' = coord
    BY <1>1, <1>3 DEF Refreshed
  <2>2. CoordInv'
    BY <2>1 DEF AccessInv, CoordInv, KeyDoc
  <2>3. CallInv'
    BY <1>1, <2>1, CallFrame DEF AccessInv, CallInv
  <2>4. QED  BY <1>1, <2>2, <2>3 DEF AccessInv, FetchInv
<1>4. CASE keys # <<>>
  <2>1. coord' = WithKeys(coord, keys, r.from)
    BY <1>1, <1>4 DEF Refreshed, WithKeys
  <2>2. keys = from_jwks_json(Documents[r.from])
    BY <1>2, <1>4
  <2> HIDE DEF keys, r
  <2>4. DOMAIN coord = CoordFields
    BY <1>2 DEF AccessInv, CoordInv
  <2>5. /\ DOMAIN coord' = CoordFields
        /\ coord'.st = "up" /\ coord'.cell = keys /\ coord'.bindings = coord.bindings
        /\ coord'.leeway = coord.leeway /\ coord'.live = coord.live /\ coord'.from = r.from
        /\ coord'.cli = coord.cli
    <3>1. SwapOf(coord, keys, r.from, coord')
      BY <2>1, <2>4, SwappedKeys
    <3>2. QED  BY <1>2, <3>1 DEF SwapOf
  <2>6. KeyDoc(coord.from)' = Documents[r.from]
    BY <1>2, <2>5 DEF KeyDoc
  <2>7. CoordInv'
    BY <1>2, <1>4, <2>2, <2>5, <2>6 DEF AccessInv, CoordInv
  <2>8. CallInv'
    BY <1>1, <1>4, <2>5, CallFrame DEF AccessInv, CallInv
  <2>9. QED  BY <1>1, <2>7, <2>8 DEF AccessInv, FetchInv
<1>5. QED  BY <1>3, <1>4

(* The interceptor's decision: the call goes on as nobody's only without OIDC, or
   with the keys of the moment. *)
LEMMA InterceptStep ==
  ASSUME AccessInv, NEW req \in Requests, Intercept(req)
  PROVE  CallInv'
<1>1. /\ coord.st = "up" /\ UNCHANGED <<coord, served, inflight, now>>
      /\ call' = IF ~build_router
                 THEN [st |-> "handler", req |-> req, subject |-> operator_of(<<>>),
                       from |-> coord.from, at |-> now]
                 ELSE IF bearer_token(req) = <<>> THEN [st |-> "unauthenticated"]
                 ELSE [st |-> "validate", req |-> req, keys |-> coord.cell[1], from |-> coord.from]
  BY DEF Intercept
<1>2. CASE ~build_router
  <2>1. call' = [st |-> "handler", req |-> req, subject |-> operator_of(<<>>),
                 from |-> coord.from, at |-> now]
    BY <1>1, <1>2
  <2>2. call'.st = "handler" /\ call'.req = req /\ call'.subject = ANONYMOUS_SUBJECT
    BY <2>1 DEF operator_of
  <2>3. QED  BY <1>1, <2>2 DEF AccessInv, CallInv, Caller
<1>3. CASE build_router /\ bearer_token(req) = <<>>
  <2>1. call'.st = "unauthenticated"
    BY <1>1, <1>3
  <2>2. QED  BY <1>1, <2>1 DEF AccessInv, CallInv
<1>4. CASE build_router /\ bearer_token(req) # <<>>
  <2>1. call' = [st |-> "validate", req |-> req, keys |-> coord.cell[1], from |-> coord.from]
    BY <1>1, <1>4
  <2>2. call'.st = "validate" /\ call'.req = req /\ call'.keys = coord.cell[1]
        /\ call'.from = coord.from
    BY <2>1
  <2>3. coord.cell # <<>> /\ coord.cell = from_jwks_json(KeyDoc(coord.from))
    BY <1>1, <1>4 DEF build_router, AccessInv, CoordInv
  <2>4. KeyDoc(call.from)' = KeyDoc(coord.from)
    BY <1>1, <2>2 DEF KeyDoc
  <2>5. QED  BY <1>1, <1>4, <2>2, <2>3, <2>4 DEF AccessInv, CallInv
<1>5. QED  BY <1>2, <1>3, <1>4

(* A call that passes the validator is its token's subject. *)
LEMMA ValidateStep ==
  ASSUME AccessInv, Validate
  PROVE  CallInv'
<1> DEFINE tok == bearer_token(call.req)[1]
           sub == validate(call.keys, coord.leeway, tok, now)
<1>1. /\ call.st = "validate" /\ UNCHANGED <<coord, served, inflight, now>>
      /\ call' = IF sub = <<>> THEN [st |-> "unauthenticated"]
                 ELSE [st |-> "handler", req |-> call.req, subject |-> operator_of(sub),
                       from |-> call.from, at |-> now]
  BY DEF Validate
<1>2. /\ coord.st = "up" /\ call.req \in Requests /\ now \in Nat
      /\ coord.cell # <<>> /\ bearer_token(call.req) # <<>>
      /\ from_jwks_json(KeyDoc(call.from)) # <<>>
      /\ call.keys = from_jwks_json(KeyDoc(call.from))[1]
  BY <1>1 DEF AccessInv, CallInv
<1>3. coord.leeway \in Nat /\ coord.leeway <= MAX_LEEWAY_SECS
  BY <1>2, AccessAssumption DEF AccessInv, CoordInv
<1>4. CASE sub = <<>>
  <2>1. call'.st = "unauthenticated"
    BY <1>1, <1>4
  <2>2. QED  BY <1>1, <2>1 DEF AccessInv, CallInv
<1>5. CASE sub # <<>>
  <2>1. call' = [st |-> "handler", req |-> call.req, subject |-> operator_of(sub),
                 from |-> call.from, at |-> now]
    BY <1>1, <1>5
  <2>2. \A x \in DOMAIN tok.claims \cap {"exp", "nbf"} : tok.claims[x] \in Nat
    BY <1>2, ClaimsAssumption
  <2>3. tok = call.req.auth[1].token[1] /\ call.req.auth # <<>>
    BY <1>2 DEF bearer_token
  <2> HIDE DEF tok
  <2> DEFINE doc == KeyDoc(call.from)
             leeway == coord.leeway
  <2>a. /\ from_jwks_json(doc) # <<>> /\ leeway \in Nat /\ leeway <= MAX_LEEWAY_SECS
        /\ sub = validate(from_jwks_json(doc)[1], leeway, tok, now)
    BY <1>2, <1>3
  <2> HIDE DEF doc, leeway, sub
  <2>4. /\ \E k \in DOMAIN doc.keys : doc.keys[k].pub = tok.signer /\ doc.keys[k].kty # "oct"
        /\ tok.claims.iss = Issuer /\ tok.claims.aud = Audience
        /\ tok.claims.exp + MAX_LEEWAY_SECS >= now
        /\ "nbf" \in DOMAIN tok.claims => tok.claims.nbf <= now + MAX_LEEWAY_SECS
        /\ sub = <<tok.claims.sub>>
    BY <1>2, <1>5, <2>2, <2>a, Validated, ZenonT(60)
  <2>5. call'.st = "handler" /\ call'.req = call.req /\ call'.from = call.from /\ call'.at = now
        /\ call'.subject = tok.claims.sub
    BY <2>1, <2>4 DEF operator_of
  <2>6. TrustedDoc' = KeyDoc(call.from)
    BY <1>1, <2>5 DEF TrustedDoc, KeyDoc
  <2>7. Bearer' = tok
    BY <2>3, <2>5 DEF Bearer
  <2>8. Authentic(Bearer)'
    BY <2>4, <2>5, <2>6, <2>7 DEF Authentic, doc
  <2>9. Caller'
    BY <2>3, <2>5, <2>7, <2>8 DEF Caller
  <2>10. QED  BY <1>1, <1>2, <2>5, <2>9 DEF AccessInv, CallInv
<1>6. QED  BY <1>4, <1>5

(* The handler keeps the caller, and allows a host only if the policy does. *)
LEMMA HandlerStep ==
  ASSUME AccessInv, Handle \/ AuthorizeTarget
  PROVE  CallInv'
<1>0. CallInv /\ now \in Nat
  BY DEF AccessInv, CallInv
<1>1. CASE Handle
  <2> DEFINE targets == Targets(call.req)
  <2>1. /\ call.st = "handler" /\ UNCHANGED <<coord, served, inflight, now>>
        /\ call' = IF targets \in {<<>>, <<{}>>} THEN [st |-> "invalid"]
                   ELSE [st |-> "authorize", req |-> call.req, subject |-> call.subject,
                         from |-> call.from, at |-> call.at, todo |-> targets[1], allowed |-> {}]
    BY <1>1 DEF Handle
  <2> HIDE DEF targets
  <2>2. CASE targets \in {<<>>, <<{}>>}
    <3>1. call'.st = "invalid"
      BY <2>1, <2>2
    <3>2. QED  BY <1>0, <2>1, <3>1 DEF CallInv
  <2>3. CASE targets \notin {<<>>, <<{}>>}
    <3>1. call' = [st |-> "authorize", req |-> call.req, subject |-> call.subject,
                   from |-> call.from, at |-> call.at, todo |-> targets[1], allowed |-> {}]
      BY <2>1, <2>3
    <3>2. /\ call'.st = "authorize" /\ call'.req = call.req /\ call'.subject = call.subject
          /\ call'.from = call.from /\ call'.at = call.at /\ call'.allowed = {}
      BY <3>1, SMTT(40)
    <3>3. Caller' = Caller
      BY <2>1, <3>2, ZenonT(60) DEF Caller, Authentic, TrustedDoc, Bearer
    <3>4. QED  BY <1>0, <2>1, <3>2, <3>3 DEF CallInv
  <2>4. QED  BY <2>2, <2>3
<1>2. CASE AuthorizeTarget
  <2>1. call.st = "authorize" /\ UNCHANGED <<coord, served, inflight, now>>
    BY <1>2 DEF AuthorizeTarget
  <2>2. PICK h \in call.todo :
          call' = [call EXCEPT !.todo = @ \ {h}, !.allowed =
                     IF authorize(call.subject, call.req.kind, h, call.req.run_as)
                     THEN @ \cup {h} ELSE @]
    BY <1>2 DEF AuthorizeTarget
  <2>3. /\ call'.st = call.st /\ call'.req = call.req /\ call'.subject = call.subject
        /\ call'.from = call.from /\ call'.at = call.at
        /\ \A g \in call'.allowed : g \in call.allowed
             \/ authorize(call.subject, call.req.kind, g, call.req.run_as)
    BY <2>2, <2>1 DEF CallInv
  <2>4. Caller' = Caller
    BY <2>1, <2>3 DEF Caller, Authentic, TrustedDoc, Bearer
  <2>5. \A g : authorize(call.subject, call.req.kind, g, call.req.run_as)'
               = authorize(call.subject, call.req.kind, g, call.req.run_as)
    BY <2>1, <2>3 DEF authorize
  <2>6. QED  BY <1>0, <2>1, <2>3, <2>4, <2>5 DEF CallInv
<1>3. QED  BY <1>1, <1>2

(* Every step of the coordinator and of its issuer keeps the access invariant. *)
LEMMA AccessInvStep ==
  ASSUME AccessInv, AccessStep \/ UNCHANGED accessVars
  PROVE  AccessInv'
<1> USE DEF accessVars
<1>1. ASSUME UNCHANGED coord, UNCHANGED inflight, CallInv' PROVE AccessInv'
  BY <1>1 DEF AccessInv, CoordInv, FetchInv, KeyDoc
<1>2. ASSUME NEW cli \in CommandLines, Start(cli) PROVE AccessInv'
  BY <1>2, StartStep
<1>3. CASE Rotate \/ Tick \/ UNCHANGED accessVars
  <2>1. UNCHANGED <<coord, inflight, call>> /\ now' \in Nat
    BY <1>3 DEF Rotate, Tick, AccessInv, CallInv
  <2>2. CallInv'
    BY <2>1, CallFrame DEF AccessInv, CallInv
  <2>3. QED  BY <1>1, <2>1, <2>2
<1>4. CASE Fetch
  <2>1. PICK r \in fetch_bytes : inflight' = <<[doc |-> r, from |-> served]>>
    BY <1>4 DEF Fetch
  <2>2. coord.live /\ UNCHANGED <<coord, served, now, call>>
    BY <1>4 DEF Fetch
  <2>3. r = <<>> \/ r = <<Documents[served]>>
    BY DEF fetch_bytes
  <2>4. FetchInv'
    BY <2>1, <2>2, <2>3 DEF AccessInv, CoordInv, FetchInv
  <2>5. CallInv'
    BY <2>2, CallFrame DEF AccessInv, CallInv
  <2>6. QED  BY <2>2, <2>4, <2>5 DEF AccessInv, CoordInv, KeyDoc
<1>5. CASE Swap
  BY <1>5, SwapStep
<1>6. ASSUME NEW req \in Requests, Intercept(req) PROVE AccessInv'
  BY <1>1, <1>6, InterceptStep DEF Intercept
<1>7. CASE Validate
  BY <1>1, <1>7, ValidateStep DEF Validate
<1>8. CASE Handle \/ AuthorizeTarget
  BY <1>1, <1>8, HandlerStep DEF Handle, AuthorizeTarget
<1>9. QED  BY <1>2, <1>3, <1>4, <1>5, <1>6, <1>7, <1>8 DEF AccessStep

-----------------------------------------------------------------------------
(* The calls before the program.                                               *)

(* A sequence of five is its elements. *)
LEMMA FiveElements ==
  ASSUME NEW S, NEW s \in Seq(S), Len(s) = 5
  PROVE  s = <<s[1], s[2], s[3], s[4], s[5]>>
  OBVIOUS

(* A shell of another user first leaves the agent's session, then its identity. *)
LEMMA ShellSteps ==
  <<"setsid", "TIOCSCTTY">> \o Drops = <<"setsid", "TIOCSCTTY", "setgid", "setgroups", "setuid">>
<1> DEFINE a == <<"setsid", "TIOCSCTTY">>
           b == <<"setgid", "setgroups", "setuid">>
           S == {"setsid", "TIOCSCTTY", "setgid", "setgroups", "setuid"}
           c == a \o b
<1>1. a \in Seq(S) /\ b \in Seq(S)
  OBVIOUS
<1>2. /\ Len(a) = 2 /\ a[1] = "setsid" /\ a[2] = "TIOCSCTTY"
      /\ Len(b) = 3 /\ b[1] = "setgid" /\ b[2] = "setgroups" /\ b[3] = "setuid"
  OBVIOUS
<1> HIDE DEF a, b, S
<1>3. /\ c \in Seq(S) /\ Len(c) = Len(a) + Len(b)
      /\ \A i \in 1 .. Len(a) + Len(b) : c[i] = IF i <= Len(a) THEN a[i] ELSE b[i - Len(a)]
  BY <1>1, ConcatProperties, Zenon
<1> HIDE DEF c
<1>4. /\ Len(c) = 5 /\ c[1] = "setsid" /\ c[2] = "TIOCSCTTY" /\ c[3] = "setgid"
      /\ c[4] = "setgroups" /\ c[5] = "setuid"
  BY <1>2, <1>3
<1>5. c = <<"setsid", "TIOCSCTTY", "setgid", "setgroups", "setuid">>
  BY <1>3, <1>4, FiveElements
<1>6. QED  BY <1>5 DEF c, a, b, Drops

(* What is to be done before the program runs (PtySession::spawn, exec::stream). *)
LEMMA StepsOf ==
  ASSUME NEW kind \in Kinds, NEW user
  PROVE  PreExecSteps(kind, user) =
           IF user = ""
           THEN IF kind = "shell" THEN <<"setsid", "TIOCSCTTY">> ELSE <<>>
           ELSE IF kind = "shell" THEN <<"setsid", "TIOCSCTTY", "setgid", "setgroups", "setuid">>
                                  ELSE Drops
<1>1. /\ <<>> \o <<>> = <<>>
      /\ <<"setsid", "TIOCSCTTY">> \o <<>> = <<"setsid", "TIOCSCTTY">>
  OBVIOUS
<1>2. <<>> \o Drops = Drops
  BY DEF Drops
<1> DEFINE a == IF kind = "shell" THEN <<"setsid", "TIOCSCTTY">> ELSE <<>>
           b == IF user = "" THEN <<>> ELSE Drops
<1>3. PreExecSteps(kind, user) = a \o b
  BY DEF PreExecSteps, drop_privileges, Drops
<1>4. CASE kind = "shell" /\ user # ""
  <2>1. a = <<"setsid", "TIOCSCTTY">> /\ b = Drops
    BY <1>4
  <2> HIDE DEF a, b
  <2>2. QED  BY <1>3, <1>4, <2>1, ShellSteps
<1>5. CASE kind = "shell" /\ user = ""
  <2>1. a = <<"setsid", "TIOCSCTTY">> /\ b = <<>>
    BY <1>5
  <2> HIDE DEF a, b
  <2>2. QED  BY <1>1, <1>3, <1>5, <2>1
<1>6. CASE kind = "exec" /\ user # ""
  <2>1. a = <<>> /\ b = Drops
    BY <1>6
  <2> HIDE DEF a, b
  <2>2. QED  BY <1>2, <1>3, <1>6, <2>1
<1>7. CASE kind = "exec" /\ user = ""
  <2>1. a = <<>> /\ b = <<>>
    BY <1>7
  <2> HIDE DEF a, b
  <2>2. QED  BY <1>1, <1>3, <1>7, <2>1
<1>8. QED  BY <1>4, <1>5, <1>6, <1>7 DEF Kinds

(* The steps, one after the other. *)
LEMMA TodoTails ==
  /\ Head(<<"setsid", "TIOCSCTTY", "setgid", "setgroups", "setuid">>) = "setsid"
  /\ Tail(<<"setsid", "TIOCSCTTY", "setgid", "setgroups", "setuid">>)
       = <<"TIOCSCTTY", "setgid", "setgroups", "setuid">>
  /\ Head(<<"TIOCSCTTY", "setgid", "setgroups", "setuid">>) = "TIOCSCTTY"
  /\ Tail(<<"TIOCSCTTY", "setgid", "setgroups", "setuid">>) = Drops
  /\ Head(Drops) = "setgid" /\ Tail(Drops) = <<"setgroups", "setuid">>
  /\ Head(<<"setgroups", "setuid">>) = "setgroups"
  /\ Tail(<<"setgroups", "setuid">>) = <<"setuid">>
  /\ Head(<<"setuid">>) = "setuid" /\ Tail(<<"setuid">>) = <<>>
  /\ Head(<<"setsid", "TIOCSCTTY">>) = "setsid"
  /\ Tail(<<"setsid", "TIOCSCTTY">>) = <<"TIOCSCTTY">>
  /\ Head(<<"TIOCSCTTY">>) = "TIOCSCTTY" /\ Tail(<<"TIOCSCTTY">>) = <<>>
  BY DEF Drops

\* q is p with what a step of pre_exec changes.
Stepped(p, q, todo, creds) ==
  /\ q \in ProcRec /\ q.todo = todo /\ q.creds = creds
  /\ q.st = p.st /\ q.user = p.user /\ q.env = p.env

(* The records that Did builds. *)
LEMMA DidRecords ==
  ASSUME NEW p \in ProcRec, NEW todo \in Todos, NEW n \in Nat, NEW step \in {"setsid", "TIOCSCTTY"}
  PROVE  LET q == [p EXCEPT !.todo = todo] IN
         /\ Stepped(p, [q EXCEPT !.creds.gid = n], todo, [p.creds EXCEPT !.gid = n])
         /\ Stepped(p, [q EXCEPT !.creds.groups = {n}], todo, [p.creds EXCEPT !.groups = {n}])
         /\ Stepped(p, [q EXCEPT !.creds.uid = n], todo, [p.creds EXCEPT !.uid = n])
         /\ Stepped(p, [q EXCEPT !.isolated = @ \cup {step}], todo, p.creds)
<1> DEFINE q == [p EXCEPT !.todo = todo]
<1>1. /\ q \in ProcRec /\ q.todo = todo /\ q.creds = p.creds /\ q.creds \in Creds
      /\ q.st = p.st /\ q.user = p.user /\ q.env = p.env
      /\ q.isolated \in SUBSET {"setsid", "TIOCSCTTY"}
  BY DEF ProcRec
<1> HIDE DEF q
<1>2. /\ [q.creds EXCEPT !.gid = n] \in Creds
      /\ [q.creds EXCEPT !.groups = {n}] \in Creds
      /\ [q.creds EXCEPT !.uid = n] \in Creds
  BY <1>1 DEF Creds
<1>3. ASSUME NEW c \in Creds
      PROVE  Stepped(p, [q EXCEPT !.creds = c], todo, c)
  BY <1>1 DEF ProcRec, Stepped
<1>4. Stepped(p, [q EXCEPT !.isolated = @ \cup {step}], todo, p.creds)
  BY <1>1 DEF ProcRec, Stepped
<1>5. Stepped(p, [q EXCEPT !.creds.gid = n], todo, [p.creds EXCEPT !.gid = n])
  BY <1>1, <1>2, <1>3
<1>6. Stepped(p, [q EXCEPT !.creds.groups = {n}], todo, [p.creds EXCEPT !.groups = {n}])
  BY <1>1, <1>2, <1>3
<1>7. Stepped(p, [q EXCEPT !.creds.uid = n], todo, [p.creds EXCEPT !.uid = n])
  BY <1>1, <1>2, <1>3
<1>8. QED  BY <1>4, <1>5, <1>6, <1>7 DEF q

(* Credentials are their three parts. *)
LEMMA CredsUid ==
  ASSUME NEW c \in Creds, NEW a
  PROVE  [c EXCEPT !.uid = a] = [uid |-> a, gid |-> c.gid, groups |-> c.groups]
  BY DEF Creds

(* Each call of pre_exec moves the child one step from the agent's identity to the
   target user's, in an order in which none can be skipped (drop_privileges). *)
LEMMA DidStep ==
  ASSUME NEW h \in Hosts, NEW p \in ProcRec, Identity(h, p), p.st = "pre", p.todo # <<>>
  PROVE  LET q == Did(p, Head(p.todo)) IN
         q \in ProcRec /\ Identity(h, q) /\ q.user = p.user /\ q.st = "pre"
<1> DEFINE step == Head(p.todo)
           todo == Tail(p.todo)
           u == Passwd[p.user]
           q == Did(p, Head(p.todo))
<1>1. p.creds \in Creds /\ p.todo \in Todos
  BY DEF ProcRec
<1>2. p.user # "" => u.gid \in Nat /\ u.uid \in Nat
  BY ChildAssumption DEF ProcRec
<1>3. CASE step \in {"setsid", "TIOCSCTTY"}
  <2>1. todo \in Todos
    BY <1>1, <1>3, TodoTails DEF Todos
  <2>2. Stepped(p, q, todo, p.creds)
    BY <1>3, <2>1, DidRecords, ZenonT(60) DEF Did
  <2>3. QED  BY <1>1, <1>3, <2>2, TodoTails, ZenonT(60) DEF Stepped, Identity, Todos
<1>4. CASE step = "setgid"
  <2>1. p.todo = Drops /\ todo = <<"setgroups", "setuid">> /\ p.user # ""
    BY <1>1, <1>4, TodoTails DEF Todos, Identity
  <2>2. todo \in Todos
    BY <2>1, ZenonT(60) DEF Todos
  <2>3. Stepped(p, q, todo, [p.creds EXCEPT !.gid = u.gid])
    BY <1>2, <1>4, <2>1, <2>2, DidRecords, ZenonT(60) DEF Did
  <2>4. [p.creds EXCEPT !.gid = u.gid].gid = u.gid
    BY <1>1 DEF Creds
  <2>5. QED  BY <2>1, <2>3, <2>4 DEF Stepped, Identity
<1>5. CASE step = "setgroups"
  <2>1. p.todo = <<"setgroups", "setuid">> /\ todo = <<"setuid">> /\ p.user # ""
    BY <1>1, <1>5, TodoTails DEF Todos, Identity
  <2>2. todo \in Todos
    BY <2>1, ZenonT(60) DEF Todos
  <2>3. Stepped(p, q, todo, [p.creds EXCEPT !.groups = {u.gid}])
    BY <1>2, <1>5, <2>1, <2>2, DidRecords, ZenonT(60) DEF Did
  <2>4. p.creds.gid = u.gid
    <3>1. /\ p.todo \notin {<<"setsid", "TIOCSCTTY", "setgid", "setgroups", "setuid">>,
                            <<"TIOCSCTTY", "setgid", "setgroups", "setuid">>, Drops}
          /\ p.todo # <<"setuid">> /\ p.todo # <<>>
      BY <1>5, TodoTails
    <3>2. QED  BY <2>1, <3>1 DEF Identity
  <2>5. /\ [p.creds EXCEPT !.groups = {u.gid}].gid = u.gid
        /\ [p.creds EXCEPT !.groups = {u.gid}].groups = {u.gid}
    BY <1>1, <2>4 DEF Creds
  <2>6. QED  BY <2>1, <2>3, <2>5 DEF Stepped, Identity
<1>6. CASE step = "setuid"
  <2>1. p.todo = <<"setuid">> /\ todo = <<>> /\ p.user # ""
    BY <1>1, <1>6, TodoTails, ZenonT(60) DEF Todos, Identity
  <2>2. todo \in Todos
    BY <2>1 DEF Todos
  <2>3. Stepped(p, q, todo, [p.creds EXCEPT !.uid = u.uid])
    BY <1>2, <1>6, <2>1, <2>2, DidRecords, ZenonT(60) DEF Did
  <2>4. p.creds.gid = u.gid /\ p.creds.groups = {u.gid}
    <3>1. /\ p.todo \notin {<<"setsid", "TIOCSCTTY", "setgid", "setgroups", "setuid">>,
                            <<"TIOCSCTTY", "setgid", "setgroups", "setuid">>, Drops}
          /\ p.todo # <<"setgroups", "setuid">> /\ p.todo # <<>>
      BY <1>6, TodoTails
    <3>2. QED  BY <2>1, <3>1 DEF Identity
  <2>5. [p.creds EXCEPT !.uid = u.uid] = [uid |-> u.uid, gid |-> u.gid, groups |-> {u.gid}]
    BY <1>1, <2>4, CredsUid, ZenonT(60)
  <2>6. QED  BY <2>1, <2>3, <2>5 DEF Stepped, Identity
<1>7. QED
  BY <1>1, <1>3, <1>4, <1>5, <1>6, TodoTails DEF Todos

-----------------------------------------------------------------------------
(* The host's steps.                                                           *)

\* What a step of one host leaves alone.
OnlyAt(h) ==
  /\ DOMAIN proc' = Hosts /\ DOMAIN task' = Hosts
  /\ \A g \in Hosts \ {h} : proc'[g] = proc[g] /\ task'[g] = task[g]
  /\ UNCHANGED accessVars

(* A step of one host keeps the invariant if it does so there. *)
LEMMA ChildFrame ==
  ASSUME ChildInv, NEW h \in Hosts, OnlyAt(h),
         ProcOk(h, proc'[h]), TaskOk(task'[h], proc'[h])
  PROVE  ChildInv'
<1>1. \A g \in Hosts : ProcOk(g, proc'[g]) /\ TaskOk(task'[g], proc'[g])
  BY DEF ChildInv, OnlyAt
<1>2. UNCHANGED call
  BY DEF OnlyAt, accessVars
<1>3. \A g \in Hosts : ProcOk(g, proc[g])'
  BY <1>1, <1>2 DEF ProcOk, Permitted
<1>4. \A g \in Hosts : TaskOk(task[g], proc[g])'
  BY <1>1 DEF TaskOk, Delivered
<1>5. QED  BY <1>3, <1>4 DEF ChildInv, OnlyAt

\* A program goes on as whom it is.
Same(p, q) ==
  /\ q \in ProcRec /\ q.st # "pre"
  /\ q.user = p.user /\ q.todo = p.todo /\ q.creds = p.creds /\ q.env = p.env

(* A program that goes on as whom it is stays permitted. *)
LEMMA SameOk ==
  ASSUME NEW h, NEW p, NEW q, ProcOk(h, p), p \in ProcRec, p.todo = <<>>, Same(p, q)
  PROVE  ProcOk(h, q)
<1>1. p # NoProc
  <2>1. NoProc.st = "none"
    BY DEF NoProc
  <2>2. p.st # "none"
    BY DEF ProcRec
  <2>3. QED  BY <2>1, <2>2
<1>2. QED  BY <1>1 DEF ProcOk, Identity, Permitted, Same

(* A program that has started has nothing left to do first, and its task pumps, or is
   over, or gave it up. *)
LEMMA Going ==
  ASSUME ChildInv, NEW h \in Hosts, Started(h)
  PROVE  /\ proc[h] \in ProcRec /\ proc[h].todo = <<>> /\ ProcOk(h, proc[h])
         /\ \/ task[h] = Failed
            \/ task[h] \in TaskRec /\ Delivered(task[h], proc[h])
<1>1. proc[h] # NoProc
  BY DEF Started, NoProc
<1>2. proc[h] \in ProcRec /\ proc[h].st # "pre" /\ Identity(h, proc[h])
  BY <1>1 DEF ChildInv, ProcOk, Started
<1>3. QED  BY <1>1, <1>2 DEF ChildInv, TaskOk, Identity

(* One more chunk on a stream. *)
LEMMA OneMore ==
  ASSUME NEW f \in [Streams -> Nat], NEW s \in Streams
  PROVE  /\ [f EXCEPT ![s] = @ + 1] \in [Streams -> Nat]
         /\ \A x \in Streams :
              [f EXCEPT ![s] = @ + 1][x] = IF x = s THEN f[x] + 1 ELSE f[x]
  OBVIOUS

(* The program writes to a pipe. *)
LEMMA WriteStep ==
  ASSUME ChildInv, NEW h \in Hosts, NEW s \in Streams, Write(h, s), UNCHANGED accessVars
  PROVE  ChildInv'
<1> DEFINE p == proc[h]
           t == task[h]
           q == [p EXCEPT !.wrote[s] = @ + 1]
<1>1. Started(h) /\ t.st = "pump" /\ Holders(h, s)
  BY DEF Write
<1>2. p \in ProcRec /\ p.todo = <<>> /\ ProcOk(h, p) /\ t \in TaskRec /\ Delivered(t, p)
  BY <1>1, Going DEF Failed
<1>3. proc' = [proc EXCEPT ![h] = q] /\ UNCHANGED task
  BY DEF Write
<1>4. OnlyAt(h) /\ proc'[h] = q /\ task'[h] = t
  BY <1>3 DEF OnlyAt, ChildInv
<1>5. /\ Same(p, q) /\ q.st = p.st /\ q.held = p.held /\ q.heirs = p.heirs
      /\ \A x \in Streams : q.wrote[x] = IF x = s THEN p.wrote[x] + 1 ELSE p.wrote[x]
  <2> DEFINE w == [p.wrote EXCEPT ![s] = @ + 1]
  <2>1. /\ w \in [Streams -> Nat]
        /\ \A x \in Streams : w[x] = IF x = s THEN p.wrote[x] + 1 ELSE p.wrote[x]
    <3>1. p.wrote \in [Streams -> Nat]
      BY <1>2 DEF ProcRec
    <3> HIDE DEF p
    <3>2. QED  BY <3>1, OneMore
  <2>2. q = [p EXCEPT !.wrote = w]
    OBVIOUS
  <2> HIDE DEF w, q
  <2>3. /\ q \in ProcRec /\ q.user = p.user /\ q.todo = p.todo /\ q.creds = p.creds
        /\ q.env = p.env /\ q.st = p.st /\ q.held = p.held /\ q.heirs = p.heirs /\ q.wrote = w
    BY <1>2, <2>1, <2>2 DEF ProcRec
  <2>4. QED  BY <1>2, <2>1, <2>3 DEF Same, Delivered
<1> HIDE DEF p, q, t
<1>6. Delivered(t, q)
  <2>1. /\ t.got \in [Streams -> Nat] /\ t.eof \subseteq Streams
        /\ p.wrote \in [Streams -> Nat]
    BY <1>2 DEF TaskRec, ProcRec
  <2>2. s \notin t.eof
    BY <1>1, <1>2 DEF Delivered, Holders, p
  <2>3. \A x \in Streams : t.got[x] <= q.wrote[x]
    BY <1>2, <1>5, <2>1 DEF Delivered
  <2>4. \A x \in t.eof : t.got[x] = q.wrote[x] /\ x \notin q.held /\ x \notin q.heirs
    BY <1>2, <1>5, <2>1, <2>2 DEF Delivered
  <2>5. QED  BY <1>1, <1>5, <2>3, <2>4 DEF Delivered, Same
<1>7. QED  BY <1>2, <1>4, <1>5, <1>6, SameOk, ChildFrame DEF TaskOk, p

\* A program that writes nothing and whose streams have no new holder; a pump that
\* reads nothing and does not claim to be complete.
Quieter(p, q) ==
  /\ Same(p, q) /\ q.wrote = p.wrote
  /\ q.held \subseteq p.held /\ q.heirs \subseteq p.held \cup p.heirs

Later(t, u) ==
  /\ u \in TaskRec /\ u.got = t.got /\ u.eof = t.eof
  /\ u.st \in {"wait", "done"} /\ ~u.truncated /\ ~u.timed_out => u.eof = Streams

(* Whatever neither writes nor reads keeps the invariant. *)
LEMMA QuietStep ==
  ASSUME ChildInv, NEW h \in Hosts, Started(h), OnlyAt(h), Quieter(proc[h], proc'[h]),
         task'[h] = task[h] \/ (task[h] \in TaskRec /\ Later(task[h], task'[h]))
  PROVE  ChildInv'
<1> DEFINE p == proc[h]
           q == proc'[h]
           t == task[h]
           u == task'[h]
<1>1. /\ p \in ProcRec /\ p.todo = <<>> /\ ProcOk(h, p)
      /\ t = Failed \/ (t \in TaskRec /\ Delivered(t, p))
  BY Going, Zenon
<1>2. t \in TaskRec => t # Failed
  <2>1. Failed.st = "failed"
    BY DEF Failed
  <2>2. QED  BY <2>1 DEF TaskRec
<1>3. Quieter(p, q) /\ (u = t \/ (t \in TaskRec /\ Later(t, u)))
  OBVIOUS
<1> HIDE DEF p, q, t, u
<1>4. ProcOk(h, q)
  BY <1>1, <1>3, SameOk DEF Quieter
<1>5. CASE t = Failed
  BY <1>2, <1>3, <1>4, <1>5, ChildFrame DEF Quieter, Same, TaskOk, q, u
<1>6. CASE t \in TaskRec /\ Delivered(t, p)
  <2>1. u \in TaskRec /\ Later(t, u)
    BY <1>3, <1>6 DEF Later, Delivered
  <2>2. Delivered(u, q)
    BY <1>3, <1>6, <2>1 DEF Delivered, Later, Quieter, Same
  <2>3. QED  BY <1>4, <2>1, <2>2, ChildFrame DEF TaskOk, q, u
<1>7. QED  BY <1>1, <1>5, <1>6

(* The records that the program's other steps build. *)
LEMMA QuietStreams ==
  ASSUME NEW p \in ProcRec, p.st # "pre", NEW S \in SUBSET p.held
  PROVE  Quieter(p, [p EXCEPT !.held = S]) /\ Quieter(p, [p EXCEPT !.heirs = S])
<1> USE DEF ProcRec, Same, Quieter
<1>1. Quieter(p, [p EXCEPT !.held = S])  OBVIOUS
<1>2. Quieter(p, [p EXCEPT !.heirs = S])  OBVIOUS
<1>3. QED  BY <1>1, <1>2

(* As before, for its group, its end and the signals. *)
LEMMA QuietRecords ==
  ASSUME NEW p \in ProcRec, p.st # "pre"
  PROVE  /\ Quieter(p, [p EXCEPT !.group = TRUE])
         /\ Quieter(p, [p EXCEPT !.group = FALSE])
         /\ Quieter(p, [p EXCEPT !.st = "reaped"])
         /\ Quieter(p, start_kill(p))
         /\ Quieter(p, Ends(p))
<1> USE DEF ProcRec, Same, Quieter
<1>1. Quieter(p, [p EXCEPT !.group = TRUE])  OBVIOUS
<1>2. Quieter(p, [p EXCEPT !.group = FALSE])  OBVIOUS
<1>3. Quieter(p, [p EXCEPT !.st = "reaped"])  OBVIOUS
<1>4. Quieter(p, start_kill(p))  BY DEF start_kill
<1>5. Quieter(p, Ends(p))  BY DEF Ends
<1>6. QED  BY <1>1, <1>2, <1>3, <1>4, <1>5

(* As before, for the two signals of ShellStream's drop. *)
LEMMA KilledRecord ==
  ASSUME NEW p \in ProcRec, p.st # "pre"
  PROVE  Quieter(p, KillGroup(p))
<1> DEFINE q == start_kill(p)
<1>1. Quieter(p, q)
  BY QuietRecords
<1>2. KillGroup(p) = [q EXCEPT !.group = FALSE]
  BY DEF KillGroup
<1> HIDE DEF q
<1>3. q \in ProcRec /\ q.st # "pre"
  BY <1>1 DEF Quieter, Same
<1>4. Quieter(q, [q EXCEPT !.group = FALSE])
  BY <1>3, QuietRecords
<1>5. QED  BY <1>1, <1>2, <1>4 DEF Quieter, Same

(* Every step of a program that only closes, signals, ends or is reaped. *)
LEMMA ProgramStep ==
  ASSUME ChildInv, NEW h \in Hosts, UNCHANGED accessVars,
         \/ \E s \in Streams : CloseStream(h, s)
         \/ Background(h) \/ HeirEnds(h) \/ StartCommand(h) \/ CommandEnds(h)
         \/ Exit(h) \/ Dies(h) \/ ReapDropped(h)
  PROVE  ChildInv'
<1> DEFINE p == proc[h]
<1>1. Started(h) /\ UNCHANGED task
  BY DEF CloseStream, Background, HeirEnds, StartCommand, CommandEnds, Exit, Dies, ReapDropped,
         Alive, Started
<1>2. p \in ProcRec /\ p.st # "pre"
  BY <1>1, Going DEF Started
<1>3. ASSUME NEW q, proc' = [proc EXCEPT ![h] = q], Quieter(p, q)
      PROVE  ChildInv'
  <2>1. OnlyAt(h) /\ proc'[h] = q /\ task'[h] = task[h]
    BY <1>1, <1>3 DEF OnlyAt, ChildInv
  <2>2. QED  BY <1>1, <1>3, <2>1, QuietStep
<1>4. ASSUME NEW s \in Streams, CloseStream(h, s) PROVE ChildInv'
  BY <1>2, <1>3, <1>4, QuietStreams DEF CloseStream
<1>5. CASE Background(h)
  BY <1>2, <1>3, <1>5, QuietStreams DEF Background
<1>6. CASE HeirEnds(h)
  BY <1>2, <1>3, <1>6, QuietStreams DEF HeirEnds
<1>7. CASE StartCommand(h) \/ CommandEnds(h)
  BY <1>2, <1>3, <1>7, QuietRecords DEF StartCommand, CommandEnds
<1>8. CASE Exit(h) \/ Dies(h)
  BY <1>2, <1>3, <1>8, QuietRecords DEF Exit, Dies
<1>9. CASE ReapDropped(h)
  BY <1>2, <1>3, <1>9, QuietRecords DEF ReapDropped
<1>10. QED  BY <1>4, <1>5, <1>6, <1>7, <1>8, <1>9

(* The records that the agent's task becomes. *)
LEMMA TaskRecords ==
  ASSUME NEW t \in TaskRec
  PROVE  /\ Later(t, [t EXCEPT !.st = "wait", !.timed_out = TRUE])
         /\ Later(t, [t EXCEPT !.st = "dropped"])
         /\ t.st = "wait" /\ (~t.truncated /\ ~t.timed_out => t.eof = Streams) =>
              Later(t, [t EXCEPT !.st = "done"])
  BY DEF TaskRec, Later

(* A pumping task belongs to a program that has started. *)
LEMMA PumpingStarted ==
  ASSUME ChildInv, NEW h \in Hosts, task[h].st \in {"pump", "wait", "done", "dropped"}
  PROVE  /\ Started(h) /\ task[h] \in TaskRec /\ Delivered(task[h], proc[h])
         /\ proc[h] \in ProcRec /\ proc[h].st # "pre"
<1>1. task[h] # NoTask /\ task[h] # Failed /\ task[h] \notin Forked
  BY DEF NoTask, Failed, Forked
<1>2. task[h] \in TaskRec /\ Delivered(task[h], proc[h])
  BY <1>1 DEF ChildInv, TaskOk
<1>3. proc[h] \in ProcRec /\ proc[h].st # "pre"
  BY <1>2 DEF Delivered
<1>4. QED  BY <1>2, <1>3 DEF Started, ProcRec

(* The timeout, the wait for the child and the drop of a shell. *)
LEMMA EndStep ==
  ASSUME ChildInv, NEW h \in Hosts, UNCHANGED accessVars, Timeout(h) \/ Wait(h) \/ Drop(h)
  PROVE  ChildInv'
<1> DEFINE p == proc[h]
           t == task[h]
<1>1. t.st \in {"pump", "wait", "done", "dropped"}
  BY DEF Timeout, Wait, Drop, Pumping
<1>2. /\ Started(h) /\ t \in TaskRec /\ Delivered(t, p)
      /\ p \in ProcRec /\ p.st # "pre"
  BY <1>1, PumpingStarted
<1>3. ASSUME NEW q, proc' = [proc EXCEPT ![h] = q], Quieter(p, q),
             NEW u, task' = [task EXCEPT ![h] = u], Later(t, u)
      PROVE  ChildInv'
  <2>1. OnlyAt(h) /\ proc'[h] = q /\ task'[h] = u
    BY <1>3 DEF OnlyAt, ChildInv
  <2>2. Quieter(proc[h], proc'[h]) /\ task[h] \in TaskRec /\ Later(task[h], task'[h])
    BY <1>2, <1>3, <2>1
  <2>3. QED  BY <1>2, <2>1, <2>2, QuietStep
<1>4. CASE Timeout(h)
  <2> DEFINE u == [t EXCEPT !.st = "wait", !.timed_out = TRUE]
             q == start_kill(p)
  <2>1. Later(t, u) /\ Quieter(p, q)
    BY <1>2, TaskRecords, QuietRecords
  <2>2. proc' = [proc EXCEPT ![h] = q] /\ task' = [task EXCEPT ![h] = u]
    BY <1>4 DEF Timeout, ChildInv
  <2> HIDE DEF p, q, t, u
  <2>3. QED  BY <1>3, <2>1, <2>2
<1>5. CASE Wait(h)
  <2> DEFINE u == [t EXCEPT !.st = "done"]
             q == [p EXCEPT !.st = "reaped"]
  <2>1. t.st = "wait" /\ (~t.truncated /\ ~t.timed_out => t.eof = Streams)
    BY <1>2, <1>5 DEF Wait, Delivered
  <2>2. Later(t, u) /\ Quieter(p, q)
    BY <1>2, <2>1, TaskRecords, QuietRecords
  <2>3. proc' = [proc EXCEPT ![h] = q] /\ task' = [task EXCEPT ![h] = u]
    BY <1>5 DEF Wait
  <2> HIDE DEF p, q, t, u
  <2>4. QED  BY <1>3, <2>2, <2>3
<1>6. CASE Drop(h)
  <2> DEFINE u == [t EXCEPT !.st = "dropped"]
             q == KillGroup(p)
  <2>1. Later(t, u) /\ Quieter(p, q)
    BY <1>2, TaskRecords, KilledRecord
  <2>2. proc' = [proc EXCEPT ![h] = q] /\ task' = [task EXCEPT ![h] = u]
    BY <1>6 DEF Drop
  <2> HIDE DEF p, q, t, u
  <2>3. QED  BY <1>3, <2>1, <2>2
<1>7. QED  BY <1>4, <1>5, <1>6

\* A task that has read one more chunk of s.
ReadOne(t, u, s) ==
  /\ u \in TaskRec /\ u.eof = t.eof
  /\ \A x \in Streams : u.got[x] = IF x = s THEN t.got[x] + 1 ELSE t.got[x]
  /\ u.st = "pump" \/ u.truncated

(* The records that a read builds. *)
LEMMA ReadRecords ==
  ASSUME NEW t \in TaskRec, t.st = "pump", NEW s \in Streams
  PROVE  LET u == [t EXCEPT !.got[s] = @ + 1] IN
         ReadOne(t, u, s) /\ ReadOne(t, [u EXCEPT !.st = "wait", !.truncated = TRUE], s)
<1> DEFINE g == [t.got EXCEPT ![s] = @ + 1]
           u == [t EXCEPT !.got[s] = @ + 1]
           v == [u EXCEPT !.st = "wait", !.truncated = TRUE]
<1>1. t.got \in [Streams -> Nat]
  BY DEF TaskRec
<1>2. g \in [Streams -> Nat] /\ \A x \in Streams : g[x] = IF x = s THEN t.got[x] + 1 ELSE t.got[x]
  BY <1>1, OneMore
<1>3. u = [t EXCEPT !.got = g]
  OBVIOUS
<1> HIDE DEF g, u
<1>4. u \in TaskRec /\ u.eof = t.eof /\ u.got = g /\ u.st = "pump"
  BY <1>2, <1>3 DEF TaskRec
<1>5. v \in TaskRec /\ v.eof = u.eof /\ v.got = u.got /\ v.truncated
  BY <1>4 DEF TaskRec
<1> HIDE DEF v
<1>6. ReadOne(t, u, s) /\ ReadOne(t, v, s)
  BY <1>2, <1>4, <1>5 DEF ReadOne
<1>7. QED  BY <1>6 DEF u, v

(* A chunk that is read was written, and its pipe had not ended. *)
LEMMA ReadChunkStep ==
  ASSUME ChildInv, NEW h \in Hosts, UNCHANGED accessVars, NEW s \in Streams, ReadChunk(h, s)
  PROVE  ChildInv'
<1> DEFINE p == proc[h]
           t == task[h]
           u == [t EXCEPT !.got[s] = @ + 1]
           v == [u EXCEPT !.st = "wait", !.truncated = TRUE]
<1>1. t.st = "pump" /\ s \notin t.eof /\ p.wrote[s] > t.got[s]
  BY DEF ReadChunk, Pumping
<1>2. /\ Started(h) /\ t \in TaskRec /\ Delivered(t, p)
      /\ p \in ProcRec /\ p.st # "pre"
  BY <1>1, PumpingStarted
<1>3. p.todo = <<>> /\ ProcOk(h, p)
  BY <1>2, Going
<1>4. ReadOne(t, u, s) /\ ReadOne(t, v, s)
  BY <1>1, <1>2, ReadRecords
<1>5. Quieter(p, start_kill(p)) /\ Quieter(p, p)
  BY <1>2, QuietRecords DEF Quieter, Same
<1>6. \/ proc' = proc /\ task' = [task EXCEPT ![h] = u]
      \/ proc' = [proc EXCEPT ![h] = start_kill(p)] /\ task' = [task EXCEPT ![h] = v]
  BY DEF ReadChunk
<1> HIDE DEF u, v
<1>7. /\ OnlyAt(h) /\ Quieter(p, proc'[h]) /\ ReadOne(t, task'[h], s)
  BY <1>4, <1>5, <1>6 DEF OnlyAt, ChildInv
<1>8. Delivered(task'[h], proc'[h])
  <2> DEFINE q == proc'[h]
             w == task'[h]
  <2>1. /\ t.got \in [Streams -> Nat] /\ t.eof \subseteq Streams
        /\ p.wrote \in [Streams -> Nat]
    BY <1>2 DEF TaskRec, ProcRec
  <2>2. q \in ProcRec /\ q.st # "pre" /\ q.wrote = p.wrote
    BY <1>7 DEF Quieter, Same
  <2> HIDE DEF p, q, t, w
  <2>3. \A x \in Streams : w.got[x] <= q.wrote[x]
    BY <1>1, <1>2, <1>7, <2>1, <2>2 DEF Delivered, ReadOne, q, w
  <2>4. \A x \in w.eof : w.got[x] = q.wrote[x] /\ x \notin q.held /\ x \notin q.heirs
    BY <1>1, <1>2, <1>7, <2>1, <2>2 DEF Delivered, ReadOne, Quieter, q, w
  <2>5. w.st = "pump" \/ w.truncated
    BY <1>7 DEF ReadOne, w
  <2>6. Delivered(w, q)
    BY <2>2, <2>3, <2>4, <2>5 DEF Delivered
  <2>7. QED  BY <2>6 DEF q, w
<1>9. ProcOk(h, proc'[h])
  BY <1>2, <1>3, <1>7, SameOk DEF Quieter
<1>10. task'[h] \in TaskRec
  BY <1>7 DEF ReadOne
<1>11. QED  BY <1>7, <1>8, <1>9, <1>10, ChildFrame DEF TaskOk

(* A pipe that ends has been read to its end, and nobody is left to write to it. *)
LEMMA ReadEofStep ==
  ASSUME ChildInv, NEW h \in Hosts, UNCHANGED accessVars, NEW s \in Streams, ReadEof(h, s)
  PROVE  ChildInv'
<1> DEFINE p == proc[h]
           t == task[h]
           eof == t.eof \cup {s}
           st == IF PumpDone(eof) THEN "wait" ELSE "pump"
           u == [t EXCEPT !.eof = eof, !.st = st]
<1>1. t.st = "pump" /\ p.wrote[s] = t.got[s] /\ s \notin p.held /\ s \notin p.heirs
  BY DEF ReadEof, Pumping, Holders
<1>2. /\ Started(h) /\ t \in TaskRec /\ Delivered(t, p)
      /\ p \in ProcRec /\ p.st # "pre"
  BY <1>1, PumpingStarted
<1>3. ProcOk(h, p)
  BY DEF ChildInv
<1>4. task' = [task EXCEPT ![h] = u] /\ UNCHANGED proc
  BY DEF ReadEof
<1>5. st \in {"wait", "pump"} /\ (st = "wait" => eof = Streams)
  BY DEF PumpDone
<1>6. eof \in SUBSET Streams
  BY <1>2 DEF TaskRec
<1> HIDE DEF st, eof
<1>7. u \in TaskRec /\ u.eof = eof /\ u.got = t.got /\ u.st = st
  BY <1>2, <1>5, <1>6 DEF TaskRec
<1> HIDE DEF u
<1>8. OnlyAt(h) /\ proc'[h] = p /\ task'[h] = u
  BY <1>4 DEF OnlyAt, ChildInv
<1> HIDE DEF p, t
<1>9. Delivered(u, p)
  BY <1>1, <1>2, <1>5, <1>7 DEF Delivered, eof
<1>10. QED  BY <1>3, <1>7, <1>8, <1>9, ChildFrame DEF TaskOk, p

(* Before its program a child belongs to a task that waits for it. *)
LEMMA Forking ==
  ASSUME ChildInv, NEW h \in Hosts, proc[h].st = "pre"
  PROVE  /\ proc[h] \in ProcRec /\ Identity(h, proc[h]) /\ Permitted(h, proc[h])
         /\ task[h] \in Forked
<1>1. proc[h] # NoProc
  BY DEF NoProc
<1>2. proc[h] \in ProcRec /\ Identity(h, proc[h]) /\ Permitted(h, proc[h])
  BY <1>1 DEF ChildInv, ProcOk
<1>3. ~Delivered(task[h], proc[h])
  BY DEF Delivered
<1>4. QED  BY <1>1, <1>2, <1>3 DEF ChildInv, TaskOk

(* The child's own steps before the program, and their failures. *)
LEMMA BeforeProgram ==
  ASSUME ChildInv, NEW h \in Hosts, UNCHANGED accessVars,
         Abort(h) \/ PreExec(h) \/ Exec(h) \/ MasterFails(h)
  PROVE  ChildInv'
<1> DEFINE p == proc[h]
           t == task[h]
<1>1. p.st = "pre"
  BY DEF Abort, PreExec, Exec, MasterFails
<1>2. p \in ProcRec /\ Identity(h, p) /\ Permitted(h, p) /\ t \in Forked
  BY <1>1, Forking
<1>3. ASSUME NEW q, proc' = [proc EXCEPT ![h] = q], NEW u, task' = [task EXCEPT ![h] = u],
             ProcOk(h, q), TaskOk(u, q)
      PROVE  ChildInv'
  <2>1. OnlyAt(h) /\ proc'[h] = q /\ task'[h] = u
    BY <1>3 DEF OnlyAt, ChildInv
  <2>2. ProcOk(h, proc'[h]) /\ TaskOk(task'[h], proc'[h])
    BY <1>3, <2>1
  <2>3. QED  BY <2>1, <2>2, ChildFrame
<1>4. CASE Abort(h)
  <2>1. proc' = [proc EXCEPT ![h] = NoProc] /\ task' = [task EXCEPT ![h] = Failed]
    BY <1>4 DEF Abort, Fail, Failed
  <2>2. ProcOk(h, NoProc) /\ TaskOk(Failed, NoProc)
    BY DEF ProcOk, TaskOk
  <2>3. QED  BY <1>3, <2>1, <2>2
<1>5. CASE PreExec(h)
  <2> DEFINE q == Did(p, Head(p.todo))
  <2>1. proc' = [proc EXCEPT ![h] = q] /\ task' = task /\ p.todo # <<>>
    BY <1>5 DEF PreExec
  <2>2. q \in ProcRec /\ Identity(h, q) /\ q.user = p.user /\ q.st = "pre"
    BY <1>1, <1>2, <2>1, DidStep
  <2> HIDE DEF q
  <2>3. OnlyAt(h) /\ proc'[h] = q /\ task'[h] = t
    BY <2>1 DEF OnlyAt, ChildInv
  <2>4. ProcOk(h, q) /\ TaskOk(t, q)
    BY <1>2, <2>2 DEF ProcOk, Permitted, TaskOk
  <2>5. QED  BY <2>3, <2>4, ChildFrame
<1>6. CASE Exec(h)
  <2> DEFINE q == [p EXCEPT !.st = "running", !.held = Streams]
             u == Pump(t.kind)
  <2>1. proc' = [proc EXCEPT ![h] = q] /\ task' = [task EXCEPT ![h] = u] /\ p.todo = <<>>
    BY <1>6 DEF Exec, ChildInv
  <2>2. /\ q \in ProcRec /\ q.user = p.user /\ q.todo = p.todo /\ q.creds = p.creds
        /\ q.env = p.env /\ q.st = "running" /\ q.wrote = p.wrote
    BY <1>2 DEF ProcRec
  <2>3. u \in TaskRec /\ u.st = "pump" /\ u.eof = {} /\ u.got = None
    BY <1>2 DEF Pump, TaskRec, Forked, None
  <2>4. \A s \in Streams : None[s] <= p.wrote[s]
    <3>1. p.wrote \in [Streams -> Nat]
      BY <1>2 DEF ProcRec
    <3> HIDE DEF p
    <3>2. QED  BY <3>1 DEF None
  <2> HIDE DEF q, u
  <2>5. ProcOk(h, q) /\ TaskOk(u, q)
    BY <1>2, <2>1, <2>2, <2>3, <2>4 DEF ProcOk, Permitted, Identity, TaskOk, Delivered
  <2>6. QED  BY <1>3, <2>1, <2>5
<1>7. CASE MasterFails(h)
  <2> DEFINE q == [p EXCEPT !.st = "running", !.killed = TRUE]
  <2>1. /\ proc' = [proc EXCEPT ![h] = q] /\ task' = [task EXCEPT ![h] = Failed]
        /\ p.todo = <<>>
    BY <1>7 DEF MasterFails, Fail, Failed, ChildInv
  <2>2. /\ q \in ProcRec /\ q.user = p.user /\ q.todo = p.todo /\ q.creds = p.creds
        /\ q.env = p.env /\ q.st = "running"
    BY <1>2 DEF ProcRec
  <2> HIDE DEF q
  <2>3. ProcOk(h, q) /\ TaskOk(Failed, q)
    BY <1>2, <2>1, <2>2 DEF ProcOk, Permitted, Identity, TaskOk
  <2>4. QED  BY <1>3, <2>1, <2>3
<1>8. QED  BY <1>4, <1>5, <1>6, <1>7

\* The child of a spawn.
Spawned(h, kind, user) ==
  [st |-> "pre", user |-> user, todo |-> PreExecSteps(kind, user),
   creds |-> AgentCreds[h], env |-> Environment(user), isolated |-> {},
   held |-> {}, heirs |-> {}, group |-> FALSE, killed |-> FALSE, wrote |-> None]

(* A spawned child has all of the agent's identity and all of its calls before it. *)
LEMMA SpawnedOk ==
  ASSUME NEW h \in Hosts, NEW kind \in Kinds, NEW user \in DOMAIN Passwd \cup {""}
  PROVE  LET p == Spawned(h, kind, user) IN
         p \in ProcRec /\ p.st = "pre" /\ p.user = user /\ Identity(h, p)
<1> DEFINE p == Spawned(h, kind, user)
           todo == PreExecSteps(kind, user)
           env == Environment(user)
<1>1. /\ user = "" => todo \in {<<"setsid", "TIOCSCTTY">>, <<>>}
      /\ user # "" => todo \in {<<"setsid", "TIOCSCTTY", "setgid", "setgroups", "setuid">>, Drops}
  BY StepsOf
<1>2. todo \in Todos
  BY <1>1 DEF Todos
<1>3. AgentCreds[h] \in Creds
  BY ChildAssumption, SameHosts DEF Creds
<1>4. env \in {"agent", "minimal"}
  BY DEF Environment
<1>5. None \in [Streams -> Nat]
  BY DEF None
<1> HIDE DEF todo, env
<1>6. p \in ProcRec
  BY <1>2, <1>3, <1>4, <1>5 DEF ProcRec, Spawned, todo, env
<1>7. /\ p.st = "pre" /\ p.user = user /\ p.todo = todo /\ p.creds = AgentCreds[h]
      /\ p.env = Environment(user)
  BY DEF Spawned, todo
<1> HIDE DEF p
<1>8. Identity(h, p)
  BY <1>1, <1>7 DEF Identity
<1>9. QED  BY <1>6, <1>7, <1>8 DEF p

(* A delivered action becomes a child only where the call and the host's allowlist
   permit it (run_job, handle_shell_open). *)
LEMMA DeliverStep ==
  ASSUME ChildInv, NEW h \in Hosts, Deliver(h)
  PROVE  ChildInv'
<1> DEFINE kind == call.req.kind
           run_as == call.req.run_as
           fork == [st |-> "fork", kind |-> kind]
           p == Spawned(h, kind, run_as)
<1>1. /\ call.st = "authorize" /\ h \in call.allowed /\ Runs(h)
      /\ task[h].st = "none" /\ UNCHANGED accessVars
  BY DEF Deliver
<1>2. proc[h] = NoProc
  <2>1. task[h] # Failed /\ task[h] \notin Forked /\ task[h] \notin TaskRec
    BY <1>1 DEF Failed, Forked, TaskRec
  <2>2. QED  BY <2>1 DEF ChildInv, TaskOk
<1>3. CASE task' = [task EXCEPT ![h] = Failed] /\ UNCHANGED proc
  <2>1. OnlyAt(h) /\ proc'[h] = NoProc /\ task'[h] = Failed
    BY <1>1, <1>2, <1>3 DEF OnlyAt, ChildInv
  <2>2. QED  BY <2>1, ChildFrame DEF ProcOk, TaskOk
<1>4. CASE /\ Backstop(h, kind, run_as) /\ resolve_user(run_as) # <<>>
           /\ task' = [task EXCEPT ![h] = fork]
           /\ proc' = [proc EXCEPT ![h] = Spawned(h, kind, resolve_user(run_as)[1])]
  <2>1. resolve_user(run_as)[1] = run_as /\ run_as \in DOMAIN Passwd \cup {""}
    BY <1>4 DEF resolve_user
  <2>2. kind \in Kinds
    BY <1>4 DEF Backstop, Kinds
  <2>3. p \in ProcRec /\ p.st = "pre" /\ p.user = run_as /\ Identity(h, p)
    BY <2>1, <2>2, SpawnedOk
  <2>4. fork \in Forked
    BY <2>2 DEF Forked
  <2>5. ProcOk(h, p) /\ TaskOk(fork, p)
    <3>1. Permitted(h, p)
      BY <1>1, <1>4, <2>3 DEF Permitted
    <3> HIDE DEF p, fork
    <3>2. QED  BY <2>3, <2>4, <3>1 DEF ProcOk, TaskOk
  <2>6. proc' = [proc EXCEPT ![h] = p] /\ task' = [task EXCEPT ![h] = fork]
    BY <1>4, <2>1
  <2> HIDE DEF p, fork
  <2>7. OnlyAt(h) /\ proc'[h] = p /\ task'[h] = fork
    BY <1>1, <2>6 DEF OnlyAt, ChildInv
  <2>8. QED  BY <2>5, <2>7, ChildFrame
<1>5. QED  BY <1>3, <1>4 DEF Deliver, Spawn, Fail, Failed, Spawned

(* The coordinator leaves the hosts alone, and a call that has reached its targets
   never loses one that was allowed (AuthorizeTarget). *)
LEMMA AccessLeavesChild ==
  ASSUME ChildInv, AccessStep \/ UNCHANGED accessVars, UNCHANGED childVars
  PROVE  ChildInv'
<1>1. UNCHANGED <<task, proc>>
  BY DEF childVars
<1>2. ASSUME call.st = "authorize"
      PROVE  /\ call'.st = "authorize" /\ call'.req = call.req
             /\ call.allowed \subseteq call'.allowed
  <2>1. CASE AuthorizeTarget
    <3>1. PICK h \in call.todo :
            call' = [call EXCEPT !.todo = @ \ {h}, !.allowed =
                       IF authorize(call.subject, call.req.kind, h, call.req.run_as)
                       THEN @ \cup {h} ELSE @]
      BY <2>1 DEF AuthorizeTarget
    <3>2. QED  BY <1>2, <3>1
  <2>2. CASE UNCHANGED call
    BY <1>2, <2>2
  <2>3. AuthorizeTarget \/ UNCHANGED call
    BY <1>2 DEF AccessStep, accessVars, Start, Rotate, Tick, Fetch, Swap, Intercept, Validate,
                Handle
  <2>4. QED  BY <2>1, <2>2, <2>3
<1>3. ASSUME NEW h \in Hosts PROVE ProcOk(h, proc[h])'
  BY <1>1, <1>2 DEF ChildInv, ProcOk, Permitted
<1>4. QED  BY <1>1, <1>3 DEF ChildInv, TaskOk, Delivered

-----------------------------------------------------------------------------
(* Theorems.                                                                   *)

(* A coordinator that is down, no call, no fetch, and no child on any host. *)
LEMMA InitPath == Init => PathInv
<1> SUFFICES ASSUME Init PROVE PathInv
  OBVIOUS
<1>1. AccessInv
  BY DEF Init, AccessInit, Down, NoCall, AccessInv, CoordInv, FetchInv, CallInv
<1>2. ChildInv
  BY SameHosts DEF Init, ChildInit, ChildInv, ProcOk, TaskOk
<1>3. QED  BY <1>1, <1>2 DEF PathInv

(* Every step of the coordinator, of an agent or of a child keeps the invariant. *)
LEMMA PathStep == PathInv /\ [Next]_vars => PathInv'
<1> SUFFICES ASSUME PathInv, [Next]_vars PROVE PathInv'
  OBVIOUS
<1>1. AccessInv /\ ChildInv
  BY DEF PathInv
<1>2. CASE AccessStep /\ UNCHANGED childVars
  BY <1>1, <1>2, AccessInvStep, AccessLeavesChild DEF PathInv
<1>3. ASSUME NEW h \in Hosts, Deliver(h) PROVE PathInv'
  <2>1. UNCHANGED accessVars
    BY <1>3 DEF Deliver
  <2>2. QED  BY <1>1, <1>3, <2>1, AccessInvStep, DeliverStep DEF PathInv
<1>4. ASSUME NEW h \in Hosts, ChildStep(h), UNCHANGED accessVars PROVE PathInv'
  <2>1. AccessInv'
    BY <1>1, <1>4, AccessInvStep
  <2>2. ChildInv'
    <3>1. CASE Abort(h) \/ PreExec(h) \/ Exec(h) \/ MasterFails(h)
      BY <1>1, <1>4, <3>1, BeforeProgram
    <3>2. CASE Timeout(h) \/ Wait(h) \/ Drop(h)
      BY <1>1, <1>4, <3>2, EndStep
    <3>3. CASE \E s \in Streams : Write(h, s) \/ ReadChunk(h, s) \/ ReadEof(h, s)
      BY <1>1, <1>4, <3>3, WriteStep, ReadChunkStep, ReadEofStep
    <3>4. CASE \/ \E s \in Streams : CloseStream(h, s)
               \/ Background(h) \/ HeirEnds(h) \/ StartCommand(h) \/ CommandEnds(h)
               \/ Exit(h) \/ Dies(h) \/ ReapDropped(h)
      BY <1>1, <1>4, <3>4, ProgramStep
    <3>5. QED
      BY <1>4, <3>1, <3>2, <3>3, <3>4 DEF ChildStep, Kernel, Program, Agent
  <2>3. QED  BY <2>1, <2>2 DEF PathInv
<1>5. CASE UNCHANGED vars
  BY <1>1, <1>5, AccessInvStep, AccessLeavesChild DEF PathInv, vars
<1>6. QED  BY <1>2, <1>3, <1>4, <1>5 DEF Next

(* The invariant of the whole path. *)
LEMMA PathInvHolds == Spec => []PathInv
  BY InitPath, PathStep, PTL DEF Spec

(* A host that the policy engine allows is named by a binding of the policy file for
   somebody who was authenticated: an engine without a file has no binding, and no
   binding is the anonymous subject's (from_toml, authorize). *)
LEMMA AllowedIsGranted ==
  ASSUME AccessInv, call.st = "authorize", NEW h \in call.allowed
  PROVE  /\ call.req.auth # <<>> /\ Authentic(Bearer)
         /\ \E b \in coord.cli.policy[1].bindings :
              allows(b, Bearer.claims.sub, call.req.kind, h, call.req.run_as)
<1>1. /\ coord.st = "up" /\ Caller
      /\ authorize(call.subject, call.req.kind, h, call.req.run_as)
  BY DEF AccessInv, CallInv
<1>2. PICK b \in coord.bindings : allows(b, call.subject, call.req.kind, h, call.req.run_as)
  BY <1>1 DEF authorize
<1>3. /\ build_policy_engine(coord.cli).ok
      /\ b \in build_policy_engine(coord.cli).bindings
  BY <1>1, <1>2 DEF AccessInv, CoordInv
<1>4. coord.cli.policy # <<>> /\ b \in coord.cli.policy[1].bindings /\ WellFormed(b)
  BY <1>3 DEF build_policy_engine, from_toml
<1>5. b.subject = call.subject /\ call.subject # ANONYMOUS_SUBJECT
  BY <1>2, <1>4 DEF allows, WellFormed
<1>6. call.req.auth # <<>> /\ Authentic(Bearer) /\ call.subject = Bearer.claims.sub
  BY <1>1, <1>5 DEF Caller
<1>7. QED  BY <1>2, <1>4, <1>6

(* Whatever program runs on a host was asked for by an operator with an authentic token,
   is permitted that kind and user there by the policy and by the host's own allowlist,
   and has exactly that user's identity, whatever keys were rotated, calls interleaved or
   privileges half dropped (JwtAuth::call, RbacPolicyEngine::authorize,
   LocalAllowlist::permits, pre_exec). *)
THEOREM OnlyGrantedPrograms == Spec => []RunsOnlyAsGranted
<1>1. PathInv => RunsOnlyAsGranted
  <2> SUFFICES ASSUME PathInv, NEW h \in Hosts, Alive(h)
               PROVE  /\ call.req.auth # <<>> /\ Authentic(Bearer)
                      /\ Granted(h, Bearer.claims.sub, call.req.kind, call.req.run_as)
                      /\ Is(h, call.req.run_as)
    BY DEF RunsOnlyAsGranted, Bearer
  <2>1. Started(h) /\ AccessInv /\ ChildInv
    BY DEF Alive, Started, PathInv
  <2>2. proc[h] \in ProcRec /\ proc[h].todo = <<>> /\ ProcOk(h, proc[h])
    BY <2>1, Going
  <2>3. proc[h] # NoProc
    BY DEF Alive, NoProc
  <2>4. Identity(h, proc[h]) /\ Permitted(h, proc[h])
    BY <2>2, <2>3 DEF ProcOk
  <2>5. /\ call.req.auth # <<>> /\ Authentic(Bearer)
        /\ \E b \in coord.cli.policy[1].bindings :
             allows(b, Bearer.claims.sub, call.req.kind, h, call.req.run_as)
    BY <2>1, <2>4, AllowedIsGranted DEF Permitted
  <2>6. /\ {"*", call.req.kind} \cap AllowlistFile[h][1].verbs # {}
        /\ {"*", call.req.run_as} \cap AllowlistFile[h][1].run_as # {}
    <3>1. load(h) # <<>> /\ permits(load(h)[1], call.req.kind, call.req.run_as)
      BY <2>4 DEF Permitted, Runs, Backstop
    <3>2. load(h)[1].verbs # {}
      BY <3>1 DEF permits
    <3>3. AllowlistFile[h] # <<>>
      BY <3>2 DEF load
    <3>4. load(h) = AllowlistFile[h]
      BY <3>1, <3>3 DEF load
    <3>5. QED  BY <3>1, <3>4 DEF permits
  <2>7. Granted(h, Bearer.claims.sub, call.req.kind, call.req.run_as)
    BY <2>5, <2>6 DEF Granted, allows
  <2>8. Is(h, call.req.run_as)
    <3> DEFINE p == proc[h]
               u == Passwd[p.user]
    <3>1. /\ <<>> # <<"setsid", "TIOCSCTTY", "setgid", "setgroups", "setuid">>
          /\ <<>> # <<"TIOCSCTTY", "setgid", "setgroups", "setuid">>
          /\ <<>> # Drops /\ <<>> # <<"setgroups", "setuid">> /\ <<>> # <<"setuid">>
      BY DEF Drops
    <3>2. p.user = call.req.run_as /\ p.todo = <<>> /\ Identity(h, p)
      BY <2>2, <2>4 DEF Permitted
    <3>3. p.user = "" => p.creds = AgentCreds[h]
      BY <3>2 DEF Identity
    <3>4. p.user # "" => p.creds = [uid |-> u.uid, gid |-> u.gid, groups |-> {u.gid}]
      BY <3>1, <3>2 DEF Identity
    <3>5. p.user # "" => p.env = "minimal"
      BY <3>2 DEF Identity, Environment
    <3>6. QED  BY <3>2, <3>3, <3>4, <3>5 DEF Is
  <2>9. QED  BY <2>5, <2>7, <2>8
<1>2. QED  BY <1>1, PathInvHolds, PTL

(* An exec that is done and neither truncated nor timed out has delivered all that was
   written to its two pipes, whoever wrote it (stream, pump). *)
THEOREM AllOutputDelivered == Spec => []OutputComplete
<1>1. PathInv => OutputComplete
  <2> SUFFICES ASSUME PathInv, NEW h \in Hosts,
                      task[h].st = "done", ~task[h].truncated, ~task[h].timed_out
               PROVE  task[h].got = proc[h].wrote
    BY DEF OutputComplete
  <2>1. task[h] \in TaskRec /\ Delivered(task[h], proc[h]) /\ proc[h] \in ProcRec
    BY PumpingStarted DEF PathInv
  <2>2. task[h].got \in [Streams -> Nat] /\ proc[h].wrote \in [Streams -> Nat]
    BY <2>1 DEF TaskRec, ProcRec
  <2>3. \A s \in Streams : task[h].got[s] = proc[h].wrote[s]
    BY <2>1 DEF Delivered
  <2>4. QED  BY <2>2, <2>3
<1>2. QED  BY <1>1, PathInvHolds, PTL

-----------------------------------------------------------------------------
(* What an action leaves behind.                                               *)

\* How a task and its program end: the program is killed before it is waited for,
\* unless it closed its streams, and has no process group once a shell is given up.
Ended(t, p) ==
  /\ p.st = "pre" => ~p.group
  /\ t.st = "wait" => p.st # "running" \/ p.killed \/ t.eof = Streams
  /\ t.st = "done" => p.st # "running"
  /\ t.st \in {"dropped", "failed"} /\ p.st \in {"running", "zombie", "reaped"} =>
       ~p.group /\ (p.st # "running" \/ p.killed)

EndInv == \A h \in Hosts : Ended(task[h], proc[h])

(* A step of one host keeps EndInv if it does so there. *)
LEMMA EndFrame ==
  ASSUME EndInv, NEW h \in Hosts, OnlyAt(h), Ended(task'[h], proc'[h])
  PROVE  EndInv'
  BY DEF EndInv, OnlyAt, Ended

\* Whether p is killed and has a process group is seen in q.
AsKilled(p, q) == q.killed = p.killed /\ q.group = p.group

(* What the updates of a child's record leave alone. *)
LEMMA ProcFields ==
  ASSUME NEW p \in ProcRec, NEW v
  PROVE  /\ AsKilled(p, [p EXCEPT !.todo = v]) /\ [p EXCEPT !.todo = v].st = p.st
         /\ AsKilled(p, [p EXCEPT !.wrote = v]) /\ [p EXCEPT !.wrote = v].st = p.st
         /\ AsKilled(p, [p EXCEPT !.held = v]) /\ [p EXCEPT !.held = v].st = p.st
         /\ AsKilled(p, [p EXCEPT !.heirs = v]) /\ [p EXCEPT !.heirs = v].st = p.st
         /\ AsKilled(p, Ends(p)) /\ Ends(p).st = "zombie"
         /\ AsKilled(p, [p EXCEPT !.st = "reaped"]) /\ [p EXCEPT !.st = "reaped"].st = "reaped"
<1>1. AsKilled(p, [p EXCEPT !.todo = v]) /\ [p EXCEPT !.todo = v].st = p.st
  BY DEF ProcRec, AsKilled
<1>2. AsKilled(p, [p EXCEPT !.wrote = v]) /\ [p EXCEPT !.wrote = v].st = p.st
  BY DEF ProcRec, AsKilled
<1>3. AsKilled(p, [p EXCEPT !.held = v]) /\ [p EXCEPT !.held = v].st = p.st
  BY DEF ProcRec, AsKilled
<1>4. AsKilled(p, [p EXCEPT !.heirs = v]) /\ [p EXCEPT !.heirs = v].st = p.st
  BY DEF ProcRec, AsKilled
<1>5. AsKilled(p, Ends(p)) /\ Ends(p).st = "zombie"
  BY DEF ProcRec, AsKilled, Ends
<1>6. AsKilled(p, [p EXCEPT !.st = "reaped"]) /\ [p EXCEPT !.st = "reaped"].st = "reaped"
  BY DEF ProcRec, AsKilled
<1>7. QED  BY <1>1, <1>2, <1>3, <1>4, <1>5, <1>6

(* Signals, and what a shell starts and ends. *)
LEMMA ProcSignals ==
  ASSUME NEW p \in ProcRec, NEW b \in BOOLEAN
  PROVE  /\ [p EXCEPT !.group = b].st = p.st /\ [p EXCEPT !.group = b].killed = p.killed
         /\ [p EXCEPT !.group = b].group = b
         /\ start_kill(p).st = p.st /\ start_kill(p).killed = TRUE
         /\ start_kill(p).group = p.group /\ start_kill(p) \in ProcRec
         /\ KillGroup(p).st = p.st /\ KillGroup(p).killed = TRUE /\ KillGroup(p).group = FALSE
<1>1. ASSUME NEW q \in ProcRec, NEW c \in BOOLEAN
      PROVE  /\ [q EXCEPT !.group = c].st = q.st /\ [q EXCEPT !.group = c].killed = q.killed
             /\ [q EXCEPT !.group = c].group = c
  BY DEF ProcRec
<1>2. /\ start_kill(p).st = p.st /\ start_kill(p).killed = TRUE
      /\ start_kill(p).group = p.group /\ start_kill(p) \in ProcRec
  BY DEF start_kill, ProcRec
<1>3. KillGroup(p) = [start_kill(p) EXCEPT !.group = FALSE]  BY DEF KillGroup
<1>4. QED  BY <1>1, <1>2, <1>3

(* The two ways in which a program begins to run. *)
LEMMA ProcStarts ==
  ASSUME NEW p \in ProcRec
  PROVE  /\ [p EXCEPT !.st = "running", !.held = Streams].st = "running"
         /\ [p EXCEPT !.st = "running", !.killed = TRUE].st = "running"
         /\ [p EXCEPT !.st = "running", !.killed = TRUE].killed = TRUE
         /\ [p EXCEPT !.st = "running", !.killed = TRUE].group = p.group
<1>1. [p EXCEPT !.st = "running", !.held = Streams].st = "running"
  BY DEF ProcRec
<1>2. /\ [p EXCEPT !.st = "running", !.killed = TRUE].st = "running"
      /\ [p EXCEPT !.st = "running", !.killed = TRUE].killed = TRUE
      /\ [p EXCEPT !.st = "running", !.killed = TRUE].group = p.group
  BY DEF ProcRec
<1>3. QED  BY <1>1, <1>2

(* The states that a task's ends give it. *)
LEMMA TaskStates ==
  ASSUME NEW t \in TaskRec, NEW g \in [Streams -> Nat], NEW e, NEW st
  PROVE  /\ [t EXCEPT !.got = g] \in TaskRec /\ [t EXCEPT !.got = g].st = t.st
         /\ [t EXCEPT !.st = st].st = st
         /\ [t EXCEPT !.st = st, !.truncated = TRUE].st = st
         /\ [t EXCEPT !.st = st, !.timed_out = TRUE].st = st
         /\ [t EXCEPT !.eof = e, !.st = st].st = st /\ [t EXCEPT !.eof = e, !.st = st].eof = e
<1>1. [t EXCEPT !.got = g] \in TaskRec /\ [t EXCEPT !.got = g].st = t.st
  BY DEF TaskRec
<1>2. /\ [t EXCEPT !.st = st].st = st
      /\ [t EXCEPT !.st = st, !.truncated = TRUE].st = st
      /\ [t EXCEPT !.st = st, !.timed_out = TRUE].st = st
  BY DEF TaskRec
<1>3. [t EXCEPT !.eof = e, !.st = st].st = st /\ [t EXCEPT !.eof = e, !.st = st].eof = e
  BY DEF TaskRec
<1>4. QED  BY <1>1, <1>2, <1>3

(* Giving up the agent's identity starts no process. *)
LEMMA DidKeepsGroup ==
  ASSUME NEW p \in ProcRec, p.st = "pre", p.group = FALSE, NEW h \in Hosts, Identity(h, p),
         p.todo # <<>>
  PROVE  Did(p, Head(p.todo)).group = FALSE
<1>1. PICK q : q = [p EXCEPT !.todo = Tail(@)]  OBVIOUS
<1>2. q.group = FALSE  BY <1>1 DEF ProcRec
<1>3. "group" \in DOMAIN q  BY <1>1 DEF ProcRec
<1>4. \A c : [q EXCEPT !.creds = c].group = FALSE  BY <1>2, <1>3
<1>5. \A c : [q EXCEPT !.isolated = c].group = FALSE  BY <1>2, <1>3
<1>6. QED  BY <1>1, <1>2, <1>4, <1>5 DEF Did

(* The host's steps before the program runs, and their failures. *)
LEMMA EndsBefore ==
  ASSUME ChildInv, EndInv, NEW h \in Hosts, UNCHANGED accessVars,
         Abort(h) \/ PreExec(h) \/ Exec(h) \/ MasterFails(h)
  PROVE  EndInv'
<1>1. proc[h].st = "pre" /\ DOMAIN proc = Hosts /\ DOMAIN task = Hosts
  BY DEF Abort, PreExec, Exec, MasterFails, ChildInv
<1>2. /\ proc[h] \in ProcRec /\ Identity(h, proc[h]) /\ task[h] \in Forked /\ ~proc[h].group
  BY <1>1, Forking DEF EndInv, Ended
<1>3. CASE Abort(h)
  <2>1. OnlyAt(h) /\ proc'[h] = NoProc /\ task'[h] = Failed
    BY <1>1, <1>3 DEF OnlyAt, Abort, Fail, Failed
  <2>2. Ended(Failed, NoProc)  BY DEF Ended, Failed, NoProc
  <2>3. QED  BY <2>1, <2>2, EndFrame
<1>4. CASE PreExec(h)
  <2>1. /\ OnlyAt(h) /\ task'[h] = task[h]
        /\ proc'[h] = Did(proc[h], Head(proc[h].todo)) /\ proc[h].todo # <<>>
    BY <1>1, <1>4 DEF OnlyAt, PreExec
  <2>2. proc'[h].st = "pre" /\ ~proc'[h].group
    <3>1. proc[h].group = FALSE  BY <1>2 DEF ProcRec
    <3>2. QED  BY <1>1, <1>2, <2>1, <3>1, DidKeepsGroup, DidStep
  <2>3. task[h].st = "fork"  BY <1>2 DEF Forked
  <2>4. Ended(task'[h], proc'[h])  BY <2>1, <2>2, <2>3 DEF Ended
  <2>5. QED  BY <2>1, <2>4, EndFrame
<1>5. CASE Exec(h)
  <2>1. /\ OnlyAt(h) /\ task'[h] = Pump(task[h].kind)
        /\ proc'[h] = [proc[h] EXCEPT !.st = "running", !.held = Streams]
    BY <1>1, <1>5 DEF OnlyAt, Exec
  <2>2. task'[h].st = "pump" /\ proc'[h].st = "running"  BY <1>2, <2>1, ProcStarts DEF Pump
  <2>3. Ended(task'[h], proc'[h])  BY <2>1, <2>2 DEF Ended
  <2>4. QED  BY <2>1, <2>3, EndFrame
<1>6. CASE MasterFails(h)
  <2>1. /\ OnlyAt(h) /\ task'[h] = Failed
        /\ proc'[h] = [proc[h] EXCEPT !.st = "running", !.killed = TRUE]
    BY <1>1, <1>6 DEF OnlyAt, MasterFails, Fail, Failed
  <2>2. proc'[h].st = "running" /\ proc'[h].killed /\ ~proc'[h].group
    BY <1>2, <2>1, ProcStarts
  <2>3. Ended(task'[h], proc'[h])  BY <2>1, <2>2 DEF Ended, Failed
  <2>4. QED  BY <2>1, <2>3, EndFrame
<1>7. QED  BY <1>3, <1>4, <1>5, <1>6

(* A program that goes on, or ends, is as killed as before and, once its task is over,
   starts nothing. *)
LEMMA EndsMeanwhile ==
  ASSUME ChildInv, EndInv, NEW h \in Hosts, UNCHANGED accessVars,
         \/ \E s \in Streams : Write(h, s) \/ CloseStream(h, s)
         \/ Background(h) \/ HeirEnds(h) \/ StartCommand(h) \/ CommandEnds(h)
         \/ Exit(h) \/ Dies(h) \/ ReapDropped(h)
  PROVE  EndInv'
<1>1. Started(h) /\ UNCHANGED task /\ DOMAIN proc = Hosts /\ DOMAIN task = Hosts
  BY DEF Write, CloseStream, Background, HeirEnds, StartCommand, CommandEnds, Exit, Dies,
         ReapDropped, Alive, Started, ChildInv
<1>2. PICK p : p = proc[h]  OBVIOUS
<1>3. p \in ProcRec /\ p.st # "pre" /\ p.st \in {"running", "zombie", "reaped"}
  BY <1>1, <1>2, Going DEF Started
<1>4. Ended(task[h], p)  BY <1>2 DEF EndInv
<1>5. ASSUME NEW q, proc' = [proc EXCEPT ![h] = q], q.st \in {p.st, "zombie", "reaped"},
             q.killed = p.killed, q.group = p.group \/ q.group = FALSE \/ task[h].st = "pump"
      PROVE  EndInv'
  <2>1. OnlyAt(h) /\ proc'[h] = q /\ task'[h] = task[h]
    BY <1>1, <1>5 DEF OnlyAt
  <2>2. Ended(task[h], q)  BY <1>3, <1>4, <1>5 DEF Ended
  <2>3. QED  BY <2>1, <2>2, EndFrame
<1>6. ASSUME NEW s \in Streams, Write(h, s) PROVE EndInv'
  <2>1. PICK w : w = [p.wrote EXCEPT ![s] = @ + 1]  OBVIOUS
  <2>2. PICK q : q = [p EXCEPT !.wrote = w]  OBVIOUS
  <2>3. proc' = [proc EXCEPT ![h] = q]  BY <1>1, <1>2, <1>6, <2>1, <2>2 DEF Write
  <2>4. q.st = p.st /\ q.killed = p.killed /\ q.group = p.group
    BY <1>3, <2>2, ProcFields DEF AsKilled
  <2>5. QED  BY <1>5, <2>3, <2>4
<1>7. ASSUME NEW S, proc' = [proc EXCEPT ![h] = [p EXCEPT !.held = S]] PROVE EndInv'
  <2>1. PICK q : q = [p EXCEPT !.held = S]  OBVIOUS
  <2>2. q.st = p.st /\ q.killed = p.killed /\ q.group = p.group
    BY <1>3, <2>1, ProcFields DEF AsKilled
  <2>3. QED  BY <1>5, <1>7, <2>1, <2>2
<1>8. ASSUME NEW S, proc' = [proc EXCEPT ![h] = [p EXCEPT !.heirs = S]] PROVE EndInv'
  <2>1. PICK q : q = [p EXCEPT !.heirs = S]  OBVIOUS
  <2>2. q.st = p.st /\ q.killed = p.killed /\ q.group = p.group
    BY <1>3, <2>1, ProcFields DEF AsKilled
  <2>3. QED  BY <1>5, <1>8, <2>1, <2>2
<1>9. ASSUME NEW s \in Streams, CloseStream(h, s) PROVE EndInv'
  BY <1>1, <1>2, <1>7, <1>9 DEF CloseStream
<1>10. CASE Background(h) \/ HeirEnds(h)
  BY <1>1, <1>2, <1>8, <1>10 DEF Background, HeirEnds
<1>11. CASE StartCommand(h) \/ CommandEnds(h)
  <2>1. PICK b \in BOOLEAN : /\ proc' = [proc EXCEPT ![h] = [p EXCEPT !.group = b]]
                             /\ b => task[h].st = "pump"
    BY <1>1, <1>2, <1>11 DEF StartCommand, CommandEnds
  <2>2. PICK q : q = [p EXCEPT !.group = b]  OBVIOUS
  <2>3. q.st = p.st /\ q.killed = p.killed /\ q.group = b
    BY <1>3, <2>2, ProcSignals
  <2>4. QED  BY <1>5, <2>1, <2>2, <2>3
<1>12. CASE Exit(h) \/ Dies(h)
  <2>1. PICK q : q = Ends(p)  OBVIOUS
  <2>2. proc' = [proc EXCEPT ![h] = q]  BY <1>1, <1>2, <1>12, <2>1 DEF Exit, Dies
  <2>3. q.st = "zombie" /\ q.killed = p.killed /\ q.group = p.group
    BY <1>3, <2>1, ProcFields DEF AsKilled
  <2>4. QED  BY <1>5, <2>2, <2>3
<1>13. CASE ReapDropped(h)
  <2>1. PICK q : q = [p EXCEPT !.st = "reaped"]  OBVIOUS
  <2>2. proc' = [proc EXCEPT ![h] = q]  BY <1>1, <1>2, <1>13, <2>1 DEF ReapDropped
  <2>3. q.st = "reaped" /\ q.killed = p.killed /\ q.group = p.group
    BY <1>3, <2>1, ProcFields DEF AsKilled
  <2>4. QED  BY <1>5, <2>2, <2>3
<1>14. QED  BY <1>6, <1>9, <1>10, <1>11, <1>12, <1>13

(* The pump's steps, and the three ends of a task. *)
LEMMA EndsAfter ==
  ASSUME ChildInv, EndInv, NEW h \in Hosts, UNCHANGED accessVars,
         \/ \E s \in Streams : ReadChunk(h, s) \/ ReadEof(h, s)
         \/ Timeout(h) \/ Wait(h) \/ Drop(h)
  PROVE  EndInv'
<1>1. PICK t, p : t = task[h] /\ p = proc[h]  OBVIOUS
<1>2. t.st \in {"pump", "wait", "done", "dropped"} /\ DOMAIN proc = Hosts /\ DOMAIN task = Hosts
  BY <1>1 DEF ReadChunk, ReadEof, Timeout, Wait, Drop, Pumping, ChildInv
<1>3. t \in TaskRec /\ p \in ProcRec /\ p.st \in {"running", "zombie", "reaped"}
  BY <1>1, <1>2, PumpingStarted DEF Started
<1>4. ASSUME NEW u, task' = [task EXCEPT ![h] = u], NEW q, proc' = [proc EXCEPT ![h] = q],
             Ended(u, q)
      PROVE  EndInv'
  <2>1. OnlyAt(h) /\ proc'[h] = q /\ task'[h] = u
    BY <1>2, <1>4 DEF OnlyAt
  <2>2. QED  BY <1>4, <2>1, EndFrame
<1>5. ASSUME NEW u, task' = [task EXCEPT ![h] = u], UNCHANGED proc, Ended(u, p)
      PROVE  EndInv'
  <2>1. OnlyAt(h) /\ proc'[h] = p /\ task'[h] = u
    BY <1>1, <1>2, <1>5 DEF OnlyAt
  <2>2. QED  BY <1>5, <2>1, EndFrame
<1>6. start_kill(p).killed = TRUE /\ start_kill(p).st = p.st
  BY <1>3, ProcSignals
<1>7. ASSUME NEW u, u.st = "pump" PROVE Ended(u, p)
  BY <1>3, <1>7 DEF Ended
<1>8. ASSUME NEW u, u.st = "wait" PROVE Ended(u, start_kill(p))
  BY <1>3, <1>6, <1>8 DEF Ended
<1>9. ASSUME NEW s \in Streams, ReadChunk(h, s) PROVE EndInv'
  <2>1. PICK g : g = [t.got EXCEPT ![s] = @ + 1]  OBVIOUS
  <2>2. PICK u, w : u = [t EXCEPT !.got = g] /\ w = [u EXCEPT !.st = "wait", !.truncated = TRUE]
    OBVIOUS
  <2>3. t.got \in [Streams -> Nat]  BY <1>3 DEF TaskRec
  <2>4. g \in [Streams -> Nat]  BY <2>1, <2>3
  <2>5. t.st = "pump"  BY <1>1, <1>9 DEF ReadChunk, Pumping
  <2>6. u \in TaskRec /\ u.st = "pump"  BY <1>3, <2>2, <2>4, <2>5, TaskStates
  <2>7. w.st = "wait"  BY <2>2, <2>4, <2>6, TaskStates
  <2>8. u = [t EXCEPT !.got[s] = @ + 1]  BY <2>1, <2>2
  <2>9. \/ task' = [task EXCEPT ![h] = u] /\ UNCHANGED proc
        \/ task' = [task EXCEPT ![h] = w] /\ proc' = [proc EXCEPT ![h] = start_kill(p)]
    BY <1>1, <1>9, <2>2, <2>8 DEF ReadChunk
  <2>10. QED  BY <1>4, <1>5, <1>7, <1>8, <2>6, <2>7, <2>9
<1>10. ASSUME NEW s \in Streams, ReadEof(h, s) PROVE EndInv'
  <2>1. PICK e : e = t.eof \cup {s}  OBVIOUS
  <2>2. PICK st : st = IF PumpDone(e) THEN "wait" ELSE "pump"  OBVIOUS
  <2>3. PICK u : u = [t EXCEPT !.eof = e, !.st = st]  OBVIOUS
  <2>4. task' = [task EXCEPT ![h] = u] /\ UNCHANGED proc
    BY <1>1, <1>2, <1>10, <2>1, <2>2, <2>3 DEF ReadEof
  <2>5. t.got \in [Streams -> Nat]  BY <1>3 DEF TaskRec
  <2>6. u.eof = e /\ u.st = st  BY <1>3, <2>3, <2>5, TaskStates
  <2>7. Ended(u, p)  BY <1>3, <2>2, <2>6 DEF Ended, PumpDone
  <2>8. QED  BY <1>5, <2>4, <2>7
<1>11. t.got \in [Streams -> Nat]  BY <1>3 DEF TaskRec
<1>12. CASE Timeout(h)
  <2>1. PICK u : u = [t EXCEPT !.st = "wait", !.timed_out = TRUE]  OBVIOUS
  <2>2. task' = [task EXCEPT ![h] = u] /\ proc' = [proc EXCEPT ![h] = start_kill(p)]
    BY <1>1, <1>2, <1>12, <2>1 DEF Timeout
  <2>3. u.st = "wait"  BY <1>3, <1>11, <2>1, TaskStates
  <2>4. QED  BY <1>4, <1>8, <2>2, <2>3
<1>13. CASE Wait(h)
  <2>1. PICK u, q : u = [t EXCEPT !.st = "done"] /\ q = [p EXCEPT !.st = "reaped"]  OBVIOUS
  <2>2. task' = [task EXCEPT ![h] = u] /\ proc' = [proc EXCEPT ![h] = q]
    BY <1>1, <1>2, <1>13, <2>1 DEF Wait
  <2>3. u.st = "done" /\ q.st = "reaped"
    BY <1>3, <1>11, <2>1, TaskStates, ProcFields
  <2>4. Ended(u, q)  BY <2>3 DEF Ended
  <2>5. QED  BY <1>4, <2>2, <2>4
<1>14. CASE Drop(h)
  <2>1. PICK u, q : u = [t EXCEPT !.st = "dropped"] /\ q = KillGroup(p)  OBVIOUS
  <2>2. task' = [task EXCEPT ![h] = u] /\ proc' = [proc EXCEPT ![h] = q]
    BY <1>1, <1>2, <1>14, <2>1 DEF Drop
  <2>3. u.st = "dropped"
    BY <1>3, <1>11, <2>1, TaskStates
  <2>4. FALSE \in BOOLEAN  OBVIOUS
  <2>5. q.st = p.st /\ q.killed = TRUE /\ q.group = FALSE
    BY <1>3, <2>1, <2>4, ProcSignals
  <2>6. Ended(u, q)  BY <1>3, <2>3, <2>5 DEF Ended
  <2>7. QED  BY <1>4, <2>2, <2>6
<1>15. QED  BY <1>9, <1>10, <1>12, <1>13, <1>14

(* A delivered action starts a child without a process group, or none. *)
LEMMA EndsDeliver ==
  ASSUME ChildInv, EndInv, NEW h \in Hosts, Deliver(h)
  PROVE  EndInv'
<1>1. /\ task[h].st = "none" /\ UNCHANGED accessVars
      /\ DOMAIN proc = Hosts /\ DOMAIN task = Hosts
  BY DEF Deliver, ChildInv
<1>2. proc[h] = NoProc
  <2>1. task[h] # Failed /\ task[h] \notin Forked /\ task[h] \notin TaskRec
    BY <1>1 DEF Failed, Forked, TaskRec
  <2>2. QED  BY <2>1 DEF ChildInv, TaskOk
<1>3. CASE task' = [task EXCEPT ![h] = Failed] /\ UNCHANGED proc
  <2>1. OnlyAt(h) /\ proc'[h] = NoProc /\ task'[h] = Failed
    BY <1>1, <1>2, <1>3 DEF OnlyAt
  <2>2. Ended(Failed, NoProc)  BY DEF Ended, Failed, NoProc
  <2>3. QED  BY <2>1, <2>2, EndFrame
<1>4. ASSUME NEW kind, NEW user, proc' = [proc EXCEPT ![h] = Spawned(h, kind, user)],
             task' = [task EXCEPT ![h] = [st |-> "fork", kind |-> kind]]
      PROVE  EndInv'
  <2>1. /\ OnlyAt(h) /\ proc'[h] = Spawned(h, kind, user)
        /\ task'[h] = [st |-> "fork", kind |-> kind]
    BY <1>1, <1>4 DEF OnlyAt
  <2>2. /\ proc'[h].st = "pre" /\ ~proc'[h].group /\ task'[h].st = "fork"
    BY <2>1 DEF Spawned
  <2>3. Ended(task'[h], proc'[h])  BY <2>2 DEF Ended
  <2>4. QED  BY <2>1, <2>3, EndFrame
<1>5. QED  BY <1>3, <1>4 DEF Deliver, Spawn, Fail, Failed, Spawned

(* However an action ends, by itself, by a timeout, by the output cap, by a drop or by
   a failed start, the agent has killed what still runs or the program has closed
   its streams: nothing runs on that it has forgotten (stream, ShellStream's drop). *)
THEOREM NoProgramIsForgotten == Spec => []NoneLeftRunning
<1>1. Init => EndInv
  BY SameHosts DEF Init, ChildInit, EndInv, Ended, NoTask, NoProc
<1>2. PathInv /\ EndInv /\ [Next]_vars => EndInv'
  <2> SUFFICES ASSUME PathInv, EndInv, [Next]_vars PROVE EndInv'
    OBVIOUS
  <2>1. ChildInv  BY DEF PathInv
  <2>2. CASE UNCHANGED <<task, proc>>
    BY <2>2 DEF EndInv, Ended
  <2>3. ASSUME NEW h \in Hosts, ChildStep(h), UNCHANGED accessVars PROVE EndInv'
    BY <2>1, <2>3, EndsBefore, EndsMeanwhile, EndsAfter
    DEF ChildStep, Kernel, Program, Agent
  <2>4. QED  BY <2>1, <2>2, <2>3, EndsDeliver DEF Next, vars, childVars
<1>3. EndInv => NoneLeftRunning
  BY DEF EndInv, Ended, NoneLeftRunning, Detached, Alive, Started
<1>4. QED  BY <1>1, <1>2, <1>3, PathInvHolds, PTL DEF Spec
=============================================================================
