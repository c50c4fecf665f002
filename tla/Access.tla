------------------------------- MODULE Access -------------------------------
(* Who may do what: the coordinator's start-up configuration, the operators'   *)
(* JWTs and the JWKS refresher behind them, the RBAC policy decision and the   *)
(* agent's allowlist.  The OIDC issuer, whose signing keys rotate, is external. *)
(*                                                                             *)
(* An option is a sequence of at most one element.                             *)
EXTENDS Naturals, Sequences, FiniteSets, SequencesExt

CONSTANTS
  Hosts,            \* host ids
  Online,           \* hosts with a live session
  CommandLines,     \* the coordinator's command lines
  Documents,        \* what the JWKS endpoint serves, one after the other
  Requests,         \* operator calls
  AllowlistFile,    \* host -> the allowlist its agent is configured with
  Padded,           \* names padded with whitespace
  Issuer, Audience,
  MAX_LEEWAY_SECS, MAX_FANOUT,
  MaxTime           \* bound on the clock

ASSUME AccessAssumption ==
  /\ Online \subseteq Hosts
  /\ {MAX_LEEWAY_SECS, MAX_FANOUT, MaxTime} \subseteq Nat
  /\ Documents # <<>>
  /\ \A cli \in CommandLines : cli.leeway \in Nat

VARIABLES
  coord,      \* the coordinator: [st, cell, bindings, leeway, live, from]
  served,     \* the document the issuer serves
  inflight,   \* the refresher's fetch: its result, until it is applied
  now,        \* the clock, in seconds
  call        \* the operator's call

accessVars == <<coord, served, inflight, now, call>>

Unset == "unset"
Blank == "blank"
ANONYMOUS_SUBJECT == "anonymous"

-----------------------------------------------------------------------------
(* Signing keys.  A JWK is [kid, alg, kty, pub], with kid or alg "" if absent.  *)

key_algorithm_to_algorithm(ka) ==
  IF ka \in {"RS256", "RS384", "RS512", "PS256", "PS384", "PS512", "ES256", "ES384", "EdDSA"}
  THEN <<ka>> ELSE <<>>

\* The declared algorithm, or the one the key type implies.
algorithm_of(jwk) ==
  IF jwk.alg # "" THEN key_algorithm_to_algorithm(jwk.alg)
  ELSE CASE jwk.kty = "RSA" -> <<"RS256">> [] jwk.kty = "P-256" -> <<"ES256">>
         [] jwk.kty = "P-384" -> <<"ES384">> [] OTHER -> <<>>

\* The places of the keys that can be indexed and used.  A key whose material
\* cannot be decoded is skipped as well: it is as if not in the document.
UsableKeys(doc) ==
  {k \in DOMAIN doc.keys : doc.keys[k].kid # "" /\ algorithm_of(doc.keys[k]) # <<>>}

\* What is kept of a key: the algorithm it is pinned to.
VerifyingKey(jwk) == [alg |-> algorithm_of(jwk)[1], kty |-> jwk.kty, pub |-> jwk.pub]

\* Keys that cannot be used are skipped; none left, or a kid twice, is an error.
from_jwks_json(doc) ==
  LET usable == UsableKeys(doc)
      twice == \E j, k \in usable : j # k /\ doc.keys[j].kid = doc.keys[k].kid
  IN IF ~doc.json \/ usable = {} \/ twice THEN <<>>
     ELSE <<[kid \in {doc.keys[k].kid : k \in usable} |->
               VerifyingKey(doc.keys[CHOOSE k \in usable : doc.keys[k].kid = kid])]>>

-----------------------------------------------------------------------------
(* Tokens: [kid, alg, signer, claims].                                         *)

\* jsonwebtoken refuses a key that is not of the algorithm's family, whatever the
\* document declared for it.
SameFamily(kty, alg) ==
  \/ kty = "RSA" /\ alg \in {"RS256", "RS384", "RS512", "PS256", "PS384", "PS512"}
  \/ kty \in {"P-256", "P-384"} /\ alg \in {"ES256", "ES384"}
  \/ kty = "Ed25519" /\ alg = "EdDSA"

\* The key is the one the kid names, and it fixes the algorithm.
validate(keys, leeway, token, t) ==
  LET c == token.claims
      ok == /\ token.kid \in DOMAIN keys
            /\ token.alg = keys[token.kid].alg
            /\ SameFamily(keys[token.kid].kty, token.alg)
            /\ token.signer = keys[token.kid].pub
            /\ {"exp", "iss", "aud", "sub"} \subseteq DOMAIN c
            /\ c.iss = Issuer /\ c.aud = Audience
            /\ c.exp + leeway >= t
            /\ "nbf" \in DOMAIN c => c.nbf <= t + leeway
  IN IF ok THEN <<c.sub>> ELSE <<>>

\* authorization: Bearer <jwt>, the scheme in any case.
bearer_token(req) ==
  IF req.auth # <<>> /\ req.auth[1].scheme \in {"bearer", "Bearer"} THEN req.auth[1].token ELSE <<>>

\* The times of a token are u64.
ASSUME ClaimsAssumption ==
  \A req \in Requests : bearer_token(req) # <<>> =>
    LET c == bearer_token(req)[1].claims IN \A x \in DOMAIN c \cap {"exp", "nbf"} : c[x] \in Nat

-----------------------------------------------------------------------------
(* Start-up.                                                                   *)

\* https, or http to a loopback host.
validate_url(url) == url \in {"https", "http-loopback"}

\* The validator's keys, if OIDC is configured: an issuer and an audience, a small
\* leeway and one source of keys.  Anything partial is an error, never "no auth".
build_operator_auth(cli, fetched) ==
  LET doc == IF cli.jwks # <<>> THEN cli.jwks ELSE fetched
      live == cli.url # Unset
      keys == IF doc = <<>> THEN <<>> ELSE from_jwks_json(doc[1])
  IN IF cli.issuer = Unset /\ cli.audience = Unset
     THEN [ok |-> cli.jwks = <<>> /\ ~live, cell |-> <<>>, live |-> FALSE]
     ELSE [ok |-> /\ {cli.issuer, cli.audience} \cap {Unset, Blank} = {}
                  /\ cli.leeway <= MAX_LEEWAY_SECS
                  /\ live <=> cli.jwks = <<>>
                  /\ live => cli.refresh >= 1 /\ validate_url(cli.url)
                  /\ keys # <<>>,
           cell |-> keys, live |-> live]

parse_selector(s) == s \in Hosts \cup {"*"}

\* What from_toml demands of a binding.
WellFormed(b) ==
  /\ b.subject \notin Padded \cup {""}
  /\ b.subject # ANONYMOUS_SUBJECT
  /\ b.verbs # {} /\ b.selectors # {} /\ b.run_as # {}
  /\ b.run_as \cap Padded = {}
  /\ \A s \in b.selectors : parse_selector(s)

from_toml(doc) == doc.toml /\ \A b \in doc.bindings : WellFormed(b)

\* No policy file: an engine with no binding.
build_policy_engine(cli) ==
  IF cli.policy = <<>> THEN [ok |-> TRUE, bindings |-> {}]
  ELSE [ok |-> from_toml(cli.policy[1]), bindings |-> cli.policy[1].bindings]

\* The NetBox URL and token are set together, and not blank, or neither is.
build_inventory_sink(cli) ==
  cli.netbox = <<Unset, Unset>> \/ ToSet(cli.netbox) \cap {Unset, Blank} = {}

\* The endpoint's answer: what is served, or an error (outage, status, redirect,
\* a body over MAX_JWKS_BYTES).
fetch_bytes == {<<>>, <<Documents[served]>>}

Down == [st |-> "down", cell |-> <<>>, bindings |-> {}, leeway |-> 0, live |-> FALSE, from |-> 0]

NoCall == [st |-> "idle"]

AccessInit ==
  /\ coord = Down
  /\ served = 1 /\ inflight = <<>> /\ now = 0
  /\ call = NoCall

Start(cli) ==
  /\ coord.st = "down"
  /\ \E fetched \in fetch_bytes :
       LET auth == build_operator_auth(cli, fetched)
           engine == build_policy_engine(cli)
       IN coord' = IF auth.ok /\ engine.ok /\ build_inventory_sink(cli)
                   THEN [st |-> "up", cell |-> auth.cell, bindings |-> engine.bindings,
                         leeway |-> cli.leeway, live |-> auth.live, from |-> served, cli |-> cli]
                   ELSE [Down EXCEPT !.st = "refused"]
  /\ UNCHANGED <<served, inflight, now, call>>

-----------------------------------------------------------------------------
(* The issuer and the refresher (spawn_refresh).                               *)

\* Of interest only to a coordinator that may still fetch.
Rotate ==
  /\ served < Len(Documents)
  /\ coord.st = "down" \/ coord.live
  /\ served' = served + 1
  /\ UNCHANGED <<coord, inflight, now, call>>

Tick ==
  /\ now < MaxTime
  /\ now' = now + 1
  /\ UNCHANGED <<coord, served, inflight, call>>

\* A fetch ends some time after it began: the document may have changed meanwhile.
Fetch ==
  /\ coord.live /\ inflight = <<>>
  /\ \E r \in fetch_bytes : inflight' = <<[doc |-> r, from |-> served]>>
  /\ UNCHANGED <<coord, served, now, call>>

MutRefreshedDies(r) ==
  LET keys == IF r.doc = <<>> THEN <<>> ELSE from_jwks_json(r.doc[1])
  IN IF keys = <<>> THEN [coord EXCEPT !.live = FALSE]
     ELSE [coord EXCEPT !.cell = keys, !.from = r.from]

\* A good document replaces all keys; an error keeps the current ones.
Refreshed(r) ==
  LET keys == IF r.doc = <<>> THEN <<>> ELSE from_jwks_json(r.doc[1])
  IN IF keys = <<>> THEN coord ELSE [coord EXCEPT !.cell = keys, !.from = r.from]

Swap ==
  /\ inflight # <<>>
  /\ coord' = Refreshed(inflight[1])
  /\ inflight' = <<>>
  /\ UNCHANGED <<served, now, call>>

-----------------------------------------------------------------------------
(* A call: the interceptor, then the handler.                                  *)

\* Only a coordinator with OIDC puts the interceptor before its operator service.
build_router == coord.cell # <<>>

\* The subject the interceptor bound to the request.
operator_of(bound) == IF bound = <<>> THEN ANONYMOUS_SUBJECT ELSE bound[1]

\* The interceptor takes the validator of the moment.
Intercept(req) ==
  /\ coord.st = "up" /\ call.st = "idle"
  /\ call' = IF ~build_router
             THEN [st |-> "handler", req |-> req, subject |-> operator_of(<<>>),
                   from |-> coord.from, at |-> now]
             ELSE IF bearer_token(req) = <<>> THEN [st |-> "unauthenticated"]
             ELSE [st |-> "validate", req |-> req, keys |-> coord.cell[1], from |-> coord.from]
  /\ UNCHANGED <<coord, served, inflight, now>>

Validate ==
  /\ call.st = "validate"
  /\ LET sub == validate(call.keys, coord.leeway, bearer_token(call.req)[1], now)
     IN call' = IF sub = <<>> THEN [st |-> "unauthenticated"]
                ELSE [st |-> "handler", req |-> call.req, subject |-> operator_of(sub),
                      from |-> call.from, at |-> now]
  /\ UNCHANGED <<coord, served, inflight, now>>

\* "*" is every online host; otherwise a list of host ids, empty tokens skipped.
\* Hosts are taken once each.  <<>>: INVALID_ARGUMENT.
resolve(selector) ==
  LET tokens == SelectSeq(selector, LAMBDA tok : tok # "")
      hosts == IF selector = <<"*">> THEN Online ELSE ToSet(tokens)
  IN IF hosts \subseteq Hosts /\ Cardinality(hosts) <= MAX_FANOUT THEN <<hosts>> ELSE <<>>

\* The targets of exec, shell and dispatch, if the request is well formed.
Targets(req) ==
  CASE req.method = "exec" -> IF req.kind = "" THEN <<>> ELSE resolve(req.target)
    [] req.method = "shell" -> IF ToSet(req.target) \subseteq Hosts THEN <<ToSet(req.target)>> ELSE <<>>
    [] req.method = "dispatch" -> IF req.kind = "" THEN <<>> ELSE <<ToSet(req.target)>>

Handle ==
  /\ call.st = "handler"
  /\ LET targets == Targets(call.req)
     IN call' = IF targets \in {<<>>, <<{}>>} THEN [st |-> "invalid"]
                ELSE [st |-> "authorize", req |-> call.req, subject |-> call.subject,
                      from |-> call.from, at |-> call.at, todo |-> targets[1], allowed |-> {}]
  /\ UNCHANGED <<coord, served, inflight, now>>

MutBindingAnyUser(b, subject, kind, target, run_as) ==
  /\ b.subject = subject
  /\ kind # "" /\ b.verbs \cap {"*", kind} # {}
  /\ b.selectors \cap {"*", target} # {}

\* Binding::allows; an empty run_as is a user like any other.
allows(b, subject, kind, target, run_as) ==
  /\ b.subject = subject
  /\ kind # "" /\ b.verbs \cap {"*", kind} # {}
  /\ b.selectors \cap {"*", target} # {}
  /\ b.run_as \cap {"*", run_as} # {}

authorize(subject, kind, target, run_as) ==
  target \in Hosts /\ \E b \in coord.bindings : allows(b, subject, kind, target, run_as)

\* Each target is decided by itself; one that is no host id is denied.
AuthorizeTarget ==
  /\ call.st = "authorize"
  /\ \E h \in call.todo :
       LET ok == authorize(call.subject, call.req.kind, h, call.req.run_as)
       IN call' = [call EXCEPT !.todo = @ \ {h}, !.allowed = IF ok THEN @ \cup {h} ELSE @]
  /\ UNCHANGED <<coord, served, inflight, now>>

-----------------------------------------------------------------------------
(* The agent's allowlist.                                                      *)

\* No file: deny_all.  A file that does not parse keeps the agent from running.
load(h) ==
  IF AllowlistFile[h] = <<>> THEN <<[verbs |-> {}, run_as |-> {}]>>
  ELSE IF AllowlistFile[h][1].toml THEN AllowlistFile[h] ELSE <<>>

permits(allowlist, kind, run_as) ==
  /\ kind # "" /\ allowlist.verbs \cap {"*", kind} # {}
  /\ allowlist.run_as \cap {"*", run_as} # {}

AccessStep ==
  \/ \E cli \in CommandLines : Start(cli)
  \/ Rotate \/ Tick \/ Fetch \/ Swap
  \/ \E req \in Requests : Intercept(req)
  \/ Validate \/ Handle \/ AuthorizeTarget

=============================================================================
