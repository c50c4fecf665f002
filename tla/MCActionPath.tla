---------------------------- MODULE MCActionPath ----------------------------
(* Two hosts; h2 permits less.  Three key documents, the second unusable.      *)
EXTENDS ActionPath

H == {"h1", "h2"}

Jwk(kid, alg, kty, pub) == [kid |-> kid, alg |-> alg, kty |-> kty, pub |-> pub]
Doc(keys) == [json |-> TRUE, keys |-> keys]

Docs == <<
  Doc(<<Jwk("k1", "", "P-256", "p1"), Jwk("", "", "RSA", "p9"), Jwk("h", "HS256", "oct", "p8"), Jwk("o", "RS256", "oct", "p7")>>),
  Doc(<<Jwk("k2", "ES256", "P-256", "p2"), Jwk("k2", "", "RSA", "p3")>>),
  Doc(<<Jwk("k2", "ES384", "P-384", "p2")>>) >>

Cli(issuer, audience, leeway, jwks, url, refresh, policy) ==
  [issuer |-> issuer, audience |-> audience, leeway |-> leeway, jwks |-> jwks, url |-> url,
   refresh |-> refresh, policy |-> policy, netbox |-> <<Unset, Unset>>]

Binding(subject, verbs, selectors, run_as) ==
  [subject |-> subject, verbs |-> verbs, selectors |-> selectors, run_as |-> run_as]

Policy(bindings) == <<[toml |-> TRUE, bindings |-> bindings]>>

Roles == Policy({Binding("alice", {"exec"}, {"*"}, {"deploy"}), Binding("bob", {"*"}, {"h1"}, {""})})

Lines == {
  [Cli("iss", "aud", 0, <<>>, "https", 60, Roles) EXCEPT !.netbox = <<"url", "token">>],
  Cli("iss", "aud", 1, <<Docs[1]>>, Unset, 0, Roles),
  Cli("iss", "aud", 0, <<Docs[3]>>, Unset, 0, <<>>),
  Cli(Unset, Unset, 0, <<>>, Unset, 0, Roles),
  \* refused
  [Cli("iss", "aud", 0, <<>>, "https", 60, Roles) EXCEPT !.netbox = <<"url", Unset>>],
  Cli("iss", Unset, 0, <<Docs[1]>>, Unset, 0, Roles),
  Cli("iss", Blank, 0, <<Docs[1]>>, Unset, 0, Roles),
  Cli("iss", "aud", 2, <<Docs[1]>>, Unset, 0, Roles),
  Cli("iss", "aud", 0, <<Docs[1]>>, "https", 60, Roles),
  Cli("iss", "aud", 0, <<>>, "http", 60, Roles),
  Cli("iss", "aud", 0, <<>>, "https", 0, Roles),
  Cli("iss", "aud", 0, <<Docs[2]>>, Unset, 0, Roles),
  Cli(Unset, Unset, 0, <<>>, Unset, 0, Policy({Binding("anonymous", {"*"}, {"*"}, {"*"})})),
  Cli(Unset, Unset, 0, <<Docs[1]>>, Unset, 0, Roles),
  Cli("iss", "aud", 0, <<Docs[1]>>, Unset, 0, Policy({Binding("bob", {"*"}, {"web"}, {"*"})})),
  Cli("iss", "aud", 0, <<Docs[1]>>, Unset, 0, Policy({Binding("bob", {"*"}, {"*"}, {" deploy"})})) }

Claims(sub, exp) == [iss |-> "iss", aud |-> "aud", sub |-> sub, exp |-> exp]

Token(kid, alg, signer, claims) == [kid |-> kid, alg |-> alg, signer |-> signer, claims |-> claims]

Alice1 == Token("k1", "ES256", "p1", Claims("alice", 0))
Alice2 == Token("k2", "ES384", "p2", Claims("alice", 9))
Bob1   == Token("k1", "ES256", "p1", Claims("bob", 9))

Auth(token) == <<[scheme |-> "Bearer", token |-> <<token>>]>>

Req(method, auth, kind, target, run_as) ==
  [method |-> method, auth |-> auth, kind |-> kind, target |-> target, run_as |-> run_as, argv |-> <<"cmd">>]

Calls == {
  Req("exec", Auth(Alice1), "exec", <<"*">>, "deploy"),
  Req("exec", Auth(Alice2), "exec", <<"h1", "", "h1">>, "deploy"),
  Req("exec", Auth(Alice2), "exec", <<"h1">>, ""),
  Req("shell", Auth(Bob1), "shell", <<"h1">>, ""),
  Req("exec", Auth(Bob1), "reboot", <<"h1", "h2">>, ""),
  Req("exec", Auth(Bob1), "exec", <<"web">>, ""),
  Req("exec", Auth(Bob1), "", <<"h1">>, ""),
  Req("dispatch", Auth(Bob1), "exec", <<"web">>, ""),
  Req("exec", Auth(Token("k1", "ES256", "p2", Claims("bob", 9))), "exec", <<"h1">>, ""),
  Req("exec", Auth(Token("h", "HS256", "p8", Claims("bob", 9))), "exec", <<"h1">>, ""),
  Req("exec", Auth(Token("o", "RS256", "p7", Claims("bob", 9))), "exec", <<"h1">>, ""),
  Req("exec", Auth(Token("k1", "ES256", "p1", Claims("bob", 9) @@ [nbf |-> 2])), "exec", <<"h1">>, ""),
  Req("exec", <<>>, "exec", <<"*">>, "deploy") }

Files == [h \in H |->
  IF h = "h1" THEN <<[toml |-> TRUE, verbs |-> {"*"}, run_as |-> {"*"}]>>
  ELSE <<[toml |-> TRUE, verbs |-> {"exec"}, run_as |-> {""}]>>]

PaddedNames == {" deploy"}
Root == [h \in H |-> [uid |-> 0, gid |-> 0, groups |-> {0, 1}]]
Users == [deploy |-> [uid |-> 1000, gid |-> 100]]
=============================================================================
