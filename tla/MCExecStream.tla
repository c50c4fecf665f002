---------------------------- MODULE MCExecStream -----------------------------
EXTENDS ExecStream

CONSTANTS c1, c2, a, b, h1, h2

(* One call that fans out to the hosts h1 and h2. *)
OneCall  == [fan    |-> (c1 :> <<a, b>>) @@ (c2 :> <<>>),
             hostOf |-> (a :> h1) @@ (b :> h2), maxSid |-> 2]

(* Two calls on the host h1: two job tasks share its uplink. *)
TwoCalls == [fan    |-> (c1 :> <<a>>) @@ (c2 :> <<b>>),
             hostOf |-> (a :> h1) @@ (b :> h1), maxSid |-> 1]

Asked == {OneCall, TwoCalls}
============================================================================
