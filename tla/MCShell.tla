------------------------------- MODULE MCShell -------------------------------
(* Two operators call for a shell on the same host; one of them types and has
   output, so that both directions can leak into the other's shell. *)
EXTENDS Shell

CONSTANTS ann, bob, none

OneBurst == (ann :> 1) @@ (bob :> 0)
=============================================================================
