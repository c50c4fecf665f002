--------------------------- MODULE MCHandshakeFifo ---------------------------
(* HandshakeFifo for TLC: three connections are enough for a handshake to meet
   two older ones. *)
EXTENDS HandshakeFifo
=============================================================================
