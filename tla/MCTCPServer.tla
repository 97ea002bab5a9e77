---------------------------- MODULE MCTCPServer ----------------------------
(***************************************************************************)
(* TLC instance of TCPServer: three clients and room for two of them,      *)
(* answers shorter and longer than a packet and a client's window.         *)
(***************************************************************************)
EXTENDS TCPServer

CONSTANTS c1, c2, c3

MCAsks ==
  (c1 :> {"page"}) @@ (c2 :> {"file", "wait", "error"}) @@ (c3 :> {"part", "bye", "eof"})
=============================================================================
