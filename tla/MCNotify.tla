---------------------------- MODULE MCNotify ----------------------------
(* Notify for TLC: one player, two web requests that wait for it and one   *)
(* that waits for a player nobody registers; or two players and a request  *)
(* for each.                                                               *)
EXTENDS Notify

CONSTANTS p1, p2, w1, w2, w3

MCSameDevice == [w \in {w1, w2} |-> p1] @@ (w3 :> Nobody)

MCDevice == (w1 :> p1) @@ (w2 :> p2)
=========================================================================
