---------------------------- MODULE MCSessions ----------------------------
(***************************************************************************)
(* TLC instance of Sessions: a player that connects twice, and two         *)
(* connections to the shout server: pages, or the wake-up of one.          *)
(***************************************************************************)
EXTENDS Sessions, TLC

CONSTANTS a1, a2, w1, w2

MCName == (a1 :> "a") @@ (a2 :> "a")
=============================================================================
