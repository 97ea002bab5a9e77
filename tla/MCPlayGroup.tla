--------------------------- MODULE MCPlayGroup ---------------------------
(* PlayGroup for TLC.  The indices asked for reach from before the first   *)
(* entry of a short list to past its last.                                 *)
EXTENDS PlayGroup, TLC

MCAsked == -1 .. 2

Symmetry == Permutations(Players)
===========================================================================
