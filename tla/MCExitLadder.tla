---------------------------- MODULE MCExitLadder ----------------------------
(***************************************************************************)
(* A small instance of ExitLadder: two lots of three units, two of which   *)
(* the first rung sells and one the second, so that the second has to wait *)
(* for both lots to make up an order's worth.                              *)
(***************************************************************************)
EXTENDS ExitLadder

TwoRungs == <<2, 1>>
=============================================================================
