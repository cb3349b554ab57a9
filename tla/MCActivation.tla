---------------------------- MODULE MCActivation ----------------------------
(***************************************************************************)
(* A small instance of Activation.                                         *)
(***************************************************************************)
EXTENDS Activation

CONSTANT none
=============================================================================
