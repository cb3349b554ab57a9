------------------------------ MODULE MCKnock ------------------------------
(***************************************************************************)
(* A small instance of Knock: one account, both legs.                      *)
(***************************************************************************)
EXTENDS Knock

CONSTANT a

UpDown == <<"up", "down">>
============================================================================
