---------------------------- MODULE MCPlacement ----------------------------
(***************************************************************************)
(* Small instances of Placement.                                           *)
(***************************************************************************)
EXTENDS Placement

CONSTANTS a, b, up, down, nobody
============================================================================
