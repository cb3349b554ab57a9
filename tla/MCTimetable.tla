---------------------------- MODULE MCTimetable ----------------------------
(***************************************************************************)
(* A small instance of Timetable: one account on a cadence of four, a      *)
(* burst whose last interval its end cuts short.                           *)
(***************************************************************************)
EXTENDS Timetable, TLC

CONSTANTS acct, nobody

Alone == acct :> 1
OneBurst == <<[from |-> 1, until |-> 5, interval |-> 3]>>
============================================================================
