----------------------------- MODULE EntryPlan -----------------------------
(***************************************************************************)
(* What the bot promises of one market's entry, whatever happens on the    *)
(* way: the market is taken up, may be put off and taken up again, and is  *)
(* decided once; and an account never has more than one order of a leg     *)
(* registered, however often its order was sent (exchange.py:286-289:      *)
(* "every send for a market is the same signed order ... never a second    *)
(* order").  Module Placement is shown to implement it.                    *)
(***************************************************************************)
CONSTANT Orders  \* records with an account, a leg and the signature's number

VARIABLES
  state,      \* markets.state
  registered  \* the orders the venue ever took

planVars == <<state, registered>>

Decided   == {"active", "skipped", "error", "expired"}
Undecided == {"none", "placing", "placement_pending"}

PlanInit ==
  /\ state = "none"
  /\ registered = {}

TakeUp ==
  /\ state = "none"
  /\ state' = "placing"
  /\ UNCHANGED registered

PutOff ==
  /\ state = "placing"
  /\ state' = "placement_pending"
  /\ UNCHANGED registered

Decide ==
  /\ state \in Undecided
  /\ state' \in Decided
  /\ UNCHANGED registered

\* A request in flight may register even after the market was decided.
RegisterOnce(o) ==
  /\ state # "none"
  /\ \A p \in registered : p.account # o.account \/ p.leg # o.leg
  /\ registered' = registered \cup {o}
  /\ UNCHANGED state

PlanNext == TakeUp \/ PutOff \/ Decide \/ \E o \in Orders : RegisterOnce(o)

PlanSpec == PlanInit /\ [][PlanNext]_planVars
============================================================================
