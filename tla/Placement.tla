----------------------------- MODULE Placement -----------------------------
(***************************************************************************)
(* One market's entry: from the activation update through signing, the     *)
(* knock, settling what each account's knock came to, keeping the best     *)
(* ticket and cancelling the others, to rows in the database and a state   *)
(* for the market, retries included.                                       *)
(*                                                                         *)
(* With Fleet, several accounts place together (service.py                 *)
(* _place_with_fleet, fleet.py); without, one account does (service.py     *)
(* _place, exchange.py place_dual), and an ambiguous knock is reconciled   *)
(* against the open orders.  The knock is taken by what its result says    *)
(* (module Knock): some of what registered is reported accepted, and a     *)
(* member may be ambiguous, have given up, or neither.                     *)
(*                                                                         *)
(* The venue is external: an order that was sent registers or not, before  *)
(* or after the knock returns, and once at most.                           *)
(*                                                                         *)
(* Abstractions: one market; sizes and prices are left out; time is        *)
(* whether the knocking budget or the market is over, and the millisecond  *)
(* in which the venue says it registered an order.  The market is the      *)
(* activation worker's (farthest-first): the other order's own discovery   *)
(* (service.py:785-807), and the state "exit_error" that exits may put on  *)
(* an active market (service.py:1459), are left out.                       *)
(***************************************************************************)
EXTENDS Naturals, FiniteSets

CONSTANTS
  Accounts, Legs,
  None,        \* no account
  Fleet,       \* the accounts place as a fleet
  KeepBest,    \* the fleet's keep_best
  MaxSign,     \* bound: times an account may sign
  CancelsFail, \* a cancel call may raise or cancel nothing
  Crashes      \* the process may be killed and started again

ASSUME PlacementAssumption ==
  /\ IsFiniteSet(Accounts) /\ IsFiniteSet(Legs)
  /\ Accounts # {} /\ Legs # {}
  /\ None \notin Accounts
  /\ MaxSign \in Nat
  /\ {Fleet, KeepBest, CancelsFail, Crashes} \subseteq BOOLEAN
  /\ ~Fleet => \E a \in Accounts : Accounts = {a}

VARIABLES
  market,     \* markets.state ("none": no row)
  rows,       \* orders.status by order ("none": no row)
  update,     \* the market's activation update
  retry,      \* the market is in _placement_retries
  pc,         \* where the main loop is in the placement
  signatures, \* how often each account has signed
  signed,     \* the signature each account keeps, 0 for none
  before,     \* history: how often each had signed when the process started
  outcome,    \* what each account's part came to
  kept,       \* the member whose ticket is kept, and by which clock
  status,     \* what a cancel answer made of a laggard's orders
  sent,       \* orders with a request on its way
  stamp,      \* the millisecond the venue registered each order in, or 0
  resting,    \* those that still rest
  pushed,     \* those whose registration time the user stream told
  door,       \* the venue takes orders for the market
  clock       \* the budget, then the market, is over

db        == <<market, rows>>
retryVars == <<update, retry>>
signVars  == <<signatures, signed, before>>
tryVars   == <<outcome, kept, status>>
venueVars == <<sent, stamp, resting, pushed, door>>

vars == <<db, retryVars, pc, signVars, tryVars, venueVars, clock>>

----------------------------------------------------------------------------
Orders == [account : Accounts, leg : Legs, gen : 1..MaxSign]

SignedOrders(a, g) ==
  {o \in Orders : o.account = a /\ o.gen = g}

\* What the venue has registered.
Booked == {o \in Orders : stamp[o] # 0}

NotTried == [kind |-> "out", orders |-> {}, retryable |-> FALSE,
             gaveUp |-> FALSE, ambiguous |-> FALSE]

Raised == [NotTried EXCEPT !.kind = "raised"]

Result(orders, retryable, gaveUp) ==
  [NotTried EXCEPT !.kind = "result", !.orders = orders,
                   !.retryable = retryable, !.gaveUp = gaveUp]

Unkept == [member |-> None, by |-> "none"]

Init ==
  /\ market = "none"
  /\ rows = [o \in Orders |-> "none"]
  /\ update = "none"
  /\ retry = FALSE
  /\ pc = "idle"
  /\ signatures = [a \in Accounts |-> 0]
  /\ signed = [a \in Accounts |-> 0]
  /\ before = [a \in Accounts |-> 0]
  /\ outcome = [a \in Accounts |-> NotTried]
  /\ kept = Unkept
  /\ status = [o \in Orders |-> "none"]
  /\ sent = {}
  /\ stamp = [o \in Orders |-> 0]
  /\ resting = {}
  /\ pushed = {}
  /\ door = FALSE
  /\ clock = "early"

(***************************************************************************)
(* The venue, the user stream and time.                                    *)
(***************************************************************************)
DoorOpens ==
  /\ ~door
  /\ door' = TRUE
  /\ UNCHANGED <<db, retryVars, pc, signVars, tryVars, sent, stamp,
                 resting, pushed, clock>>

\* In the same millisecond as the last registration, or in a later one.
Register(o) ==
  /\ door
  /\ o \in sent \ Booked
  /\ clock # "ended"
  /\ \E t \in 1..(Cardinality(Booked) + 1) :
       /\ \A p \in Booked : stamp[p] <= t
       /\ stamp' = [stamp EXCEPT ![o] = t]
  /\ resting' = resting \cup {o}
  /\ UNCHANGED <<db, retryVars, pc, signVars, tryVars, sent, pushed,
                 door, clock>>

\* The last request of an order is answered or lost.
SendsEnd(o) ==
  /\ pc # "knocking"
  /\ o \in sent
  /\ sent' = sent \ {o}
  /\ UNCHANGED <<db, retryVars, pc, signVars, tryVars, stamp, resting,
                 pushed, door, clock>>

\* Filled, or cancelled by the venue.
Leave(o) ==
  /\ o \in resting
  /\ resting' = resting \ {o}
  /\ UNCHANGED <<db, retryVars, pc, signVars, tryVars, sent, stamp,
                 pushed, door, clock>>

Push(o) ==
  /\ o \in Booked \ pushed
  /\ pushed' = pushed \cup {o}
  /\ UNCHANGED <<db, retryVars, pc, signVars, tryVars, sent, stamp,
                 resting, door, clock>>

ClockMoves ==
  /\ \/ clock = "early" /\ (retry \/ pc # "idle") /\ clock' = "budget"
     \/ clock # "ended" /\ clock' = "ended"
  /\ UNCHANGED <<db, retryVars, pc, signVars, tryVars, venueVars>>

\* A cancel call: it raises, or returns having cancelled what it says.
CancelRaises(orders) ==
  /\ CancelsFail
  /\ \/ UNCHANGED resting
     \/ resting' = resting \ orders

CancelReturns(orders, gone) ==
  /\ gone \subseteq orders \cap resting
  /\ ~CancelsFail => gone = orders \cap resting
  /\ resting' = resting \ gone

(***************************************************************************)
(* The market is considered.                                               *)
(***************************************************************************)
\* market_activation.py tells of a market once in a process's life.
Activate ==
  /\ update = "none"
  /\ update' = "queued"
  /\ UNCHANGED <<db, retry, pc, signVars, tryVars, venueVars, clock>>

\* Mutants of CanStart: a market put off is not taken up again; one that a
\* killed process left in "placing" is.
CanStartOnce == market = "none"
CanStartWithoutRows ==
  /\ market \in {"none", "placing", "placement_pending"}
  /\ \A o \in Orders : rows[o] = "none"

CanStart ==
  \/ market = "none"
  \/ market = "placement_pending" /\ \A o \in Orders : rows[o] = "none"

\* The update is taken off the list whatever comes of it.
Take ==
  /\ pc = "idle"
  /\ update = "queued"
  /\ update' = "taken"

TooLate ==
  /\ Take
  /\ clock = "ended"
  /\ retry' = FALSE
  /\ market' = IF retry THEN "expired" ELSE market
  /\ UNCHANGED <<rows, pc, signVars, tryVars, venueVars, clock>>

NothingToDo ==
  /\ Take
  /\ clock # "ended"
  /\ ~CanStart
  /\ UNCHANGED <<db, retry, pc, signVars, tryVars, venueVars, clock>>

\* A limit is reached, by this market or by one before it in the list that
\* was emptied beforehand: whatever is left of the list is lost.
OverLimit ==
  /\ pc = "idle"
  /\ update = "queued"
  /\ update' = "dropped"
  /\ UNCHANGED <<db, retry, pc, signVars, tryVars, venueVars, clock>>

\* Tick or minimum size do not fit, the budget went by in the queue, or the
\* book is open before the first send of this attempt.
Skip ==
  /\ Take
  /\ clock # "ended"
  /\ CanStart
  /\ market = "none" \/ (retry /\ clock = "budget") \/ door
  /\ market' = "skipped"
  /\ retry' = FALSE
  /\ UNCHANGED <<rows, pc, signVars, tryVars, venueVars, clock>>

\* An open door is missed if the check itself fails.
Begin ==
  /\ Take
  /\ clock # "ended"
  /\ CanStart
  /\ ~(retry /\ clock = "budget")
  /\ market' = IF retry THEN market ELSE "placing"
  /\ pc' = "signing"
  /\ outcome' = [a \in Accounts |-> NotTried]
  /\ kept' = Unkept
  /\ status' = [o \in Orders |-> "none"]
  /\ UNCHANGED <<rows, retry, signVars, venueVars, clock>>

(***************************************************************************)
(* Signing and the knock.                                                  *)
(***************************************************************************)
SignStep(a, answer) ==
  CASE answer = "kept"      -> [NotTried EXCEPT !.kind = "ready"]
    [] answer = "signed"    -> [NotTried EXCEPT !.kind = "ready"]
    [] answer = "not ready" -> Result({}, TRUE, FALSE)
    [] answer = "raises"    -> Raised

MayAnswer(a, answer) ==
  /\ answer = "kept" <=> signed[a] # 0
  /\ answer = "signed" => signatures[a] < MaxSign

\* Every account signs, or takes the pair it signed before; what is ready
\* goes into one knock.
Sign ==
  /\ pc = "signing"
  /\ \E answers \in [Accounts -> {"kept", "signed", "not ready", "raises"}] :
       /\ \A a \in Accounts : MayAnswer(a, answers[a])
       /\ outcome' = [a \in Accounts |-> SignStep(a, answers[a])]
       /\ signatures' = [a \in Accounts |->
                           IF answers[a] = "signed" THEN signatures[a] + 1
                           ELSE signatures[a]]
       /\ signed' = [a \in Accounts |->
                       IF answers[a] = "signed" THEN signatures[a] + 1
                       ELSE signed[a]]
  /\ LET ready == {a \in Accounts : outcome'[a].kind = "ready"}
     IN /\ pc' = IF ready = {} THEN "choosing" ELSE "knocking"
        /\ sent' = sent \cup UNION {SignedOrders(a, signed'[a]) : a \in ready}
  /\ UNCHANGED <<db, retryVars, before, kept, status, stamp, resting, pushed,
                 door, clock>>

\* fleet.place itself raises: the market is an error, nothing was sent.
PlaceRaises ==
  /\ Fleet
  /\ pc = "signing"
  /\ pc' = "idle"
  /\ retry' = FALSE
  /\ market' = "error"
  /\ UNCHANGED <<rows, update, signVars, tryVars, venueVars, clock>>

\* What the engine may report of a member: some of what registered.
KnockResults(a) ==
  [kind : {"knocked"}, orders : SUBSET (SignedOrders(a, signed[a]) \cap Booked),
   retryable : {FALSE}, gaveUp : {FALSE, clock = "budget"},
   ambiguous : BOOLEAN]

KnockReturns ==
  /\ pc = "knocking"
  /\ pc' = "settling"
  /\ \E results \in [Accounts -> UNION {KnockResults(a) : a \in Accounts}] :
       /\ \A a \in Accounts : results[a] \in KnockResults(a)
       /\ outcome' = [a \in Accounts |->
                        IF outcome[a].kind = "ready" THEN results[a]
                        ELSE outcome[a]]
  /\ UNCHANGED <<db, retryVars, signVars, kept, status, venueVars,
                 clock>>

KnockRaises ==
  /\ pc = "knocking"
  /\ pc' = "settling"
  /\ outcome' = [a \in Accounts |->
                   IF outcome[a].kind = "ready" THEN Raised ELSE outcome[a]]
  /\ UNCHANGED <<db, retryVars, signVars, kept, status, venueVars,
                 clock>>

(***************************************************************************)
(* Settling.                                                               *)
(***************************************************************************)
Whole(orders) == {o.leg : o \in orders} = Legs

\* The signed pair is kept only for a retry.
Forget(a) == signed' = [signed EXCEPT ![a] = 0]

SettleWhole(a) ==
  /\ Whole(outcome[a].orders)
  /\ outcome' = [outcome EXCEPT ![a] = Result(@.orders, FALSE, FALSE)]
  /\ Forget(a)
  /\ UNCHANGED <<resting>>

\* One side only: it is cancelled, but stays in the result.
SettlePart(a) ==
  LET orders == outcome[a].orders
  IN /\ orders # {} /\ ~Whole(orders)
     /\ \/ /\ \E gone \in SUBSET orders : CancelReturns(orders, gone)
           /\ outcome' = [outcome EXCEPT ![a] = Result(orders, FALSE, FALSE)]
           /\ Forget(a)
        \/ /\ CancelRaises(orders)
           /\ outcome' = [outcome EXCEPT ![a].kind = "raised"]
           /\ UNCHANGED signed

\* Mutant of SettleNone: an ambiguous pair is forgotten.
SettleNoneForgetting(a) ==
  /\ outcome[a].orders = {}
  /\ outcome' = IF outcome[a].ambiguous
                THEN [outcome EXCEPT ![a].kind =
                        IF Fleet THEN "raised" ELSE "ambiguous"]
                ELSE [outcome EXCEPT ![a] = Result({}, FALSE, @.gaveUp)]
  /\ Forget(a)
  /\ UNCHANGED resting

SettleNone(a) ==
  /\ outcome[a].orders = {}
  /\ IF outcome[a].ambiguous
     THEN /\ outcome' = [outcome EXCEPT ![a].kind =
                           IF Fleet THEN "raised" ELSE "ambiguous"]
          /\ UNCHANGED signed
     ELSE /\ outcome' = [outcome EXCEPT ![a] = Result({}, FALSE, @.gaveUp)]
          /\ Forget(a)
  /\ UNCHANGED resting

Settle(a) ==
  /\ pc = "settling"
  /\ outcome[a].kind = "knocked"
  /\ SettleWhole(a) \/ SettlePart(a) \/ SettleNone(a)
  /\ UNCHANGED <<db, retryVars, pc, signatures, before, kept, status, sent,
                 stamp, pushed, door, clock>>

Settled ==
  /\ pc = "settling"
  /\ \A a \in Accounts : outcome[a].kind \notin {"knocked", "ambiguous"}
  /\ pc' = "choosing"
  /\ UNCHANGED <<db, retryVars, signVars, tryVars, venueVars, clock>>

(***************************************************************************)
(* A single account's ambiguous knock is read back: the open orders show   *)
(* some of what rests.                                                     *)
(***************************************************************************)
ReadBack(a, seen) ==
  IF Whole(seen) /\ Cardinality(seen) = Cardinality(Legs)
  THEN /\ outcome' = [outcome EXCEPT ![a] = Result(seen, FALSE, FALSE)]
       /\ Forget(a)
       /\ UNCHANGED resting
  ELSE IF seen = {}
  THEN /\ outcome' = [outcome EXCEPT ![a] = Result({}, TRUE, FALSE)]
       /\ UNCHANGED <<signed, resting>>
  ELSE \/ /\ \E gone \in SUBSET seen : CancelReturns(seen, gone)
          /\ outcome' = [outcome EXCEPT ![a] = Result({}, FALSE, FALSE)]
          /\ Forget(a)
       \/ /\ CancelRaises(seen)
          /\ outcome' = [outcome EXCEPT ![a] = Result({}, TRUE, FALSE)]
          /\ UNCHANGED signed

ReadFails(a) ==
  /\ outcome' = [outcome EXCEPT ![a] = Result({}, TRUE, FALSE)]
  /\ UNCHANGED <<signed, resting>>

Reconcile(a) ==
  /\ pc = "settling"
  /\ outcome[a].kind = "ambiguous"
  /\ \/ \E seen \in SUBSET {o \in resting : o.account = a} : ReadBack(a, seen)
     \/ ReadFails(a)
  /\ UNCHANGED <<db, retryVars, pc, signatures, before, kept, status, sent,
                 stamp, pushed, door, clock>>

(***************************************************************************)
(* The fleet keeps one ticket and cancels the others.                      *)
(***************************************************************************)
Registered(a) == outcome[a].kind = "result" /\ Whole(outcome[a].orders)

Tickets == {a \in Accounts : Registered(a)}

\* A member's first registration is no later than another's.
NoLater(b, c) ==
  \A p \in outcome[c].orders : \E o \in outcome[b].orders : stamp[o] <= stamp[p]

Stamped(a) == outcome[a].orders \subseteq pushed

\* Mutant of Choice: the tickets without a time are left out.
ChoiceOfStamped ==
  LET timed == {a \in Tickets : Stamped(a)}
  IN IF timed = {} THEN {[member |-> a, by |-> "reply"] : a \in Tickets}
                        \cup (IF Tickets = {} THEN {Unkept} ELSE {})
     ELSE {[member |-> a, by |-> "venue"] :
             a \in {b \in timed : \A c \in timed : NoLater(b, c)}}

\* The venue's times settle it when every ticket has its own, and the order of
\* the accounts where two are of one millisecond; else the replies do, which
\* may have come in any order.
Choice ==
  IF Tickets = {} THEN {Unkept}
  ELSE IF \A a \in Tickets : Stamped(a)
  THEN {[member |-> a, by |-> "venue"] :
          a \in {b \in Tickets : \A c \in Tickets : NoLater(b, c)}}
  ELSE {[member |-> a, by |-> "reply"] : a \in Tickets}

Choose ==
  /\ pc = "choosing"
  /\ kept' \in IF Fleet THEN Choice ELSE {Unkept}
  /\ pc' = "cancelling"
  /\ UNCHANGED <<db, retryVars, signVars, outcome, status, venueVars,
                 clock>>

Laggard(a) ==
  /\ KeepBest
  /\ kept.member \notin {None, a}
  /\ Registered(a)

Asked(a) == \A o \in outcome[a].orders : status[o] # "none"

\* Mutant of Answered: the answer's own word is kept.
AnsweredInItsWords(orders, gone, over) ==
  [o \in Orders |-> CASE o \notin orders -> status[o]
                      [] o \in gone      -> "canceled"
                      [] o \in over      -> "terminal_unknown"
                      [] OTHER           -> "cancel_requested"]

\* What the answer makes of each order: cancelled, already gone, or neither.
Answered(orders, gone, over) ==
  [o \in Orders |-> CASE o \notin orders -> status[o]
                      [] o \in gone      -> "cancelled"
                      [] o \in over      -> "terminal_unknown"
                      [] OTHER           -> "cancel_requested"]

CancelLaggard(a) ==
  LET orders == outcome[a].orders
  IN /\ pc = "cancelling"
     /\ Laggard(a) /\ ~Asked(a)
     /\ \/ /\ CancelRaises(orders)
           /\ status' = Answered(orders, {}, {})
        \/ \E gone \in SUBSET orders, over \in SUBSET (orders \ resting) :
             /\ CancelReturns(orders, gone)
             /\ ~CancelsFail => over = orders \ resting
             /\ status' = Answered(orders, gone, over)
     /\ UNCHANGED <<db, retryVars, pc, signVars, outcome, kept, sent,
                    stamp, pushed, door, clock>>

Cancelled ==
  /\ pc = "cancelling"
  /\ \A a \in Accounts : Laggard(a) => Asked(a)
  /\ pc' = "recording"
  /\ UNCHANGED <<db, retryVars, signVars, tryVars, venueVars, clock>>

(***************************************************************************)
(* Writing it down, one commit at a time.                                  *)
(***************************************************************************)
\* Mutant of Recordable: what was not cancelled for sure is left out.
RecordableIfAnswered(a) ==
  {o \in outcome[a].orders : status[o] # "cancel_requested"}

Recordable(a) == outcome[a].orders

ToRecord ==
  UNION {Recordable(a) : a \in {b \in Accounts : outcome[b].kind = "result"}}

RecordOrder(o) ==
  /\ pc = "recording"
  /\ o \in ToRecord
  /\ rows[o] = "none"
  /\ rows' = [rows EXCEPT ![o] = IF status[o] = "none" THEN "open" ELSE status[o]]
  /\ UNCHANGED <<market, retryVars, pc, signVars, tryVars, venueVars,
                 clock>>

Complete == IF Fleet THEN kept.member # None ELSE Tickets # {}

Empty(a) == outcome[a].kind = "result" /\ outcome[a].orders = {}

GaveUp == \A a \in Accounts : Empty(a) /\ outcome[a].gaveUp

\* Mutant of Retryable: one member that failed cleanly is enough.
RetryableByOne == \E a \in Accounts : Empty(a) /\ outcome[a].retryable

Retryable == \A a \in Accounts : Empty(a) /\ outcome[a].retryable

Recorded ==
  /\ pc = "recording"
  /\ \A o \in ToRecord : rows[o] # "none"
  /\ pc' = "idle"

Activated ==
  /\ Recorded
  /\ Complete
  /\ market' = "active"
  /\ retry' = FALSE
  /\ UNCHANGED <<rows, update, signVars, tryVars, venueVars, clock>>

Fails ==
  /\ Recorded
  /\ ~Complete
  /\ GaveUp \/ ~Retryable
  /\ market' = IF GaveUp THEN "skipped" ELSE "error"
  /\ retry' = FALSE
  /\ UNCHANGED <<rows, update, signVars, tryVars, venueVars, clock>>

Requeue ==
  /\ Recorded
  /\ ~Complete /\ ~GaveUp /\ Retryable
  /\ market' = IF retry THEN market ELSE "placement_pending"
  /\ retry' = TRUE
  /\ update' = "queued"
  /\ UNCHANGED <<rows, signVars, tryVars, venueVars, clock>>

(***************************************************************************)
(* Between placements.                                                     *)
(***************************************************************************)
\* Reconciliation finds an order of the market it has no row for (module
\* OrderLedger).
Adopt(o) ==
  /\ pc = "idle"
  /\ market # "none"
  /\ o \in resting
  /\ rows[o] = "none"
  /\ rows' = [rows EXCEPT ![o] = "open"]
  /\ UNCHANGED <<market, retryVars, pc, signVars, tryVars, venueVars,
                 clock>>

\* Only the tables survive; the new process gives the market a new budget.
Restart ==
  /\ Crashes
  /\ pc' = "idle"
  /\ update' = "none"
  /\ retry' = FALSE
  /\ signed' = [a \in Accounts |-> 0]
  /\ before' = signatures
  /\ outcome' = [a \in Accounts |-> NotTried]
  /\ kept' = Unkept
  /\ status' = [o \in Orders |-> "none"]
  /\ clock' = IF clock = "budget" THEN "early" ELSE clock
  /\ UNCHANGED <<db, signatures, venueVars>>

----------------------------------------------------------------------------
ConsiderNext == TooLate \/ NothingToDo \/ OverLimit \/ Skip \/ Begin

KnockNext == Sign \/ PlaceRaises \/ KnockReturns \/ KnockRaises

SettleNext ==
  \/ Settled \/ Choose \/ Cancelled
  \/ \E a \in Accounts : Settle(a) \/ Reconcile(a) \/ CancelLaggard(a)

RecordNext ==
  \/ Activated \/ Fails \/ Requeue
  \/ \E o \in Orders : RecordOrder(o)

LoopNext == ConsiderNext \/ KnockNext \/ SettleNext \/ RecordNext

VenueNext ==
  \/ DoorOpens
  \/ \E o \in Orders : Register(o) \/ SendsEnd(o) \/ Leave(o) \/ Push(o)

Next ==
  \/ LoopNext \/ VenueNext \/ Activate \/ ClockMoves \/ Restart
  \/ \E o \in Orders : Adopt(o)

Spec == Init /\ [][Next]_vars

\* The main loop keeps ticking with its workers healthy, each call it makes
\* returns, and markets end.
FairSpec ==
  /\ Spec
  /\ WF_vars(LoopNext)
  /\ WF_vars(clock # "ended" /\ ClockMoves)

----------------------------------------------------------------------------
(***************************************************************************)
(* Properties                                                              *)
(***************************************************************************)
States   == {"none", "placing", "placement_pending", "active", "skipped",
             "error", "expired"}
Statuses == {"none", "open", "cancel_requested", "cancelled",
             "terminal_unknown"}
Outcomes == [kind : {"out", "ready", "knocked", "ambiguous", "raised",
                     "result"},
             orders : SUBSET Orders, retryable : BOOLEAN, gaveUp : BOOLEAN,
             ambiguous : BOOLEAN]

\* Every variable keeps its type; in particular what rests or was pushed has
\* registered.
TypeOK ==
  /\ market \in States
  /\ rows \in [Orders -> Statuses]
  /\ update \in {"none", "queued", "taken", "dropped"}
  /\ pc \in {"idle", "signing", "knocking", "settling", "choosing",
             "cancelling", "recording"}
  /\ signatures \in [Accounts -> 0..MaxSign]
  /\ signed \in [Accounts -> 0..MaxSign]
  /\ before \in [Accounts -> 0..MaxSign]
  /\ outcome \in [Accounts -> Outcomes]
  /\ kept \in [member : Accounts \cup {None}, by : {"none", "venue", "reply"}]
  /\ status \in [Orders -> Statuses]
  /\ {retry, door} \subseteq BOOLEAN
  /\ sent \subseteq Orders
  /\ stamp \in [Orders -> Nat]
  /\ resting \subseteq Booked
  /\ pushed \subseteq Booked
  /\ clock \in {"early", "budget", "ended"}

Plan == INSTANCE EntryPlan WITH state <- market, registered <- Booked

(***************************************************************************)
(* Why it does, in a process that is not killed: an account signs once,    *)
(* for wherever the market can be taken up again, and wherever its sends   *)
(* may still register, the pair signed first is at hand.                   *)
(***************************************************************************)
PairAtHand(a) == signatures[a] = 0 \/ signed[a] = signatures[a]

SignedOnce ==
  /\ \A a \in Accounts : signatures[a] <= 1 /\ signed[a] <= signatures[a]
  /\ \A o \in sent \cup Booked : o.gen = 1
  /\ sent \cup Booked # {} => market # "none"

PairIsKept ==
  \A a \in Accounts :
    /\ pc = "idle" /\ market \in {"none", "placement_pending"} => PairAtHand(a)
    /\ pc = "signing" => PairAtHand(a)
    /\ pc \in {"knocking", "settling"}
         /\ outcome[a].kind \in {"ready", "knocked", "ambiguous"} =>
         signed[a] = signatures[a]
    /\ pc \notin {"idle", "signing"} /\ outcome[a].kind = "result"
         /\ outcome[a].retryable => PairAtHand(a)

\* The retry and the state agree on whether the market is put off.
RetryMatches ==
  /\ retry => market = "placement_pending"
  /\ pc # "idle" => market \in {"placing", "placement_pending"}

PutOffIsRetried == market = "placement_pending" => retry

EntryInv ==
  /\ TypeOK
  /\ SignedOnce
  /\ PairIsKept
  /\ RetryMatches
  /\ PutOffIsRetried

\* However often a market is put off, retried, read back and raced by late
\* registrations, it is decided once and no account gets a second order of a
\* leg (exchange.py:281-311, 442-457, 602-675): the signed pair has to be
\* kept exactly as long as one of its sends may still register.
ImplementsEntryPlan == Plan!PlanSpec

\* An order the engine reported accepted is in the table by the time the main
\* loop goes on, or does not rest (service.py:1056-1057, 1171-1172;
\* fleet.py:388-418): the deadline cancel finds orders by their rows.
AcceptedIsWrittenDown ==
  pc = "idle" =>
    \A a \in Accounts :
      \A o \in outcome[a].orders \cap resting : rows[o] # "none"

\* When the venue's times decided, no order the bot gave up was registered in
\* an earlier millisecond than all of the ticket it kept: pushes come late and
\* in any order, and times of two clocks are never compared
\* (fleet.py:324-378).  Within a millisecond the venue's times cannot tell.
FirstTicketIsKept ==
  kept.by = "venue" =>
    \A o \in Booked :
      status[o] # "none" =>
        \E p \in Booked : p.account = kept.member /\ stamp[p] <= stamp[o]

\* "Retry only when every member failed cleanly with nothing resting"
\* (fleet.py:86): between the tries of a fleet no order that this process
\* signed is at the venue or under way there.
RetryStartsClean ==
  Fleet /\ pc = "idle" /\ market = "placement_pending" =>
    \A o \in sent \cup Booked : o.gen <= before[o.account]

\* A market taken up is decided: it "remain[s] eligible until a complete
\* Up/Down pair is accepted or the market ends" (README.md:216-218).
EntryIsDecided ==
  market \in {"placing", "placement_pending"} ~>
    market \in {"active", "skipped", "error", "expired"}

\* What remains of it: between placements a market stays undecided only when
\* its update was lost behind a limit (service.py:384-397), or reconciliation
\* gave one of its orders a row, which ends its eligibility
\* (database.py:175-188).
UndecidedForAReason ==
  market \in {"placing", "placement_pending"} ~>
    \/ market \in {"active", "skipped", "error", "expired"}
    \/ pc = "idle" /\ update = "dropped"
    \/ pc = "idle" /\ \E o \in Orders : rows[o] # "none"

\* What is decided, or what a killed process was placing for the first time,
\* is never placed again, although its orders may rest without a row
\* (database.py:175-188): the state is the only thing that survives to say so.
NeverPlacedTwice ==
  [][pc = "idle" /\ market \notin {"none", "placement_pending"} =>
       market' = market /\ signatures' = signatures]_vars

\* "every send for a market is the same signed order, so a late one earns
\* 'not ready' or 'duplicated', never a second order" (exchange.py:287-289).
NoSecondOrder ==
  \A o, p \in resting : o.account = p.account /\ o.leg = p.leg => o = p
============================================================================
