----------------------------- MODULE ExitLadder -----------------------------
(***************************************************************************)
(* The take-profit ladder over one entry (service.py _place_missing_exits, *)
(* exchange.py place_exit and reconcile_ambiguous_exit, database.py        *)
(* exit_handled_size and active_exit_reserved_size).                       *)
(*                                                                         *)
(* The entry fills lot by lot at the venue and its tokens settle later; so *)
(* do the sales of its exits.  A pass is made when the entry's row grew or *)
(* a settlement was heard of; it works out what each rung still lacks from *)
(* the rows, reads the balance once, and submits rung after rung while the *)
(* venue goes on.  A submission that got no answer may come into force     *)
(* later, and the list of open orders may lack an order.                   *)
(*                                                                         *)
(* Simplifications: one entry row (a fleet is buy-only); sizes are whole   *)
(* units, a lot being Parts of them of which rung r gets Share[r].  How a  *)
(* row learns of its order is OrderLedger's business: here it may lag, and *)
(* is exact once it says that the order is over.  The model is of the time *)
(* before the market's cutoff: no pass is begun after it.                  *)
(***************************************************************************)
EXTENDS Integers, Sequences, FiniteSets, Functions

CONSTANTS
    Lots,           \* the entry's size
    Parts,          \* units in a lot
    Share,          \* sequence: units of a lot that each rung sells
    MinSize,        \* the market's minimum order size
    MaxExits        \* bound on exit orders

ASSUME LadderAssumption ==
    /\ Lots \in Nat /\ Parts \in Nat /\ MinSize \in Nat \ {0}
    /\ MaxExits \in Nat
    /\ Share \in Seq(Nat)

Rungs == 1 .. Len(Share)
Ids == 1 .. MaxExits
NoOrder == [rung |-> 0, size |-> 0, matched |-> 0, state |-> "none"]
NoRow == [status |-> "absent", matched |-> 0]
Idle == [todo |-> {}, lacking |-> [r \in Rungs |-> 0], available |-> 0]

VARIABLES
    filled, settled,    \* the entry at the venue, in lots
    order,              \* exit orders at the venue, by id
    paid,               \* units whose sale has settled
    learned,            \* the entry row's matched size
    row,                \* exit rows with an id
    failed,             \* per rung, units in rows that say "failed"
    heard,              \* an event about a settlement waits to be read
    pass,               \* the pass in progress
    step,               \* "idle", "submit" or "reconcile"
    missed,             \* history: something came in the way of a pass
    mistaken,           \* history: per rung, units submitted without an
                        \* answer, and found in an order that had its row
    ahead               \* history: the most that the rows called sold and a
                        \* balance read for a pass still counted

entry == <<filled, settled, heard, learned>>
rows == <<row, failed>>
walk == <<pass, step>>
noted == <<missed, mistaken, ahead>>
vars == <<entry, order, paid, rows, walk, noted>>

Smaller(x, y) == IF x < y THEN x ELSE y
Larger(x, y) == IF x > y THEN x ELSE y

OfRung(r) == {n \in Ids : order[n].rung = r}
Resting == {n \in Ids : order[n].state = "resting"}
Remaining(n) == order[n].size - order[n].matched
Sold == SumFunctionOnSet([n \in Ids |-> order[n].matched], Ids)

\* What an order has sold or may yet sell.
Exposed(n) == IF order[n].state = "over" THEN order[n].matched ELSE order[n].size

Init ==
    /\ filled = 0 /\ settled = 0 /\ heard = FALSE /\ learned = 0
    /\ order = [n \in Ids |-> NoOrder] /\ paid = 0
    /\ row = [n \in Ids |-> NoRow]
    /\ failed = [r \in Rungs |-> 0]
    /\ pass = Idle /\ step = "idle"
    /\ missed = FALSE /\ mistaken = [r \in Rungs |-> 0] /\ ahead = 0

(***************************************************************************)
(* The venue.                                                              *)
(***************************************************************************)
Fill ==
    /\ filled < Lots
    /\ filled' = filled + 1
    /\ UNCHANGED <<settled, heard, learned, order, paid, rows, walk, noted>>

\* Tokens of a fill arrive; the stream's event about it comes, or is lost with
\* the connection.
Settle(lost) ==
    /\ settled < filled
    /\ settled' = settled + 1
    /\ heard' = (heard \/ ~lost)
    /\ missed' = (missed \/ lost)
    /\ UNCHANGED <<filled, learned, order, paid, rows, walk,
                   mistaken, ahead>>

\* An exit sells part of its rest or all of it.
Sell(n, units) ==
    /\ n \in Resting /\ units <= Remaining(n)
    /\ order' = [order EXCEPT ![n].matched = @ + units,
                              ![n].state = IF units = Remaining(n) THEN "over"
                                           ELSE "resting"]
    /\ UNCHANGED <<entry, paid, rows, walk, noted>>

\* The tokens of sales leave the balance.
SaleSettles ==
    /\ paid' \in paid + 1 .. Sold
    /\ UNCHANGED <<entry, order, rows, walk, noted>>

\* A submission without an answer comes into force at last.
Register(n) ==
    /\ order[n].state = "late"
    /\ order' = [order EXCEPT ![n].state = "resting"]
    /\ UNCHANGED <<entry, paid, rows, walk, noted>>

\* The venue takes an exit off its book; no pass comes of that.
Drop(n) ==
    /\ n \in Resting
    /\ order' = [order EXCEPT ![n].state = "over"]
    /\ missed' = TRUE
    /\ UNCHANGED <<entry, paid, rows, walk, mistaken, ahead>>

\* Mutation of LearnExit: what is reported is added to what is known.
LearnExitAdding(n) ==
    /\ step = "idle" /\ row[n].status # "absent"
    /\ row' = [row EXCEPT ![n] = [status |-> IF order[n].state = "over" THEN "over"
                                             ELSE "active",
                                  matched |-> @.matched + order[n].matched]]
    /\ UNCHANGED <<entry, order, paid, failed, walk, noted>>

\* A row learns what became of its order; what it said before is overwritten.
LearnExit(n) ==
    /\ step = "idle" /\ row[n].status # "absent"
    /\ row' = [row EXCEPT ![n] = [status |-> IF order[n].state = "over" THEN "over"
                                             ELSE "active",
                                  matched |-> order[n].matched]]
    /\ UNCHANGED <<entry, order, paid, failed, walk, noted>>

(***************************************************************************)
(* A pass.                                                                 *)
(***************************************************************************)

\* What the rows of a rung say is sold, on offer, or unclear.
HandledSize(r) ==
    failed[r] + SumFunctionOnSet(
        [n \in Ids |-> IF row[n].status = "active" THEN order[n].size
                       ELSE row[n].matched],
        {n \in OfRung(r) : row[n].status # "absent"})

\* What the rows of the outcome say is on offer.
ReservedSize ==
    SumFunctionOnSet([n \in Ids |-> order[n].size - row[n].matched],
                     {n \in Ids : row[n].status = "active"})

\* What the rows say is sold.
KnownSold == SumFunctionOnSet([n \in Ids |-> row[n].matched], Ids)

\* Mutation of Lacking: what failed without a clear answer is offered again.
LackingAgain(r, lots) == lots * Share[r] - HandledSize(r) + failed[r]

Lacking(r, lots) == lots * Share[r] - HandledSize(r)

\* Mutation of Available: the rows' own offers are forgotten.
AvailableUnreserved == settled * Parts - paid

\* The balance counts what has settled, so a sale that has not is still in it.
Available == Larger(0, settled * Parts - paid - ReservedSize)

\* The rungs a pass looks at: those that lack a valid order's worth.
Todo(lots) == {r \in Rungs : Lacking(r, lots) >= MinSize}

\* Somebody's sale is in the balance and not yet in its row.
RowsBehind == \E n \in Ids : row[n].status = "active" /\ row[n].matched < order[n].matched

\* The entry's row grew to lots, or a settlement was heard of with it as it is.
BeginPass(lots) ==
    /\ step = "idle"
    /\ learned' = lots
    /\ IF Todo(lots) = {} \/ Available < MinSize
       THEN UNCHANGED <<walk, ahead>>
       ELSE /\ pass' = [todo |-> Todo(lots),
                        lacking |-> [r \in Rungs |-> Lacking(r, lots)],
                        available |-> Available]
            /\ step' = "submit"
            /\ ahead' = Larger(ahead, KnownSold - paid)
    /\ missed' = (missed \/ RowsBehind)
    /\ UNCHANGED <<filled, settled, order, paid, rows, mistaken>>

EntryGrew ==
    \E lots \in learned + 1 .. filled : BeginPass(lots) /\ UNCHANGED heard

\* Mutation of SettlementHeard: the event says nothing to the ladder.
SettlementIgnored ==
    /\ heard /\ heard' = FALSE
    /\ step = "idle"
    /\ UNCHANGED <<filled, settled, learned, order, paid, rows, walk, noted>>

SettlementHeard == heard /\ heard' = FALSE /\ BeginPass(learned)

\* The read of the balance raises: the run ends.  Its successor works on the
\* same rows, and has no reason for a pass until something changes.
BalanceRaises ==
    /\ step = "idle"
    /\ learned' \in learned .. filled /\ (learned' = learned => heard)
    /\ Todo(learned') # {}
    /\ missed' = TRUE
    /\ heard' = FALSE
    /\ UNCHANGED <<filled, settled, order, paid, rows, walk, mistaken, ahead>>

\* They are taken in the plan's order.
Rung == CHOOSE r \in pass.todo : \A q \in pass.todo : r <= q

\* At least MinSize, as Todo and GoOn see to it for both: the size check before
\* a submission (service.py:1399) never skips a rung.
Size == Smaller(pass.lacking[Rung], pass.available)

\* Going on to the next rung with that much available.
GoOn(left) ==
    LET rest == pass.todo \ {Rung}
    IN IF rest = {} \/ left < MinSize
       THEN pass' = Idle /\ step' = "idle"
       ELSE pass' = [pass EXCEPT !.todo = rest, !.available = left]
            /\ step' = "submit"

\* The next unused id: what the venue would call the order.
Fresh(n) == order[n].state = "none" /\ \A m \in Ids : m < n => order[m].state # "none"

\* The venue's book after it took the order, that much of it matched at once.
Enter(n, units, state) ==
    /\ Fresh(n)
    /\ order' = [order EXCEPT ![n] = [rung |-> Rung, size |-> Size,
                                      matched |-> units, state |-> state]]

\* The venue takes the order.  One that meets bids is matched in whole or in
\* part; an exit of its rung that rests would have met them first.
Accept(n, units) ==
    /\ units > 0 => \A m \in Resting : order[m].rung # Rung
    /\ Enter(n, units, IF units = Size THEN "over" ELSE "resting")

\* What of an order may be matched at once.
AtOnce == {0, 1, Size}

\* add_order: a row is written afresh, even where there was one.
Write(n, matched) ==
    row' = [row EXCEPT ![n] = [status |-> IF matched = 0 THEN "active" ELSE "over",
                               matched |-> matched]]

\* The reply "matched" counts for the whole size, whatever was matched.
Placed(n) ==
    /\ step = "submit" /\ Size >= MinSize
    /\ \E units \in AtOnce : /\ Accept(n, units)
                             /\ Write(n, IF units > 0 THEN Size ELSE 0)
    /\ GoOn(pass.available - Size)
    /\ UNCHANGED <<entry, paid, failed, noted>>

\* The submission raises: it was refused, or taken and the answer lost, or it
\* is still under way.
Raised ==
    /\ step = "submit" /\ Size >= MinSize
    /\ step' = "reconcile"
    /\ missed' = TRUE
    /\ \/ UNCHANGED order
       \/ \E n \in Ids : Enter(n, 0, "late") \/ \E units \in AtOnce : Accept(n, units)
    /\ UNCHANGED <<entry, paid, rows, pass, mistaken, ahead>>

\* The open orders that look like the one submitted.
Matches(shown) ==
    {n \in shown : order[n].rung = Rung /\ order[n].size = Size}

\* The list shows exactly one: it is written down as if it had been answered.
\* It may be an older one, if the list lacks the one submitted.
Identified(n) ==
    /\ step = "reconcile" /\ \E shown \in SUBSET Resting : Matches(shown) = {n}
    /\ Write(n, 0)
    /\ mistaken' = IF row[n].status = "absent" THEN mistaken
                   ELSE [mistaken EXCEPT ![Rung] = @ + Size]
    /\ GoOn(pass.available - Size)
    /\ UNCHANGED <<entry, order, paid, failed, missed, ahead>>

\* None, several, or a read that fails: the size is written down as failed.
Unidentified ==
    /\ step = "reconcile"
    /\ failed' = [failed EXCEPT ![Rung] = @ + Size]
    /\ GoOn(pass.available)
    /\ UNCHANGED <<entry, order, paid, row, noted>>

Next ==
    \/ Fill \/ \E lost \in BOOLEAN : Settle(lost)
    \/ \E n \in Ids :
          \/ \E units \in {1, Remaining(n)} \ {0} : Sell(n, units)
          \/ Register(n) \/ Drop(n) \/ LearnExit(n)
          \/ Identified(n) \/ Placed(n)
    \/ SaleSettles
    \/ EntryGrew \/ SettlementHeard \/ BalanceRaises
    \/ Raised \/ Unidentified

Spec == Init /\ [][Next]_vars

\* Tokens settle, the rows of an entry follow its fills, and the main loop
\* goes on with a pass it began.
FairSpec ==
    /\ Spec
    /\ WF_vars(\E lost \in BOOLEAN : Settle(lost))
    /\ WF_vars(EntryGrew) /\ WF_vars(SettlementHeard)
    /\ WF_vars(\/ Raised \/ Unidentified
               \/ \E n \in Ids : Identified(n) \/ Placed(n))

-----------------------------------------------------------------------------
(***************************************************************************)
(* Properties.                                                             *)
(***************************************************************************)
\* Every variable keeps its type: a row never says that more was sold than its
\* order is for, no order sells more than its size, and a pass is in progress
\* or it is not.
TypeOK ==
    /\ filled \in 0 .. Lots /\ settled \in 0 .. filled
    /\ learned \in 0 .. filled /\ heard \in BOOLEAN
    /\ order \in [Ids -> [rung : 0 .. Len(Share), size : Nat, matched : Nat,
                          state : {"none", "late", "resting", "over"}]]
    /\ \A n \in Ids : /\ row[n].matched <= order[n].size
                      /\ order[n].matched <= order[n].size
    /\ paid \in 0 .. Sold
    /\ row \in [Ids -> [status : {"absent", "active", "over"}, matched : Nat]]
    /\ failed \in [Rungs -> Nat]
    /\ step \in {"idle", "submit", "reconcile"}
    /\ step = "idle" <=> pass = Idle
    /\ missed \in BOOLEAN
    /\ mistaken \in [Rungs -> Nat] /\ ahead \in Nat

\* "Only the matched entry quantity is offered" (README.md:199): what a rung
\* has sold and may yet sell is never more than its share of what the entry
\* filled, over partial fills, refused, unanswered and late submissions and
\* restarts - and what a submission without an answer adds to that when an
\* older, equal exit was taken for it (exchange.py:742) is all that there ever
\* is above it.
OnlyMatchedIsOffered ==
    \A r \in Rungs :
        SumFunctionOnSet([n \in Ids |-> Exposed(n)], OfRung(r))
            <= filled * Share[r] + mistaken[r]

\* "Exit submission is also capped by the exchange-reported conditional-token
\* balance" (README.md:203): what the exits may yet sell is backed by tokens
\* that have settled and are not sold, but for what rows called sold while the
\* balance still counted it - a sale that has not settled, or the rest of an
\* exit of which only a part was matched at once.  Exits written off or taken
\* for one another are not looked at.
OfferedIsSettled ==
    (\A r \in Rungs : failed[r] = 0 /\ mistaken[r] = 0) =>
        SumFunctionOnSet([n \in Ids |-> Exposed(n) - order[n].matched], Ids)
            <= settled * Parts - Sold + ahead

\* What filled and settled is offered: a rung that lacks a valid order's worth
\* gets it, unless something got in the way that no later pass makes up for (a
\* lost settlement event, an exit the venue took off, a submission or a balance
\* read that raised, a sale the rows had not heard of).
SettledIsOffered ==
    \A r \in Rungs :
        Lacking(r, filled) >= MinSize
            ~> (Lacking(r, filled) < MinSize \/ missed)
=============================================================================
