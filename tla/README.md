# A TLA+ model of polymarket_event_quant

The program under `src/` trades short Up/Down markets on Polymarket. It signs
one Up and one Down bid per market before the market's book opens, sends them
over and over ("knocking") until the venue registers them, keeps track of what
rests and what filled in SQLite, and cancels what is left before the market
ends. This directory models the parts of it whose correctness depends on the
order in which things happen. Paths below are relative to the repository, i.e.
`service.py` is `src/polymarket_bot/service.py` and `knock.go` is
`src/knocker/internal/knock/knock.go`.

## 1. Inventory

| component | state | operations | talks to |
|---|---|---|---|
| main loop (`service.py` `BotService`) | the tick's place, `activation_market_updates`, `_placement_retries`, `last_reconcile` | `_tick`: drain activation, drain reconciliation, drain stream, drain geoblock, cancel due orders, submit a reconciliation, place; shutdown path of `run` | every worker through queues it drains; the venue through blocking calls; the only writer of the tables |
| database (`database.py`) | tables `runs`, `markets`, `orders`, `events` | add/prepare market, add/update/mark order, queries | called by the main loop only |
| reconciliation worker (`reconciliation.py`) | one request slot, busy flag, queue of updates | read open orders, read each tracked order, re-read the missing ones after 1 s | venue REST; main loop |
| user stream (`user_stream.py`) | health flag, registration clock, queue of updates | connect, accept event, set health | venue WebSocket; main loop; the fleet reads the registration clock |
| knock engine (`knocker/internal/knock`) | per knock: members with counters, accepted orders, drain deadline; per process: `nextSlot`, `running`, burst and GC reference counts | timing thread, coordinator, one goroutine per send, preview watch, `StopAll` | venue HTTP/2 lanes; Python through ctypes |
| knocker binding (`knocker.py`) | interrupted flag, hooks per account | `knock`, `take_interrupt`, trace collection | main loop, engine |
| exchange client (`exchange.py`) | signed pairs kept per market | prepare, settle, finalize an entry; reconcile an ambiguous entry; exits; cancel | venue REST, engine |
| fleet (`fleet.py`) | members with phases | place with all members, choose one, cancel the others | exchange clients, registration clock |
| placement (`service.py` `_consider_market` ... `_requeue_placement`) | market state, retries | eligibility, limits, place, requeue, skip | fleet or exchange, database |
| exit ladder (`service.py` `_place_missing_exits`, `_place_exit_rung`) | exit rows per entry | place the missing rungs of take-profit orders | exchange, database |
| market activation (`market_activation.py`) | candidates, emitted set, health per component | poll discovery, poll market parameters, emit | Gamma and CLOB; main loop |
| geoblock worker (`geoblock.py`) | available/blocked, last result | poll, report changes | main loop (stops the run) |
| discovery (`discovery.py`) | none | list the window's markets, find one by name | Gamma; called by the activation worker |
| paper simulator (`paper.py`) | its own SQLite tables of snapshots and results; its own activation worker | register, capture queue snapshot, settle, summarise | public REST |
| queue probe (`queue_probe.py`) | samples | watch books, write rows | public WebSocket |
| instance lock (`lock.py`) | a lock file | acquire, release | the OS |
| configuration, CLI, setup, transport, conditional tokens | none that outlives a call | parse, wire up, one-shot transactions | - |
| the venue, Gamma, Polygon | external | - | - |

### What is hard here

*Concurrency.* The main loop is single threaded but blocks for minutes in a
knock; five kinds of worker threads keep producing while it does, so
everything it drains afterwards may be old. Inside a knock a timing thread, a
coordinator, a preview watch and one goroutine per request share member state
through channels and one atomic.

*Ordering.* The same order is spoken of by a WebSocket push, two kinds of REST
read, a cancel answer, and the reply to its placement. They arrive in any
order, and the table keeps one word.

*Failure.* A send may register at the venue and its reply be lost; a
WebSocket loses what happens while it is down; a read may come before the
venue's index has the order; a cancel call may raise after the venue acted on
it; the process may be killed anywhere, and only SQLite survives.

*Time.* A market ends; cancels must precede that; knocking has a budget; a
drain lasts three seconds; a fresh row is protected for sixty.

### What makes each component correct

- Ledger: a row in a terminal state is not the row of an order that still
  rests; a recorded fill is a real fill; an order whose placement lost it gets
  a row while its run goes on; what rests past the cutoff is cancelled; Ctrl+C
  asks for everything recorded.
- Knock: it returns; every member says what it came to; replies are counted
  once; what was heard within the drain is reported; a stop request reaches it.
- Timetable: a member's slots are those of its bursts and cadence, in order,
  none twice; a new knock does not start inside the spacing of the last one.
- Fleet and placement: at most one pair is left for a market; a market is
  retried only when nothing can be resting; every accepted order is written
  down with the account that owns it.
- Exits: never more offered than filled, settled and not yet handled.
- Activation: a market is emitted once, none is lost on the way, one the CLOB
  does not know yet does not starve the others, the loop does not sleep over one.
- Paper: a recorded fill is never more than an order in that queue would have
  got, a market is measured once, and every measured market is settled.

Not all of this is true of the code. Where it is not, the properties say how far
it goes, in words of their own; three of the gaps are findings, with a run that
shows them (`ledger_stale`, `place_restart`, `place_limits`), and the others are
in the sections' "Divergences".

## 2. Plan

Modules in the order of their weight for the system.

| module | what it models | proofs |
|---|---|---|
| `OrderLedger` | the main loop, reconciliation, the user stream and the orders table | `OrderLedgerProofs` |
| `Knock` | one knock: caller, timing thread, coordinator, sends, stop | `KnockProofs` |
| `EntryPlan`, `Placement` | a market's entry: what is promised, and how it is done | `PlacementProofs` |
| `Activation` | the market activation worker's two threads and the loop they wake | `ActivationProofs` |
| `Timetable` | slots over knocks that follow one another, and the hold on replies and on collections | `TimetableProofs` |
| `ExitLadder` | which part of a fill is offered at which rung, over unanswered exits | `ExitLadderProofs` |
| `Paper` | the paper simulator beside the venue it estimates | `PaperProofs` |

`Knock` and `Placement` meet at the knock's result: `Placement!KnockReturns`
takes any result that `Knock` can return. `Placement` and `OrderLedger` meet at
the table: `OrderLedger!FinishPlacement` writes down some of what registered,
which is what `Placement` shows in detail, and `Placement!Adopt` is the effect
of `OrderLedger!Absorbed`. The three are not composed into one: the product has
far too many states, and each interface is one step.

`Activation` and `Placement` meet at `activation_market_updates`: what
`Activation` hands to `_consider_market` is `Placement!Activate`, its `MeetLimit`
is `Placement!OverLimit`, and its requeue `Placement!Requeue`. `Timetable`
and `Knock` meet at the slot channel: `Knock!ChooseSlot` leaves open when a slot
comes, `Timetable` leaves open when a knock ends or a member stops, and takes
from `Knock` that every knock ends. `OrderLedger` and `ExitLadder` meet at the
exit rows: how a row learns of its order is `OrderLedger`'s, what is offered
because of it is `ExitLadder`'s.

Every invariant and action property of a passing run is also a theorem (section
10); `MinimalElements` holds the lemmas about least elements and sums that three of
the proof modules share. What stays with TLC are the liveness properties. A proof
still worth having: how much a fleet's failed cancel can leave unrecorded when a
ticket has two legs (section 5).

## 3. OrderLedger

State against code: `venue` and `indexed` are the venue's truth and what its
read index shows (external); `row` is the `orders` table with `absent` for no
row; `fresh` is "recorded less than FRESH_ORDER_GRACE_SECONDS ago"; `lost` are
the orders whose placement raises before their rows are written, chosen
beforehand; `wire` and `inbox` are what the WebSocket has pushed and what
`UserStreamWorker` has queued; `job` and `updates` are the reconciliation
thread's round and its output queue; `main` is the line of `_tick` (or of the way
out of `run`) the loop is at; `call` is the cancel call it is in; `grown` is
`order_changed` of the drain in progress.

Actions against code: the main loop's steps in the order `_tick` has them
(`DrainReconciliation`, `DrainUserStream`, `CancelDueOrders`,
`SubmitReconciliation`, `BeginPlacement`/`FinishPlacement`/`NothingToPlace`),
the two blocking cancel calls answered one order at a time (`ServeCancel`,
`RefuseCancel`, `CancelReturns`, `SweepReturns`), every way out of `run`
(`Interrupt`, `Fail`, `StopReconciliation`, `LastDrain`, `LastStreamDrain`,
`CancelTrackedOrders`), `Crash` and `Restart`; the worker's reads, one action
per request, its pause and its second look; the stream; the venue. A drain that
saw a fill grow looks for missing exits, and the balance read in there is not
guarded (`service.py:1379`): `ReconciliationRaises` and `StreamRaises` are the
drains that raise, in a tick or on the way out. Ctrl+C may come anywhere in the
tick, also in a placement whose rows are not written yet: it is held back only
inside the Go knock (`knocker.py:182-197`).

| run | instance | shows |
|---|---|---|
| `ledger` | 1 order, 2 markets, 2 starts, 1 disconnection, all ways to stop | `TypeOK`, `OnlyStaleVerdictsRetire`, `StopAsksForEveryOrder` |
| `ledger_live` | 1 order of 2 shares that its placement may lose, WebSocket up, no stop, fair | `FillsAreReal`, `OrphanIsAdopted`, `CutoffCancels`, `LedgerConverges` |
| `ledger_stale` | 1 order, 2 markets | finding: `NoLiveOrderRetired` fails |

Bounds. Orders touch each other only by sharing a market, a reconciliation
round and a cancel call, and each is treated on its own in all three: one order
shows every interleaving of the channels that speak of it, and the proofs cover
any number. The second market is one whose placement holds the loop. Two shares
give a partial fill. Two starts give an order recorded by one run and met by the
next; one disconnection loses any set of pushes.

Fairness. The main loop and the worker are threads that run (WF); the
reconciliation timer comes round and its reads succeed again and again (SF);
the index catches up, the socket reconnects and pushes arrive (WF); a cancel
call that is repeated is served in the end (SF), which the deadline cancel's
own retries rest on. `Submits` is fair because the 60 s timer is.

What is found. `ledger_stale`: the grace of a fresh row is measured when a report
is drained (`service.py:445`), not when the venue was read. The loop drains
nothing while it places, and a knock may hold it for 240 s
(`exchange.py:54`), so a verdict "no such order" from inside the grace retires a
live order, which `service.py:47-49` is there to prevent. `Ages` says when this
can happen: a verdict that waits outlives the grace only during a placement.
`OnlyStaleVerdictsRetire` says that nothing else finishes the row of a live
order; `CutoffCancels` and `StopAsksForEveryOrder` leave out a row so finished.

Divergences met without a run of their own.

- A drain on the way out that raises skips the rest of `run`'s `finally`
  (`service.py:299-312`), so Ctrl+C then asks for nothing, where `README.md:212`
  of the repository says that it cancels all open orders recorded. `exit` is
  "raised" then, and `StopAsksForEveryOrder` speaks of ways out that are gone to
  their end.
- Ctrl+C in a placement outside the Go knock leaves the orders that registered
  without a row, and the sweep asks for rows only.
- An order without a row is not found again by the next process: adoption takes
  orders of markets that this `run_id` prepared (`database.py:332-339`).
  `OrphanIsAdopted` is about a run that goes on.
- Terminal states are sticky for reconciliation only (`service.py:451-455`): an
  event queued before a cancel answer makes a finished row live again until the
  next round (`service.py:681`).
- An order filled while the WebSocket is down and found gone by the deadline
  cancel becomes `terminal_unknown` and never gets its fill recorded
  (`service.py:739`), which is why `LedgerConverges` is checked with the socket
  up and for orders that a placement recorded; an adopted row starts without its
  fills.

Not in the model: orders placed by hand, which adoption tells from the bot's by
their price (`service.py:522-525`) and pushes and cancels by having no row; replies
that say "matched", which entries, being post-only, do not get (exits do: section 8).

## 4. Knock

State against code: `mem` are the engine's `member` structs; `slots` is the
slot channel; `timing` is the goroutine `tick` and, before it, the preview
watch; `sends` are the goroutines of requests without a processed reply, each
with its answer once it has one; `failure` and `stopping` are the channels of
those names; `interrupted` and `told` are the Python caller's; `clock` is early,
past the budget, or past the market.

Actions against code: `Start`, `CtrlC`, `StopAll` (caller); `RecordTurns`,
`ChooseSlot`, `HandOver`, `TimingEnds`, `ThreadFails` (timing thread);
`OnSlot`, `OnReply`, `TakeFailure`, `TakeStop`, `DeadlineFires`, `Return`,
`CoordinatorFails` (one per arm of the coordinator's select, and its end);
`ClockMoves`, `DrainEnds` (time); `DoorOpens`, `Reach`, `Miss` (venue).

| run | instance | shows |
|---|---|---|
| `knock` | 1 account, 2 legs, 2 in flight, 2 sends, preview wait, failing threads and sends, fair | `TypeOK`, `EveryMemberExplains`, `RepliesCountedOnce`, `StoppedSendsNothing`, `KnockReturns`, `TimingThreadEnds` |

Bounds. The cap on requests in flight is the code's, cut to 2, the slot channel
is cut to 1: both limits are met, and a slot waits in the channel while its
member stops. Two sends let each leg go out, or one be resent, and a reply come
after its member stopped. `MaxAttempts` ends the timing thread's choices, as the
deadline does in the code. Accounts share the slot channel and the end of the
knock and nothing else; what holds of several of them in safety is proved for
any number of accounts, legs and sends and for any caps. `EveryMemberExplains` is
about there being a reason; it may be as little as the venue's last "not ready".
With one member no reply comes after the drain; `CountIsExact` covers that.

Fairness. Goroutines run, each arm of the coordinator's select that stays ready
is taken in the end (Go picks among ready arms at random), and the drain's timer
fires: weak fairness throughout, since every one of these stays enabled until
taken. Nothing is asked of the venue: no reply ever has to come; nor of the
clock: `KnockReturns` speaks of a deadline that is there, or of a stop.

Divergences. A send still unanswered when its member's drain ends is in neither
list of `run.result` (`knock.go:601-631`), so a member whose order rests behind
it comes back as an ordinary failure, where `exchange.py:354-356` promises an
`AmbiguousPlacementError` when "some sends never got a verdict". `StopAll`
reaches only knocks already in `running` (`knock.go:191-193`) and the caller
calls it once (`knocker.py:187-189`), so a Ctrl+C before that is dropped.

## 5. EntryPlan and Placement

`EntryPlan` is what the bot promises of one market's entry: it is taken up, may
be put off, is decided once; and no account ever has a second order of a leg
registered. `Placement` is how: state against code, `market` and `rows` are the
two tables; `update` and `retry` are the market's place in
`activation_market_updates` and `_placement_retries`; `pc` is the line the main
loop is at between `_consider_market` and the last commit; `signatures` and
`signed` are how often each account signed and the pair it keeps
(`_prepared` in `exchange.py`); `outcome` is each member's state through
`Fleet.place` or `_place`; `kept` and `status` are the fleet's choice and what
its cancels were answered; `book`, `sent`, `resting`, `pushed`, `door` are the
venue and what the user stream has told of it.

An order is an account, a leg and the number of the signature: two orders of one
account and leg that differ are two signatures, which is what the code's reuse
of the signed pair is there to prevent.

Actions against code: `Activate`; the ways `_consider_market` can go
(`TooLate`, `NothingToDo`, `Skip`, `Begin`) and the limit that ends the list
before or at it (`OverLimit`); signing and the knock (`Sign`, `PlaceRaises`,
`KnockReturns`, `KnockRaises`); settling a member (`Settle`), reading back a lone
account's ambiguous knock (`Reconcile`), choosing and cancelling (`Choose`,
`CancelLaggard`, `Cancelled`); the rows one commit at a time (`RecordOrder`) and
the state last (`Activated`, `Fails`, `Requeue`); adoption (`Adopt`), `Restart`,
and the venue. `stamp` is the millisecond in which the venue says it registered an
order (`user_stream.py:226-228`); several may be in the same one, and the choice
then goes by the members' place in the list (`fleet.py:345-350`).

| run | instance | shows |
|---|---|---|
| `place_fleet` | 2 accounts, 1 leg, cancels that fail, restarts | `TypeOK`, `AcceptedIsWrittenDown`, `FirstTicketIsKept`, `RetryStartsClean`, `NeverPlacedTwice` |
| `place_entry` | 1 account, 2 legs, up to 2 signatures, cancels that fail, fair | `ImplementsEntryPlan`, `UndecidedForAReason` |
| `place_restart` | 1 account, 1 leg, restarts | finding: `NoSecondOrder` fails |
| `place_limits` | 1 account, 1 leg, fair | finding: `EntryIsDecided` fails |

Limits and adoption are in all four. Bounds. One market: markets meet in a
placement only through the limits, which are a free choice here. One leg where the
fleet's choice is the question (a ticket is its first registration), two where one
side alone can be accepted. Two signatures are one more than the code should ever
need; the invariant shows one is never exceeded without a restart.

Deadlock is not checked in this module nor in `Knock`: an entry ends, and so does
a knock.

Fairness (`place_entry`, `place_limits`). The main loop keeps ticking and every
call it makes returns (WF of `LoopNext`); markets end (WF of the last tick of the
clock). The workers are taken to be healthy, since an unhealthy one stops
placements by design.

What is found. `place_restart`: a crash during a retry's knock lets the next
process sign a second order beside the first. `place_limits`: a limit reached
while the list of activated markets is worked through drops what is left of it,
the retry of a pending market among it, for good (`service.py:384-397`), where
`README.md:216-218` of the repository says they "remain eligible".
`UndecidedForAReason` is what holds: nothing leaves a market undecided but such a
limit or a row that adoption wrote while it was pending, which ends its retries
too (`database.py:175-188`).

Divergences met without a run of their own: a cancel of a lone accepted side that
raises takes the result along, so the order gets no row (`exchange.py:453`); in
`place_fleet` no side is alone, with several legs `AcceptedRecorded` assumes that
such cancels reach the venue. An ambiguous member beside a kept ticket is never read
back (`fleet.py:303`). After a failed read of an ambiguous knock the market is
skipped, because its own order has opened the book (`service.py:938`).

Not in the model: `_discover_and_place` (`service.py:785-807`), the way of the
other discovery order, which places what discovery returns without a look at the
door; the state `exit_error`, which the exits put on an active market
(`service.py:1459`) and which forbids a placement as `active` does; sizes and prices.

## 6. Activation

State against code: `nextStart` is `_next_start_ts`, `answer` what the metadata
thread has read and not yet registered, `candidates` and `handled` the two
collections under the lock, `poller`, `round` and `asked` the activation
thread's place in `_poll_market_parameters`, `queue` is `_updates`, `wake` the
event it shares with the main loop; `inbox` is the main loop's
`activation_market_updates` and `walk` what `_place_activated_markets` took off it
and has not come to. `considered`, `dropped`, `gone`, `seeded` and `discovered` are
history.

Actions against code: `Seed`/`RegisterSeed` and `FindNext`/`RegisterNext` are
`_poll_discovery` on its two branches, split at the request; `BeginRound`, the
three ways a request can go (`AskUnknown`, `AskFails`, `AskKnown`),
`TakeCandidate` (the pop under the lock and the put) and `SetWake` are a round;
`ClearWake`, `Drain`, `Place` or `PlaceLater`, the walk market by market
(`Consider`, which may hand the market to the next tick as `_requeue_placement`
does, `MeetLimit`, `EndWalk`) and `WaitEnds` are the main loop's turn in its order,
`Interrupt` and `LastDrain` its end.

| run | instance | shows |
|---|---|---|
| `activation` | 3 markets, a window of 2 seeded farthest first, a clock that ends the first, fair | `TypeOK`, `EmittedOnce`, `OnlyLimitsLose`, `NoSleepOverUpdate`, `KnownIsConsidered` |

Bounds. Two markets can be seeded and one found by name, or one and two; the
clock can end a market before, during and after its request. Markets meet only
in the round's order, in the queue and in the walk, which three of them show.

Fairness. The threads run; Gamma's answer about a market it lists arrives in the
end; no market's CLOB request raises for ever (SF per market); trading is
possible again and again (SF of `Place`). What Gamma lists and the CLOB knows is
not assumed, nor that a market put off is ever put off for the last time.

Divergences. The list is emptied before it is walked, and a limit ends the walk
(`service.py:384-397`): the markets behind it are considered by nobody, although
`README.md:216-218` of the repository calls them eligible. `OnlyLimitsLose` says
that this is the only way to lose one, and the finding `place_limits` (section 5)
shows it for a market that waits for its retry. A request that raises ends the
round for everybody behind it (`market_activation.py:151-164`), so candidates are
not quite "checked independently" (`README.md:124`): a market whose request raised
in every round would hold up those behind it, which is what the fairness per
market leaves out. A name Gamma never lists stops the walk from name to name
there, by design.

## 7. Timetable

State against code: `start`, `next` and `due` are the locals of `run.tick`, `pc`
its line, `nextSlot` the map of that name, `held` the threads between `burstOn`
and `burstOff`, `bursting`/`channel` and `gcHeld`/`gcPercent`/`gcSaved` the two
reference counts of `quiet.go`; `reader` is a call of `KnockerNextAttempts` with a
reply in hand and `reading` the channel it waits on. `clear` and `stray` are
history: the slot after an account's last send, and the accounts for which a knock
returned while its thread was between its look for the end and its write.

Operators against code: `CeilDiv`, `SlotAtOrAfter` and `At` are `ceilDiv`,
`SlotAtOrAfter` and `timetable.at` with Go's integer division; `BurstPhase`,
`Until` and `Origin` are `timeBursts`. Actions: `LayOut` (the wait for the record
is over or there was none), `Choose`, `Wake`, `HandOver`, `WriteNext`,
`SleptForNothing`, and the thread's ends `NobodySends` and `SeesTheEnd`; `Begin`,
`MemberStops` and `Return` stand for the caller and the coordinator, which may
end a knock at any moment.

| run | instance | shows |
|---|---|---|
| `timetable` | 1 account, 2 knocks, each with a preview or without, a cadence of 4 and a burst its end cuts short, anchors up to 1 in the past, 7 moments, fair | `TypeOK`, `NextIsFirst`, `KeepsSpacing`, `NextSlotCoversLastSend`, `CountsAreHolders`, `ReaderLetGo` |

`NextIsFirst` compares `At` with a reference that lists all the slots of the
table and takes the earliest still to come.

Bounds. Two knocks give an old thread beside a new one; seven moments reach past
the burst, its reply margin and a turn of the cadence. Accounts have their own
slots and share a thread and the two counts.

Divergences. A thread looks whether its knock is over, hands the slot over and
writes the account's next slot down (`knock.go:319-336`). A knock that returns in
between leaves a write to come, which may move the slot of the next knock although
the comment at `knock.go:317-318` says that it "must not", and a new table laid out
before that write starts from an old slot, inside the spacing that
`knock.go:49-51` promises. The window is a few instructions against a caller that
has to return from one knock and sign for the next, but nothing in the code
closes it. `KeepsSpacing` and `NextSlotCoversLastSend` hold for every account but
those in `stray`, which are exactly the ones such a window was open for; without
that exception TLC violates both. Whatever else a thread of an old knock does, and
wherever a burst ends, the spacing is kept.

Fairness. The clock and the threads run; every knock ends (`Knock`). Calls of the
reader are not made to happen.

## 8. ExitLadder

State against code: `filled`, `settled`, `order` and `paid` are the venue's, `paid`
being how much of what the exits sold has left the balance; `learned` is the entry
row's matched size, `row` the exit rows with an order id, `failed` the sizes in
rows written as failed, `heard` the settlement events on their way; `pass` and
`step` are the locals of `_place_missing_exits` and the line of
`_place_exit_rung`. Three are history: `missed`, whether something came in the way
that no later pass makes up for; `mistaken`, per rung, what was submitted without
an answer and found in an order that had a row already; `ahead`, the most that
rows called sold while a balance read for a pass still counted it.

Actions against code: `EntryGrew` and `SettlementHeard` are the two reasons for a
pass in `_drain_user_stream_updates`, `BalanceRaises` the read that fails;
`Placed`, `Raised`, `Identified`, `Unidentified` are the ways a rung can go;
`LearnExit` a row hearing of its order. An exit may be matched at once, in whole or
in part (`Accept`); the reply "matched" writes the whole size either way
(`database.py:253-255`). A submission that raised was refused, or taken, or is
still under way and registers later (`Raised`, `Register`); the list of open orders
it is looked for in may lack any order (`Identified`, `Unidentified`). A sale leaves
the balance some time after it was made (`SaleSettles`).

| run | instance | shows |
|---|---|---|
| `exits` | 2 lots of 3 units, rungs of 2 and 1, minimum size 2, up to 3 exits, fair | `TypeOK`, `OnlyMatchedIsOffered`, `OfferedIsSettled`, `SettledIsOffered` |

Bounds. The second rung has to wait for both lots to make up a valid order, the
first can be cut by the balance and be offered in two parts; a third exit is one
more than the plan needs, so that one can be lost, late or mistaken. The model is
of the time before the cutoff, after which no pass is made.

Fairness. Tokens settle, the entry's row follows its fills, a pass goes on.

Divergences.

- "Only the matched entry quantity is offered" (`README.md:199` of the repository):
  a submission that raised is looked for by its rung's price and its size
  (`exchange.py:722-742`). If it is late, or the list lacks it, an older equal exit
  is taken for it and its row written anew; the one submitted then rests beside
  what the rows account for. `OnlyMatchedIsOffered` says that a rung's excess is
  never more than what went wrong in this way (`mistaken`).
- "Off-chain matches are never treated as already settled inventory"
  (`README.md:203-205`): that holds of the entry. An exit's sale, once its row
  knows of it, no longer counts as reserved, while its tokens are in the balance
  until the sale settles (`service.py:1379-1383`); and a "matched" reply to an exit
  matched in part counts the rest as sold too, though it rests. A pass then has
  that much available twice. `OfferedIsSettled` bounds it by `ahead`.
- An unanswered exit that cannot be identified is written off as failed: it is
  not offered again, but if it rests it is in no row and in no reserve, which is
  why `OfferedIsSettled` leaves such states out.
- A balance read that raises ends the run, and the next one has no reason for a
  pass until something fills or settles. A settlement event lost with the
  connection has the same effect, and so have an exit the venue took off and a
  submission that raised; `SettledIsOffered` leaves them out.

## 9. Paper

State against code: `row` is `paper_markets` with `absent` for no row; `pc`,
`snapshotPending`, `todo` and `passTs` are the place and the locals of
`PaperSimulator.run`, `_capture_pending_snapshots` and
`_settle_finished_markets`; `book` is what `_books` returned; `known` and `inbox`
stand for the simulator's own activation worker. Beside them goes what is
estimated: the venue's `queue` and `trades`, and the fate of an order that joined
the queue when the books were read (`ahead`, `truth`, and `hidden` when something
moved it that the counted trades do not show).

Actions against code: `Start`, `Drain`, `Retry`, `ReadBooks`, `SetSnapshot`,
`CaptureFails`, `BeginSettle`, `SetResult`, `NotSettled`, `Stop` with its last
drain, `Crash`; `Trade`, `Bid`, `Cancel`, `Resolve` are the venue. `Direct`,
`Complementary`, `Through`, `AtBoundary` and `FifoFill` are `execution_evidence` and
`fifo_fill`, `StartTs` and `Counted` are `_trades`.

| run | instance | shows |
|---|---|---|
| `paper` | 1 market of 2 seconds at 2 ticks each, a queue of up to 1, up to 3 trades (direct, complementary, through), 2 starts, fair | `TypeOK`, `FillIsLowerBound`, `MeasuredOnce`, `RegisteredIsDecided` |

Bounds. Rows do not touch each other. One bid before the order and an order of one
unit show every boundary of the fill: none, short of the queue, at its end, past
it. Two ticks in a second tell a trade before the snapshot from one after it in
its own second. Three trades can fill the page.

Fairness. Time passes, the simulator is started again while starts remain, a
retry and a poll are due again and again, a market is resolved, and requests about
a resolved market do not fail for ever.

Divergences. A trade through the price counts as a full fill whatever its size
(`paper.py:167-168`), so the "FIFO lower-bound fills" of the status report
(`paper.py:542`) are one only where nothing traded through, as
`README.md:241` says and `FillIsLowerBound` states. A lower bound on fills is no
lower bound on the result (`README.md:286` speaks of a conservative PnL): to
understate the fill of the losing side raises it. A market whose trades fill the
page stays in monitoring for good (`paper.py:835`). The snapshot may be written
after the market's end when a capture pass is slow: only the start of a pass looks
at the clock. The clocks of the host and the venue are taken to agree.

## 10. What is proved

All proofs are by TLAPS for every value of the constants that satisfies the
module's named assumption; two theorems of `PlacementProofs` say what they assume
beyond it.

`OrderLedgerProofs`. `TypeCorrect`, then `LedgerInvariant`: `LedgerInv` says
that wherever a statement about an order can be (pushed, queued, in a report of
a running or finished round, in a cancel answer, in its row) the venue bears it
out: no more matched than really is, over only if really over. The venue only
moves forward, so a statement once borne out stays so; that is why old reports
and pushes are harmless, and why the invariant must speak of all the channels at
once. The one statement that can be wrong is a round's "gone" of an order the
index does not show yet, and a row under the grace does not take it.
`OnlyStaleRetire` and `RecordedFillsAreReal` follow, for placements of any length.
`StopAsks`: from the sweep's call on, every recorded order that rests is one it
asked for (`StopInv`, resting on `LedgerInv`: a row that the sweep leaves out is
over, and over at the venue too unless a stale verdict finished it).

`PlacementProofs`. `TypeCorrect`; `PlacedOnce` from `RetryMatches`, which also
holds over restarts; `EntryPlanImplemented`, assuming no restart (`place_restart`
shows why), from `EntryInv`: the signed pair is at hand wherever the market can
be taken up again or its sends may still register (`PairIsKept`), so an account
signs once (`SignedOnce`), so two registered orders of one account and leg are
the same.

Three more of `PlacementProofs`. `RetriesAreClean`, in any process: `CleanInv` says that a try which
every member may repeat is one in which none got as far as a send, so that between
tries all that is at the venue was signed before the process started.
`AcceptedRecorded`: `WrittenInv` follows an accepted order from the knock's result
to its row; a part that is dropped holds none that rests. Its assumption, no
failing cancel where a ticket has two legs, excludes the one gap the code has
(section 5). `FirstTicketKept`: `TicketInv` ties the stamps the choice compares to
those of the venue, where a later registration has the same millisecond or a later
one; pushes and registrations after the choice do not change who was first
(`Precedes`).

`KnockProofs`. `KnockInvariant`: `KnockInv` adds to the properties that the
requests without a judged reply are told apart by their member and number
(`SendsNumbered`: a member counts its sends up, so a request answered or resent
is never mistaken for another, and the count of a set of them is exact) and that
no member is stopped without a reason (`StoppedExplains`, from which a return
with every member stopped explains each). `TypeCorrect`, `CountIsExact` and
`NoSilentMember` follow; `StopIsFinal` is the action property, from the types.

`ActivationProofs`. `Typing`, then `OnceEach`, `LostToLimitsOnly` and `WakesUp` for
any number of markets and any window, from `IInv`. The markets are told apart by
where they are, which `HandledIsAccounted` adds: what is handled has ended, is on
its way, was considered or was dropped, and no candidate is handled, so that a
market popped from the candidates cannot be on its way already, nor come back by a
later registration; that a considered market may be on its way again is the
requeue, which moves it from the walk to the inbox and makes no second of it.
`AnswerIsNext` says that the metadata thread's answer is about the name it moves
past, which `OnlyLimitsLose` needs. `WakeFollowsPut` carries `NoSleepOverUpdate`
back to the end of the drain: it rests on the order put, set, clear, drain, and on
the poller being the only one that puts.

`TimetableProofs`. `TypeInvariant` adds to the types where in its thread a holder
is and that it is counted once (`HoldInv`); `TypeCorrect` and `HoldsCounted`
follow. `FirstSlotNext` is
about the arithmetic for every timetable: `At` returns the least slot that is
left, through Go's division, burst by burst and then the cadence. It needs that a
nonempty set of numbers has a least one. `SlotInvariant`, and from it
`NextSlotCovers` and `SpacingKept`, for every timetable: `LateStrays` (a thread of
a knock that is over is past its look for the end only for an account that
strayed) and `Spaced` (what a thread waits for is at most the tolerance before the
slot after the account's last send, and what it is about to write is not before
it).

`ExitLadderProofs`. `ShapeInvariant`: types, that every order in force is of some
rung, and that a row that is over says no less than its order sold or may yet sell
(`Chain`). `LedgerInvariant`: what the rows and failures of a rung claim, with what
the pass still means to place, is within its share of what the entry's row says
filled (`Covered`); at most one order at a time is still to be learned of, the one
the pass submitted last (`Unclear`); the others without a row are within what was
written off or mistaken (`Doubts`), and unless there is any of that the exits'
offers and what the pass has available are within `Cap`, what settled and what was
counted though sold (`Accounted`). `OfferedIsMatched` and `OfferedIsBacked` follow
by comparing sums order by order. The conserved quantities are sums over the
exits, so the proofs rest on `MinimalElements`: that a sum over a set splits, grows
and changes with its terms is shown by taking a smallest set for which it would not.

`PaperProofs`. `BaseInvariant`: types, trades never of the future or of a market
that is over (`Dated`), and a pass going through the rows it was begun for
(`Passing`). `TypeCorrect` and the action property `MeasuredFirst` follow.
`FollowingInvariant`: with q bids before the order and b trades at the boundary
since, at most `Before(q, b)` bids are still before it and it got at least
`Got(q, b)`, and exactly so many while nothing hidden moved it (`Followed`). For a
picture whose stamp is not written yet that has to hold of every second the stamp
might leave to count from, any after that of the books (`Joins`); that `StartTs`
rounds up is what makes the stamp's one of them. `FillsAreLowerBounds` follows:
at settlement the trades counted are all there are from that second on, so the
fill is `Got`, and afterwards nothing moves the order any more.

Induction over data is not available as such, since the library's induction
theorems take an operator. Two ways around it are used: least elements
(`MinimalElements`), and history variables that make a count change with the
steps, so that the invariant's own induction does the work (`Followed`).

Not proved, only model-checked: every liveness property (fairness and ENABLED are
outside the prover): `OrphanIsAdopted`, `CutoffCancels`, `LedgerConverges`,
`KnockReturns`, `TimingThreadEnds`, `EntryIsDecided`, `KnownIsConsidered`,
`ReaderLetGo`, `SettledIsOffered`, `RegisteredIsDecided`.

## 11. Not modelled

Sizes and prices of entries and the reserve and daily-cost queries (they appear
as a limit that may be reached). The geoblock worker's polling: it reports the
changes of one flag, and the run stops at the first block. The health reports of
the activation worker and the user stream as far as only the log sees them. The
paper simulator's costs, payouts and status report: sums over settled rows. The
queue probe: it reads public books and writes CSV rows, and decides nothing.
HTTP/2 lane upkeep and request signing: one atomic counter and I/O. The venue
stand-in: a test server. Configuration, CLI, setup, transport and conditional
tokens: parsing, wiring and single transactions, without a state that outlives a
call. The instance lock: an OS file lock, on which `OrderLedger`'s single process
rests.
