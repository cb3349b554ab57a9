---------------------------- MODULE OrderLedger ----------------------------
(***************************************************************************)
(* The order ledger: what the bot's `orders` table says of each order,     *)
(* against what the venue really does with it.  Four parties move:         *)
(*                                                                         *)
(*   - the venue, which registers, fills and cancels orders, and whose     *)
(*     read index shows a fresh order only after a while (external);       *)
(*   - the user WebSocket, which pushes every change in order, but loses   *)
(*     what happens while it is disconnected (user_stream.py);             *)
(*   - the reconciliation thread, which reads the venue without holding    *)
(*     anything (reconciliation.py);                                       *)
(*   - the main loop, the only writer of the table (service.py `_tick`):   *)
(*     drain reconciliation, drain stream, cancel what is due, submit a    *)
(*     reconciliation, place.  It blocks while it places or cancels.       *)
(*                                                                         *)
(* What a placement does inside is left to other modules; here it ends in  *)
(* the registered orders it has not lost being written down.  The orders   *)
(* are the program's own entries.  They are post-only, so no reply to one  *)
(* says "matched"; exits are ExitLadder's business.                        *)
(*                                                                         *)
(* Abstractions: `open`, `live`, `delayed` and `unmatched` are one status, *)
(* "live" (every query treats them alike); `matched` and `filled` are one, *)
(* "filled".  The 60 s poll timer is a free choice to submit.  Failed      *)
(* individual reads leave no trace but an event and so yield no report.    *)
(***************************************************************************)
EXTENDS Naturals, Sequences, FiniteSets

CONSTANTS
  Orders,      \* order ids
  Markets,
  MarketOf,    \* [Orders -> Markets]
  Size,        \* shares per order
  MaxRun,      \* bound: how many times the bot is started
  MaxDrops,    \* bound: how often the user WebSocket disconnects in a run
  Losable,     \* orders that a placement may lose: registered, not reported
  Forgets,     \* the venue may answer "no such order" for a finished order
  Stops        \* what may end a run; "balance": the ladder's read may raise

ASSUME LedgerAssumption ==
  /\ MarketOf \in [Orders -> Markets]
  /\ Losable \subseteq Orders
  /\ Size \in Nat \ {0}
  /\ MaxRun \in Nat \ {0}
  /\ MaxDrops \in Nat
  /\ Forgets \in BOOLEAN
  /\ Stops \subseteq {"interrupt", "fail", "crash", "balance"}

VARIABLES
  venue,     \* [Orders -> [state, matched]]: the truth
  indexed,   \* orders the venue's read index shows
  row,       \* [Orders -> [status, matched]]: the orders table
  fresh,     \* orders recorded less than FRESH_ORDER_GRACE_SECONDS ago
  run,       \* run_id
  marketRun, \* [Markets -> run that prepared it, 0 before]
  due,       \* markets whose end is within cancel_before_end_seconds
  lost,      \* the orders whose placement loses them, chosen beforehand
  wire,      \* [Orders -> Seq(event)]: pushed, not yet received
  inbox,     \* [Orders -> newest event queued for the main loop]
  streamUp,  \* the WebSocket is connected (it gates placements)
  drops,     \* disconnections of this run so far
  job,       \* the reconciliation thread's round
  updates,   \* Seq of rounds it has put, not yet drained
  main,      \* where the main loop is
  placing,   \* the market being placed, as a set of at most one
  call,      \* the cancel call the main loop is in
  exit,      \* why the loop ended
  grown      \* the drain in progress has seen a fill grow or adopted an order

vars == <<venue, indexed, row, fresh, run, marketRun, due, lost, wire, inbox,
          streamUp, drops, job, updates, main, placing, call, exit, grown>>

venueVars  == <<venue, indexed>>
streamVars == <<wire, inbox, streamUp, drops>>
workerVars == <<job, updates>>
loopVars   == <<main, placing, call, exit, grown>>

----------------------------------------------------------------------------

VenueOver    == {"filled", "cancelled"}
Tracked      == {"live", "cancel_requested"}        \* tracked_open_orders
Terminal     == {"filled", "cancelled", "terminal_unknown"}
RowStatus    == {"absent"} \cup Tracked \cup Terminal
ReportStatus == {"live"} \cup Terminal
StopSteps    == {"join", "lastDrain", "lastStream", "sweep", "sweeping",
                 "stopped"}
MainSteps    == {"drain", "stream", "cancel", "cancelling", "submit",
                 "place", "placing"} \cup StopSteps

NoRow   == [status |-> "absent", matched |-> 0]
NoEvent == [status |-> "none", matched |-> 0]
IdleJob == [phase |-> "idle", todo |-> {}, missing |-> {}, open |-> {},
            found |-> {}]
NoCall  == [pending |-> {}, canceled |-> {}, gone |-> {}, asked |-> {}]

\* Mutants of Larger.
Summed(a, b) == a + b
Latest(a, b) == a
Larger(a, b) == IF a > b THEN a ELSE b

IsOver(o) == venue[o].state \in VenueOver
Known     == {o \in Orders : row[o].status # "absent"}
\* Mutant of TrackedOrders: a requested cancel counts as done.
UncancelledOrders == {o \in Orders : row[o].status = "live"}
TrackedOrders == {o \in Orders : row[o].status \in Tracked}

\* due_open_orders: not the ones whose cancel was already requested.
DueOrders == {o \in Orders : row[o].status = "live" /\ MarketOf[o] \in due}

\* What the venue reports of an order that exists, on any channel.
Shown(v) ==
  [status  |-> IF v.state = "resting" THEN "live" ELSE v.state,
   matched |-> v.matched]

\* get_order: "unknown" while the index lags or once the venue forgets.
Answers(o) ==
  (IF o \in indexed THEN {Shown(venue[o])} ELSE {})
    \cup (IF o \notin indexed \/ (Forgets /\ IsOver(o))
          THEN {[status |-> "unknown", matched |-> 0]} ELSE {})

Report(o, answer) ==
  [order |-> o, status |-> answer.status, matched |-> answer.matched]

----------------------------------------------------------------------------
Init ==
  /\ venue = [o \in Orders |-> [state |-> "none", matched |-> 0]]
  /\ indexed = {}
  /\ row = [o \in Orders |-> NoRow]
  /\ fresh = {}
  /\ run = 1
  /\ marketRun = [m \in Markets |-> 0]
  /\ due = {}
  /\ lost \in SUBSET Losable
  /\ wire = [o \in Orders |-> <<>>]
  /\ inbox = [o \in Orders |-> NoEvent]
  /\ streamUp = TRUE
  /\ drops = 0
  /\ job = IdleJob
  /\ updates = <<>>
  /\ main = "drain"
  /\ placing = {}
  /\ call = NoCall
  /\ exit = "none"
  /\ grown = FALSE

(***************************************************************************)
(* The venue.  Every change is pushed while the WebSocket is connected.    *)
(***************************************************************************)
Becomes(o, v) ==
  /\ venue' = [venue EXCEPT ![o] = v]
  /\ wire' = IF streamUp
             THEN [wire EXCEPT ![o] = Append(@, Shown(v))]
             ELSE wire

\* A send is accepted while its placement runs, or, when the placement loses
\* it, at any time after that.
Register(o) ==
  /\ venue[o].state = "none"
  /\ \/ MarketOf[o] \in placing
     \/ o \in lost /\ marketRun[MarketOf[o]] # 0
  /\ Becomes(o, [state |-> "resting", matched |-> 0])
  /\ UNCHANGED <<indexed, row, fresh, run, marketRun, due, lost, inbox, streamUp,
                 drops, workerVars, loopVars>>

Index(o) ==
  /\ venue[o].state # "none"
  /\ o \notin indexed
  /\ indexed' = indexed \cup {o}
  /\ UNCHANGED <<venue, row, fresh, run, marketRun, due, lost, streamVars,
                 workerVars, loopVars>>

Fill(o) ==
  /\ venue[o].state = "resting"
  /\ LET m == venue[o].matched + 1
     IN Becomes(o, [state |-> IF m = Size THEN "filled" ELSE "resting",
                    matched |-> m])
  /\ UNCHANGED <<indexed, row, fresh, run, marketRun, due, lost, inbox, streamUp,
                 drops, workerVars, loopVars>>

\* cancelled_market_resolved, or by hand on the venue's site.
VenueCancels(o) ==
  /\ venue[o].state = "resting"
  /\ Becomes(o, [venue[o] EXCEPT !.state = "cancelled"])
  /\ UNCHANGED <<indexed, row, fresh, run, marketRun, due, lost, inbox, streamUp,
                 drops, workerVars, loopVars>>

(***************************************************************************)
(* Time.  A market comes within its cutoff; a row outlives the grace.      *)
(***************************************************************************)
ComesDue(m) ==
  /\ marketRun[m] # 0
  /\ m \notin due
  /\ due' = due \cup {m}
  /\ UNCHANGED <<venueVars, row, fresh, run, marketRun, lost, streamVars,
                 workerVars, loopVars>>

\* A "no such order" verdict the main loop has yet to act on.
VerdictPending(o) ==
  \E r \in job.found \cup UNION {updates[i].found : i \in DOMAIN updates} :
    r.order = o /\ r.status = "terminal_unknown"

\* The index lags by about a second (reconciliation.py:9-11), the grace is
\* 60 s: a row does not outlive its grace before the venue can show it.
\* A verdict is acted on within that margin too, unless the main loop is in
\* a placement: a knock may hold it four times as long (exchange.py:54).
Ages(o) ==
  /\ o \in fresh
  /\ o \in indexed \/ IsOver(o)
  /\ main = "placing" \/ ~VerdictPending(o)
  /\ fresh' = fresh \ {o}
  /\ UNCHANGED <<venueVars, row, run, marketRun, due, lost, streamVars,
                 workerVars, loopVars>>

(***************************************************************************)
(* The user WebSocket.  Draining overwrites, so of the events queued for   *)
(* an order only the newest matters.                                       *)
(***************************************************************************)
Deliver(o) ==
  /\ streamUp
  /\ wire[o] # <<>>
  /\ inbox' = [inbox EXCEPT ![o] = Head(wire[o])]
  /\ wire' = [wire EXCEPT ![o] = Tail(@)]
  /\ UNCHANGED <<venueVars, row, fresh, run, marketRun, due, lost, streamUp, drops,
                 workerVars, loopVars>>

Disconnect ==
  /\ streamUp
  /\ drops < MaxDrops
  /\ drops' = drops + 1
  /\ streamUp' = FALSE
  /\ wire' = [o \in Orders |-> <<>>]
  /\ UNCHANGED <<venueVars, row, fresh, run, marketRun, due, lost, inbox,
                 workerVars, loopVars>>

Connect ==
  /\ ~streamUp
  /\ main \notin StopSteps
  /\ streamUp' = TRUE
  /\ UNCHANGED <<venueVars, row, fresh, run, marketRun, due, lost, wire, inbox,
                 drops, workerVars, loopVars>>

(***************************************************************************)
(* The reconciliation thread: ReconciliationWorker._fetch.                 *)
(***************************************************************************)
ReadOpenOrders ==
  /\ job.phase = "list"
  /\ LET open == {o \in indexed : venue[o].state = "resting"}
     IN job' = [phase   |-> "read",
                todo    |-> job.todo \ open,
                missing |-> {},
                open    |-> open,
                found   |-> {Report(o, Shown(venue[o])) :
                              o \in job.todo \cap open}]
  /\ UNCHANGED <<venueVars, row, fresh, run, marketRun, due, lost, streamVars,
                 updates, loopVars>>

\* The whole round is reported as one failure; the drain skips it.
ReadOpenOrdersFails ==
  /\ job.phase = "list"
  /\ job' = IdleJob
  /\ UNCHANGED <<venueVars, row, fresh, run, marketRun, due, lost, streamVars,
                 updates, loopVars>>

\* First pass: an order the venue cannot show is set aside for a second look.
ReadOrder(o) ==
  /\ job.phase = "read"
  /\ o \in job.todo
  /\ \E a \in Answers(o) :
       job' = [job EXCEPT
                 !.todo = @ \ {o},
                 !.missing = IF a.status = "unknown" THEN @ \cup {o} ELSE @,
                 !.found = IF a.status = "unknown" THEN @
                           ELSE @ \cup {Report(o, a)}]
  /\ UNCHANGED <<venueVars, row, fresh, run, marketRun, due, lost, streamVars,
                 updates, loopVars>>

\* MISSING_ORDER_RECHECK_SECONDS after the first pass.
Pause ==
  /\ job.phase = "read"
  /\ job.todo = {}
  /\ job' = [job EXCEPT !.phase = "recheck", !.todo = job.missing]
  /\ UNCHANGED <<venueVars, row, fresh, run, marketRun, due, lost, streamVars,
                 updates, loopVars>>

\* Second pass: still not shown means gone.  A stopping worker skips it.
Recheck(o) ==
  /\ job.phase = "recheck"
  /\ main \notin StopSteps
  /\ o \in job.todo
  /\ \E a \in Answers(o) :
       job' = [job EXCEPT
                 !.todo = @ \ {o},
                 !.found = @ \cup
                   {IF a.status = "unknown"
                    THEN Report(o, [status |-> "terminal_unknown",
                                    matched |-> 0])
                    ELSE Report(o, a)}]
  /\ UNCHANGED <<venueVars, row, fresh, run, marketRun, due, lost, streamVars,
                 updates, loopVars>>

\* A read that raises is reported as an error: no verdict on that order.
ReadOrderFails(o) ==
  /\ job.phase \in {"read", "recheck"}
  /\ o \in job.todo
  /\ job' = [job EXCEPT !.todo = @ \ {o}]
  /\ UNCHANGED <<venueVars, row, fresh, run, marketRun, due, lost, streamVars,
                 updates, loopVars>>

FinishFetch ==
  /\ job.phase = "recheck"
  /\ job.todo = {} \/ main \in StopSteps
  /\ updates' = Append(updates, [open |-> job.open, found |-> job.found])
  /\ job' = IdleJob
  /\ UNCHANGED <<venueVars, row, fresh, run, marketRun, due, lost, streamVars,
                 loopVars>>

(***************************************************************************)
(* The main loop.                                                          *)
(***************************************************************************)
\* Mutant of Adoptable: only what was asked for is seen.
AdoptableIfReported(u) ==
  {o \in u.open : /\ \E r \in u.found : r.order = o
                  /\ row[o] = NoRow
                  /\ marketRun[MarketOf[o]] = run}

\* _adopt_unknown_open_orders: no row, a market of this run.
Adoptable(u) ==
  {o \in u.open : row[o] = NoRow /\ marketRun[MarketOf[o]] = run}

\* Mutants of Reconciled: no grace for a fresh row; a row whose cancel was
\* requested stays so while the venue says "live".
ReconciledAtOnce(o, r) ==
  IF row[o].status = "absent" THEN row[o]
  ELSE [status  |-> IF row[o].status \in Terminal /\ r.status \notin Terminal
                    THEN row[o].status ELSE r.status,
        matched |-> Larger(r.matched, row[o].matched)]
ReconciledOnceRequested(o, r) ==
  IF row[o].status \in {"absent", "cancel_requested"} /\ r.status \notin VenueOver
  THEN row[o]
  ELSE [status |-> r.status, matched |-> Larger(r.matched, row[o].matched)]

\* What one report makes of a row.
Reconciled(o, r) ==
  LET prev == row[o]
  IN IF \/ prev.status = "absent"
        \/ /\ r.status = "terminal_unknown"
           /\ prev.status \notin Terminal
           /\ o \in fresh
     THEN prev
     ELSE [status  |-> IF prev.status \in Terminal /\ r.status \notin Terminal
                       THEN prev.status ELSE r.status,
           matched |-> Larger(r.matched, prev.matched)]

\* One round's rows; an adopted row holds no fill, whatever the venue says.
Absorbed(u) ==
  [o \in Orders |->
     IF o \in Adoptable(u) THEN [status |-> "live", matched |-> 0]
     ELSE IF \E r \in u.found : r.order = o
          THEN Reconciled(o, CHOOSE r \in u.found : r.order = o)
          ELSE row[o]]

\* order_changed: what makes the end of a drain look for missing exits.
Changed(rows) ==
  \E o \in Orders :
    \/ rows[o].matched > row[o].matched
    \/ row[o] = NoRow /\ rows[o] # NoRow

DrainOne(after) ==
  IF updates = <<>>
  THEN /\ main' = after
       /\ grown' = FALSE
       /\ UNCHANGED <<row, fresh, updates>>
  ELSE /\ row' = Absorbed(Head(updates))
       /\ fresh' = fresh \cup Adoptable(Head(updates))
       /\ updates' = Tail(updates)
       /\ grown' = (grown \/ Changed(row'))
       /\ UNCHANGED main

DrainReconciliation ==
  /\ main = "drain"
  /\ DrainOne("stream")
  /\ UNCHANGED <<venueVars, run, marketRun, due, lost, streamVars, job, placing,
                 call, exit>>

\* Mutant of Streamed: an event's fill is added to the row's.
StreamedAdding ==
  [o \in Orders |-> IF inbox[o] = NoEvent \/ row[o].status = "absent"
                    THEN row[o]
                    ELSE [inbox[o] EXCEPT !.matched = @ + row[o].matched]]

\* update_order with what the event says; an order with no row is skipped.
Streamed ==
  [o \in Orders |-> IF inbox[o] = NoEvent \/ row[o].status = "absent"
                    THEN row[o]
                    ELSE inbox[o]]

DrainStream(after) ==
  /\ row' = Streamed
  /\ inbox' = [o \in Orders |-> NoEvent]
  /\ main' = after

DrainUserStream ==
  /\ main = "stream"
  /\ DrainStream("cancel")
  /\ UNCHANGED <<venueVars, fresh, run, marketRun, due, lost, wire, streamUp, drops,
                 workerVars, placing, call, exit, grown>>

(***************************************************************************)
(* A drain that saw a fill goes on to _place_missing_exits, whose balance  *)
(* read nothing catches.  In the tick the run fails; in the finally of     *)
(* run() what is left of it is skipped, the cancel sweep included.         *)
(***************************************************************************)
\* entry_orders_with_fills, before the cutoff.
WantsExit(rows) ==
  \E o \in Orders : rows[o].matched > 0 /\ MarketOf[o] \notin due

Raises(tick) ==
  /\ "balance" \in Stops
  /\ main' = IF main = tick THEN "join" ELSE "stopped"
  /\ exit' = IF main = tick THEN "fail"
             ELSE IF exit = "interrupt" THEN "raised" ELSE exit
  /\ streamUp' = (streamUp /\ main = tick)
  /\ wire' = IF main = tick THEN wire ELSE [o \in Orders |-> <<>>]
  /\ grown' = FALSE

ReconciliationRaises ==
  /\ main \in {"drain", "lastDrain"}
  /\ updates = <<>>
  /\ grown /\ WantsExit(row)
  /\ Raises("drain")
  /\ UNCHANGED <<venueVars, row, fresh, run, marketRun, due, lost, inbox,
                 drops, workerVars, placing, call>>

StreamRaises ==
  /\ main \in {"stream", "lastStream"}
  /\ row' = Streamed
  /\ inbox' = [o \in Orders |-> NoEvent]
  /\ Changed(Streamed) /\ WantsExit(Streamed)
  /\ Raises("stream")
  /\ UNCHANGED <<venueVars, fresh, run, marketRun, due, lost, drops,
                 workerVars, placing, call>>

Marked(S, status) ==
  [o \in Orders |-> IF o \in S THEN [row[o] EXCEPT !.status = status]
                    ELSE row[o]]

\* mark_orders(cancel_requested), then the blocking call.
StartCancel(S, during, otherwise) ==
  IF S = {}
  THEN /\ main' = otherwise
       /\ call' = NoCall
       /\ UNCHANGED row
  ELSE /\ row' = Marked(S, "cancel_requested")
       /\ call' = [NoCall EXCEPT !.pending = S, !.asked = S]
       /\ main' = during

CancelDueOrders ==
  /\ main = "cancel"
  /\ StartCancel(DueOrders, "cancelling", "submit")
  /\ UNCHANGED <<venueVars, fresh, run, marketRun, due, lost, streamVars,
                 workerVars, placing, exit, grown>>

\* The venue handles one id of the call: it cancels a resting order, or says
\* a finished one is "already canceled or matched".
ServeCancel(o) ==
  /\ o \in call.pending
  /\ IF venue[o].state = "resting"
     THEN /\ Becomes(o, [venue[o] EXCEPT !.state = "cancelled"])
          /\ call' = [call EXCEPT !.pending = @ \ {o}, !.canceled = @ \cup {o}]
     ELSE /\ call' = [call EXCEPT !.pending = @ \ {o}, !.gone = @ \cup {o}]
          /\ UNCHANGED <<venue, wire>>
  /\ UNCHANGED <<indexed, row, fresh, run, marketRun, due, lost, inbox, streamUp,
                 drops, workerVars, main, placing, exit, grown>>

\* Refused for another reason: neither list names it.
RefuseCancel(o) ==
  /\ o \in call.pending
  /\ call' = [call EXCEPT !.pending = @ \ {o}]
  /\ UNCHANGED <<venueVars, row, fresh, run, marketRun, due, lost, streamVars,
                 workerVars, main, placing, exit, grown>>

CallStep(after) ==
  \/ /\ call.pending = {}
     /\ row' = [o \in Orders |->
                  IF o \in call.gone
                  THEN [row[o] EXCEPT !.status = "terminal_unknown"]
                  ELSE IF o \in call.canceled
                       THEN [row[o] EXCEPT !.status = "cancelled"]
                       ELSE row[o]]
     /\ main' = after
  \* The call raises: whatever the venue did, nothing is marked.
  \/ /\ main' = after
     /\ UNCHANGED row

CancelReturns ==
  /\ main = "cancelling"
  /\ CallStep("submit")
  /\ call' = NoCall
  /\ UNCHANGED <<venueVars, fresh, run, marketRun, due, lost, streamVars,
                 workerVars, placing, exit, grown>>

\* submit(): a snapshot of the tracked rows, refused while a round runs.
SubmitReconciliation ==
  /\ main = "submit"
  /\ main' = "place"
  /\ \/ /\ job.phase = "idle"
        /\ job' = [IdleJob EXCEPT !.phase = "list", !.todo = TrackedOrders]
     \/ UNCHANGED job
  /\ UNCHANGED <<venueVars, row, fresh, run, marketRun, due, lost, streamVars,
                 updates, placing, call, exit, grown>>

\* prepare_market: the market is this run's from here on.
BeginPlacement(m) ==
  /\ main = "place"
  /\ streamUp
  /\ marketRun[m] = 0
  /\ m \notin due
  /\ marketRun' = [marketRun EXCEPT ![m] = run]
  /\ placing' = {m}
  /\ main' = "placing"
  /\ UNCHANGED <<venueVars, row, fresh, run, due, lost, streamVars, workerVars,
                 call, exit, grown>>

\* What add_order is handed: "live" off the knock's reply (an entry is
\* post-only, so no reply says "matched"), or what the cancel of a fleet's
\* laggard came to.
RecordedAs(o) ==
  {"live", "cancel_requested"}
    \cup {s \in {"cancelled"} : venue[o].state = s}
    \cup {s \in {"terminal_unknown"} : IsOver(o)}

\* A row for every order the venue took and the placement does not lose.
FinishPlacement ==
  /\ main = "placing"
  /\ LET reported == {o \in Orders \ lost : /\ MarketOf[o] \in placing
                                             /\ venue[o].state # "none"
                                             /\ row[o] = NoRow}
     IN /\ \E as \in [reported -> RowStatus] :
             /\ \A o \in reported : as[o] \in RecordedAs(o)
             /\ row' = [o \in Orders |->
                          IF o \in reported
                          THEN [status |-> as[o], matched |-> 0]
                          ELSE row[o]]
        /\ fresh' = fresh \cup reported
  /\ placing' = {}
  /\ main' = "drain"
  /\ UNCHANGED <<venueVars, run, marketRun, due, lost, streamVars, workerVars,
                 call, exit, grown>>

NothingToPlace ==
  /\ main = "place"
  /\ main' = "drain"
  /\ UNCHANGED <<venueVars, row, fresh, run, marketRun, due, lost, streamVars,
                 workerVars, placing, call, exit, grown>>

(***************************************************************************)
(* The ways out of run(): Ctrl+C, an exception out of the tick (Fail is a  *)
(* geoblock's), the process being killed.  Ctrl+C is held back inside the  *)
(* Go knock only: anywhere else in a placement it leaves the orders there  *)
(* without a row.                                                          *)
(***************************************************************************)
Interrupt ==
  /\ "interrupt" \in Stops
  /\ main \notin StopSteps
  /\ main' = "join"
  /\ exit' = "interrupt"
  /\ placing' = {}
  /\ call' = NoCall
  /\ grown' = FALSE
  /\ UNCHANGED <<venueVars, row, fresh, run, marketRun, due, lost, streamVars,
                 workerVars>>

Fail ==
  /\ "fail" \in Stops
  /\ main = "cancel"
  /\ main' = "join"
  /\ exit' = "fail"
  /\ UNCHANGED <<venueVars, row, fresh, run, marketRun, due, lost, streamVars,
                 workerVars, placing, call, grown>>

\* ReconciliationWorker.stop(): waits for the round, but not for ever.
StopReconciliation ==
  /\ main = "join"
  /\ main' = "lastDrain"
  /\ UNCHANGED <<venueVars, row, fresh, run, marketRun, due, lost, streamVars,
                 workerVars, placing, call, exit, grown>>

LastDrain ==
  /\ main = "lastDrain"
  /\ DrainOne("lastStream")
  /\ UNCHANGED <<venueVars, run, marketRun, due, lost, streamVars, job, placing,
                 call, exit>>

\* The streams are closed, then drained once.
LastStreamDrain ==
  /\ main = "lastStream"
  /\ DrainStream(IF exit = "interrupt" THEN "sweep" ELSE "stopped")
  /\ wire' = [o \in Orders |-> <<>>]
  /\ streamUp' = FALSE
  /\ UNCHANGED <<venueVars, fresh, run, marketRun, due, lost, drops, workerVars,
                 placing, call, exit, grown>>

\* _cancel_tracked_orders
CancelTrackedOrders ==
  /\ main = "sweep"
  /\ StartCancel(TrackedOrders, "sweeping", "stopped")
  /\ UNCHANGED <<venueVars, fresh, run, marketRun, due, lost, streamVars,
                 workerVars, placing, exit, grown>>

SweepReturns ==
  /\ main = "sweeping"
  /\ CallStep("stopped")
  /\ call' = [call EXCEPT !.pending = {}]
  /\ UNCHANGED <<venueVars, fresh, run, marketRun, due, lost, streamVars,
                 workerVars, placing, exit, grown>>

Crash ==
  /\ "crash" \in Stops
  /\ main # "stopped"
  /\ main' = "stopped"
  /\ exit' = "crash"
  /\ streamUp' = FALSE
  /\ wire' = [o \in Orders |-> <<>>]
  /\ inbox' = [o \in Orders |-> NoEvent]
  /\ drops' = 0
  /\ job' = IdleJob
  /\ updates' = <<>>
  /\ placing' = {}
  /\ call' = NoCall
  /\ grown' = FALSE
  /\ UNCHANGED <<venueVars, row, fresh, run, marketRun, due, lost>>

\* start_run: a new run_id on the same tables, nothing else survives.
Restart ==
  /\ main = "stopped"
  /\ run < MaxRun
  /\ run' = run + 1
  /\ main' = "drain"
  /\ exit' = "none"
  /\ inbox' = [o \in Orders |-> NoEvent]
  /\ drops' = 0
  /\ job' = IdleJob
  /\ updates' = <<>>
  /\ call' = NoCall
  /\ UNCHANGED <<venueVars, row, fresh, marketRun, due, lost, wire, streamUp,
                 placing, grown>>

----------------------------------------------------------------------------
VenueNext ==
  \E o \in Orders : Register(o) \/ Index(o) \/ Fill(o) \/ VenueCancels(o)

StreamNext == (\E o \in Orders : Deliver(o)) \/ Disconnect \/ Connect

WorkerNext ==
  /\ main # "stopped"
  /\ \/ ReadOpenOrders \/ ReadOpenOrdersFails \/ Pause \/ FinishFetch
     \/ \E o \in Orders : ReadOrder(o) \/ Recheck(o) \/ ReadOrderFails(o)

TickNext ==
  \/ DrainReconciliation \/ DrainUserStream \/ CancelDueOrders
  \/ CancelReturns \/ SubmitReconciliation \/ FinishPlacement
  \/ NothingToPlace
  \/ \E m \in Markets : BeginPlacement(m)

ExitNext ==
  \/ Interrupt \/ Fail \/ StopReconciliation \/ LastDrain
  \/ LastStreamDrain \/ ReconciliationRaises \/ StreamRaises
  \/ CancelTrackedOrders \/ SweepReturns \/ Crash \/ Restart

CallNext == \E o \in Orders : ServeCancel(o) \/ RefuseCancel(o)

TimeNext ==
  (\E m \in Markets : ComesDue(m)) \/ (\E o \in Orders : Ages(o))

Next == \/ VenueNext \/ StreamNext \/ WorkerNext \/ TickNext \/ ExitNext
        \/ CallNext \/ TimeNext

Spec == Init /\ [][Next]_vars

(***************************************************************************)
(* Fairness, for a process that is left running.  The loop and the worker  *)
(* thread keep being scheduled, every call they make returns (client       *)
(* timeouts) and a placement ends (knock budget).  The poll timer fires    *)
(* again and again; reads and cancels may fail, but not every time from    *)
(* some point on; the venue's index catches up; the socket reconnects.     *)
(***************************************************************************)
Submits == SubmitReconciliation /\ job'.phase = "list"

Fairness ==
  /\ WF_vars(TickNext)
  /\ WF_vars(WorkerNext)
  /\ SF_vars(Submits)
  /\ SF_vars(ReadOpenOrders)
  /\ WF_vars(Connect)
  /\ \A o \in Orders :
       /\ WF_vars(Index(o))
       /\ WF_vars(Deliver(o))
       /\ SF_vars(ReadOrder(o))
       /\ SF_vars(ServeCancel(o))

FairSpec == Spec /\ Fairness

----------------------------------------------------------------------------
(***************************************************************************)
(* Properties                                                              *)
(***************************************************************************)
VenueStates == [state : {"none", "resting"} \cup VenueOver, matched : 0..Size]
Rows    == [status : RowStatus, matched : 0..Size]
Events  == [status : {"live"} \cup VenueOver, matched : 0..Size]
Reports == [order : Orders, status : ReportStatus, matched : 0..Size]
Rounds  == [open : SUBSET Orders, found : SUBSET Reports]
Jobs    == [phase : {"idle", "list", "read", "recheck"}, todo : SUBSET Orders,
            missing : SUBSET Orders, open : SUBSET Orders,
            found : SUBSET Reports]
Calls   == [pending : SUBSET Orders, canceled : SUBSET Orders,
            gone : SUBSET Orders, asked : SUBSET Orders]

\* Every variable keeps its type: no fill beyond the order's size, no row in a
\* status the queries do not know.
TypeOK ==
  /\ venue \in [Orders -> VenueStates]
  /\ indexed \subseteq Orders
  /\ row \in [Orders -> Rows]
  /\ fresh \subseteq Orders
  /\ run \in 1..MaxRun
  /\ marketRun \in [Markets -> 0..MaxRun]
  /\ due \subseteq Markets
  /\ lost \subseteq Losable
  /\ wire \in [Orders -> Seq(Events)]
  /\ inbox \in [Orders -> Events \cup {NoEvent}]
  /\ streamUp \in BOOLEAN
  /\ drops \in 0..MaxDrops
  /\ job \in Jobs
  /\ updates \in Seq(Rounds)
  /\ main \in MainSteps
  /\ placing \subseteq Markets
  /\ call \in Calls
  /\ exit \in {"none", "interrupt", "raised", "fail", "crash"}
  /\ grown \in BOOLEAN

(***************************************************************************)
(* The inductive invariant: at every place a statement about an order can  *)
(* be (pushed, queued, in a report, in a cancel reply, in its row), the    *)
(* venue still bears it out.                                               *)
(***************************************************************************)
VenueSane ==
  \A o \in Orders :
    /\ venue[o].state = "resting" => venue[o].matched < Size
    /\ venue[o].state = "filled" => venue[o].matched = Size
    /\ venue[o].state = "none" => venue[o].matched = 0
    /\ o \in indexed => venue[o].state # "none"

Exists(o) == venue[o].state # "none"

BorneOut(e, v) ==
  /\ e.matched <= v.matched
  /\ e.status \in VenueOver => v.state = e.status
  /\ e.status # "none" => v.state # "none"

Truthful(o, e) == BorneOut(e, venue[o])

PushesTruthful ==
  \A o \in Orders :
    /\ Truthful(o, inbox[o])
    /\ \A i \in 1..Len(wire[o]) : Truthful(o, wire[o][i])

RoundTruthful(u) ==
  /\ \A o \in u.open : Exists(o)
  /\ \A r \in u.found : Truthful(r.order, r)

ReportsTruthful ==
  /\ RoundTruthful(job)
  /\ job.todo \cup job.missing \subseteq Known
  /\ \A i \in 1..Len(updates) : RoundTruthful(updates[i])

CallTruthful ==
  /\ \A o \in call.canceled : venue[o].state = "cancelled"
  /\ \A o \in call.gone : IsOver(o)
  /\ \A o \in call.pending : Exists(o)

\* Only "no such order" can be wrong of a row, and not while it is fresh.
RowsTruthful ==
  \A o \in Orders :
    /\ o \in Known => Exists(o)
    /\ row[o].status \in VenueOver => venue[o].state = row[o].status
    /\ row[o].status = "terminal_unknown" => IsOver(o) \/ o \notin fresh
    /\ row[o].matched <= venue[o].matched

LedgerInv ==
  /\ TypeOK
  /\ VenueSane
  /\ PushesTruthful
  /\ ReportsTruthful
  /\ CallTruthful
  /\ RowsTruthful

\* A row in a terminal state is one no sweep looks at again (service.py:36-50,
\* 492-495).  Of everything that finishes a row - the worker's two reads, both
\* cancel sweeps, a laggard's cancel, late pushes, restarts - only a verdict
\* "no such order" applied after the grace finishes one whose order rests.
OnlyStaleVerdictsRetire ==
  \A o \in Orders :
    row[o].status \in Terminal =>
      IsOver(o) \/ (row[o].status = "terminal_unknown" /\ o \notin fresh)

\* What the grace is for (service.py:47-49): reads that lag the index do not
\* finish the row of a live order.
NoLiveOrderRetired ==
  \A o \in Orders : row[o].status \in Terminal => IsOver(o)

\* The table never holds a fill, nor an end, the venue did not make, whatever
\* order the reports, pushes and sweeps are applied in: exits are sized by it
\* (service.py:1359) and the daily cost limit is charged by it.
FillsAreReal ==
  \A o \in Orders :
    /\ row[o].matched <= venue[o].matched
    /\ row[o].status \in VenueOver => venue[o].state = row[o].status

\* "Ctrl+C cancels all open orders recorded by this bot" (README.md:212): a
\* run that Ctrl+C took through its whole way out named every recorded order
\* still resting in the final cancel call, those whose earlier cancel was
\* left hanging included, but for the ones a stale verdict had finished.
StopAsksForEveryOrder ==
  main = "stopped" /\ exit = "interrupt" =>
    \A o \in Known :
      venue[o].state = "resting" =>
        o \in call.asked \/ row[o].status = "terminal_unknown"

\* What the placement lost is found again: in a run that goes on, an order
\* resting on a market of that run without a row gets one (service.py:477-484),
\* or stops resting.
OrphanIsAdopted ==
  \A o \in Orders :
    (/\ venue[o].state = "resting" /\ o \notin Known
     /\ marketRun[MarketOf[o]] = run)
      ~> (o \in Known \/ venue[o].state # "resting" \/ exit # "none")

\* "Cancel remaining entry and exit orders before the market cutoff": in a
\* run that goes on, a recorded order of a market past its cutoff does not
\* rest for ever, though the deadline cancel never repeats a request whose
\* answer it lost and only reconciliation makes the row due again - unless a
\* stale verdict has finished its row.
CutoffCancels ==
  \A o \in Orders :
    (o \in Known /\ MarketOf[o] \in due)
      ~> (IsOver(o) \/ row[o].status = "terminal_unknown" \/ exit # "none")

\* As long as the WebSocket stays up, the table ends up right about every
\* order a placement recorded: pushes, stale reports and sweeps may
\* interleave in any order.
Agrees(o) ==
  /\ row[o].matched = venue[o].matched
  /\ IsOver(o) => row[o].status \in Terminal
  /\ row[o].status \in VenueOver => IsOver(o)

LedgerConverges == <>[](\A o \in Known \ lost : Agrees(o))
============================================================================
