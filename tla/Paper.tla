------------------------------- MODULE Paper -------------------------------
(***************************************************************************)
(* The paper simulator (paper.py): a row per observed market, a picture of *)
(* the queue at the buy price on both outcomes, and, once the market is    *)
(* resolved, the fill that public taker trades show for an order that      *)
(* joined the queue when the picture was taken.                            *)
(*                                                                         *)
(* Beside the rows goes what they estimate: the venue's queues, its trades *)
(* and the fate of the order, had it really been placed (ahead, truth).    *)
(*                                                                         *)
(* Simplifications: one strategy key (rows of another are not looked at);  *)
(* trades are of one unit; rows of a pass are taken in any order, and the  *)
(* loop's timers left out, so that a drain, a retry or a poll may come     *)
(* next; trading ends at the market's end; the clocks agree, and an answer *)
(* of the venue takes at least one tick; what the fills cost and pay is    *)
(* left out.  The activation worker is Activation's: here a market may     *)
(* come once in every run of the simulator.                                *)
(***************************************************************************)
EXTENDS Integers, Sequences, FiniteSets

CONSTANTS
    Markets,
    EndOf,          \* per market, the second of its end
    TicksPerSecond, \* the resolution of the snapshot's stamp
    FinalDelay,     \* FINALIZATION_DELAY_SECONDS
    PageLimit,      \* TRADE_PAGE_LIMIT
    Unit, BuyPrice, \* a full payout, and the plan's price in the same unit
    OrderSize,
    Kinds,          \* trades that happen: outcome, the taker's side and the price
    MaxQueue,       \* per outcome, a bound on the bids at BuyPrice
    MaxTrades, MaxNow, MaxStarts

Outcomes == {"up", "down"}

ASSUME PaperAssumption ==
    /\ EndOf \in [Markets -> Nat]
    /\ TicksPerSecond \in Nat \ {0} /\ FinalDelay \in Nat /\ PageLimit \in Nat
    /\ Unit \in Nat /\ BuyPrice \in 1 .. Unit - 1 /\ OrderSize \in Nat
    /\ Kinds \subseteq [asset : Outcomes, side : {"BUY", "SELL"}, price : 0 .. Unit]
    /\ MaxQueue \in [Outcomes -> Nat]
    /\ {MaxTrades, MaxNow, MaxStarts} \subseteq Nat

Other(x) == IF x = "up" THEN "down" ELSE "up"
Queues == [up : 0 .. MaxQueue.up, down : 0 .. MaxQueue.down]
None == [x \in Outcomes |-> 0]
NoRow == [status |-> "absent", snapshot |-> 0, queue |-> None, fill |-> None]
NoBook == [of |-> {}, queue |-> None, at |-> 0]

VARIABLES
    now,                \* in ticks
    queue,              \* the venue: bids at BuyPrice, by market and outcome
    trades,             \* the venue: taker trades of a market
    resolved,           \* the markets Gamma reports as closed with a winner
    row,                \* paper_markets
    starts, pc,         \* runs of the simulator, and where it is
    snapshotPending,    \* its local variable snapshot_pending
    known, inbox,       \* its worker: markets emitted, and not yet drained
    todo,               \* rows left in a pass
    book,               \* the books just read, and when they were true
    passTs,             \* now_ts of a settlement pass
    ahead, truth,       \* the order as if placed: bids before it, its fill
    hidden              \* something moved it that is not in the trades counted

venue == <<queue, trades, resolved>>
fate == <<ahead, truth, hidden>>
worker == <<known, inbox>>
pass == <<todo, book, passTs>>
vars == <<now, venue, row, starts, pc, snapshotPending, worker, pass, fate>>

SecondOf(tick) == tick \div TicksPerSecond
WithStatus(s) == {m \in Markets : row[m].status = s}

\* The order would be in the queue.
Joined(m) == row[m].status = "monitoring" \/ m \in book.of

Init ==
    /\ now = 0
    /\ queue \in [Markets -> Queues]
    /\ trades = [m \in Markets |-> <<>>]
    /\ resolved = {}
    /\ row = [m \in Markets |-> NoRow]
    /\ starts = 0 /\ pc = "down" /\ snapshotPending = FALSE
    /\ known = {} /\ inbox = {}
    /\ todo = {} /\ book = NoBook /\ passTs = 0
    /\ ahead = [m \in Markets |-> None] /\ truth = [m \in Markets |-> None]
    /\ hidden = [m \in Markets |-> FALSE]

(***************************************************************************)
(* What the trades of a market show.                                       *)
(***************************************************************************)

\* Mutation of StartTs: the stamp's second is cut, not rounded up.
StartTsCut(m) == row[m].snapshot \div TicksPerSecond

StartTs(m) == (row[m].snapshot + TicksPerSecond - 1) \div TicksPerSecond

\* _trades: taker trades from the first whole second after the snapshot, by
\* their place among the market's.
Counted(m, until) ==
    {n \in DOMAIN trades[m] : trades[m][n].at >= StartTs(m) /\ trades[m][n].at <= until}

Direct(t, x) == t.asset = x /\ t.side = "SELL"
Complementary(t, x) == t.asset = Other(x) /\ t.side = "BUY"

Through(t, x) ==
    \/ Direct(t, x) /\ t.price < BuyPrice
    \/ Complementary(t, x) /\ t.price > Unit - BuyPrice

AtBoundary(t, x) ==
    \/ Direct(t, x) /\ t.price = BuyPrice
    \/ Complementary(t, x) /\ t.price = Unit - BuyPrice

Smaller(i, j) == IF i < j THEN i ELSE j
Larger(i, j) == IF i > j THEN i ELSE j

\* What traded at the boundary beyond the queue.
Past(m, x, ns) ==
    Cardinality({n \in ns : AtBoundary(trades[m][n], x)}) - row[m].queue[x]

\* Mutation of FifoFill: what passed the queue is not cut to the order's size.
FifoFillUncut(m, x, ns) ==
    IF \E n \in ns : Through(trades[m][n], x) THEN OrderSize
    ELSE Larger(0, Past(m, x, ns))

\* execution_evidence and fifo_fill for outcome x.
FifoFill(m, x, ns) ==
    IF \E n \in ns : Through(trades[m][n], x) THEN OrderSize
    ELSE Smaller(OrderSize, Larger(0, Past(m, x, ns)))

\* calculate_result, as far as fills go.
Fills(m, ns) == [x \in Outcomes |-> FifoFill(m, x, ns)]

(***************************************************************************)
(* The venue.                                                              *)
(***************************************************************************)

\* A buy of one outcome meets a bid for the other at the rest of the price.
Hits(t) == IF t.side = "SELL" THEN t.asset ELSE Other(t.asset)
Level(t) == IF t.side = "SELL" THEN t.price ELSE Unit - t.price

Tick ==
    /\ now < MaxNow /\ now' = now + 1
    /\ UNCHANGED <<venue, row, starts, pc, snapshotPending, worker, pass, fate>>

\* A taker sells one unit at a price: what bids at it, or above it, goes first.
Trade(m, k) ==
    LET t == [asset |-> k.asset, side |-> k.side, price |-> k.price, at |-> SecondOf(now)]
        x == Hits(t)
        boundary == Level(t) = BuyPrice
    IN /\ t.at < EndOf[m]
       /\ Len(trades[m]) < MaxTrades
       /\ boundary => queue[m][x] > 0
       /\ Level(t) < BuyPrice => queue[m][x] = 0
       /\ trades' = [trades EXCEPT ![m] = Append(@, t)]
       /\ queue' = [queue EXCEPT ![m][x] = IF boundary THEN @ - 1 ELSE @]
       /\ IF ~Joined(m) \/ Level(t) > BuyPrice
          THEN UNCHANGED fate
          ELSE /\ ahead' = [ahead EXCEPT ![m][x] = IF @ > 0 THEN @ - 1 ELSE @]
               /\ truth' = [truth EXCEPT ![m][x] =
                               IF ahead[m][x] = 0 /\ @ < OrderSize THEN @ + 1 ELSE @]
               /\ hidden' = [hidden EXCEPT ![m] =
                                @ \/ m \in book.of \/ t.at < StartTs(m)]
       /\ UNCHANGED <<now, resolved, row, starts, pc, snapshotPending, worker, pass>>

Bid(m, x) ==
    /\ queue[m][x] < MaxQueue[x] /\ SecondOf(now) < EndOf[m]
    /\ queue' = [queue EXCEPT ![m][x] = @ + 1]
    /\ UNCHANGED <<now, trades, resolved, row, starts, pc, snapshotPending, worker,
                   pass, fate>>

\* A bid is taken back, before the order or behind it.
Cancel(m, x, before) ==
    /\ queue[m][x] > 0 /\ SecondOf(now) < EndOf[m]
    /\ IF before
       THEN /\ Joined(m) /\ ahead[m][x] > 0
            /\ ahead' = [ahead EXCEPT ![m][x] = @ - 1]
            /\ hidden' = [hidden EXCEPT ![m] = TRUE]
            /\ UNCHANGED truth
       ELSE /\ Joined(m) => queue[m][x] > ahead[m][x]
            /\ UNCHANGED fate
    /\ queue' = [queue EXCEPT ![m][x] = @ - 1]
    /\ UNCHANGED <<now, trades, resolved, row, starts, pc, snapshotPending, worker,
                   pass>>

\* The market is closed with a winner, and its book is gone.
Resolve(m) ==
    /\ SecondOf(now) >= EndOf[m] /\ m \notin resolved
    /\ resolved' = resolved \cup {m}
    /\ queue' = [queue EXCEPT ![m] = None]
    /\ ahead' = [ahead EXCEPT ![m] = None]
    /\ UNCHANGED <<now, trades, row, starts, pc, snapshotPending, worker, pass,
                   truth, hidden>>

(***************************************************************************)
(* The simulator: start, loop and end.                                     *)
(***************************************************************************)

\* The worker hands over a market that is not over.
Emit(m) ==
    /\ pc # "down" /\ m \notin known /\ SecondOf(now) < EndOf[m]
    /\ known' = known \cup {m} /\ inbox' = inbox \cup {m}
    /\ UNCHANGED <<now, venue, row, starts, pc, snapshotPending, pass, fate>>

\* Mutation of Start: rows left by an earlier run are not looked for.
StartAfresh ==
    /\ pc = "down" /\ starts < MaxStarts
    /\ starts' = starts + 1 /\ pc' = "loop"
    /\ snapshotPending' = FALSE
    /\ UNCHANGED <<now, venue, row, worker, pass, fate>>

Start ==
    /\ pc = "down" /\ starts < MaxStarts
    /\ starts' = starts + 1 /\ pc' = "loop"
    /\ snapshotPending' = (WithStatus("snapshot_pending") # {})
    /\ UNCHANGED <<now, venue, row, worker, pass, fate>>

\* Mutation of Registered: a row that is there is written anew.
RegisteredAnew ==
    [m \in Markets |->
        IF m \in inbox THEN [NoRow EXCEPT !.status = "snapshot_pending"] ELSE row[m]]

\* INSERT OR IGNORE.
Registered ==
    [m \in Markets |->
        IF m \in inbox /\ row[m].status = "absent"
        THEN [NoRow EXCEPT !.status = "snapshot_pending"] ELSE row[m]]

\* expire_pending_snapshots, and the rows then pending.
Expired(rows) ==
    [m \in Markets |->
        IF rows[m].status = "snapshot_pending" /\ EndOf[m] <= SecondOf(now)
        THEN [rows[m] EXCEPT !.status = "missed"] ELSE rows[m]]

\* _capture_pending_snapshots over these rows.
BeginCapture(rows) ==
    /\ row' = Expired(rows)
    /\ todo' = {m \in Markets : row'[m].status = "snapshot_pending"}
    /\ snapshotPending' = (todo' # {})
    /\ pc' = IF todo' = {} THEN "loop" ELSE "capture"
    /\ UNCHANGED <<book, passTs>>

Drain ==
    /\ pc = "loop" /\ inbox # {}
    /\ inbox' = {}
    /\ IF Registered # row
       THEN BeginCapture(Registered)
       ELSE UNCHANGED <<row, pc, snapshotPending, pass>>
    /\ UNCHANGED <<now, venue, starts, known, fate>>

\* A retry is due.
Retry ==
    /\ pc = "loop" /\ snapshotPending
    /\ BeginCapture(row)
    /\ UNCHANGED <<now, venue, starts, worker, fate>>

\* On with the rest of a capture's rows.
NextCapture(m) ==
    /\ todo' = todo \ {m} /\ book' = NoBook
    /\ IF todo' = {}
       THEN /\ pc' = "loop"
            /\ snapshotPending' = (\E n \in Markets : row'[n].status = "snapshot_pending")
       ELSE pc' = "capture" /\ UNCHANGED snapshotPending
    /\ UNCHANGED passTs

\* The venue takes the picture; from now on the order would be in its queue.
ReadBooks(m) ==
    /\ pc = "capture" /\ m \in todo
    /\ pc' = "stamp"
    /\ book' = [of |-> {m}, queue |-> queue[m], at |-> now]
    /\ ahead' = [ahead EXCEPT ![m] = queue[m]]
    /\ truth' = [truth EXCEPT ![m] = None]
    /\ hidden' = [hidden EXCEPT ![m] = FALSE]
    /\ UNCHANGED <<now, venue, row, starts, snapshotPending, worker, todo, passTs>>

SetSnapshot(m) ==
    /\ pc = "stamp" /\ m \in book.of /\ now > book.at
    /\ row' = [row EXCEPT ![m] = [status |-> "monitoring", snapshot |-> now,
                                  queue |-> book.queue, fill |-> None]]
    /\ NextCapture(m)
    /\ UNCHANGED <<now, venue, starts, worker, fate>>

\* The request fails, or the answer lacks an outcome.
CaptureFails(m) ==
    /\ \/ pc = "capture" /\ m \in todo
       \/ pc = "stamp" /\ m \in book.of
    /\ UNCHANGED row
    /\ NextCapture(m)
    /\ UNCHANGED <<now, venue, starts, worker, fate>>

\* ready_to_settle.
Ready == {m \in WithStatus("monitoring") : EndOf[m] <= SecondOf(now) - FinalDelay}

\* A poll is due.
BeginSettle ==
    /\ pc = "loop" /\ Ready # {}
    /\ passTs' = SecondOf(now) /\ todo' = Ready
    /\ pc' = "settling"
    /\ UNCHANGED <<now, venue, row, starts, snapshotPending, worker, book, fate>>

NextSettle(m) ==
    /\ todo' = todo \ {m}
    /\ IF todo' = {} THEN pc' = "loop" /\ passTs' = 0
                     ELSE UNCHANGED <<pc, passTs>>
    /\ UNCHANGED book

PageFull(m, until) == Cardinality(Counted(m, until)) >= PageLimit

SetResult(m) ==
    /\ pc = "settling" /\ m \in todo
    /\ m \in resolved /\ ~PageFull(m, passTs)
    /\ row' = [row EXCEPT ![m].status = "settled",
                          ![m].fill = Fills(m, Counted(m, passTs))]
    /\ NextSettle(m)
    /\ UNCHANGED <<now, venue, starts, snapshotPending, worker, fate>>

\* Not resolved yet, a page that is full, or a request that failed.
NotSettled(m) ==
    /\ pc = "settling" /\ m \in todo
    /\ NextSettle(m)
    /\ UNCHANGED <<now, venue, row, starts, snapshotPending, worker, fate>>

\* What a run leaves behind are its rows.
Down ==
    /\ pc # "down" /\ pc' = "down" /\ snapshotPending' = FALSE
    /\ known' = {} /\ inbox' = {} /\ todo' = {} /\ book' = NoBook /\ passTs' = 0
    /\ UNCHANGED <<now, venue, starts, fate>>

\* Ctrl+C or the deadline: what is in the inbox is still registered.
Stop == Down /\ row' = Registered

Crash == Down /\ UNCHANGED row

Next ==
    \/ Tick \/ Start \/ Drain \/ Retry \/ BeginSettle
    \/ Stop \/ Crash
    \/ \E m \in Markets :
          \/ \E k \in Kinds : Trade(m, k)
          \/ \E x \in Outcomes :
                Bid(m, x) \/ \E before \in BOOLEAN : Cancel(m, x, before)
          \/ Resolve(m) \/ Emit(m) \/ ReadBooks(m) \/ SetSnapshot(m) \/ CaptureFails(m)
          \/ SetResult(m) \/ NotSettled(m)

Spec == Init /\ [][Next]_vars

\* Time passes; the simulator is started again while starts remain and its
\* loop goes on; a retry and a poll are due again and again; markets are
\* resolved; requests about a resolved market do not fail for ever.
FairSpec ==
    /\ Spec
    /\ WF_vars(Tick) /\ WF_vars(Start)
    /\ WF_vars(\E m \in Markets : \/ ReadBooks(m) \/ SetSnapshot(m) \/ CaptureFails(m)
                                  \/ SetResult(m) \/ NotSettled(m))
    /\ WF_vars(Drain) /\ SF_vars(Retry) /\ SF_vars(BeginSettle)
    /\ \A m \in Markets : /\ WF_vars(Resolve(m))
                          /\ SF_vars(SetResult(m))

-----------------------------------------------------------------------------
(***************************************************************************)
(* Properties.                                                             *)
(***************************************************************************)
\* Every variable keeps its type: a fill within the order's size, books read for a
\* market only while its snapshot is being taken, rows to go through in a pass only.
TypeOK ==
    /\ now \in 0 .. MaxNow /\ starts \in 0 .. MaxStarts
    /\ queue \in [Markets -> Queues]
    /\ row \in [Markets ->
                   [status : {"absent", "snapshot_pending", "monitoring", "settled",
                              "missed"},
                    snapshot : 0 .. MaxNow, queue : Queues,
                    fill : [Outcomes -> 0 .. OrderSize]]]
    /\ pc \in {"down", "loop", "capture", "stamp", "settling"}
    /\ (todo # {}) <=> pc \in {"capture", "stamp", "settling"}
    /\ (book.of # {}) <=> pc = "stamp"
    /\ truth \in [Markets -> [Outcomes -> 0 .. OrderSize]]

NoneThrough(m, x) ==
    \A n \in DOMAIN trades[m] :
        Hits(trades[m][n]) = x => Level(trades[m][n]) >= BuyPrice

\* "exact-price fills are a conservative lower bound" (README.md:241): where
\* nothing traded through the price, a settled row never says more than an
\* order would have got that joined the queue when the books were read, with
\* bids before and behind it taken back at will, trades in the snapshot's own
\* second, failed captures and restarts.  And "Direct sells of an outcome and
\* complementary buys of the opposite outcome are both counted" (README.md:242):
\* where no bid before the order was taken back and nothing traded in the
\* snapshot's own second, the row says exactly what the order would have got.
FillIsLowerBound ==
    \A m \in WithStatus("settled"), x \in Outcomes :
        NoneThrough(m, x) =>
            /\ row[m].fill[x] <= truth[m][x]
            /\ ~hidden[m] => row[m].fill[x] = truth[m][x]

\* A market is measured once: whatever its worker hands over again after a
\* restart, a snapshot that was taken stays as it is (set_snapshot, register),
\* and a row that is settled or missed does not change any more.
MeasuredOnce ==
    [][\A m \in Markets :
          /\ row[m].status \in {"settled", "missed"} => row'[m] = row[m]
          /\ row[m].status = "monitoring" =>
                /\ row'[m].status \in {"monitoring", "settled"}
                /\ row'[m].snapshot = row[m].snapshot
                /\ row'[m].queue = row[m].queue]_vars

\* A registered market is settled or, without a snapshot at its end, written
\* off: whichever of the runs registered it, the last drain of a stopped one
\* included, and however often its books or its trades cannot be read; unless
\* its trades fill a page (the page is asked for anew for ever, paper.py:835)
\* or the last run is over.
RegisteredIsDecided ==
    \A m \in Markets :
        row[m].status \in {"snapshot_pending", "monitoring"}
            ~> \/ row[m].status \in {"settled", "missed"}
               \/ row[m].status = "monitoring" /\ PageFull(m, MaxNow)
               \/ pc = "down" /\ starts = MaxStarts
=============================================================================
