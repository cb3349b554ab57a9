----------------------------- MODULE PaperProofs -----------------------------
(***************************************************************************)
(* Proofs about Paper, for any markets, orders, queues and trades, and any *)
(* number of runs of the simulator.                                        *)
(***************************************************************************)
EXTENDS Paper, FiniteSetTheorems, TLAPS

(***************************************************************************)
(* The parts of the invariant.                                             *)
(***************************************************************************)

TradeType == [asset : Outcomes, side : {"BUY", "SELL"}, price : 0 .. Unit, at : Nat]

\* What TypeOK leaves open: trades, the books just read, a pass, the order's fate.
Typed ==
    /\ TypeOK
    /\ trades \in [Markets -> Seq(TradeType)]
    /\ book \in [of : SUBSET Markets, queue : Queues, at : 0 .. MaxNow]
    /\ todo \in SUBSET Markets /\ passTs \in Nat
    /\ ahead \in [Markets -> [Outcomes -> Nat]]
    /\ hidden \in [Markets -> BOOLEAN]

\* A trade is not of the future, nor of a market that was over.
Dated ==
    \A m \in Markets : \A n \in DOMAIN trades[m] :
        trades[m][n].at <= SecondOf(now) /\ trades[m][n].at < EndOf[m]

\* A capture goes through rows that wait for a snapshot, the books read being
\* those of one of them; a settlement through rows that have one and whose market
\* was over when it began.
Passing ==
    /\ book.at <= now
    /\ pc \in {"capture", "stamp"} =>
          /\ todo \subseteq WithStatus("snapshot_pending")
          /\ book.of \subseteq todo
    /\ pc = "settling" =>
          /\ passTs <= SecondOf(now)
          /\ \A m \in todo : row[m].status = "monitoring" /\ EndOf[m] <= passTs
    /\ \A m \in WithStatus("settled") : EndOf[m] <= SecondOf(now)

\* Trades at the boundary from second s on.
Boundary(ts, x, s) == {n \in DOMAIN ts : ts[n].at >= s /\ AtBoundary(ts[n], x)}
Passed(ts, x, s) == Cardinality(Boundary(ts, x, s))

\* With q bids before the order at first and b units traded since: what is still
\* before it, and what it got.
Before(q, b) == Larger(0, q - b)
Got(q, b) == Smaller(OrderSize, Larger(0, b - q))

\* The order that joined a queue of q is at least as far as the trades counted
\* from second s say; and just as far, if nothing hidden moved it.
Followed(m, x, q, s) ==
    NoneThrough(m, x) =>
        LET b == Passed(trades[m], x, s)
        IN /\ ahead[m][x] <= Before(q, b) /\ truth[m][x] >= Got(q, b)
           /\ ~hidden[m] =>
                 /\ truth[m][x] = Got(q, b)
                 /\ ahead[m][x] = Before(q, b) \/ SecondOf(now) >= EndOf[m]

\* The order is followed in the queue of a row that has its snapshot, and in the
\* books just read, whatever second the snapshot's stamp will leave to count from.
Joins(m, x, q, s) ==
    \/ row[m].status = "monitoring" /\ q = row[m].queue[x] /\ s = StartTs(m)
    \/ m \in book.of /\ q = book.queue[x] /\ s > SecondOf(book.at)

Following ==
    \A m \in Markets, x \in Outcomes, q \in Nat, s \in Nat :
        Joins(m, x, q, s) => Followed(m, x, q, s)

(***************************************************************************)
(* Queues, clocks and trades.                                              *)
(***************************************************************************)

\* A queue is a number of bids for either outcome, as far as they are bounded.
LEMMA QueueIsFunction ==
  /\ Queues \subseteq [Outcomes -> Nat] /\ None \in Queues
  /\ None \in [Outcomes -> Nat] /\ \A x \in Outcomes : None[x] = 0
  /\ None \in [Outcomes -> 0 .. OrderSize]
  /\ \A q \in Queues, x \in Outcomes :
        q[x] \in 0 .. MaxQueue[x] /\ MaxQueue[x] \in Nat
<1>1. MaxQueue.up \in Nat /\ MaxQueue.down \in Nat /\ OrderSize \in Nat
      /\ \A x \in Outcomes : MaxQueue[x] \in Nat
  BY PaperAssumption DEF Outcomes
<1>2. ASSUME NEW q \in Queues PROVE q \in [Outcomes -> Nat]
  BY <1>1, <1>2 DEF Queues, Outcomes
<1>3. None \in Queues
  BY <1>1 DEF Queues, None, Outcomes
<1>4. \A q \in Queues, x \in Outcomes :
        q[x] \in 0 .. MaxQueue[x] /\ MaxQueue[x] \in Nat
  BY <1>1 DEF Queues, Outcomes
<1>5. QED
  BY <1>1, <1>2, <1>3, <1>4 DEF None

\* A bid more or less is still a queue, within its bound.
LEMMA TakenBack ==
  ASSUME NEW q \in Queues, NEW x \in Outcomes
  PROVE  /\ q[x] > 0 => [q EXCEPT ![x] = @ - 1] \in Queues
         /\ q[x] < MaxQueue[x] => [q EXCEPT ![x] = @ + 1] \in Queues
<1>1. /\ MaxQueue.up \in Nat /\ MaxQueue.down \in Nat
      /\ MaxQueue["up"] = MaxQueue.up /\ MaxQueue["down"] = MaxQueue.down
  BY PaperAssumption DEF Outcomes
<1>2. CASE x = "up"
  BY <1>1, <1>2 DEF Queues
<1>3. CASE x = "down"
  BY <1>1, <1>3 DEF Queues
<1>4. QED
  BY <1>2, <1>3 DEF Outcomes

\* Seconds pass with the ticks.
LEMMA Seconds ==
  ASSUME NEW i \in Nat, NEW j \in Nat
  PROVE  /\ SecondOf(i) \in Nat
         /\ i <= j => SecondOf(i) <= SecondOf(j)
         /\ (j + TicksPerSecond - 1) \div TicksPerSecond \in Nat
         /\ i < j => (j + TicksPerSecond - 1) \div TicksPerSecond > SecondOf(i)
<1> DEFINE k == TicksPerSecond
           a == i \div k
           b == j \div k
           c == (j + k - 1) \div k
<1>1. k \in Nat /\ k > 0
  BY PaperAssumption
<1> HIDE DEF k
<1>2. /\ a \in Nat /\ a * k <= i /\ i < a * k + k
      /\ b \in Nat /\ b * k <= j /\ j < b * k + k
      /\ c \in Nat /\ c * k <= j + k - 1 /\ j + k - 1 < c * k + k
  BY <1>1
<1> HIDE DEF a, b, c
<1>3. ASSUME NEW x \in Nat, NEW y \in Nat, x * k < y * k + k PROVE x <= y
  <2>1. CASE x >= y + 1
    <3>1. x * k >= (y + 1) * k
      BY <1>1, <2>1
    <3>2. (y + 1) * k = y * k + k
      BY <1>1
    <3>3. x * k \in Nat /\ y * k \in Nat
      BY <1>1
    <3>4. QED
      BY <1>1, <1>3, <3>1, <3>2, <3>3
  <2>2. CASE ~(x >= y + 1)
    BY <2>2
  <2>3. QED
    BY <2>1, <2>2
<1>4. a * k \in Nat /\ b * k \in Nat /\ c * k \in Nat
  BY <1>1, <1>2
<1>5. i <= j => a <= b
  <2>1. i <= j => a * k < b * k + k
    BY <1>1, <1>2, <1>4
  <2>2. QED
    BY <1>2, <1>3, <2>1
<1>6. i < j => c > a
  <2>1. ASSUME i < j, c <= a PROVE FALSE
    <3>1. c * k <= a * k
      BY <1>1, <1>2, <2>1
    <3>2. QED
      BY <1>1, <1>2, <1>4, <2>1, <3>1
  <2>2. QED
    BY <1>2, <2>1
<1>7. a \in Nat /\ c \in Nat
  BY <1>2
<1>8. QED
  BY <1>5, <1>6, <1>7 DEF SecondOf, a, b, c, k

\* A trade is at the boundary, or through it, just if it meets the bids of the
\* outcome at the buy price, or below it.
LEMMA Meets ==
  ASSUME NEW t \in TradeType, NEW x \in Outcomes
  PROVE  /\ AtBoundary(t, x) <=> Hits(t) = x /\ Level(t) = BuyPrice
         /\ Through(t, x) <=> Hits(t) = x /\ Level(t) < BuyPrice
<1>1. /\ Unit \in Int /\ BuyPrice \in Int
  BY PaperAssumption
<1>2. t.price \in Int
  BY PaperAssumption DEF TradeType
<1>3. t.side \in {"BUY", "SELL"} /\ t.asset \in Outcomes
  BY DEF TradeType
<1>4. t.asset = Other(x) <=> Other(t.asset) = x
  BY <1>3 DEF Other, Outcomes
<1>5. CASE t.side = "SELL"
  <2>1. /\ ~Complementary(t, x) /\ (Direct(t, x) <=> t.asset = x)
        /\ Hits(t) = t.asset /\ Level(t) = t.price
    BY <1>5 DEF Complementary, Direct, Hits, Level
  <2>2. QED
    BY <2>1 DEF AtBoundary, Through
<1>6. CASE t.side = "BUY"
  <2>1. /\ ~Direct(t, x) /\ (Complementary(t, x) <=> Hits(t) = x)
        /\ Level(t) = Unit - t.price
    BY <1>4, <1>6 DEF Complementary, Direct, Hits, Level
  <2>2. /\ t.price = Unit - BuyPrice <=> Level(t) = BuyPrice
        /\ t.price > Unit - BuyPrice <=> Level(t) < BuyPrice
    BY <1>1, <1>2, <2>1
  <2>3. QED
    BY <2>1, <2>2 DEF AtBoundary, Through
<1>7. QED
  BY <1>3, <1>5, <1>6

\* What a trade meets is one of the outcomes, at a price.
LEMMA Met ==
  ASSUME NEW t \in TradeType
  PROVE  Hits(t) \in Outcomes /\ Level(t) \in Int
<1>1. t.side \in {"BUY", "SELL"} /\ t.asset \in Outcomes /\ t.price \in Int /\ Unit \in Int
  BY PaperAssumption DEF TradeType
<1>2. Hits(t) \in Outcomes
  BY <1>1 DEF Hits, Other, Outcomes
<1>3. Level(t) \in Int
  BY <1>1 DEF Level
<1>4. QED
  BY <1>2, <1>3

\* Trades at the boundary are so many.
LEMMA BoundaryFinite ==
  ASSUME NEW ts \in Seq(TradeType), NEW x, NEW s
  PROVE  IsFiniteSet(Boundary(ts, x, s)) /\ Passed(ts, x, s) \in Nat
<1>1. DOMAIN ts = 1 .. Len(ts) /\ Len(ts) \in Nat
  OBVIOUS
<1>2. IsFiniteSet(1 .. Len(ts))
  BY <1>1, FS_Interval
<1>3. Boundary(ts, x, s) \subseteq 1 .. Len(ts)
  BY <1>1 DEF Boundary
<1>4. IsFiniteSet(Boundary(ts, x, s))
  BY <1>2, <1>3, FS_Subset
<1>5. QED
  BY <1>4, FS_CardinalityType DEF Passed

\* One more trade counts if it is at the boundary and late enough.
LEMMA PassedMore ==
  ASSUME NEW ts \in Seq(TradeType), NEW t \in TradeType, NEW x, NEW s
  PROVE  Passed(Append(ts, t), x, s)
            = IF t.at >= s /\ AtBoundary(t, x) THEN Passed(ts, x, s) + 1
              ELSE Passed(ts, x, s)
<1> DEFINE n == Len(ts) + 1
           us == Append(ts, t)
<1>1. /\ DOMAIN ts = 1 .. Len(ts) /\ Len(ts) \in Nat
      /\ DOMAIN us = (DOMAIN ts) \cup {n} /\ n \notin DOMAIN ts
      /\ us[n] = t /\ \A i \in DOMAIN ts : us[i] = ts[i]
  OBVIOUS
<1> HIDE DEF n, us
<1>2. CASE t.at >= s /\ AtBoundary(t, x)
  <2>1. Boundary(us, x, s) = Boundary(ts, x, s) \cup {n} /\ n \notin Boundary(ts, x, s)
    BY <1>1, <1>2 DEF Boundary
  <2>2. Cardinality(Boundary(ts, x, s) \cup {n}) = Cardinality(Boundary(ts, x, s)) + 1
    BY <2>1, BoundaryFinite, FS_AddElement
  <2>3. QED
    BY <1>2, <2>1, <2>2 DEF Passed, us
<1>3. CASE ~(t.at >= s /\ AtBoundary(t, x))
  <2>1. Boundary(us, x, s) = Boundary(ts, x, s)
    BY <1>1, <1>3 DEF Boundary
  <2>2. QED
    BY <1>3, <2>1 DEF Passed, us
<1>4. QED
  BY <1>2, <1>3

(***************************************************************************)
(* The types, the passes and the clock, action by action.                  *)
(***************************************************************************)

RowType ==
    [status : {"absent", "snapshot_pending", "monitoring", "settled", "missed"},
     snapshot : 0 .. MaxNow, queue : Queues, fill : [Outcomes -> 0 .. OrderSize]]

Base == Typed /\ Dated /\ Passing

\* Rows are registered and written off, and otherwise stay.
RowsKept(rows) ==
    /\ rows \in [Markets -> RowType]
    /\ \A m \in Markets :
          \/ rows[m] = row[m]
          \/ /\ row[m].status \in {"absent", "snapshot_pending"}
             /\ rows[m].status \in {"snapshot_pending", "missed"}

\* A row that is not there yet is a row.
LEMMA NoRowIsRow ==
  NoRow \in RowType /\ [NoRow EXCEPT !.status = "snapshot_pending"] \in RowType
<1>1. MaxNow \in Nat /\ None \in Queues /\ None \in [Outcomes -> 0 .. OrderSize]
  BY PaperAssumption, QueueIsFunction
<1> HIDE DEF None
<1>2. QED
  BY <1>1 DEF NoRow, RowType

\* What register makes of the inbox.
LEMMA RegisteredRows ==
  ASSUME Typed
  PROVE  RowsKept(Registered)
<1>1. row \in [Markets -> RowType]
  BY DEF Typed, TypeOK, RowType
<1>2. Registered \in [Markets -> RowType]
  BY <1>1, NoRowIsRow DEF Registered
<1>3. ASSUME NEW m \in Markets
      PROVE  \/ Registered[m] = row[m]
             \/ /\ row[m].status \in {"absent", "snapshot_pending"}
                /\ Registered[m].status \in {"snapshot_pending", "missed"}
  BY DEF Registered, NoRow
<1>4. QED
  BY <1>2, <1>3 DEF RowsKept

\* What expire_pending_snapshots makes of the rows.
LEMMA ExpiredRows ==
  ASSUME NEW rows, RowsKept(rows)
  PROVE  RowsKept(Expired(rows))
<1>1. rows \in [Markets -> RowType]
  BY DEF RowsKept
<1>2. Expired(rows) \in [Markets -> RowType]
  BY <1>1 DEF Expired, RowType
<1>3. ASSUME NEW m \in Markets
      PROVE  \/ Expired(rows)[m] = row[m]
             \/ /\ row[m].status \in {"absent", "snapshot_pending"}
                /\ Expired(rows)[m].status \in {"snapshot_pending", "missed"}
  <2>1. \/ Expired(rows)[m] = rows[m]
        \/ rows[m].status = "snapshot_pending" /\ Expired(rows)[m].status = "missed"
    BY <1>1 DEF Expired, RowType
  <2>2. QED
    BY <2>1 DEF RowsKept
<1>4. QED
  BY <1>2, <1>3 DEF RowsKept

\* A market has trades.
LEMMA TradesAre ==
  ASSUME Typed, NEW m \in Markets
  PROVE  /\ trades[m] \in Seq(TradeType)
         /\ \A n \in DOMAIN trades[m] : trades[m][n] \in TradeType
<1>1. trades[m] \in Seq(TradeType)
  BY DEF Typed
<1>2. QED
  BY <1>1

\* Time does not make a trade one of the future.
LEMMA DatedKept ==
  ASSUME Typed, Dated, trades' = trades, now' \in Nat, now <= now'
  PROVE  Dated'
<1>1. now \in Nat
  BY DEF Typed, TypeOK
<1>2. /\ SecondOf(now) \in Nat /\ SecondOf(now') \in Nat
      /\ SecondOf(now) <= SecondOf(now')
  BY <1>1, Seconds
<1>3. ASSUME NEW m \in Markets, NEW n \in DOMAIN trades[m]
      PROVE  trades[m][n].at \in Nat
  BY TradesAre DEF TradeType
<1>4. QED
  BY <1>2, <1>3 DEF Dated

\* Nor does it disturb a pass.
LEMMA PassingKept ==
  ASSUME Typed, Passing, UNCHANGED <<pass, row, pc>>, now' \in Nat, now <= now'
  PROVE  Passing'
<1>1. now \in Nat /\ book.at \in Nat /\ passTs \in Nat
  BY PaperAssumption DEF Typed, TypeOK
<1>2. /\ SecondOf(now) \in Nat /\ SecondOf(now') \in Nat
      /\ SecondOf(now) <= SecondOf(now')
  BY <1>1, Seconds
<1>3. \A m \in Markets : EndOf[m] \in Nat
  BY PaperAssumption
<1>4. book.at <= now => book.at <= now'
  BY <1>1
<1>5. passTs <= SecondOf(now) => passTs <= SecondOf(now')
  BY <1>1, <1>2
<1>6. \A m \in Markets : EndOf[m] <= SecondOf(now) => EndOf[m] <= SecondOf(now')
  BY <1>2, <1>3
<1>7. WithStatus("settled") \subseteq Markets
  BY DEF WithStatus
<1>8. QED
  BY <1>4, <1>5, <1>6, <1>7 DEF Passing, pass, WithStatus

\* The simulator begins with nothing.
LEMMA BaseInit == Init => Base
<1> SUFFICES ASSUME Init PROVE Base
  OBVIOUS
<1> USE DEF Init
<1>1. {MaxNow, MaxStarts} \subseteq Nat /\ OrderSize \in Nat
  BY PaperAssumption
<1>2. row \in [Markets -> RowType]
  BY NoRowIsRow
<1>3. book \in [of : SUBSET Markets, queue : Queues, at : 0 .. MaxNow] /\ book.of = {}
  BY <1>1, QueueIsFunction DEF NoBook
<1>4. /\ truth \in [Markets -> [Outcomes -> 0 .. OrderSize]]
      /\ ahead \in [Markets -> [Outcomes -> Nat]]
      /\ hidden \in [Markets -> BOOLEAN]
  BY QueueIsFunction
<1>5. trades \in [Markets -> Seq(TradeType)] /\ \A m \in Markets : DOMAIN trades[m] = {}
  OBVIOUS
<1>6. TypeOK
  BY <1>1, <1>2, <1>3, <1>4 DEF TypeOK, RowType
<1>7. Typed
  BY <1>3, <1>4, <1>5, <1>6 DEF Typed
<1>8. Dated
  BY <1>5 DEF Dated
<1>9. Passing
  BY DEF Passing, WithStatus, NoRow, NoBook
<1>10. QED
  BY <1>7, <1>8, <1>9 DEF Base

\* Where rows are only registered or written off, settled ones and the others
\* that are past a snapshot are those that were.
LEMMA RowsKeptMeans ==
  ASSUME NEW rows, RowsKept(rows), NEW m \in Markets
  PROVE  /\ rows[m].status = "settled" <=> row[m].status = "settled"
         /\ rows[m].status = "monitoring" <=> row[m].status = "monitoring"
         /\ row[m].status \notin {"absent", "snapshot_pending"} => rows[m] = row[m]
BY DEF RowsKept

\* Time, and what happens at the venue.
LEMMA TickBase == ASSUME Base, Tick PROVE Base'
<1>1. /\ now \in 0 .. MaxNow /\ MaxNow \in Nat
  BY PaperAssumption DEF Base, Typed, TypeOK
<1>2. now' \in 0 .. MaxNow /\ now' \in Nat /\ now <= now'
  BY <1>1 DEF Tick
<1>3. UNCHANGED <<venue, row, starts, pc, pass, fate>>
  BY DEF Tick
<1>4. Typed'
  BY <1>2, <1>3 DEF Base, Typed, TypeOK, venue, pass, fate
<1>5. Dated' /\ Passing'
  BY <1>2, <1>3, DatedKept, PassingKept DEF Base, venue
<1>6. QED
  BY <1>4, <1>5 DEF Base

\* A trade is appended with its second; queue and order move within their types.
LEMMA TradeBase == ASSUME Base, NEW m \in Markets, NEW k \in Kinds, Trade(m, k) PROVE Base'
<1> DEFINE t == [asset |-> k.asset, side |-> k.side, price |-> k.price, at |-> SecondOf(now)]
           x == Hits(t)
<1>1. now \in Nat /\ SecondOf(now) \in Nat
  BY Seconds DEF Base, Typed, TypeOK
<1>2. t \in TradeType
  BY <1>1, PaperAssumption DEF TradeType
<1>3. x \in Outcomes /\ t.at = SecondOf(now)
  BY <1>2, Met
<1>4. /\ t.at < EndOf[m]
      /\ trades' = [trades EXCEPT ![m] = Append(@, t)]
      /\ Level(t) = BuyPrice => queue[m][x] > 0
      /\ queue' = [queue EXCEPT ![m][x] = IF Level(t) = BuyPrice THEN @ - 1 ELSE @]
      /\ \/ UNCHANGED fate
         \/ /\ ahead' = [ahead EXCEPT ![m][x] = IF @ > 0 THEN @ - 1 ELSE @]
            /\ truth' = [truth EXCEPT ![m][x] =
                            IF ahead[m][x] = 0 /\ @ < OrderSize THEN @ + 1 ELSE @]
            /\ hidden' = [hidden EXCEPT ![m] = @ \/ m \in book.of \/ t.at < StartTs(m)]
      /\ UNCHANGED <<now, row, starts, pc, pass>>
  BY DEF Trade
<1> HIDE DEF t, x
<1>5. /\ queue \in [Markets -> Queues] /\ trades \in [Markets -> Seq(TradeType)]
      /\ truth \in [Markets -> [Outcomes -> 0 .. OrderSize]]
      /\ ahead \in [Markets -> [Outcomes -> Nat]]
      /\ hidden \in [Markets -> BOOLEAN]
  BY DEF Base, Typed, TypeOK
<1>6. trades' \in [Markets -> Seq(TradeType)]
  BY <1>2, <1>4, <1>5
<1>7. queue' \in [Markets -> Queues]
  <2>1. queue[m] \in Queues
    BY <1>5
  <2>2. CASE Level(t) = BuyPrice
    <3>1. [queue[m] EXCEPT ![x] = @ - 1] \in Queues
      BY <1>3, <1>4, <2>1, <2>2, TakenBack
    <3>2. QED
      BY <1>4, <1>5, <2>2, <3>1
  <2>3. CASE Level(t) # BuyPrice
    <3>1. queue' = [queue EXCEPT ![m][x] = @]
      BY <1>4, <2>3
    <3>2. queue[m] \in [Outcomes -> Nat]
      BY <2>1, QueueIsFunction
    <3>3. queue' = queue
      BY <1>5, <3>1, <3>2
    <3>4. QED
      BY <1>5, <3>3
  <2>4. QED
    BY <2>2, <2>3
<1>8. /\ truth' \in [Markets -> [Outcomes -> 0 .. OrderSize]]
      /\ ahead' \in [Markets -> [Outcomes -> Nat]]
      /\ hidden' \in [Markets -> BOOLEAN]
  <2>1. CASE UNCHANGED fate
    BY <1>5, <2>1 DEF fate
  <2>2. CASE ~UNCHANGED fate
    <3>1. OrderSize \in Nat
      BY PaperAssumption
    <3>2. /\ ahead[m][x] \in Nat /\ truth[m][x] \in 0 .. OrderSize
          /\ ahead[m] \in [Outcomes -> Nat] /\ truth[m] \in [Outcomes -> 0 .. OrderSize]
      BY <1>3, <1>5
    <3>3. (IF ahead[m][x] > 0 THEN ahead[m][x] - 1 ELSE ahead[m][x]) \in Nat
      BY <3>2
    <3>4. (IF ahead[m][x] = 0 /\ truth[m][x] < OrderSize THEN truth[m][x] + 1
           ELSE truth[m][x]) \in 0 .. OrderSize
      BY <3>1, <3>2
    <3>5. /\ ahead' = [ahead EXCEPT ![m] = [ahead[m] EXCEPT ![x] =
                         IF ahead[m][x] > 0 THEN ahead[m][x] - 1 ELSE ahead[m][x]]]
          /\ truth' = [truth EXCEPT ![m] = [truth[m] EXCEPT ![x] =
                         IF ahead[m][x] = 0 /\ truth[m][x] < OrderSize
                         THEN truth[m][x] + 1 ELSE truth[m][x]]]
      BY <1>4, <2>2, <1>3, <1>5
    <3>6. ahead' \in [Markets -> [Outcomes -> Nat]]
      BY <1>5, <3>2, <3>3, <3>5
    <3>7. truth' \in [Markets -> [Outcomes -> 0 .. OrderSize]]
      BY <1>5, <3>2, <3>4, <3>5
    <3>8. hidden' \in [Markets -> BOOLEAN]
      BY <1>4, <1>5, <2>2
    <3>9. QED
      BY <3>6, <3>7, <3>8
  <2>3. QED
    BY <2>1, <2>2
<1>9. Typed'
  BY <1>4, <1>6, <1>7, <1>8 DEF Base, Typed, TypeOK, pass
<1>10. Dated'
  <2>1. ASSUME NEW o \in Markets, NEW n \in DOMAIN trades'[o]
        PROVE  trades'[o][n].at <= SecondOf(now) /\ trades'[o][n].at < EndOf[o]
    <3>1. CASE o = m
      <4>1. trades'[m] = Append(trades[m], t) /\ trades[m] \in Seq(TradeType)
        BY <1>4, <1>5
      <4>2. \/ n \in DOMAIN trades[m] /\ trades'[m][n] = trades[m][n]
            \/ trades'[m][n] = t
        BY <2>1, <3>1, <4>1
      <4>3. t.at <= SecondOf(now) /\ t.at < EndOf[m]
        BY <1>1, <1>3, <1>4
      <4>4. QED
        BY <3>1, <4>2, <4>3 DEF Base, Dated
    <3>2. CASE o # m
      BY <1>4, <1>5, <2>1, <3>2 DEF Base, Dated
    <3>3. QED
      BY <3>1, <3>2
  <2>2. QED
    BY <1>4, <2>1 DEF Dated
<1>11. Passing'
  <2>1. now' \in Nat /\ now <= now'
    BY <1>1, <1>4
  <2>2. QED
    BY <1>4, <2>1, PassingKept DEF Base
<1>12. QED
  BY <1>9, <1>10, <1>11 DEF Base

\* A bid more is within the bound.
LEMMA BidBase == ASSUME Base, NEW m \in Markets, NEW x \in Outcomes, Bid(m, x) PROVE Base'
<1>1. /\ queue[m][x] < MaxQueue[x]
      /\ queue' = [queue EXCEPT ![m][x] = @ + 1]
      /\ UNCHANGED <<now, trades, resolved, row, starts, pc, snapshotPending, worker,
                     pass, fate>>
  BY DEF Bid
<1>2. queue \in [Markets -> Queues] /\ now \in Nat
  BY DEF Base, Typed, TypeOK
<1>3. queue' \in [Markets -> Queues]
  <2>1. [queue[m] EXCEPT ![x] = @ + 1] \in Queues
    BY <1>1, <1>2, TakenBack
  <2>2. QED
    BY <1>1, <1>2, <2>1
<1>4. Typed'
  BY <1>1, <1>3 DEF Base, Typed, TypeOK, pass, fate
<1>5. now' \in Nat /\ now <= now'
  BY <1>1, <1>2
<1>6. Dated' /\ Passing'
  BY <1>1, <1>5, DatedKept, PassingKept DEF Base
<1>7. QED
  BY <1>4, <1>6 DEF Base

\* A bid less leaves a queue, and an order no worse placed.
LEMMA CancelBase ==
  ASSUME Base, NEW m \in Markets, NEW x \in Outcomes, NEW before \in BOOLEAN,
         Cancel(m, x, before)
  PROVE  Base'
<1>1. /\ queue[m][x] > 0
      /\ queue' = [queue EXCEPT ![m][x] = @ - 1]
      /\ \/ UNCHANGED fate
         \/ /\ ahead[m][x] > 0
            /\ ahead' = [ahead EXCEPT ![m][x] = @ - 1]
            /\ hidden' = [hidden EXCEPT ![m] = TRUE]
            /\ UNCHANGED truth
      /\ UNCHANGED <<now, trades, resolved, row, starts, pc, snapshotPending, worker,
                     pass>>
  BY DEF Cancel
<1>2. /\ queue \in [Markets -> Queues] /\ now \in Nat
      /\ ahead \in [Markets -> [Outcomes -> Nat]]
      /\ hidden \in [Markets -> BOOLEAN]
  BY DEF Base, Typed, TypeOK
<1>3. queue' \in [Markets -> Queues]
  <2>1. [queue[m] EXCEPT ![x] = @ - 1] \in Queues
    BY <1>1, <1>2, TakenBack
  <2>2. QED
    BY <1>1, <1>2, <2>1
<1>4. /\ ahead' \in [Markets -> [Outcomes -> Nat]]
      /\ hidden' \in [Markets -> BOOLEAN] /\ UNCHANGED truth
  <2>1. CASE UNCHANGED fate
    BY <1>2, <2>1 DEF fate
  <2>2. CASE ~UNCHANGED fate
    <3>1. /\ ahead[m][x] > 0
          /\ ahead' = [ahead EXCEPT ![m][x] = @ - 1]
          /\ hidden' = [hidden EXCEPT ![m] = TRUE]
          /\ UNCHANGED truth
      BY <1>1, <2>2
    <3>2. ahead[m] \in [Outcomes -> Nat] /\ ahead[m][x] - 1 \in Nat
      BY <1>2, <3>1
    <3>3. ahead' \in [Markets -> [Outcomes -> Nat]]
      BY <1>2, <3>1, <3>2
    <3>4. hidden' \in [Markets -> BOOLEAN]
      BY <1>2, <3>1
    <3>5. QED
      BY <3>1, <3>3, <3>4
  <2>3. QED
    BY <2>1, <2>2
<1>5. Typed'
  BY <1>1, <1>3, <1>4 DEF Base, Typed, TypeOK, pass
<1>6. now' \in Nat /\ now <= now'
  BY <1>1, <1>2
<1>7. Dated' /\ Passing'
  BY <1>1, <1>6, DatedKept, PassingKept DEF Base
<1>8. QED
  BY <1>5, <1>7 DEF Base

\* A resolved market has an empty book.
LEMMA ResolveBase == ASSUME Base, NEW m \in Markets, Resolve(m) PROVE Base'
<1>1. /\ queue' = [queue EXCEPT ![m] = None]
      /\ ahead' = [ahead EXCEPT ![m] = None]
      /\ UNCHANGED <<now, trades, row, starts, pc, snapshotPending, worker, pass,
                     truth, hidden>>
  BY DEF Resolve
<1>2. /\ queue \in [Markets -> Queues] /\ now \in Nat
      /\ ahead \in [Markets -> [Outcomes -> Nat]]
  BY DEF Base, Typed, TypeOK
<1>3. None \in Queues /\ None \in [Outcomes -> Nat]
  BY QueueIsFunction
<1> HIDE DEF None
<1>4. queue' \in [Markets -> Queues] /\ ahead' \in [Markets -> [Outcomes -> Nat]]
  BY <1>1, <1>2, <1>3
<1>5. Typed'
  BY <1>1, <1>4 DEF Base, Typed, TypeOK, pass
<1>6. now' \in Nat /\ now <= now'
  BY <1>1, <1>2
<1>7. Dated' /\ Passing'
  BY <1>1, <1>6, DatedKept, PassingKept DEF Base
<1>8. QED
  BY <1>5, <1>7 DEF Base

\* What the simulator leaves alone at the venue, and of the order's fate.
Outside == UNCHANGED <<now, trades, queue, fate>>

\* Where nothing trades and no time passes, trades stay dated.
LEMMA DatedOutside == ASSUME Base, Outside PROVE Dated'
<1>1. now \in Nat
  BY DEF Base, Typed, TypeOK
<1>2. now' \in Nat /\ now <= now' /\ trades' = trades
  BY <1>1 DEF Outside
<1>3. QED
  BY <1>2, DatedKept DEF Base

\* A start, and what the activation worker hands over.
LEMMA StartBase == ASSUME Base, Start PROVE Base'
<1>1. /\ pc = "down" /\ pc' = "loop" /\ starts < MaxStarts /\ starts' = starts + 1
      /\ UNCHANGED <<now, venue, row, worker, pass, fate>>
  BY DEF Start
<1>2. starts \in 0 .. MaxStarts /\ MaxStarts \in Nat
  BY PaperAssumption DEF Base, Typed, TypeOK
<1>3. starts' \in 0 .. MaxStarts
  BY <1>1, <1>2
<1>4. Typed'
  BY <1>1, <1>3 DEF Base, Typed, TypeOK, venue, pass, fate
<1>5. Dated'
  BY <1>1, DatedOutside DEF Outside, venue
<1>6. Passing'
  BY <1>1 DEF Base, Passing, pass, WithStatus
<1>7. QED
  BY <1>4, <1>5, <1>6 DEF Base

\* A market handed over is in the inbox, and in no row yet.
LEMMA EmitBase == ASSUME Base, NEW m \in Markets, Emit(m) PROVE Base'
<1>1. UNCHANGED <<now, venue, row, starts, pc, snapshotPending, pass, fate>>
  BY DEF Emit
<1>2. Typed'
  BY <1>1 DEF Base, Typed, TypeOK, venue, pass, fate
<1>3. Dated'
  BY <1>1, DatedOutside DEF Outside, venue
<1>4. Passing'
  BY <1>1 DEF Base, Passing, pass, WithStatus
<1>5. QED
  BY <1>2, <1>3, <1>4 DEF Base

\* A capture of rows that were registered.
LEMMA CaptureBase ==
  ASSUME Base, NEW rows, RowsKept(rows), BeginCapture(rows), pc = "loop",
         Outside, UNCHANGED starts
  PROVE  Base'
<1>1. RowsKept(Expired(rows))
  BY ExpiredRows
<1>2. /\ row' = Expired(rows)
      /\ todo' = {m \in Markets : row'[m].status = "snapshot_pending"}
      /\ pc' = IF todo' = {} THEN "loop" ELSE "capture"
      /\ UNCHANGED <<book, passTs>>
  BY DEF BeginCapture
<1>3. row' \in [Markets -> RowType]
  BY <1>1, <1>2 DEF RowsKept
<1>4. book.of = {} /\ todo' \subseteq Markets
  BY <1>2 DEF Base, Typed, TypeOK
<1>5. Typed'
  BY <1>2, <1>3, <1>4 DEF Base, Typed, TypeOK, RowType, Outside, fate
<1>6. Dated'
  BY DatedOutside
<1>7. Passing'
  <2>1. pc' \in {"capture", "stamp"} =>
           /\ todo' \subseteq WithStatus("snapshot_pending")'
           /\ book'.of \subseteq todo'
    <3>1. todo' \subseteq WithStatus("snapshot_pending")'
      BY <1>2 DEF WithStatus
    <3>2. book'.of \subseteq todo'
      BY <1>2, <1>4
    <3>3. QED
      BY <3>1, <3>2
  <2>2. pc' # "settling"
    BY <1>2
  <2>3. \A m \in WithStatus("settled")' : EndOf[m] <= SecondOf(now')
    BY <1>1, <1>2, RowsKeptMeans DEF Base, Passing, WithStatus, Outside
  <2>4. book'.at <= now'
    BY <1>2 DEF Base, Passing, Outside
  <2>5. QED
    BY <2>1, <2>2, <2>3, <2>4 DEF Passing
<1>8. QED
  BY <1>5, <1>6, <1>7 DEF Base

\* A retry captures the rows that still wait.
LEMMA RetryBase == ASSUME Base, Retry PROVE Base'
<1>1. RowsKept(row)
  BY DEF Base, Typed, TypeOK, RowType, RowsKept
<1>2. BeginCapture(row) /\ pc = "loop" /\ Outside /\ UNCHANGED starts
  BY DEF Retry, Outside, venue
<1>3. QED
  BY <1>1, <1>2, CaptureBase

\* A drain registers the inbox and captures what waits then.
LEMMA DrainBase == ASSUME Base, Drain PROVE Base'
<1>1. pc = "loop" /\ Outside /\ UNCHANGED starts
  BY DEF Drain, Outside, venue
<1>2. CASE Registered # row
  <2>1. BeginCapture(Registered)
    BY <1>2 DEF Drain
  <2>2. RowsKept(Registered)
    BY RegisteredRows DEF Base
  <2>3. QED
    BY <1>1, <2>1, <2>2, CaptureBase
<1>3. CASE Registered = row
  <2>1. UNCHANGED <<row, pc, snapshotPending, pass>>
    BY <1>3 DEF Drain
  <2>2. Typed'
    BY <1>1, <2>1 DEF Base, Typed, TypeOK, pass, fate, Outside
  <2>3. Dated'
    BY <1>1, DatedOutside
  <2>4. Passing'
    BY <1>1, <2>1 DEF Base, Passing, pass, WithStatus, Outside
  <2>5. QED
    BY <2>2, <2>3, <2>4 DEF Base
<1>4. QED
  BY <1>2, <1>3

\* The books read are those of a row the capture goes through.
LEMMA ReadBooksBase == ASSUME Base, NEW m \in Markets, ReadBooks(m) PROVE Base'
<1>1. /\ pc = "capture" /\ m \in todo /\ pc' = "stamp"
      /\ book' = [of |-> {m}, queue |-> queue[m], at |-> now]
      /\ ahead' = [ahead EXCEPT ![m] = queue[m]]
      /\ truth' = [truth EXCEPT ![m] = None]
      /\ hidden' = [hidden EXCEPT ![m] = FALSE]
      /\ UNCHANGED <<now, venue, row, starts, snapshotPending, worker, todo, passTs>>
  BY DEF ReadBooks
<1>2. /\ queue \in [Markets -> Queues] /\ now \in 0 .. MaxNow /\ now \in Nat
      /\ truth \in [Markets -> [Outcomes -> 0 .. OrderSize]]
      /\ ahead \in [Markets -> [Outcomes -> Nat]]
      /\ hidden \in [Markets -> BOOLEAN]
  BY DEF Base, Typed, TypeOK
<1>3. /\ queue[m] \in Queues /\ queue[m] \in [Outcomes -> Nat]
      /\ None \in [Outcomes -> 0 .. OrderSize]
  BY <1>2, QueueIsFunction
<1> HIDE DEF None
<1>4. /\ ahead' \in [Markets -> [Outcomes -> Nat]]
      /\ truth' \in [Markets -> [Outcomes -> 0 .. OrderSize]]
      /\ hidden' \in [Markets -> BOOLEAN]
  BY <1>1, <1>2, <1>3
<1>5. /\ book' \in [of : SUBSET Markets, queue : Queues, at : 0 .. MaxNow]
      /\ book'.of = {m} /\ book'.at = now
  BY <1>1, <1>2, <1>3
<1>6. Typed'
  BY <1>1, <1>4, <1>5 DEF Base, Typed, TypeOK, venue
<1>7. Dated'
  BY <1>1, <1>2, DatedKept DEF Base, venue
<1>8. Passing'
  BY <1>1, <1>2, <1>5 DEF Base, Passing, WithStatus
<1>9. QED
  BY <1>6, <1>7, <1>8 DEF Base

\* A capture goes on, whether the row of m was given a snapshot or not.
LEMMA NextCaptureBase ==
  ASSUME Base, NEW m \in Markets, NextCapture(m), Outside, UNCHANGED starts,
         pc \in {"capture", "stamp"},
         row' \in [Markets -> RowType],
         \A o \in Markets : row'[o] = row[o] \/ (o = m /\ row'[o].status = "monitoring")
  PROVE  Base'
<1>1. /\ todo' = todo \ {m} /\ book' = NoBook
      /\ pc' = IF todo' = {} THEN "loop" ELSE "capture"
      /\ UNCHANGED passTs
  BY DEF NextCapture
<1>2. /\ book' \in [of : SUBSET Markets, queue : Queues, at : 0 .. MaxNow]
      /\ book'.of = {} /\ book'.at = 0
  BY <1>1, QueueIsFunction, PaperAssumption DEF NoBook
<1>3. Typed'
  BY <1>1, <1>2 DEF Base, Typed, TypeOK, RowType, Outside, fate
<1>4. Dated'
  BY DatedOutside
<1>5. Passing'
  <2>1. now \in Nat /\ now' = now
    BY DEF Base, Typed, TypeOK, Outside
  <2>2. book'.at <= now'
    BY <1>2, <2>1
  <2>3. todo' \subseteq WithStatus("snapshot_pending")'
    BY <1>1 DEF Base, Passing, WithStatus
  <2>4. \A o \in WithStatus("settled")' : EndOf[o] <= SecondOf(now')
    BY <2>1 DEF Base, Passing, WithStatus
  <2>5. QED
    BY <1>1, <1>2, <2>2, <2>3, <2>4 DEF Passing
<1>6. QED
  BY <1>3, <1>4, <1>5 DEF Base

\* A row whose request failed still waits, outside this capture.
LEMMA CaptureFailsBase == ASSUME Base, NEW m \in Markets, CaptureFails(m) PROVE Base'
<1>1. /\ pc \in {"capture", "stamp"} /\ UNCHANGED row /\ NextCapture(m)
      /\ Outside /\ UNCHANGED starts
  BY DEF CaptureFails, Outside, venue
<1>2. row' \in [Markets -> RowType] /\ \A o \in Markets : row'[o] = row[o]
  BY <1>1 DEF Base, Typed, TypeOK, RowType
<1>3. QED
  BY <1>1, <1>2, NextCaptureBase

\* A row with its snapshot is out of the capture.
LEMMA SetSnapshotBase == ASSUME Base, NEW m \in Markets, SetSnapshot(m) PROVE Base'
<1>1. /\ pc = "stamp" /\ NextCapture(m) /\ Outside /\ UNCHANGED starts
      /\ row' = [row EXCEPT ![m] = [status |-> "monitoring", snapshot |-> now,
                                    queue |-> book.queue, fill |-> None]]
  BY DEF SetSnapshot, Outside, venue
<1>2. /\ row \in [Markets -> RowType] /\ now \in 0 .. MaxNow /\ book.queue \in Queues
      /\ None \in [Outcomes -> 0 .. OrderSize]
  BY QueueIsFunction DEF Base, Typed, TypeOK, RowType
<1> HIDE DEF None
<1>3. [status |-> "monitoring", snapshot |-> now, queue |-> book.queue, fill |-> None]
         \in RowType
  BY <1>2 DEF RowType
<1>4. row' \in [Markets -> RowType]
  BY <1>1, <1>2, <1>3
<1>5. \A o \in Markets : row'[o] = row[o] \/ (o = m /\ row'[o].status = "monitoring")
  BY <1>1, <1>2
<1>6. QED
  BY <1>1, <1>4, <1>5, NextCaptureBase

\* What fifo_fill finds is within the order's size.
LEMMA FillSized ==
  ASSUME Typed, NEW m \in Markets, NEW until
  PROVE  Fills(m, Counted(m, until)) \in [Outcomes -> 0 .. OrderSize]
<1> DEFINE ns == Counted(m, until)
<1>1. trades[m] \in Seq(TradeType) /\ OrderSize \in Nat
  BY PaperAssumption, TradesAre
<1>2. IsFiniteSet(DOMAIN trades[m])
  <2>1. DOMAIN trades[m] = 1 .. Len(trades[m]) /\ Len(trades[m]) \in Nat
    BY <1>1
  <2>2. QED
    BY <2>1, FS_Interval
<1>3. ASSUME NEW x \in Outcomes PROVE FifoFill(m, x, ns) \in 0 .. OrderSize
  <2>1. IsFiniteSet({n \in ns : AtBoundary(trades[m][n], x)})
    BY <1>2, FS_Subset DEF Counted
  <2>2. Cardinality({n \in ns : AtBoundary(trades[m][n], x)}) \in Nat
    BY <2>1, FS_CardinalityType
  <2>3. row[m].queue \in Queues
    BY DEF Typed, TypeOK
  <2>4. row[m].queue[x] \in Int
    BY <2>3, QueueIsFunction
  <2>5. Past(m, x, ns) \in Int
    BY <2>2, <2>4 DEF Past
  <2>6. Smaller(OrderSize, Larger(0, Past(m, x, ns))) \in 0 .. OrderSize
    BY <1>1, <2>5 DEF Smaller, Larger
  <2>7. OrderSize \in 0 .. OrderSize
    BY <1>1
  <2>8. QED
    BY <2>6, <2>7 DEF FifoFill
<1>4. QED
  BY <1>3 DEF Fills

\* A settlement begins with rows of markets that are over.
LEMMA BeginSettleBase == ASSUME Base, BeginSettle PROVE Base'
<1>1. /\ pc = "loop" /\ Ready # {} /\ passTs' = SecondOf(now) /\ todo' = Ready
      /\ pc' = "settling" /\ UNCHANGED <<row, starts, book>> /\ Outside
  BY DEF BeginSettle, Outside, venue
<1>2. now \in Nat /\ SecondOf(now) \in Nat /\ now' = now
  BY <1>1, Seconds DEF Base, Typed, TypeOK, Outside
<1>3. Ready \subseteq Markets
  BY DEF Ready, WithStatus
<1>4. Typed'
  BY <1>1, <1>2, <1>3 DEF Base, Typed, TypeOK, Outside, fate
<1>5. Dated'
  BY <1>1, DatedOutside
<1>6. \A m \in Ready : row[m].status = "monitoring" /\ EndOf[m] <= SecondOf(now)
  BY <1>2, PaperAssumption DEF Ready, WithStatus
<1>7. Passing'
  <2>1. book'.at <= now' /\ passTs' <= SecondOf(now')
    BY <1>1, <1>2 DEF Base, Passing
  <2>2. \A m \in todo' : row'[m].status = "monitoring" /\ EndOf[m] <= passTs'
    BY <1>1, <1>6
  <2>3. \A m \in WithStatus("settled")' : EndOf[m] <= SecondOf(now')
    BY <1>1, <1>2 DEF Base, Passing, WithStatus
  <2>4. QED
    BY <1>1, <2>1, <2>2, <2>3 DEF Passing
<1>8. QED
  BY <1>4, <1>5, <1>7 DEF Base

\* A settlement goes on, whether the row of m was settled or not.
LEMMA NextSettleBase ==
  ASSUME Base, NEW m \in Markets, NextSettle(m), m \in todo, Outside, UNCHANGED starts,
         pc = "settling",
         row' \in [Markets -> RowType],
         \A o \in Markets : row'[o] = row[o] \/ (o = m /\ row'[o].status = "settled")
  PROVE  Base'
<1>1. /\ todo' = todo \ {m} /\ UNCHANGED book
      /\ \/ todo' = {} /\ pc' = "loop" /\ passTs' = 0
         \/ todo' # {} /\ UNCHANGED <<pc, passTs>>
  BY DEF NextSettle
<1>2. Typed'
  <2>1. /\ pc' \in {"down", "loop", "capture", "stamp", "settling"}
        /\ (todo' # {}) <=> pc' \in {"capture", "stamp", "settling"}
        /\ (book'.of # {}) <=> pc' = "stamp"
        /\ book' = book /\ todo' \in SUBSET Markets
    BY <1>1 DEF Base, Typed, TypeOK
  <2>2. passTs' \in Nat
    BY <1>1 DEF Base, Typed
  <2>3. QED
    BY <2>1, <2>2 DEF Base, Typed, TypeOK, RowType, Outside, fate
<1>3. Dated'
  BY DatedOutside
<1>4. Passing'
  <2>1. now \in Nat /\ now' = now /\ SecondOf(now) \in Nat /\ passTs \in Nat
        /\ EndOf[m] \in Nat
    BY Seconds, PaperAssumption DEF Base, Typed, TypeOK, Outside
  <2>2. EndOf[m] <= SecondOf(now)
    <3>1. passTs <= SecondOf(now) /\ EndOf[m] <= passTs
      BY DEF Base, Passing
    <3>2. QED
      BY <2>1, <3>1
  <2>3. \A o \in WithStatus("settled")' : EndOf[o] <= SecondOf(now')
    BY <2>1, <2>2 DEF Base, Passing, WithStatus
  <2>4. book'.at <= now' /\ pc' \notin {"capture", "stamp"}
    BY <1>1, <2>1 DEF Base, Passing
  <2>5. ASSUME pc' = "settling" PROVE passTs' <= SecondOf(now')
    BY <1>1, <2>1, <2>5 DEF Base, Passing
  <2>6. ASSUME pc' = "settling", NEW o \in todo'
        PROVE  row'[o].status = "monitoring" /\ EndOf[o] <= passTs'
    <3>1. passTs' = passTs /\ o \in todo /\ o # m /\ o \in Markets
      BY <1>1, <2>6 DEF Base, Typed
    <3>2. QED
      BY <3>1 DEF Base, Passing
  <2>7. QED
    BY <2>3, <2>4, <2>5, <2>6 DEF Passing
<1>5. QED
  BY <1>2, <1>3, <1>4 DEF Base

\* A settled row is one whose market is over.
LEMMA SetResultBase == ASSUME Base, NEW m \in Markets, SetResult(m) PROVE Base'
<1>1. /\ pc = "settling" /\ m \in todo /\ NextSettle(m) /\ Outside /\ UNCHANGED starts
      /\ row' = [row EXCEPT ![m].status = "settled",
                            ![m].fill = Fills(m, Counted(m, passTs))]
  BY DEF SetResult, Outside, venue
<1>2. row \in [Markets -> RowType]
  BY DEF Base, Typed, TypeOK, RowType
<1>3. Fills(m, Counted(m, passTs)) \in [Outcomes -> 0 .. OrderSize]
  BY FillSized DEF Base
<1>4. /\ row' \in [Markets -> RowType]
      /\ \A o \in Markets : row'[o] = row[o] \/ (o = m /\ row'[o].status = "settled")
  BY <1>1, <1>2, <1>3 DEF RowType
<1>5. QED
  BY <1>1, <1>4, NextSettleBase

\* A row that cannot be settled yet keeps its snapshot.
LEMMA NotSettledBase == ASSUME Base, NEW m \in Markets, NotSettled(m) PROVE Base'
<1>1. /\ pc = "settling" /\ m \in todo /\ NextSettle(m) /\ Outside /\ UNCHANGED starts
      /\ row' = row
  BY DEF NotSettled, Outside, venue
<1>2. row' \in [Markets -> RowType] /\ \A o \in Markets : row'[o] = row[o]
  BY <1>1 DEF Base, Typed, TypeOK, RowType
<1>3. QED
  BY <1>1, <1>2, NextSettleBase

\* The end of a run, by a stop or by a crash.
LEMMA DownBase == ASSUME Base, Stop \/ Crash PROVE Base'
<1>1. Down /\ row' \in {row, Registered}
  BY DEF Stop, Crash
<1>2. RowsKept(row')
  <2>1. RowsKept(row)
    BY DEF Base, Typed, TypeOK, RowType, RowsKept
  <2>2. RowsKept(Registered)
    BY RegisteredRows DEF Base
  <2>3. QED
    BY <1>1, <2>1, <2>2
<1>3. /\ pc' = "down" /\ todo' = {} /\ book' = NoBook /\ passTs' = 0
      /\ Outside /\ UNCHANGED starts
  BY <1>1 DEF Down, Outside, venue
<1>4. /\ book' \in [of : SUBSET Markets, queue : Queues, at : 0 .. MaxNow]
      /\ book'.of = {} /\ book'.at = 0
  BY <1>3, QueueIsFunction, PaperAssumption DEF NoBook
<1>5. Typed'
  BY <1>2, <1>3, <1>4 DEF Base, Typed, TypeOK, RowType, RowsKept, Outside, fate
<1>6. Dated'
  BY <1>3, DatedOutside
<1>7. Passing'
  <2>1. now \in Nat /\ now' = now
    BY <1>3 DEF Base, Typed, TypeOK, Outside
  <2>2. \A m \in WithStatus("settled")' : EndOf[m] <= SecondOf(now')
    BY <1>2, <2>1, RowsKeptMeans DEF Base, Passing, WithStatus
  <2>3. QED
    BY <1>3, <1>4, <2>1, <2>2 DEF Passing
<1>8. QED
  BY <1>5, <1>6, <1>7 DEF Base

\* No step of the simulator or the venue breaks any of it.
LEMMA BaseStep == Base /\ [Next]_vars => Base'
<1> SUFFICES ASSUME Base, [Next]_vars PROVE Base'
  OBVIOUS
<1>1. CASE UNCHANGED vars
  BY <1>1 DEF Base, Typed, TypeOK, Dated, Passing, WithStatus, vars, venue, fate, worker, pass
<1>2. ASSUME NEW m \in Markets, NEW k \in Kinds, Trade(m, k) PROVE Base'
  BY <1>2, TradeBase
<1>3. ASSUME NEW m \in Markets, NEW x \in Outcomes,
             Bid(m, x) \/ \E before \in BOOLEAN : Cancel(m, x, before)
      PROVE  Base'
  BY <1>3, BidBase, CancelBase
<1>4. ASSUME NEW m \in Markets,
             \/ Resolve(m) \/ Emit(m) \/ ReadBooks(m) \/ SetSnapshot(m) \/ CaptureFails(m)
             \/ SetResult(m) \/ NotSettled(m)
      PROVE  Base'
  BY <1>4, ResolveBase, EmitBase, ReadBooksBase, SetSnapshotBase, CaptureFailsBase,
     SetResultBase, NotSettledBase
<1>5. CASE Tick \/ Start \/ Drain \/ Retry \/ BeginSettle \/ Stop \/ Crash
  BY <1>5, TickBase, StartBase, DrainBase, RetryBase, BeginSettleBase, DownBase
<1>6. QED
  BY <1>1, <1>2, <1>3, <1>4, <1>5 DEF Next

\* Trades are never of the future, and a pass goes through the rows it was begun
\* for: rows are captured while they wait for a snapshot, and settled when they
\* have one and their market is over (pending_snapshots, ready_to_settle).
THEOREM BaseInvariant == Spec => []Base
<1>1. QED
  BY BaseInit, BaseStep, PTL DEF Spec

\* The simulator's variables keep their types: a fill is within the order's size
\* (fifo_fill), books are held for one market only while its snapshot is taken,
\* and rows to go through in a pass only (_capture_pending_snapshots, _settle).
THEOREM TypeCorrect == Spec => []TypeOK
<1>1. Base => TypeOK
  BY DEF Base, Typed
<1>2. QED
  BY <1>1, BaseInvariant, PTL

(***************************************************************************)
(* A market is measured once.                                              *)
(***************************************************************************)

Measured ==
    \A m \in Markets :
        /\ row[m].status \in {"settled", "missed"} => row'[m] = row[m]
        /\ row[m].status = "monitoring" =>
              /\ row'[m].status \in {"monitoring", "settled"}
              /\ row'[m].snapshot = row[m].snapshot
              /\ row'[m].queue = row[m].queue

\* Rows change by a registration or a write-off, by a snapshot of a row that
\* waits for one, or by the settlement of one that has it.
LEMMA RowStep ==
  ASSUME Base, [Next]_vars
  PROVE  \/ RowsKept(row')
         \/ \E m \in Markets : SetSnapshot(m) /\ row[m].status = "snapshot_pending"
         \/ \E m \in Markets : SetResult(m) /\ row[m].status = "monitoring"
<1>1. RowsKept(row)
  BY DEF Base, Typed, TypeOK, RowType, RowsKept
<1>2. RowsKept(Registered)
  BY RegisteredRows DEF Base
<1>3. RowsKept(Expired(row)) /\ RowsKept(Expired(Registered))
  BY <1>1, <1>2, ExpiredRows
<1>4. CASE UNCHANGED row
  BY <1>1, <1>4
<1>5. CASE Drain \/ Retry \/ Stop
  BY <1>1, <1>2, <1>3, <1>5 DEF Drain, Retry, Stop, BeginCapture
<1>6. ASSUME NEW m \in Markets, SetSnapshot(m) PROVE row[m].status = "snapshot_pending"
  BY <1>6 DEF SetSnapshot, Base, Passing, WithStatus
<1>7. ASSUME NEW m \in Markets, SetResult(m) PROVE row[m].status = "monitoring"
  BY <1>7 DEF SetResult, Base, Passing
<1>8. ASSUME Tick \/ Start \/ BeginSettle \/ Crash PROVE UNCHANGED row
  BY <1>8 DEF Tick, Start, BeginSettle, Crash
<1>9. ASSUME NEW m \in Markets,
             \/ \E k \in Kinds : Trade(m, k)
             \/ \E x \in Outcomes :
                   Bid(m, x) \/ \E before \in BOOLEAN : Cancel(m, x, before)
             \/ Resolve(m) \/ Emit(m) \/ ReadBooks(m) \/ CaptureFails(m) \/ NotSettled(m)
      PROVE  UNCHANGED row
  BY <1>9 DEF Trade, Bid, Cancel, Resolve, Emit, ReadBooks, CaptureFails, NotSettled
<1>10. UNCHANGED vars => UNCHANGED row
  BY DEF vars
<1>11. QED
  BY <1>4, <1>5, <1>6, <1>7, <1>8, <1>9, <1>10 DEF Next

\* None of those changes touches what was measured.
LEMMA MeasuredStep == ASSUME Base, [Next]_vars PROVE Measured
<1>1. row \in [Markets -> RowType]
  BY DEF Base, Typed, TypeOK, RowType
<1>2. CASE RowsKept(row')
  BY <1>2, RowsKeptMeans DEF Measured
<1>3. ASSUME NEW m \in Markets, SetSnapshot(m), row[m].status = "snapshot_pending"
      PROVE  Measured
  <2>1. \A o \in Markets \ {m} : row'[o] = row[o]
    BY <1>1, <1>3 DEF SetSnapshot
  <2>2. QED
    BY <1>3, <2>1 DEF Measured
<1>4. ASSUME NEW m \in Markets, SetResult(m), row[m].status = "monitoring" PROVE Measured
  <2>1. \A o \in Markets \ {m} : row'[o] = row[o]
    BY <1>1, <1>4 DEF SetResult
  <2>2. /\ row'[m].status = "settled" /\ row'[m].snapshot = row[m].snapshot
        /\ row'[m].queue = row[m].queue
    BY <1>1, <1>4 DEF SetResult, RowType
  <2>3. QED
    BY <1>4, <2>1, <2>2 DEF Measured
<1>5. QED
  BY <1>2, <1>3, <1>4, RowStep

\* A market is measured once: a snapshot that was taken stays as it is whatever
\* the worker hands over again after a restart (register's INSERT OR IGNORE,
\* set_snapshot), and a settled or missed row does not change any more.
THEOREM MeasuredFirst == Spec => MeasuredOnce
<1>1. Base /\ [Next]_vars => Measured
  BY MeasuredStep
<1>2. Spec => [][Measured]_vars
  BY <1>1, BaseInvariant, PTL DEF Spec
<1>3. QED
  BY <1>2, PTL DEF MeasuredOnce, Measured

(***************************************************************************)
(* The order is followed by the trades counted.                            *)
(***************************************************************************)

\* One more trade at the boundary: an order that is as far as the trades counted
\* stays so, and one that is just as far stays just as far.
LEMMA OneMore ==
  ASSUME NEW q \in Nat, NEW b \in Nat, NEW a \in Nat, NEW g \in 0 .. OrderSize,
         a <= Before(q, b), g >= Got(q, b)
  PROVE  /\ (IF a > 0 THEN a - 1 ELSE a) <= Before(q, b + 1)
         /\ (IF a = 0 /\ g < OrderSize THEN g + 1 ELSE g) >= Got(q, b + 1)
         /\ (IF a > 0 THEN a - 1 ELSE a) <= Before(q, b)
         /\ (IF a = 0 /\ g < OrderSize THEN g + 1 ELSE g) >= Got(q, b)
         /\ a = Before(q, b) /\ g = Got(q, b) =>
               /\ (IF a > 0 THEN a - 1 ELSE a) = Before(q, b + 1)
               /\ (IF a = 0 /\ g < OrderSize THEN g + 1 ELSE g) = Got(q, b + 1)
<1>1. OrderSize \in Nat
  BY PaperAssumption
<1>2. QED
  BY <1>1 DEF Before, Got, Smaller, Larger

\* What is known of the order of a market, as numbers.
LEMMA FateType ==
  ASSUME Base, NEW m \in Markets, NEW x \in Outcomes
  PROVE  /\ ahead[m][x] \in Nat /\ truth[m][x] \in 0 .. OrderSize
         /\ hidden[m] \in BOOLEAN /\ EndOf[m] \in Nat
         /\ now \in Nat /\ SecondOf(now) \in Nat
<1>1. now \in Nat /\ SecondOf(now) \in Nat
  BY Seconds DEF Base, Typed, TypeOK
<1>2. QED
  BY <1>1, PaperAssumption DEF Base, Typed, TypeOK

\* Where nothing moves the order or trades, it is followed as before.
LEMMA FollowedKept ==
  ASSUME Base, NEW m \in Markets, NEW x \in Outcomes, NEW q \in Nat, NEW s \in Nat,
         Followed(m, x, q, s),
         trades'[m] = trades[m], ahead'[m][x] = ahead[m][x],
         truth'[m][x] = truth[m][x], hidden'[m] = hidden[m],
         now' \in Nat, now <= now'
  PROVE  Followed(m, x, q, s)'
<1>1. NoneThrough(m, x)' <=> NoneThrough(m, x)
  BY DEF NoneThrough
<1>2. SecondOf(now) >= EndOf[m] => SecondOf(now') >= EndOf[m]
  <2>1. now \in Nat /\ EndOf[m] \in Nat
    BY FateType
  <2>2. /\ SecondOf(now) \in Nat /\ SecondOf(now') \in Nat
        /\ SecondOf(now) <= SecondOf(now')
    BY <2>1, Seconds
  <2>3. QED
    BY <2>1, <2>2
<1>3. QED
  BY <1>1, <1>2 DEF Followed

\* So it is everywhere, if in addition no order joins.
LEMMA FollowingKept ==
  ASSUME Base, Following, UNCHANGED <<trades, fate>>, now' \in Nat, now <= now',
         \A m \in Markets, x \in Outcomes, q \in Nat, s \in Nat :
            Joins(m, x, q, s)' => Joins(m, x, q, s)
  PROVE  Following'
<1>1. SUFFICES ASSUME NEW m \in Markets, NEW x \in Outcomes, NEW q \in Nat, NEW s \in Nat,
                      Joins(m, x, q, s)'
               PROVE  Followed(m, x, q, s)'
  BY DEF Following
<1>2. Followed(m, x, q, s)
  BY <1>1 DEF Following
<1>3. QED
  BY <1>2, FollowedKept DEF fate

\* An order joins with a picture only: where rows are registered, written off or
\* settled, nothing joins.
LEMMA NoneJoins ==
  ASSUME NEW m \in Markets, NEW x \in Outcomes, NEW q \in Nat, NEW s \in Nat,
         \/ row'[m] = row[m]
         \/ row'[m].status # "monitoring",
         book' = book \/ book'.of = {},
         Joins(m, x, q, s)'
  PROVE  Joins(m, x, q, s)
BY DEF Joins, StartTs

\* Time, starts, drains, polls and the end of a run move no order.
LEMMA RestFollows ==
  ASSUME Base, Following,
         \/ UNCHANGED vars
         \/ Tick \/ Start \/ Drain \/ Retry \/ BeginSettle \/ Stop \/ Crash
  PROVE  Following'
<1>1. UNCHANGED <<trades, fate>>
  BY DEF vars, venue, Tick, Start, Drain, Retry, BeginSettle, Stop, Crash, Down
<1>2. now \in Nat
  BY DEF Base, Typed, TypeOK
<1>3. now' \in Nat /\ now <= now'
  BY <1>2 DEF vars, Tick, Start, Drain, Retry, BeginSettle, Stop, Crash, Down
<1>4. book' = book \/ book'.of = {}
  BY DEF vars, pass, Tick, Start, Drain, Retry, BeginCapture, BeginSettle, Stop, Crash,
     Down, NoBook
<1>5. RowsKept(row')
  <2>1. RowsKept(row)
    BY DEF Base, Typed, TypeOK, RowType, RowsKept
  <2>2. RowsKept(Registered)
    BY RegisteredRows DEF Base
  <2>3. RowsKept(Expired(row)) /\ RowsKept(Expired(Registered))
    BY <2>1, <2>2, ExpiredRows
  <2>4. row' \in {row, Registered, Expired(row), Expired(Registered)}
    BY DEF vars, Tick, Start, Drain, Retry, BeginSettle, Stop, Crash, BeginCapture
  <2>5. QED
    BY <2>1, <2>2, <2>3, <2>4
<1>6. \A m \in Markets : row'[m] = row[m] \/ row'[m].status # "monitoring"
  BY <1>5 DEF RowsKept
<1>7. QED
  BY <1>1, <1>3, <1>4, <1>6, FollowingKept, NoneJoins

\* Nor do bids, what the worker hands over, a failed capture or a settlement.
LEMMA OtherFollows ==
  ASSUME Base, Following, NEW m \in Markets,
         \/ \E x \in Outcomes : Bid(m, x)
         \/ Emit(m) \/ CaptureFails(m) \/ SetResult(m) \/ NotSettled(m)
  PROVE  Following'
<1>1. UNCHANGED <<trades, fate>> /\ now' = now
  BY DEF Bid, Emit, CaptureFails, SetResult, NotSettled, venue
<1>2. now' \in Nat /\ now <= now'
  BY <1>1 DEF Base, Typed, TypeOK
<1>3. book' = book \/ book'.of = {}
  <2>1. CASE CaptureFails(m)
    BY <2>1 DEF CaptureFails, NextCapture, NoBook
  <2>2. CASE SetResult(m) \/ NotSettled(m)
    BY <2>2 DEF SetResult, NotSettled, NextSettle
  <2>3. CASE Emit(m) \/ \E x \in Outcomes : Bid(m, x)
    BY <2>3 DEF Emit, Bid, pass
  <2>4. QED
    BY <2>1, <2>2, <2>3
<1>4. \A o \in Markets : row'[o] = row[o] \/ row'[o].status # "monitoring"
  <2>1. row \in [Markets -> RowType]
    BY DEF Base, Typed, TypeOK, RowType
  <2>2. CASE SetResult(m)
    BY <2>1, <2>2 DEF SetResult, RowType
  <2>3. CASE ~SetResult(m)
    BY <2>3 DEF Bid, Emit, CaptureFails, NotSettled
  <2>4. QED
    BY <2>2, <2>3
<1>5. QED
  BY <1>1, <1>2, <1>3, <1>4, FollowingKept, NoneJoins

\* The stamp of a snapshot is later than the books, so that trades counted from
\* its next whole second on are trades since the order joined.
LEMMA SetSnapshotFollows ==
  ASSUME Base, Following, NEW m \in Markets, SetSnapshot(m)
  PROVE  Following'
<1>1. /\ pc = "stamp" /\ m \in book.of /\ now > book.at /\ book' = NoBook
      /\ row' = [row EXCEPT ![m] = [status |-> "monitoring", snapshot |-> now,
                                    queue |-> book.queue, fill |-> None]]
      /\ UNCHANGED <<trades, fate, now>>
  BY DEF SetSnapshot, NextCapture, venue
<1>2. now \in Nat /\ book.at \in Nat /\ row \in [Markets -> RowType] /\ now <= now
  BY PaperAssumption DEF Base, Typed, TypeOK, RowType
<1>3. SUFFICES ASSUME NEW o \in Markets, NEW x \in Outcomes, NEW q \in Nat, NEW s \in Nat,
                      Joins(o, x, q, s)'
               PROVE  Joins(o, x, q, s)
  BY <1>1, <1>2, FollowingKept
<1>4. o \notin book'.of
  BY <1>1 DEF NoBook
<1>5. CASE o = m
  <2>1. /\ row'[m].queue = book.queue /\ row'[m].snapshot = now
    BY <1>1, <1>2
  <2>2. q = book.queue[x] /\ s = (now + TicksPerSecond - 1) \div TicksPerSecond
    BY <1>3, <1>4, <1>5, <2>1 DEF Joins, StartTs
  <2>3. s > SecondOf(book.at)
    BY <1>1, <1>2, <2>2, Seconds
  <2>4. QED
    BY <1>1, <1>5, <2>2, <2>3 DEF Joins
<1>6. CASE o # m
  <2>1. row'[o] = row[o]
    BY <1>1, <1>2, <1>6
  <2>2. QED
    BY <1>3, <1>4, <2>1 DEF Joins, StartTs
<1>7. QED
  BY <1>5, <1>6

\* The order joins the queue of the books read: none of the trades so far is one
\* of a later second.
LEMMA ReadBooksFollows ==
  ASSUME Base, Following, NEW m \in Markets, ReadBooks(m)
  PROVE  Following'
<1>1. /\ pc = "capture" /\ m \in todo
      /\ book' = [of |-> {m}, queue |-> queue[m], at |-> now]
      /\ ahead' = [ahead EXCEPT ![m] = queue[m]]
      /\ truth' = [truth EXCEPT ![m] = None]
      /\ hidden' = [hidden EXCEPT ![m] = FALSE]
      /\ UNCHANGED <<now, trades, row>>
  BY DEF ReadBooks, venue
<1>2. /\ ahead \in [Markets -> [Outcomes -> Nat]]
      /\ truth \in [Markets -> [Outcomes -> 0 .. OrderSize]]
      /\ hidden \in [Markets -> BOOLEAN] /\ now \in Nat /\ now <= now
  BY DEF Base, Typed, TypeOK
<1>3. SUFFICES ASSUME NEW o \in Markets, NEW x \in Outcomes, NEW q \in Nat, NEW s \in Nat,
                      Joins(o, x, q, s)'
               PROVE  Followed(o, x, q, s)'
  BY DEF Following
<1>4. CASE o # m
  <2>1. ahead'[o] = ahead[o] /\ truth'[o] = truth[o] /\ hidden'[o] = hidden[o]
    BY <1>1, <1>2, <1>4
  <2>2. Joins(o, x, q, s)
    BY <1>1, <1>3, <1>4 DEF Joins, StartTs
  <2>3. Followed(o, x, q, s)
    BY <2>2 DEF Following
  <2>4. QED
    BY <1>1, <1>2, <2>1, <2>3, FollowedKept
<1>5. CASE o = m
  <2>1. row[m].status = "snapshot_pending"
    BY <1>1 DEF Base, Passing, WithStatus
  <2>2. q = queue[m][x] /\ s > SecondOf(now)
    BY <1>1, <1>3, <1>5, <2>1 DEF Joins
  <2>3. ahead'[m][x] = q /\ truth'[m][x] = 0
    BY <1>1, <1>2, <2>2, QueueIsFunction
  <2>4. Passed(trades[m], x, s) = 0
    <3>1. ASSUME NEW n \in DOMAIN trades[m] PROVE ~(trades[m][n].at >= s)
      <4>1. trades[m][n].at <= SecondOf(now) /\ trades[m][n] \in TradeType
        BY TradesAre DEF Base, Dated
      <4>2. trades[m][n].at \in Nat /\ SecondOf(now) \in Nat
        BY <4>1, FateType DEF TradeType
      <4>3. QED
        BY <2>2, <4>1, <4>2
    <3>2. Boundary(trades[m], x, s) = {}
      BY <3>1 DEF Boundary
    <3>3. QED
      BY <3>2, FS_EmptySet DEF Passed
  <2>5. Before(q, 0) = q /\ Got(q, 0) = 0
    BY PaperAssumption DEF Before, Got, Smaller, Larger
  <2>6. QED
    BY <1>1, <1>5, <2>3, <2>4, <2>5 DEF Followed
<1>6. QED
  BY <1>4, <1>5

\* A bid taken back before the order, and the end of the book, leave the order no
\* worse off than the trades counted say.
LEMMA CancelFollows ==
  ASSUME Base, Following, NEW m \in Markets, NEW y \in Outcomes, NEW before \in BOOLEAN,
         Cancel(m, y, before)
  PROVE  Following'
<1>1. /\ \/ UNCHANGED fate
         \/ /\ ahead[m][y] > 0
            /\ ahead' = [ahead EXCEPT ![m][y] = @ - 1]
            /\ hidden' = [hidden EXCEPT ![m] = TRUE]
            /\ UNCHANGED truth
      /\ UNCHANGED <<now, trades, row, book>>
  BY DEF Cancel, pass
<1>2. /\ ahead \in [Markets -> [Outcomes -> Nat]]
      /\ hidden \in [Markets -> BOOLEAN] /\ now \in Nat /\ now <= now
  BY DEF Base, Typed, TypeOK
<1>3. SUFFICES ASSUME NEW o \in Markets, NEW x \in Outcomes, NEW q \in Nat, NEW s \in Nat,
                      Joins(o, x, q, s)'
               PROVE  Followed(o, x, q, s)'
  BY DEF Following
<1>4. Followed(o, x, q, s)
  BY <1>1, <1>3 DEF Following, Joins, StartTs
<1>5. CASE UNCHANGED fate \/ o # m
  <2>1. ahead'[o] = ahead[o] /\ truth'[o] = truth[o] /\ hidden'[o] = hidden[o]
    BY <1>1, <1>2, <1>5 DEF fate
  <2>2. QED
    BY <1>1, <1>2, <1>4, <2>1, FollowedKept
<1>6. CASE ~UNCHANGED fate /\ o = m
  <2>1. hidden'[m] /\ truth'[m][x] = truth[m][x]
    BY <1>1, <1>2, <1>6
  <2>2. ahead'[m][x] <= ahead[m][x] /\ ahead'[m][x] \in Nat
    <3>1. ahead[m] \in [Outcomes -> Nat] /\ ahead[m][x] \in Nat
      BY <1>2
    <3>2. CASE x = y
      <4>1. ahead'[m][x] = ahead[m][x] - 1 /\ ahead[m][x] > 0
        BY <1>1, <1>2, <1>6, <3>2
      <4>2. QED
        BY <3>1, <4>1
    <3>3. CASE x # y
      <4>1. ahead'[m][x] = ahead[m][x]
        BY <1>1, <1>2, <1>6, <3>3
      <4>2. QED
        BY <3>1, <4>1
    <3>4. QED
      BY <3>2, <3>3
  <2>3. NoneThrough(m, x)' <=> NoneThrough(m, x)
    BY <1>1 DEF NoneThrough
  <2>4. /\ ahead[m][x] \in Nat /\ Passed(trades[m], x, s) \in Nat
    BY FateType, BoundaryFinite, TradesAre DEF Base
  <2>5. Before(q, Passed(trades[m], x, s)) \in Nat
    BY <2>4 DEF Before, Larger
  <2>6. ahead[m][x] <= Before(q, Passed(trades[m], x, s)) =>
           ahead'[m][x] <= Before(q, Passed(trades[m], x, s))
    BY <2>2, <2>4, <2>5
  <2>7. QED
    BY <1>1, <1>4, <1>6, <2>1, <2>3, <2>6 DEF Followed
<1>7. QED
  BY <1>5, <1>6

\* The end of the book leaves nothing before an order that no trade can meet.
LEMMA ResolveFollows ==
  ASSUME Base, Following, NEW m \in Markets, Resolve(m)
  PROVE  Following'
<1>1. /\ SecondOf(now) >= EndOf[m] /\ ahead' = [ahead EXCEPT ![m] = None]
      /\ UNCHANGED <<now, trades, row, book, truth, hidden>>
  BY DEF Resolve, pass
<1>2. ahead \in [Markets -> [Outcomes -> Nat]] /\ now \in Nat /\ now <= now
  BY DEF Base, Typed, TypeOK
<1>3. SUFFICES ASSUME NEW o \in Markets, NEW x \in Outcomes, NEW q \in Nat, NEW s \in Nat,
                      Joins(o, x, q, s)'
               PROVE  Followed(o, x, q, s)'
  BY DEF Following
<1>4. Followed(o, x, q, s)
  BY <1>1, <1>3 DEF Following, Joins, StartTs
<1>5. CASE o # m
  <2>1. ahead'[o] = ahead[o] /\ truth'[o] = truth[o] /\ hidden'[o] = hidden[o]
    BY <1>1, <1>2, <1>5
  <2>2. QED
    BY <1>1, <1>2, <1>4, <2>1, FollowedKept
<1>6. CASE o = m
  <2>1. ahead'[m][x] = 0
    BY <1>1, <1>2, QueueIsFunction
  <2>2. NoneThrough(m, x)' <=> NoneThrough(m, x)
    BY <1>1 DEF NoneThrough
  <2>3. Passed(trades[m], x, s) \in Nat
    BY BoundaryFinite, TradesAre DEF Base
  <2>4. 0 <= Before(q, Passed(trades[m], x, s))
    BY <2>3 DEF Before, Larger
  <2>5. QED
    BY <1>1, <1>4, <1>6, <2>1, <2>2, <2>4 DEF Followed
<1>7. QED
  BY <1>5, <1>6

\* A trade that meets the bids at the buy price moves the order as it moves the
\* trades counted, unless it is too early to be counted: then it is hidden.
LEMMA BoundaryTrade ==
  ASSUME Base, NEW m \in Markets, NEW x \in Outcomes, NEW q \in Nat, NEW s \in Nat,
         NEW t \in TradeType,
         Hits(t) = x, Level(t) = BuyPrice, t.at = SecondOf(now), t.at < EndOf[m],
         Joins(m, x, q, s), Followed(m, x, q, s), NoneThrough(m, x), now' = now,
         trades'[m] = Append(trades[m], t),
         ahead'[m][x] = IF ahead[m][x] > 0 THEN ahead[m][x] - 1 ELSE ahead[m][x],
         truth'[m][x] = IF ahead[m][x] = 0 /\ truth[m][x] < OrderSize
                        THEN truth[m][x] + 1 ELSE truth[m][x],
         hidden'[m] <=> (hidden[m] \/ m \in book.of \/ t.at < StartTs(m))
  PROVE  Followed(m, x, q, s)'
<1> DEFINE b == Passed(trades[m], x, s)
           c == Passed(trades'[m], x, s)
<1>1. trades[m] \in Seq(TradeType) /\ b \in Nat
  BY TradesAre, BoundaryFinite DEF Base
<1>2. AtBoundary(t, x)
  BY Meets
<1>3. c = IF t.at >= s THEN b + 1 ELSE b
  BY <1>1, <1>2, PassedMore
<1>4. /\ ahead[m][x] \in Nat /\ truth[m][x] \in 0 .. OrderSize
      /\ ~(SecondOf(now) >= EndOf[m])
  BY FateType
<1>5. /\ ahead[m][x] <= Before(q, b) /\ truth[m][x] >= Got(q, b)
      /\ ~hidden[m] => truth[m][x] = Got(q, b) /\ ahead[m][x] = Before(q, b)
  BY <1>4 DEF Followed
<1>6. \/ t.at >= s /\ c = b + 1
      \/ hidden'[m] /\ c = b
  <2>1. CASE t.at >= s
    BY <1>3, <2>1
  <2>2. CASE ~(t.at >= s)
    <3>1. m \in book.of \/ s = StartTs(m)
      BY DEF Joins
    <3>2. t.at < s
      BY <2>2 DEF TradeType
    <3>3. QED
      BY <1>3, <2>2, <3>1, <3>2
  <2>3. QED
    BY <2>1, <2>2
<1> HIDE DEF b, c
<1>7. /\ ahead'[m][x] <= Before(q, c) /\ truth'[m][x] >= Got(q, c)
      /\ ~hidden'[m] => truth'[m][x] = Got(q, c) /\ ahead'[m][x] = Before(q, c)
  <2> DEFINE a == ahead[m][x]
             g == truth[m][x]
             a2 == IF a > 0 THEN a - 1 ELSE a
             g2 == IF a = 0 /\ g < OrderSize THEN g + 1 ELSE g
  <2>1. a \in Nat /\ g \in 0 .. OrderSize /\ a <= Before(q, b) /\ g >= Got(q, b)
    BY <1>4, <1>5
  <2>2. /\ ahead'[m][x] = a2 /\ truth'[m][x] = g2
        /\ ~hidden'[m] => ~hidden[m]
    OBVIOUS
  <2>3. ~hidden'[m] => (a = Before(q, b) /\ g = Got(q, b))
    BY <1>5, <2>2
  <2> HIDE DEF a, g
  <2>4. /\ a2 <= Before(q, b + 1) /\ g2 >= Got(q, b + 1)
        /\ a2 <= Before(q, b) /\ g2 >= Got(q, b)
        /\ a = Before(q, b) /\ g = Got(q, b) =>
              a2 = Before(q, b + 1) /\ g2 = Got(q, b + 1)
    BY ONLY <1>1, <2>1, q \in Nat, OneMore
  <2> HIDE DEF a2, g2
  <2>5. CASE c = b + 1
    BY <2>2, <2>3, <2>4, <2>5
  <2>6. CASE hidden'[m] /\ c = b
    BY <2>2, <2>4, <2>6
  <2>7. QED
    BY <1>6, <2>5, <2>6
<1>8. QED
  BY <1>7 DEF Followed, c

\* A trade that does not meet bids of the outcome at the buy price or below moves
\* neither the order nor the trades counted.
LEMMA OtherTrade ==
  ASSUME Base, NEW m \in Markets, NEW x \in Outcomes, NEW q \in Nat, NEW s \in Nat,
         NEW t \in TradeType,
         ~(Hits(t) = x /\ Level(t) = BuyPrice),
         Followed(m, x, q, s), NoneThrough(m, x), now' = now,
         trades'[m] = Append(trades[m], t),
         ahead'[m][x] = ahead[m][x], truth'[m][x] = truth[m][x],
         hidden[m] => hidden'[m]
  PROVE  Followed(m, x, q, s)'
<1>1. trades[m] \in Seq(TradeType)
  BY TradesAre DEF Base
<1>2. ~AtBoundary(t, x)
  BY Meets
<1>3. Passed(trades'[m], x, s) = Passed(trades[m], x, s)
  BY <1>1, <1>2, PassedMore
<1>4. QED
  BY <1>3 DEF Followed

\* A trade, whatever it meets, leaves every order followed.
LEMMA TradeFollows ==
  ASSUME Base, Following, NEW m \in Markets, NEW k \in Kinds, Trade(m, k)
  PROVE  Following'
<1> DEFINE t == [asset |-> k.asset, side |-> k.side, price |-> k.price, at |-> SecondOf(now)]
           y == Hits(t)
<1>1. now \in Nat /\ SecondOf(now) \in Nat
  BY Seconds DEF Base, Typed, TypeOK
<1>2. t \in TradeType
  BY <1>1, PaperAssumption DEF TradeType
<1>3. y \in Outcomes /\ Level(t) \in Int /\ t.at = SecondOf(now)
  BY <1>2, Met
<1>4. /\ t.at < EndOf[m]
      /\ trades' = [trades EXCEPT ![m] = Append(@, t)]
      /\ UNCHANGED <<now, row, book>>
  BY DEF Trade, pass
<1>5. \/ (~Joined(m) \/ Level(t) > BuyPrice) /\ UNCHANGED fate
      \/ /\ ~(Level(t) > BuyPrice)
         /\ ahead' = [ahead EXCEPT ![m][y] = IF @ > 0 THEN @ - 1 ELSE @]
         /\ truth' = [truth EXCEPT ![m][y] =
                         IF ahead[m][y] = 0 /\ @ < OrderSize THEN @ + 1 ELSE @]
         /\ hidden' = [hidden EXCEPT ![m] = @ \/ m \in book.of \/ t.at < StartTs(m)]
  BY DEF Trade
<1> HIDE DEF t, y
<1>6. /\ trades \in [Markets -> Seq(TradeType)]
      /\ truth \in [Markets -> [Outcomes -> 0 .. OrderSize]]
      /\ ahead \in [Markets -> [Outcomes -> Nat]]
      /\ hidden \in [Markets -> BOOLEAN]
  BY DEF Base, Typed, TypeOK
<1>7. SUFFICES ASSUME NEW o \in Markets, NEW x \in Outcomes, NEW q \in Nat, NEW s \in Nat,
                      Joins(o, x, q, s)'
               PROVE  Followed(o, x, q, s)'
  BY DEF Following
<1>8. Joins(o, x, q, s) /\ Joined(o) /\ Followed(o, x, q, s)
  BY <1>4, <1>7 DEF Following, Joins, Joined, StartTs
<1>9. CASE o # m
  <2>1. /\ trades'[o] = trades[o] /\ ahead'[o] = ahead[o] /\ truth'[o] = truth[o]
        /\ hidden'[o] = hidden[o]
    BY <1>4, <1>5, <1>6, <1>9 DEF fate
  <2>2. now' \in Nat /\ now <= now'
    BY <1>1, <1>4
  <2>3. QED
    BY <1>8, <2>1, <2>2, FollowedKept
<1>10. CASE o = m
  <2>1. trades'[m] = Append(trades[m], t) /\ trades[m] \in Seq(TradeType)
    BY <1>4, <1>6
  <2>2. CASE ~NoneThrough(m, x)'
    BY <1>10, <2>2 DEF Followed
  <2>3. CASE NoneThrough(m, x)'
    <3>1. /\ \A n \in DOMAIN trades[m] :
                n \in DOMAIN trades'[m] /\ trades'[m][n] = trades[m][n]
          /\ \E n \in DOMAIN trades'[m] : trades'[m][n] = t
      <4>1. Len(trades[m]) + 1 \in DOMAIN Append(trades[m], t)
            /\ Append(trades[m], t)[Len(trades[m]) + 1] = t
        BY <2>1
      <4>2. QED
        BY <2>1, <4>1
    <3>2. NoneThrough(m, x)
      BY <2>3, <3>1 DEF NoneThrough
    <3>3. y = x => Level(t) >= BuyPrice
      BY <2>3, <3>1 DEF NoneThrough, y
    <3>4. BuyPrice \in Int
      BY PaperAssumption
    <3>5. CASE UNCHANGED fate /\ Level(t) > BuyPrice
      <4>1. ahead'[m][x] = ahead[m][x] /\ truth'[m][x] = truth[m][x] /\ hidden'[m] = hidden[m]
        BY <3>5 DEF fate
      <4>2. Level(t) # BuyPrice
        BY <1>3, <3>4, <3>5
      <4>3. QED
        BY <1>2, <1>4, <1>8, <1>10, <2>1, <3>2, <4>1, <4>2, OtherTrade
    <3>6. CASE ~(UNCHANGED fate /\ Level(t) > BuyPrice)
      <4>1. /\ ~(Level(t) > BuyPrice)
            /\ ahead' = [ahead EXCEPT ![m][y] = IF @ > 0 THEN @ - 1 ELSE @]
            /\ truth' = [truth EXCEPT ![m][y] =
                            IF ahead[m][y] = 0 /\ @ < OrderSize THEN @ + 1 ELSE @]
            /\ hidden' = [hidden EXCEPT ![m] = @ \/ m \in book.of \/ t.at < StartTs(m)]
        BY <1>5, <1>8, <1>10, <3>6
      <4>2. hidden'[m] <=> (hidden[m] \/ m \in book.of \/ t.at < StartTs(m))
        BY <1>6, <4>1
      <4>3. CASE x # y
        <5>1. ahead'[m][x] = ahead[m][x] /\ truth'[m][x] = truth[m][x]
          BY <1>6, <4>1, <4>3
        <5>2. QED
          BY <1>2, <1>4, <1>8, <1>10, <2>1, <3>2, <4>2, <4>3, <5>1, OtherTrade DEF y
      <4>4. CASE x = y
        <5>1. Hits(t) = x /\ Level(t) = BuyPrice
          BY <1>3, <3>3, <3>4, <4>1, <4>4 DEF y
        <5>2. /\ ahead'[m][x] = IF ahead[m][x] > 0 THEN ahead[m][x] - 1 ELSE ahead[m][x]
              /\ truth'[m][x] = IF ahead[m][x] = 0 /\ truth[m][x] < OrderSize
                                THEN truth[m][x] + 1 ELSE truth[m][x]
          BY <1>6, <4>1, <4>4
        <5>3. QED
          BY <1>2, <1>3, <1>4, <1>8, <1>10, <2>1, <3>2, <4>2, <5>1, <5>2, BoundaryTrade
      <4>5. QED
        BY <4>3, <4>4
    <3>7. QED
      BY <3>5, <3>6
  <2>4. QED
    BY <2>2, <2>3
<1>11. QED
  BY <1>9, <1>10

\* Orders stay followed by every step.
LEMMA FollowingStep == ASSUME Base, Following, [Next]_vars PROVE Following'
<1>1. ASSUME NEW m \in Markets, NEW k \in Kinds, Trade(m, k) PROVE Following'
  BY <1>1, TradeFollows
<1>2. ASSUME NEW m \in Markets, NEW x \in Outcomes, NEW before \in BOOLEAN,
             Cancel(m, x, before)
      PROVE  Following'
  BY <1>2, CancelFollows
<1>3. ASSUME NEW m \in Markets,
             \/ \E x \in Outcomes : Bid(m, x)
             \/ Emit(m) \/ CaptureFails(m) \/ SetResult(m) \/ NotSettled(m)
      PROVE  Following'
  BY <1>3, OtherFollows
<1>4. ASSUME NEW m \in Markets, Resolve(m) \/ ReadBooks(m) \/ SetSnapshot(m)
      PROVE  Following'
  BY <1>4, ResolveFollows, ReadBooksFollows, SetSnapshotFollows
<1>5. ASSUME \/ UNCHANGED vars
             \/ Tick \/ Start \/ Drain \/ Retry \/ BeginSettle \/ Stop \/ Crash
      PROVE  Following'
  BY <1>5, RestFollows
<1>6. QED
  BY <1>1, <1>2, <1>3, <1>4, <1>5 DEF Next

(***************************************************************************)
(* What a settled row says.                                                *)
(***************************************************************************)

\* After the market's end nothing moves its order: trading is over, and books are
\* read for a row that waits for a snapshot only.
LEMMA SettledStays ==
  ASSUME Base, [Next]_vars, NEW m \in Markets, row[m].status = "settled"
  PROVE  row'[m] = row[m] /\ trades'[m] = trades[m] /\ truth'[m] = truth[m]
         /\ hidden'[m] = hidden[m]
<1>1. EndOf[m] <= SecondOf(now) /\ EndOf[m] \in Nat /\ SecondOf(now) \in Nat
  <2>1. EndOf[m] <= SecondOf(now)
    BY DEF Base, Passing, WithStatus
  <2>2. now \in Nat
    BY DEF Base, Typed, TypeOK
  <2>3. QED
    BY <2>1, <2>2, PaperAssumption, Seconds
<1>2. row'[m] = row[m]
  BY MeasuredStep DEF Measured
<1>3. ~(SecondOf(now) < EndOf[m])
  BY <1>1
<1>4. /\ trades \in [Markets -> Seq(TradeType)]
      /\ truth \in [Markets -> [Outcomes -> 0 .. OrderSize]]
      /\ hidden \in [Markets -> BOOLEAN]
  BY DEF Base, Typed, TypeOK
<1>5. CASE UNCHANGED <<trades, truth, hidden>>
  BY <1>2, <1>5
<1>6. ASSUME NEW o \in Markets, NEW k \in Kinds, Trade(o, k)
      PROVE  trades'[m] = trades[m] /\ truth'[m] = truth[m] /\ hidden'[m] = hidden[m]
  <2>1. o # m
    BY <1>3, <1>6 DEF Trade
  <2>2. trades'[m] = trades[m]
    BY <1>4, <1>6, <2>1 DEF Trade
  <2>3. CASE UNCHANGED fate
    BY <2>2, <2>3 DEF fate
  <2>4. CASE ~UNCHANGED fate
    <3>1. truth'[m] = truth[m] /\ hidden'[m] = hidden[m]
      BY <1>4, <1>6, <2>1, <2>4 DEF Trade
    <3>2. QED
      BY <2>2, <3>1
  <2>5. QED
    BY <2>3, <2>4
<1>7. ASSUME NEW o \in Markets, NEW x \in Outcomes, NEW before \in BOOLEAN,
             Cancel(o, x, before)
      PROVE  trades'[m] = trades[m] /\ truth'[m] = truth[m] /\ hidden'[m] = hidden[m]
  <2>1. o # m
    BY <1>3, <1>7 DEF Cancel
  <2>2. QED
    BY <1>4, <1>7, <2>1 DEF Cancel, fate
<1>8. ASSUME NEW o \in Markets, ReadBooks(o)
      PROVE  trades'[m] = trades[m] /\ truth'[m] = truth[m] /\ hidden'[m] = hidden[m]
  <2>1. o # m
    BY <1>8 DEF ReadBooks, Base, Passing, WithStatus
  <2>2. QED
    BY <1>4, <1>8, <2>1 DEF ReadBooks, venue
<1>9. ASSUME \/ UNCHANGED vars
             \/ Tick \/ Start \/ Drain \/ Retry \/ BeginSettle \/ Stop \/ Crash
      PROVE  UNCHANGED <<trades, truth, hidden>>
  BY <1>9 DEF vars, venue, fate, Tick, Start, Drain, Retry, BeginSettle, Stop, Crash, Down
<1>10. ASSUME NEW o \in Markets,
              \/ \E x \in Outcomes : Bid(o, x)
              \/ Resolve(o) \/ Emit(o) \/ SetSnapshot(o) \/ CaptureFails(o)
              \/ SetResult(o) \/ NotSettled(o)
       PROVE  UNCHANGED <<trades, truth, hidden>>
  BY <1>10 DEF Bid, Resolve, Emit, SetSnapshot, CaptureFails, SetResult, NotSettled,
     venue, fate
<1>11. QED
  BY <1>2, <1>5, <1>6, <1>7, <1>8, <1>9, <1>10 DEF Next

\* Where nothing traded through the price, fifo_fill says what the order got as far
\* as the trades counted go: every trade of a market that is over is among them.
LEMMA FillIsGot ==
  ASSUME Base, NEW m \in Markets, NEW x \in Outcomes,
         EndOf[m] <= passTs, NoneThrough(m, x)
  PROVE  FifoFill(m, x, Counted(m, passTs))
            = Got(row[m].queue[x], Passed(trades[m], x, StartTs(m)))
<1> DEFINE ns == Counted(m, passTs)
<1>1. EndOf[m] \in Nat /\ passTs \in Nat
  BY PaperAssumption DEF Base, Typed
<1>2. ASSUME NEW n \in DOMAIN trades[m]
      PROVE  trades[m][n].at <= passTs /\ ~Through(trades[m][n], x)
  <2>1. trades[m][n] \in TradeType /\ trades[m][n].at < EndOf[m]
    BY TradesAre DEF Base, Dated
  <2>2. trades[m][n].at \in Nat
    BY <2>1 DEF TradeType
  <2>3. trades[m][n].at <= passTs
    BY <1>1, <2>1, <2>2
  <2>4. Hits(trades[m][n]) = x => Level(trades[m][n]) >= BuyPrice
    BY DEF NoneThrough
  <2>5. Level(trades[m][n]) \in Int /\ BuyPrice \in Int
    BY <2>1, Met, PaperAssumption
  <2>6. ~(Hits(trades[m][n]) = x /\ Level(trades[m][n]) < BuyPrice)
    BY <2>4, <2>5
  <2>7. QED
    BY <2>1, <2>3, <2>6, Meets
<1>3. {n \in ns : AtBoundary(trades[m][n], x)} = Boundary(trades[m], x, StartTs(m))
  BY <1>2 DEF Counted, Boundary
<1>4. Past(m, x, ns) = Passed(trades[m], x, StartTs(m)) - row[m].queue[x]
  BY <1>3 DEF Past, Passed
<1>5. ~\E n \in ns : Through(trades[m][n], x)
  BY <1>2 DEF Counted
<1>6. QED
  BY <1>4, <1>5 DEF FifoFill, Got

\* A row that is being settled gets what the order is known to have got, and a
\* settled one keeps it.
LEMMA LowerBoundStep ==
  ASSUME Base, Following, FillIsLowerBound, [Next]_vars
  PROVE  FillIsLowerBound'
<1>1. SUFFICES ASSUME NEW m \in Markets, row'[m].status = "settled", NEW x \in Outcomes,
                      NoneThrough(m, x)'
               PROVE  /\ row'[m].fill[x] <= truth'[m][x]
                      /\ ~hidden'[m] => row'[m].fill[x] = truth'[m][x]
  BY DEF FillIsLowerBound, WithStatus
<1>2. CASE row[m].status = "settled"
  <2>1. row'[m] = row[m] /\ trades'[m] = trades[m] /\ truth'[m] = truth[m]
        /\ hidden'[m] = hidden[m]
    BY <1>2, SettledStays
  <2>2. NoneThrough(m, x)
    BY <1>1, <2>1 DEF NoneThrough
  <2>3. /\ row[m].fill[x] <= truth[m][x]
        /\ ~hidden[m] => row[m].fill[x] = truth[m][x]
    BY <1>2, <2>2 DEF FillIsLowerBound, WithStatus
  <2>4. QED
    BY <2>1, <2>3
<1>3. CASE row[m].status # "settled"
  <2>1. row \in [Markets -> RowType]
    BY DEF Base, Typed, TypeOK, RowType
  <2>2. SetResult(m)
    <3>1. ~RowsKept(row')
      BY <1>1, <1>3, RowsKeptMeans
    <3>2. ASSUME NEW o \in Markets, SetSnapshot(o) PROVE FALSE
      BY <1>1, <1>3, <2>1, <3>2 DEF SetSnapshot
    <3>3. PICK o \in Markets : SetResult(o)
      BY <3>1, <3>2, RowStep
    <3>4. o = m
      BY <1>1, <1>3, <2>1, <3>3 DEF SetResult
    <3>5. QED
      BY <3>3, <3>4
  <2>3. /\ pc = "settling" /\ m \in todo /\ UNCHANGED <<trades, truth, hidden>>
        /\ row'[m].fill = Fills(m, Counted(m, passTs))
    BY <2>1, <2>2 DEF SetResult, RowType, venue, fate
  <2>4. row[m].status = "monitoring" /\ EndOf[m] <= passTs
    BY <2>3 DEF Base, Passing
  <2>5. NoneThrough(m, x)
    BY <1>1, <2>3 DEF NoneThrough
  <2> DEFINE q == row[m].queue[x]
             s == StartTs(m)
             b == Passed(trades[m], x, s)
  <2>6. q \in Nat /\ s \in Nat
    <3>1. row[m].queue \in Queues /\ row[m].snapshot \in Nat
      BY PaperAssumption DEF Base, Typed, TypeOK
    <3>2. s \in Nat
      BY <3>1, Seconds DEF StartTs
    <3>3. QED
      BY <3>1, <3>2, QueueIsFunction
  <2>7. Followed(m, x, q, s)
    <3>1. Joins(m, x, q, s)
      BY <2>4 DEF Joins
    <3>2. QED
      BY <2>6, <3>1 DEF Following
  <2>8. row'[m].fill[x] = Got(q, b)
    BY <2>3, <2>4, <2>5, FillIsGot DEF Fills
  <2>9. /\ truth[m][x] >= Got(q, b)
        /\ ~hidden[m] => truth[m][x] = Got(q, b)
    BY <2>5, <2>7 DEF Followed
  <2>10. Got(q, b) \in Int /\ truth[m][x] \in Int
    <3>1. b \in Nat /\ OrderSize \in Nat /\ truth[m][x] \in Int
      BY BoundaryFinite, TradesAre, FateType, PaperAssumption DEF Base
    <3>2. QED
      BY <2>6, <3>1 DEF Got, Smaller, Larger
  <2>11. truth'[m][x] = truth[m][x] /\ hidden'[m] = hidden[m]
    BY <2>3
  <2> HIDE DEF q, b, s
  <2>12. QED
    BY <2>8, <2>9, <2>10, <2>11
<1>4. QED
  BY <1>2, <1>3

\* The order, had it been placed when the books were read, is at any time at least
\* as far in the queue as the trades counted from the snapshot's next whole second
\* (_trades) say, and just as far while nothing hidden moved it.
THEOREM FollowingInvariant == Spec => [](Base /\ Following)
<1>1. Init => Following
  BY DEF Init, Following, Joins, NoRow, NoBook
<1>2. Base /\ Following /\ [Next]_vars => Following'
  BY FollowingStep
<1>3. QED
  BY <1>1, <1>2, BaseInvariant, PTL DEF Spec

\* Exact-price fills are a conservative lower bound, and exact where nothing hidden
\* moved the order (README.md:241-242): what calculate_result writes down is never
\* more than an order would have got that joined when the books were read.
THEOREM FillsAreLowerBounds == Spec => []FillIsLowerBound
<1>1. Init => FillIsLowerBound
  BY DEF Init, FillIsLowerBound, WithStatus, NoRow
<1>2. Base /\ Following /\ FillIsLowerBound /\ [Next]_vars => FillIsLowerBound'
  BY LowerBoundStep
<1>3. QED
  BY <1>1, <1>2, FollowingInvariant, PTL DEF Spec
=============================================================================
