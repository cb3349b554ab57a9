-------------------------- MODULE ExitLadderProofs --------------------------
(***************************************************************************)
(* Proofs about ExitLadder, for every entry, every plan of rungs, every    *)
(* minimum size and every number of exits.                                 *)
(***************************************************************************)
EXTENDS ExitLadder, MinimalElements

(***************************************************************************)
(* The parts of the invariant, as operators of the state they speak of.    *)
(***************************************************************************)

\* What an order sold and may yet sell, and what its row says of that.
Out(o, n) == IF o[n].state = "over" THEN o[n].matched ELSE o[n].size
Claimed(o, w, n) == IF w[n].status = "active" THEN o[n].size ELSE w[n].matched

\* Order by order: the claims of a rung's rows; the exposure of its orders that
\* have no row, and of all orders, but for order z.
Claims(o, w, r) ==
    [n \in Ids |-> IF o[n].rung = r /\ w[n].status # "absent"
                   THEN Claimed(o, w, n) ELSE 0]
Strays(o, w, z, r) ==
    [n \in Ids |-> IF o[n].rung = r /\ w[n].status = "absent" /\ n # z
                   THEN Out(o, n) ELSE 0]
Offers(o, z) == [n \in Ids |-> IF n # z THEN Out(o, n) ELSE 0]
Total(f) == SumFunctionOnSet(f, Ids)

\* Orders and rows have their types.
Books(o, w) ==
    /\ o \in [Ids -> [rung : 0 .. Len(Share), size : Nat, matched : Nat,
                      state : {"none", "late", "resting", "over"}]]
    /\ w \in [Ids -> [status : {"absent", "active", "over"}, matched : Nat]]
    /\ \A n \in Ids : /\ w[n].matched <= o[n].size
                      /\ o[n].matched <= o[n].size

\* Every order is of some rung; a row that is over says no less than its order
\* sold and may yet sell.
Chain(o, w) ==
    \A n \in Ids :
        /\ o[n].state = "none" => o[n] = NoOrder /\ w[n].status = "absent"
        /\ o[n].state # "none" => o[n].rung \in Rungs
        /\ w[n].status = "over" => w[n].matched >= Out(o, n)

\* A pass that goes on has a rung to go on with, and enough for it.
Going(p, st) ==
    /\ p \in [todo : SUBSET Rungs, lacking : [Rungs -> Int], available : Int]
    /\ st # "idle" => /\ p.todo # {} /\ p.available >= MinSize
                      /\ \A r \in p.todo : p.lacking[r] >= MinSize

Shape == TypeOK /\ Chain(order, row) /\ Going(pass, step)

\* What the rows say of a rung, claimed and failed; and that this, with what
\* the pass still means to place, is within the rung's share of what the rows
\* say filled.
Told(o, w, f, r) == f[r] + Total(Claims(o, w, r))
Covered(o, w, f, p, l) ==
    \A r \in Rungs : /\ Told(o, w, f, r) <= l * Share[r]
                     /\ r \in p.todo => Told(o, w, f, r) + p.lacking[r] <= l * Share[r]

\* Order z has no row, and is the one the pass submitted last.
Newest(o, w, z, r, s) ==
    /\ z \in Ids /\ w[z].status = "absent" /\ o[z].state # "none"
    /\ o[z].rung = r /\ o[z].size = s

\* What was written off or taken for another order, rung by rung; and what the
\* exits are held against: what settled, and what was counted though sold.
Doubts == [r \in Rungs |-> failed[r] + mistaken[r]]
Cap == settled * Parts + ahead

\* Orders without a row, but for z, are in doubt; unless there are such, the
\* pass has available what the cap leaves.
Accounted(o, w, k, z, a, c) ==
    /\ \A r \in Rungs : Total(Strays(o, w, z, r)) <= k[r]
    /\ (\A r \in Rungs : k[r] = 0) => Total(Offers(o, z)) + a <= c

\* There is at most one order that the pass is still to learn of.
Unclear(z) ==
    /\ z # 0 => step = "reconcile" /\ Newest(order, row, z, Rung, Size)
    /\ Accounted(order, row, Doubts, z, pass.available, Cap)
Ledger ==
    /\ Covered(order, row, failed, pass, learned)
    /\ \E z \in 0 .. MaxExits : Unclear(z)

(***************************************************************************)
(* Constants, and the sums over the orders.                                *)
(***************************************************************************)

\* A rung has a share, and there are so many exits and no more.
LEMMA Sizes ==
  /\ IsFiniteSet(Ids) /\ Ids \subseteq Nat
  /\ Rungs \subseteq Nat /\ Rungs \subseteq 0 .. Len(Share) /\ 0 \notin Rungs
  /\ Len(Share) \in Nat
  /\ \A r \in Rungs : Share[r] \in Nat
  /\ MinSize \in Nat /\ MinSize > 0 /\ Parts \in Nat /\ MaxExits \in Nat
<1>1. IsFiniteSet(Ids)
  BY LadderAssumption, FS_Interval DEF Ids
<1>2. QED
  BY <1>1, LadderAssumption DEF Ids, Rungs

\* What is counted of an order is a natural number, and so are the totals.
LEMMA Counted ==
  ASSUME NEW o, NEW w, Books(o, w), NEW z, NEW r
  PROVE  /\ \A n \in Ids : /\ Out(o, n) \in Nat /\ Claimed(o, w, n) \in Nat
                           /\ Out(o, n) <= o[n].size
                           /\ Claims(o, w, r)[n] \in Nat
                           /\ Strays(o, w, z, r)[n] \in Nat
                           /\ Offers(o, z)[n] \in Nat
         /\ Total(Claims(o, w, r)) \in Nat
         /\ Total(Strays(o, w, z, r)) \in Nat
         /\ Total(Offers(o, z)) \in Nat
<1>1. \A n \in Ids : /\ o[n].size \in Nat /\ o[n].matched \in Nat
                     /\ w[n].matched \in Nat /\ o[n].matched <= o[n].size
  BY DEF Books
<1>2. \A n \in Ids : /\ Out(o, n) \in Nat /\ Claimed(o, w, n) \in Nat
                     /\ Out(o, n) <= o[n].size
  BY <1>1 DEF Out, Claimed
<1>3. \A n \in Ids : /\ Claims(o, w, r)[n] \in Nat
                     /\ Strays(o, w, z, r)[n] \in Nat
                     /\ Offers(o, z)[n] \in Nat
  BY <1>2 DEF Claims, Strays, Offers
<1>4. ASSUME NEW f, \A n \in Ids : f[n] \in Nat PROVE Total(f) \in Nat
  <2>1. \A n \in Ids : f[n] \in Int /\ f[n] >= 0
    BY <1>4
  <2>2. Total(f) \in Int /\ Total(f) >= 0
    BY <2>1, Sizes, SumType DEF Total
  <2>3. QED
    BY <2>2
<1>5. QED
  BY <1>2, <1>3, <1>4

\* Totals are as their parts, and change by what one part changes.
LEMMA Totals ==
  ASSUME NEW f, NEW g, \A n \in Ids : f[n] \in Nat /\ g[n] \in Nat
  PROVE  /\ Total(f) \in Int /\ Total(g) \in Int
         /\ (\A n \in Ids : g[n] <= f[n]) => Total(g) <= Total(f)
         /\ (\A n \in Ids : g[n] = f[n]) => Total(g) = Total(f)
         /\ \A e \in Ids : (\A n \in Ids \ {e} : g[n] = f[n])
               => Total(g) = Total(f) - f[e] + g[e]
<1>1. \A n \in Ids : f[n] \in Int /\ g[n] \in Int /\ f[n] >= 0
  OBVIOUS
<1>2. Total(f) \in Int /\ Total(g) \in Int
  BY <1>1, Sizes, SumType DEF Total
<1>3. ASSUME \A n \in Ids : g[n] <= f[n] PROVE Total(g) <= Total(f)
  BY <1>1, <1>3, Sizes, SumOrder DEF Total
<1>4. ASSUME \A n \in Ids : g[n] = f[n] PROVE Total(g) = Total(f)
  BY <1>1, <1>4, Sizes, SumSame DEF Total
<1>5. ASSUME NEW e \in Ids, \A n \in Ids \ {e} : g[n] = f[n]
      PROVE  Total(g) = Total(f) - f[e] + g[e]
  <2>1. \A x \in Ids \ {e} : f[x] = g[x]
    BY <1>5
  <2>2. \A x \in Ids : f[x] \in Int /\ g[x] \in Int
    BY <1>1
  <2>3. SumFunctionOnSet(g, Ids) = SumFunctionOnSet(f, Ids) - f[e] + g[e]
    <3>1. IsFiniteSet(Ids)
      BY Sizes
    <3> HIDE DEF Total
    <3>2. QED
      BY ONLY <2>1, <2>2, <3>1, e \in Ids, SumChanged
  <2>4. QED
    BY <2>3 DEF Total
<1>6. QED
  BY <1>2, <1>3, <1>4, <1>5

\* What the rows say of a rung is what the pass reads (exit_handled_size).
LEMMA Handled ==
  ASSUME Books(order, row), NEW r
  PROVE  HandledSize(r) = Told(order, row, failed, r)
<1> DEFINE U == {n \in OfRung(r) : row[n].status # "absent"}
           v == [n \in Ids |-> IF row[n].status = "active" THEN order[n].size
                               ELSE row[n].matched]
           w == Claims(order, row, r)
<1>1. U \in SUBSET Ids /\ IsFiniteSet(U)
  <2>1. U \in SUBSET Ids
    BY DEF OfRung
  <2>2. QED
    BY <2>1, Sizes, FS_Subset
<1>2. \A n \in Ids : w[n] \in Int /\ Claimed(order, row, n) \in Int
  BY Counted
<1>3. \A n \in Ids \ U : w[n] = 0
  BY DEF OfRung, Claims
<1>4. \A n \in U : w[n] \in Int /\ w[n] = v[n]
  BY <1>2 DEF OfRung, Claims, Claimed
<1>5. HandledSize(r) = failed[r] + SumFunctionOnSet(v, U)
  BY DEF HandledSize
<1> HIDE DEF U, v, w
<1>6. SumFunctionOnSet(w, Ids) = SumFunctionOnSet(w, U)
  BY <1>1, <1>2, <1>3, Sizes, SumWithin
<1>7. SumFunctionOnSet(w, U) = SumFunctionOnSet(v, U)
  BY <1>1, <1>4, SumSame
<1>8. QED
  BY <1>5, <1>6, <1>7 DEF Told, Total, w

(***************************************************************************)
(* Types, orders and passes.                                               *)
(***************************************************************************)

\* The rung that is up is one of the pass, and the size for it is a valid one
\* within what the rung lacks and what is available.
LEMMA Upcoming ==
  ASSUME Going(pass, step), step # "idle"
  PROVE  /\ Rung \in pass.todo /\ Rung \in Rungs
         /\ Size \in Nat /\ Size >= MinSize /\ Size > 0
         /\ Size <= pass.lacking[Rung] /\ Size <= pass.available
         /\ pass.available \in Int /\ pass.lacking \in [Rungs -> Int]
<1>1. /\ pass.todo \in SUBSET Rungs /\ pass.todo # {}
      /\ pass.lacking \in [Rungs -> Int] /\ pass.available \in Int
      /\ pass.available >= MinSize
      /\ \A r \in pass.todo : pass.lacking[r] >= MinSize
  BY DEF Going
<1>2. Rung \in pass.todo
  <2>1. pass.todo \in SUBSET Nat
    BY <1>1, Sizes
  <2>2. \E r \in pass.todo : \A q \in pass.todo : r <= q
    BY <1>1, <2>1, LeastNatural
  <2>3. QED
    BY <2>2 DEF Rung
<1>3. Rung \in Rungs /\ pass.lacking[Rung] \in Int /\ pass.lacking[Rung] >= MinSize
  BY <1>1, <1>2
<1>4. QED
  BY <1>1, <1>2, <1>3, Sizes DEF Size, Smaller

\* A pass goes on with the rungs that are left, or is over.
LEMMA Onwards ==
  ASSUME Going(pass, step), step # "idle", NEW left \in Int, GoOn(left)
  PROVE  /\ Going(pass', step')
         /\ step' \in {"idle", "submit"} /\ (step' = "idle" <=> pass' = Idle)
         /\ pass'.todo \subseteq pass.todo \ {Rung}
         /\ \A r \in pass'.todo : pass'.lacking[r] = pass.lacking[r]
         /\ left >= 0 => pass'.available <= left
         /\ pass'.available \in Int
<1> DEFINE rest == pass.todo \ {Rung}
<1>1. /\ pass \in [todo : SUBSET Rungs, lacking : [Rungs -> Int], available : Int]
      /\ \A r \in pass.todo : pass.lacking[r] >= MinSize
  BY DEF Going
<1>2. CASE rest = {} \/ left < MinSize
  <2>1. pass' = Idle /\ step' = "idle"
    BY <1>2 DEF GoOn
  <2>2. Idle \in [todo : SUBSET Rungs, lacking : [Rungs -> Int], available : Int]
    BY DEF Idle
  <2>3. Idle.todo = {} /\ Idle.available = 0
    BY DEF Idle
  <2>4. QED
    BY <2>1, <2>2, <2>3 DEF Going
<1>3. CASE ~(rest = {} \/ left < MinSize)
  <2>1. pass' = [pass EXCEPT !.todo = rest, !.available = left] /\ step' = "submit"
    BY <1>3 DEF GoOn
  <2>2. pass' \in [todo : SUBSET Rungs, lacking : [Rungs -> Int], available : Int]
    BY <1>1, <2>1
  <2>3. pass'.todo = rest /\ pass'.available = left /\ pass'.lacking = pass.lacking
    BY <1>1, <2>1
  <2>4. pass'.available >= MinSize
    BY <1>3, <2>3, Sizes
  <2>5. pass' # Idle
    BY <1>3, <2>3 DEF Idle
  <2>6. QED
    BY <1>1, <1>3, <2>1, <2>2, <2>3, <2>4, <2>5 DEF Going
<1>4. QED
  BY <1>2, <1>3

\* An order that the venue enters is new, for the size submitted, and disturbs no
\* other.
LEMMA Entering ==
  ASSUME Books(order, row), Chain(order, row), Going(pass, step), step # "idle",
         NEW n \in Ids, NEW units \in Nat, units <= Size,
         NEW state \in {"late", "resting", "over"}, state = "over" => units = Size,
         Enter(n, units, state)
  PROVE  /\ Books(order', row) /\ Chain(order', row)
         /\ order[n] = NoOrder /\ row[n].status = "absent"
         /\ order'[n].rung = Rung /\ order'[n].size = Size
         /\ order'[n].matched = units /\ order'[n].state = state
         /\ Out(order', n) = Size
         /\ \A m \in Ids : m # n => order'[m] = order[m]
         /\ \A m \in Ids : order[m].matched <= order'[m].matched
<1>1. /\ Rung \in Rungs /\ Rung \in 0 .. Len(Share) /\ Size \in Nat /\ Size > 0
  BY Upcoming, Sizes
<1>2. order[n] = NoOrder /\ row[n].status = "absent"
  BY DEF Enter, Fresh, Chain
<1>3. row[n].matched = 0 /\ order[n].matched = 0
  <2>1. row[n].matched \in Nat /\ row[n].matched <= order[n].size
    BY DEF Books
  <2>2. QED
    BY <1>2, <2>1 DEF NoOrder
<1> DEFINE took == [rung |-> Rung, size |-> Size, matched |-> units, state |-> state]
<1>4. order' = [order EXCEPT ![n] = took]
  BY DEF Enter
<1>5. /\ took.rung = Rung /\ took.size = Size
      /\ took.matched = units /\ took.state = state
      /\ took \in [rung : 0 .. Len(Share), size : Nat, matched : Nat,
                   state : {"none", "late", "resting", "over"}]
  BY <1>1
<1> HIDE DEF took
<1>6. order'[n] = took /\ \A m \in Ids : m # n => order'[m] = order[m]
  BY <1>4 DEF Books
<1>7. Out(order', n) = Size
  BY <1>5, <1>6 DEF Out
<1>8. Books(order', row)
  <2>1. order' \in [Ids -> [rung : 0 .. Len(Share), size : Nat, matched : Nat,
                            state : {"none", "late", "resting", "over"}]]
    BY <1>4, <1>5 DEF Books
  <2>2. ASSUME NEW m \in Ids
        PROVE  row[m].matched <= order'[m].size /\ order'[m].matched <= order'[m].size
    <3>1. CASE m = n
      BY <1>1, <1>3, <1>5, <1>6, <3>1
    <3>2. CASE m # n
      BY <1>6, <3>2 DEF Books
    <3>3. QED
      BY <3>1, <3>2
  <2>3. QED
    BY <2>1, <2>2 DEF Books
<1>9. Chain(order', row)
  <2>1. ASSUME NEW m \in Ids
        PROVE  /\ order'[m].state = "none"
                     => order'[m] = NoOrder /\ row[m].status = "absent"
               /\ order'[m].state # "none" => order'[m].rung \in Rungs
               /\ row[m].status = "over" => row[m].matched >= Out(order', m)
    <3>1. CASE m = n
      BY <1>1, <1>2, <1>5, <1>6, <3>1
    <3>2. CASE m # n
      BY <1>6, <3>2 DEF Chain, Out
    <3>3. QED
      BY <3>1, <3>2
  <2>2. QED
    BY <2>1 DEF Chain
<1>10. \A m \in Ids : order[m].matched <= order'[m].matched
  <2>1. ASSUME NEW m \in Ids PROVE order[m].matched <= order'[m].matched
    <3>1. order[m].matched \in Nat
      BY DEF Books
    <3>2. QED
      BY <1>3, <1>5, <1>6, <3>1
  <2>2. QED
    BY <2>1
<1>11. QED
  BY <1>2, <1>5, <1>6, <1>7, <1>8, <1>9, <1>10

\* So does an order that the venue takes at once, whatever of it is matched.
LEMMA Accepting ==
  ASSUME Books(order, row), Chain(order, row), Going(pass, step), step # "idle",
         NEW n \in Ids, NEW units \in AtOnce, Accept(n, units)
  PROVE  /\ Books(order', row) /\ Chain(order', row)
         /\ order[n] = NoOrder /\ row[n].status = "absent"
         /\ order'[n].state # "none"
         /\ order'[n].rung = Rung /\ order'[n].size = Size
         /\ Out(order', n) = Size
         /\ \A m \in Ids : m # n => order'[m] = order[m]
         /\ \A m \in Ids : order[m].matched <= order'[m].matched
<1>1. Size \in Nat /\ Size > 0
  BY Upcoming
<1>2. units \in Nat /\ units <= Size
  BY <1>1 DEF AtOnce
<1> DEFINE state == IF units = Size THEN "over" ELSE "resting"
<1>3. Enter(n, units, state)
  BY DEF Accept
<1>4. state \in {"late", "resting", "over"} /\ (state = "over" => units = Size)
  OBVIOUS
<1> HIDE DEF state
<1>5. order'[n].state = state
  BY <1>2, <1>3, <1>4, Entering
<1>6. QED
  BY <1>2, <1>3, <1>4, <1>5, Entering

\* The rows with one written afresh (Write).
Written(w, n, matched) ==
    [w EXCEPT ![n] = [status |-> IF matched = 0 THEN "active" ELSE "over",
                      matched |-> matched]]

\* A row can be written for an order: as active, or as sold in full.
LEMMA Writing ==
  ASSUME NEW o, NEW w, Books(o, w), Chain(o, w),
         NEW n \in Ids, NEW matched \in Nat, o[n].state # "none",
         matched = 0 \/ matched = o[n].size
  PROVE  LET v == Written(w, n, matched)
         IN /\ Books(o, v) /\ Chain(o, v)
            /\ v[n].status = (IF matched = 0 THEN "active" ELSE "over")
            /\ v[n].matched = matched
            /\ \A m \in Ids : m # n => v[m] = w[m]
<1> DEFINE v == Written(w, n, matched)
           new == [status |-> IF matched = 0 THEN "active" ELSE "over",
                   matched |-> matched]
<1>1. /\ new \in [status : {"absent", "active", "over"}, matched : Nat]
      /\ new.status = (IF matched = 0 THEN "active" ELSE "over")
      /\ new.matched = matched
  OBVIOUS
<1>2. v = [w EXCEPT ![n] = new]
  BY DEF Written
<1> HIDE DEF v, new
<1>3. v[n] = new /\ \A m \in Ids : m # n => v[m] = w[m]
  BY <1>2 DEF Books
<1>4. /\ o[n].size \in Nat /\ o[n].matched \in Nat /\ o[n].matched <= o[n].size
      /\ matched <= o[n].size /\ Out(o, n) <= o[n].size
  BY DEF Books, Out
<1>5. Books(o, v)
  <2>1. v \in [Ids -> [status : {"absent", "active", "over"}, matched : Nat]]
    BY <1>1, <1>2 DEF Books
  <2>2. ASSUME NEW m \in Ids
        PROVE  v[m].matched <= o[m].size /\ o[m].matched <= o[m].size
    <3>1. CASE m = n
      BY <1>1, <1>3, <1>4, <3>1 DEF Books
    <3>2. CASE m # n
      BY <1>3, <3>2 DEF Books
    <3>3. QED
      BY <3>1, <3>2
  <2>3. QED
    BY <2>1, <2>2 DEF Books
<1>6. Chain(o, v)
  <2>1. ASSUME NEW k \in Ids
        PROVE  /\ o[k].state = "none" => o[k] = NoOrder /\ v[k].status = "absent"
               /\ v[k].status = "over" => v[k].matched >= Out(o, k)
    <3>1. CASE k = n
      BY <1>1, <1>3, <1>4, <3>1 DEF Chain
    <3>2. CASE k # n
      BY <1>3, <3>2 DEF Chain
    <3>3. QED
      BY <3>1, <3>2
  <2>2. QED
    BY <2>1 DEF Chain
<1>7. QED
  BY <1>1, <1>3, <1>5, <1>6 DEF v

\* The entry's own state, the course of a pass, and what is noted of it.
Entry(f, s, l, h) ==
    /\ f \in 0 .. Lots /\ s \in 0 .. f
    /\ l \in 0 .. f /\ h \in BOOLEAN
Flow(f, st, p) ==
    /\ f \in [Rungs -> Nat] /\ st \in {"idle", "submit", "reconcile"}
    /\ st = "idle" <=> p = Idle
Noted(m, k, a) == m \in BOOLEAN /\ k \in [Rungs -> Nat] /\ a \in Nat

\* The shape in its parts.
LEMMA ShapeParts ==
  /\ Shape <=> /\ Entry(filled, settled, learned, heard)
               /\ Books(order, row) /\ Chain(order, row)
               /\ Flow(failed, step, pass) /\ Going(pass, step)
               /\ paid \in 0 .. Sold /\ Noted(missed, mistaken, ahead)
  /\ Shape' <=> /\ Entry(filled', settled', learned', heard')
                /\ Books(order', row') /\ Chain(order', row')
                /\ Flow(failed', step', pass') /\ Going(pass', step')
                /\ paid' \in 0 .. Sold' /\ Noted(missed', mistaken', ahead')
BY DEF Shape, TypeOK, Entry, Books, Flow, Noted

\* What is sold is a natural number.
LEMMA SoldIsNumber ==
  ASSUME Books(order, row)
  PROVE  Sold \in Nat
<1> DEFINE f == [n \in Ids |-> order[n].matched]
<1>1. \A n \in Ids : f[n] \in Int /\ f[n] >= 0
  BY DEF Books
<1>2. Sold = SumFunctionOnSet(f, Ids)
  BY DEF Sold
<1> HIDE DEF f
<1>3. SumFunctionOnSet(f, Ids) \in Int /\ SumFunctionOnSet(f, Ids) >= 0
  BY <1>1, Sizes, SumType
<1>4. QED
  BY <1>2, <1>3

\* What is sold is a number, and no less after than before if no order has sold
\* less.
LEMMA SoldGrows ==
  ASSUME Books(order, row), NEW w, Books(order', w),
         \A m \in Ids : order[m].matched <= order'[m].matched
  PROVE  Sold \in Nat /\ Sold' \in Nat /\ Sold <= Sold'
<1> DEFINE f == [n \in Ids |-> order[n].matched]
           g == [n \in Ids |-> order'[n].matched]
<1>1. \A n \in Ids : /\ f[n] \in Nat /\ g[n] \in Nat /\ f[n] <= g[n]
                     /\ f[n] \in Int /\ g[n] \in Int /\ f[n] >= 0
  BY DEF Books
<1>2. Sold = Total(f) /\ Sold' = Total(g)
  BY DEF Sold, Total
<1> HIDE DEF f, g
<1>3. Total(f) \in Int /\ Total(g) \in Int /\ Total(f) <= Total(g)
  BY <1>1, Totals
<1>4. Total(f) >= 0
  BY <1>1, Sizes, SumType DEF Total
<1>5. QED
  BY <1>2, <1>3, <1>4

\* What has been paid is within what has been sold, if that has not become less.
LEMMA PaidWithinSold ==
  ASSUME Books(order, row), NEW w, Books(order', w), paid \in 0 .. Sold, paid' = paid,
         \A m \in Ids : order[m].matched <= order'[m].matched
  PROVE  paid' \in 0 .. Sold'
<1>1. Sold \in Nat /\ Sold' \in Nat /\ Sold <= Sold'
  BY SoldGrows
<1> HIDE DEF Sold
<1>2. QED
  BY <1>1

\* An order of which more is sold, or that is entered or taken off, keeps its rung
\* and size, and is exposed no more than before.
LEMMA Changing ==
  ASSUME Books(order, row), Chain(order, row), NEW n \in Ids,
         order[n].state # "none",
         NEW new \in [rung : 0 .. Len(Share), size : Nat, matched : Nat,
                      state : {"none", "late", "resting", "over"}],
         order' = [order EXCEPT ![n] = new],
         new.rung = order[n].rung, new.size = order[n].size, new.state # "none",
         order[n].matched <= new.matched, new.matched <= new.size,
         order[n].state # "over"
  PROVE  /\ Books(order', row) /\ Chain(order', row)
         /\ \A m \in Ids : /\ order'[m].rung = order[m].rung
                           /\ order'[m].size = order[m].size
                           /\ order'[m].state = "none" <=> order[m].state = "none"
                           /\ Out(order', m) <= Out(order, m)
                           /\ order[m].matched <= order'[m].matched
<1>1. order'[n] = new /\ \A m \in Ids : m # n => order'[m] = order[m]
  BY DEF Books
<1>2. \A m \in Ids : /\ order[m].size \in Nat /\ order[m].matched \in Nat
                     /\ row[m].matched \in Nat /\ row[m].matched <= order[m].size
                     /\ order[m].matched <= order[m].size
  BY DEF Books
<1>3. ASSUME NEW m \in Ids
      PROVE  /\ order'[m].rung = order[m].rung
             /\ order'[m].size = order[m].size
             /\ order'[m].state = "none" <=> order[m].state = "none"
             /\ Out(order', m) <= Out(order, m) /\ Out(order', m) \in Nat
             /\ Out(order, m) \in Nat
             /\ order[m].matched <= order'[m].matched
             /\ order'[m].matched <= order'[m].size
  <2>1. CASE m = n
    BY <1>1, <1>2, <2>1 DEF Out
  <2>2. CASE m # n
    BY <1>1, <1>2, <2>2 DEF Out
  <2>3. QED
    BY <2>1, <2>2
<1>4. order' \in [Ids -> [rung : 0 .. Len(Share), size : Nat, matched : Nat,
                          state : {"none", "late", "resting", "over"}]]
  BY DEF Books
<1>5. Books(order', row)
  BY <1>2, <1>3, <1>4 DEF Books
<1>6. Chain(order', row)
  <2>1. ASSUME NEW m \in Ids
        PROVE  /\ order'[m].state = "none"
                     => order'[m] = NoOrder /\ row[m].status = "absent"
               /\ order'[m].state # "none" => order'[m].rung \in Rungs
    <3>1. CASE m = n
      BY <1>1, <3>1 DEF Chain
    <3>2. CASE m # n
      BY <1>1, <3>2 DEF Chain
    <3>3. QED
      BY <3>1, <3>2
  <2>2. ASSUME NEW m \in Ids, row[m].status = "over"
        PROVE  row[m].matched >= Out(order', m)
    <3>1. row[m].matched >= Out(order, m)
      BY <2>2 DEF Chain
    <3>2. /\ Out(order', m) <= Out(order, m) /\ Out(order', m) \in Nat
          /\ Out(order, m) \in Nat /\ row[m].matched \in Nat
      BY <1>2, <1>3
    <3>3. QED
      BY ONLY <3>1, <3>2
  <2>3. QED
    BY <2>1, <2>2 DEF Chain
<1>7. QED
  BY <1>3, <1>5, <1>6

\* A sale that does not sell more than the rest does that.
LEMMA Selling ==
  ASSUME Books(order, row), Chain(order, row), NEW n \in Ids, NEW units \in Nat,
         Sell(n, units)
  PROVE  /\ Books(order', row) /\ Chain(order', row)
         /\ \A m \in Ids : /\ order'[m].rung = order[m].rung
                           /\ order'[m].size = order[m].size
                           /\ order'[m].state = "none" <=> order[m].state = "none"
                           /\ Out(order', m) <= Out(order, m)
                           /\ order[m].matched <= order'[m].matched
<1> DEFINE q == order[n]
           st == IF units = q.size - q.matched THEN "over" ELSE "resting"
           new == [q EXCEPT !.matched = q.matched + units, !.state = st]
<1>1. /\ q \in [rung : 0 .. Len(Share), size : Nat, matched : Nat,
                state : {"none", "late", "resting", "over"}]
      /\ q.state = "resting" /\ units <= q.size - q.matched
  BY DEF Books, Sell, Resting, Remaining
<1>2. order' = [order EXCEPT ![n] = new]
  <2>1. order' = [order EXCEPT ![n].matched = @ + units, ![n].state = st]
    BY DEF Sell, Remaining
  <2> HIDE DEF st
  <2>2. QED
    BY <2>1 DEF Books
<1>3. st \in {"resting", "over"} /\ q.matched \in Nat /\ q.size \in Nat
  BY <1>1
<1> HIDE DEF st, q
<1>4. /\ new.rung = q.rung /\ new.size = q.size
      /\ new.matched = q.matched + units /\ new.state = st
      /\ new \in [rung : 0 .. Len(Share), size : Nat, matched : Nat,
                  state : {"none", "late", "resting", "over"}]
  <2>1. /\ new.rung = q.rung /\ new.size = q.size
        /\ new.matched = q.matched + units /\ new.state = st
    BY <1>1
  <2>2. q.matched + units \in Nat /\ st \in {"none", "late", "resting", "over"}
    BY <1>3
  <2>3. new \in [rung : 0 .. Len(Share), size : Nat, matched : Nat,
                 state : {"none", "late", "resting", "over"}]
    BY <1>1, <2>2
  <2>4. QED
    BY <2>1, <2>3
<1> HIDE DEF new
<1>5. /\ new.state # "none" /\ q.matched <= new.matched /\ new.matched <= new.size
  BY <1>1, <1>3, <1>4
<1> USE DEF q
<1>6. QED
  BY <1>1, <1>2, <1>4, <1>5, Changing

\* So do an order that comes into force late and one that is taken off.
LEMMA Moving ==
  ASSUME Books(order, row), Chain(order, row), NEW n \in Ids, Register(n) \/ Drop(n)
  PROVE  /\ Books(order', row) /\ Chain(order', row)
         /\ \A m \in Ids : /\ order'[m].rung = order[m].rung
                           /\ order'[m].size = order[m].size
                           /\ order'[m].state = "none" <=> order[m].state = "none"
                           /\ Out(order', m) <= Out(order, m)
                           /\ order[m].matched <= order'[m].matched
<1> DEFINE q == order[n]
<1>1. /\ q \in [rung : 0 .. Len(Share), size : Nat, matched : Nat,
                state : {"none", "late", "resting", "over"}]
      /\ q.state \in {"late", "resting"} /\ q.matched \in Nat /\ q.matched <= q.size
  BY DEF Books, Register, Drop, Resting
<1>2. PICK st \in {"resting", "over"} : order' = [order EXCEPT ![n].state = st]
  BY DEF Register, Drop
<1> DEFINE new == [q EXCEPT !.state = st]
<1>3. order' = [order EXCEPT ![n] = new]
  BY <1>2 DEF Books
<1> HIDE DEF q
<1>4. /\ new.rung = q.rung /\ new.size = q.size
      /\ new.matched = q.matched /\ new.state = st
      /\ new \in [rung : 0 .. Len(Share), size : Nat, matched : Nat,
                  state : {"none", "late", "resting", "over"}]
  BY <1>1, <1>2
<1> HIDE DEF new
<1>5. new.state # "none" /\ q.matched <= new.matched /\ new.matched <= new.size
  BY <1>1, <1>2, <1>4
<1> USE DEF q
<1>6. QED
  BY <1>1, <1>3, <1>4, <1>5, Changing

\* A row that hears of its order claims no more than before.
LEMMA Learning ==
  ASSUME Books(order, row), Chain(order, row), NEW n \in Ids, LearnExit(n)
  PROVE  /\ Books(order, row') /\ Chain(order, row')
         /\ \A m \in Ids : /\ row'[m].status = "absent" <=> row[m].status = "absent"
                           /\ Claimed(order, row', m) <= Claimed(order, row, m)
<1> DEFINE new == [status |-> IF order[n].state = "over" THEN "over" ELSE "active",
                   matched |-> order[n].matched]
<1>1. /\ row[n].status # "absent" /\ row' = [row EXCEPT ![n] = new]
      /\ order[n].matched \in Nat /\ order[n].size \in Nat
      /\ order[n].matched <= order[n].size
      /\ row[n].status \in {"active", "over"} /\ row[n].matched \in Nat
  BY DEF LearnExit, Books
<1>2. /\ new \in [status : {"absent", "active", "over"}, matched : Nat]
      /\ new.matched = order[n].matched /\ new.status \in {"active", "over"}
      /\ new.status = "over" <=> order[n].state = "over"
  BY <1>1
<1> HIDE DEF new
<1>3. row'[n] = new /\ \A m \in Ids : m # n => row'[m] = row[m]
  BY <1>1 DEF Books
<1>4. row' \in [Ids -> [status : {"absent", "active", "over"}, matched : Nat]]
  BY <1>1, <1>2 DEF Books
<1>5. \A m \in Ids : row'[m].status = "absent" <=> row[m].status = "absent"
  BY <1>1, <1>2, <1>3
<1>6. Books(order, row')
  BY <1>1, <1>2, <1>3, <1>4 DEF Books
<1>7. \A m \in Ids : row'[m].status = "over" => row'[m].matched >= Out(order, m)
  <2>1. ASSUME NEW m \in Ids, row'[m].status = "over"
        PROVE  row'[m].matched >= Out(order, m)
    <3>1. CASE m = n
      BY <1>1, <1>2, <1>3, <2>1, <3>1 DEF Out
    <3>2. CASE m # n
      BY <1>3, <2>1, <3>2 DEF Chain
    <3>3. QED
      BY <3>1, <3>2
  <2>2. QED
    BY <2>1
<1>8. Chain(order, row')
  BY <1>5, <1>7 DEF Chain
<1>9. \A m \in Ids : Claimed(order, row', m) <= Claimed(order, row, m)
  <2>1. ASSUME NEW m \in Ids
        PROVE  Claimed(order, row', m) <= Claimed(order, row, m)
    <3>1. CASE m = n
      <4>1. row[n].status = "over" => row[n].matched >= Out(order, n)
        BY DEF Chain
      <4>2. QED
        BY <1>1, <1>2, <1>3, <3>1, <4>1 DEF Claimed, Out
    <3>2. CASE m # n
      <4>1. Claimed(order, row', m) = Claimed(order, row, m)
        BY <1>3, <3>2 DEF Claimed
      <4>2. QED
        BY <4>1, Counted
    <3>3. QED
      BY <3>1, <3>2
  <2>2. QED
    BY <2>1
<1>10. QED
  BY <1>5, <1>6, <1>8, <1>9

\* What the rows call sold, and what they reserve, are whole numbers.
LEMMA Reserved ==
  ASSUME Books(order, row)
  PROVE  KnownSold \in Int /\ ReservedSize \in Int
<1> DEFINE v == [n \in Ids |-> row[n].matched]
           w == [n \in Ids |-> order[n].size - row[n].matched]
           U == {n \in Ids : row[n].status = "active"}
<1>1. \A n \in Ids : v[n] \in Int /\ w[n] \in Int
  BY DEF Books
<1>2. U \in SUBSET Ids /\ IsFiniteSet(U)
  BY Sizes, FS_Subset
<1>3. KnownSold = SumFunctionOnSet(v, Ids) /\ ReservedSize = SumFunctionOnSet(w, U)
  BY DEF KnownSold, ReservedSize
<1> HIDE DEF v, w, U
<1>4. SumFunctionOnSet(v, Ids) \in Int
  BY <1>1, Sizes, SumType
<1>5. SumFunctionOnSet(w, U) \in Int
  <2>1. \A n \in U : w[n] \in Int
    BY <1>1, <1>2
  <2>2. QED
    BY <1>2, <2>1, SumType
<1>6. QED
  BY <1>3, <1>4, <1>5

\* A pass begins with the rungs that lack a valid order's worth, and with what
\* the balance and the rows leave, or it does not begin.
LEMMA Starting ==
  ASSUME Books(order, row), Flow(failed, step, pass), Going(pass, step),
         settled \in Nat, paid \in Nat, ahead \in Nat, NEW lots \in Nat, BeginPass(lots)
  PROVE  /\ Going(pass', step') /\ Flow(failed', step', pass')
         /\ UNCHANGED <<filled, settled, order, paid, row, failed, mistaken>>
         /\ learned' = lots /\ step = "idle" /\ pass = Idle
         /\ missed \in BOOLEAN => missed' \in BOOLEAN
         /\ ahead' \in Nat /\ ahead <= ahead'
         /\ \/ pass' = pass /\ step' = "idle"
            \/ /\ step' = "submit"
               /\ \A r \in pass'.todo :
                     pass'.lacking[r] = lots * Share[r] - Told(order, row, failed, r)
               /\ pass'.available = settled * Parts - paid - ReservedSize
               /\ KnownSold - paid <= ahead'
<1>1. /\ step = "idle" /\ pass = Idle /\ failed \in [Rungs -> Nat]
      /\ UNCHANGED <<filled, settled, order, paid, row, failed, mistaken>> /\ learned' = lots
      /\ missed' = (missed \/ RowsBehind)
  BY DEF BeginPass, Flow, rows
<1>2. ASSUME NEW r \in Rungs
      PROVE  /\ Lacking(r, lots) = lots * Share[r] - Told(order, row, failed, r)
             /\ Lacking(r, lots) \in Int
  <2>1. Lacking(r, lots) = lots * Share[r] - Told(order, row, failed, r)
    BY Handled DEF Lacking
  <2>2. Told(order, row, failed, r) \in Int
    <3>1. Total(Claims(order, row, r)) \in Nat
      BY Counted
    <3>2. failed[r] \in Nat
      BY <1>1
    <3>3. QED
      BY <3>1, <3>2 DEF Told
  <2>3. lots * Share[r] \in Int
    BY Sizes
  <2>4. QED
    BY <2>1, <2>2, <2>3
<1>3. CASE Todo(lots) = {} \/ Available < MinSize
  <2>1. pass' = pass /\ step' = "idle" /\ ahead' = ahead
    BY <1>1, <1>3 DEF BeginPass, walk
  <2>2. Going(pass', step') /\ Flow(failed', step', pass')
    BY <1>1, <2>1 DEF Going, Flow
  <2>3. QED
    BY <1>1, <2>1, <2>2
<1>4. CASE Todo(lots) # {} /\ ~(Available < MinSize)
  <2>1. /\ step' = "submit" /\ ahead' = Larger(ahead, KnownSold - paid)
        /\ pass' = [todo |-> Todo(lots),
                    lacking |-> [r \in Rungs |-> Lacking(r, lots)],
                    available |-> Available]
    BY <1>4 DEF BeginPass
  <2>2. /\ Available \in Int /\ Available >= MinSize
        /\ Available = settled * Parts - paid - ReservedSize
    <3>1. settled * Parts \in Int
      BY Sizes
    <3>2. QED
      BY <1>4, <3>1, Sizes, Reserved DEF Available, Larger
  <2>3. Todo(lots) \in SUBSET Rungs /\ \A r \in Todo(lots) : Lacking(r, lots) >= MinSize
    BY DEF Todo
  <2>4. /\ pass'.todo = Todo(lots) /\ pass'.available = Available
        /\ \A r \in Rungs : pass'.lacking[r] = Lacking(r, lots)
    BY <2>1
  <2>5. pass' \in [todo : SUBSET Rungs, lacking : [Rungs -> Int], available : Int]
    BY <1>2, <2>1, <2>2, <2>3
  <2>6. Going(pass', step')
    BY <1>4, <2>2, <2>3, <2>4, <2>5 DEF Going
  <2>7. pass' # Idle
    BY <1>4, <2>4 DEF Idle
  <2>8. Flow(failed', step', pass')
    BY <1>1, <2>1, <2>7 DEF Flow
  <2>9. \A r \in pass'.todo :
           pass'.lacking[r] = lots * Share[r] - Told(order, row, failed, r)
    BY <1>2, <2>3, <2>4
  <2>10. ahead' \in Nat /\ ahead <= ahead' /\ KnownSold - paid <= ahead'
    BY <2>1, Reserved DEF Larger
  <2>11. missed \in BOOLEAN => missed' \in BOOLEAN
    BY <1>1
  <2>12. pass'.available = settled * Parts - paid - ReservedSize
    BY <2>2, <2>4
  <2>13. QED
    BY <1>1, <2>1, <2>6, <2>8, <2>9, <2>10, <2>11, <2>12
<1>5. QED
  BY <1>3, <1>4

\* No exit is there at first, so the shape holds.
LEMMA ShapeInit ==
  Init => Shape
<1> SUFFICES ASSUME Init PROVE Shape
  OBVIOUS
<1> USE Sizes DEF Init
<1>1. Entry(filled, settled, learned, heard)
  <2>1. filled = 0 /\ settled = 0 /\ learned = 0 /\ heard = FALSE
    OBVIOUS
  <2>2. 0 \in 0 .. Lots /\ 0 \in 0 .. 0 /\ FALSE \in BOOLEAN
    BY LadderAssumption
  <2>3. QED
    BY ONLY <2>1, <2>2 DEF Entry
<1>2. Noted(missed, mistaken, ahead) /\ paid = 0
  BY DEF Noted
<1>3. Books(order, row) /\ Chain(order, row)
  <2>1. /\ \A n \in Ids : order[n] = NoOrder /\ row[n] = NoRow
        /\ order \in [Ids -> {NoOrder}] /\ row \in [Ids -> {NoRow}]
    OBVIOUS
  <2>2. NoOrder \in [rung : 0 .. Len(Share), size : Nat, matched : Nat,
                     state : {"none", "late", "resting", "over"}]
    BY DEF NoOrder
  <2>3. NoRow \in [status : {"absent", "active", "over"}, matched : Nat]
    BY DEF NoRow
  <2>4. /\ NoOrder.state = "none" /\ NoOrder.matched = 0 /\ NoOrder.size = 0
        /\ NoRow.status = "absent" /\ NoRow.matched = 0
    BY DEF NoOrder, NoRow
  <2>5. Books(order, row)
    BY <2>1, <2>2, <2>3, <2>4 DEF Books
  <2>6. Chain(order, row)
    BY <2>1, <2>4 DEF Chain
  <2>7. QED
    BY <2>5, <2>6
<1>4. Flow(failed, step, pass) /\ Going(pass, step)
  BY DEF Flow, Going, Idle
<1>5. Sold \in Nat
  BY <1>3, SoldIsNumber
<1>6. paid \in 0 .. Sold
  BY <1>2, <1>5
<1>7. QED
  BY <1>2, <1>1, <1>3, <1>4, <1>6, ShapeParts

\* No operation takes the ladder out of its shape.
LEMMA ShapeStep ==
  Shape /\ [Next]_vars => Shape'
<1> SUFFICES ASSUME Shape, [Next]_vars PROVE Shape'
  OBVIOUS
<1>1. /\ Entry(filled, settled, learned, heard)
      /\ Books(order, row) /\ Chain(order, row)
      /\ Flow(failed, step, pass) /\ Going(pass, step)
      /\ paid \in 0 .. Sold /\ Noted(missed, mistaken, ahead)
  BY ShapeParts
<1>2. /\ filled \in Nat /\ settled \in Nat /\ learned \in Nat /\ heard \in BOOLEAN
      /\ settled <= filled /\ learned <= filled
      /\ filled <= Lots /\ Lots \in Nat
      /\ missed \in BOOLEAN /\ mistaken \in [Rungs -> Nat] /\ ahead \in Nat
      /\ Sold \in Nat /\ paid \in Nat
  <2>1. Sold \in Nat
    BY <1>1, SoldIsNumber
  <2>2. paid \in Nat
    BY <1>1, <2>1
  <2>3. QED
    BY <1>1, <2>1, <2>2, LadderAssumption DEF Entry, Noted
<1>3. CASE Fill
  <2>1. /\ filled' = filled + 1 /\ filled < Lots
        /\ UNCHANGED <<settled, heard, learned, order, paid, rows, walk, noted>>
    BY <1>3 DEF Fill
  <2>2. Entry(filled', settled', learned', heard')
    BY <1>2, <2>1 DEF Entry
  <2>3. Sold' = Sold
    BY <2>1 DEF Sold
  <2>4. QED
    BY <1>1, <2>1, <2>2, <2>3, ShapeParts DEF rows, walk, noted
<1>4. ASSUME NEW lost \in BOOLEAN, Settle(lost) PROVE Shape'
  <2>1. /\ settled' = settled + 1 /\ settled < filled /\ heard' = (heard \/ ~lost)
        /\ missed' = (missed \/ lost)
        /\ UNCHANGED <<filled, learned, order, paid, rows, walk, mistaken, ahead>>
    BY <1>4 DEF Settle
  <2>2. Entry(filled', settled', learned', heard')
    <3>1. heard' \in BOOLEAN
      BY <2>1
    <3>2. /\ filled' \in 0 .. Lots /\ settled' \in 0 .. filled' /\ learned' \in 0 .. filled'
      BY <1>2, <2>1
    <3>3. QED
      BY <3>1, <3>2 DEF Entry
  <2>3. Noted(missed', mistaken', ahead')
    BY <1>2, <2>1 DEF Noted
  <2>4. Sold' = Sold
    BY <2>1 DEF Sold
  <2>5. QED
    BY <1>1, <2>1, <2>2, <2>3, <2>4, ShapeParts DEF rows, walk
<1>5. ASSUME NEW n \in Ids, NEW units \in {1, Remaining(n)} \ {0}, Sell(n, units)
      PROVE  Shape'
  <2>1. units \in Nat
    <3>1. Remaining(n) \in Nat
      BY <1>1 DEF Remaining, Books
    <3>2. QED
      BY <3>1
  <2>2. /\ Books(order', row) /\ Chain(order', row)
        /\ \A m \in Ids : order[m].matched <= order'[m].matched
    BY <1>1, <1>5, <2>1, Selling
  <2>3. UNCHANGED <<entry, paid, rows, walk, noted>>
    BY <1>5 DEF Sell
  <2>4. paid' \in 0 .. Sold'
    BY <1>1, <2>2, <2>3, PaidWithinSold
  <2>5. QED
    BY <1>1, <2>2, <2>3, <2>4, ShapeParts DEF entry, rows, walk, noted
<1>6. ASSUME NEW n \in Ids, Register(n) \/ Drop(n) PROVE Shape'
  <2>1. /\ Books(order', row) /\ Chain(order', row)
        /\ \A m \in Ids : order[m].matched <= order'[m].matched
    BY <1>1, <1>6, Moving
  <2>2. UNCHANGED <<entry, paid, rows, walk, mistaken, ahead>> /\ missed' \in BOOLEAN
    BY <1>2, <1>6 DEF Register, Drop, noted
  <2>3. paid' \in 0 .. Sold'
    BY <1>1, <2>1, <2>2, PaidWithinSold
  <2>4. Noted(missed', mistaken', ahead')
    BY <1>2, <2>2 DEF Noted
  <2>5. QED
    BY <1>1, <2>1, <2>2, <2>3, <2>4, ShapeParts DEF entry, rows, walk
<1>7. ASSUME NEW n \in Ids, LearnExit(n) PROVE Shape'
  <2>1. Books(order, row') /\ Chain(order, row')
    BY <1>1, <1>7, Learning
  <2>2. UNCHANGED <<entry, order, paid, failed, walk, noted>>
    BY <1>7 DEF LearnExit
  <2>3. Sold' = Sold
    BY <2>2 DEF Sold
  <2>4. QED
    BY <1>1, <2>1, <2>2, <2>3, ShapeParts DEF entry, walk, noted
<1>8. CASE SaleSettles
  <2>1. paid' \in paid + 1 .. Sold /\ UNCHANGED <<entry, order, rows, walk, noted>>
    BY <1>8 DEF SaleSettles
  <2>2. Sold' = Sold
    BY <2>1 DEF Sold
  <2>3. paid' \in 0 .. Sold'
    <3> HIDE DEF Sold
    <3>1. QED
      BY <1>2, <2>1, <2>2
  <2>4. QED
    BY <1>1, <2>1, <2>3, ShapeParts DEF entry, rows, walk, noted
<1>9. ASSUME NEW n \in Ids, Identified(n) PROVE Shape'
  <2>1. /\ step # "idle" /\ GoOn(pass.available - Size) /\ Write(n, 0)
        /\ mistaken' = (IF row[n].status = "absent" THEN mistaken
                        ELSE [mistaken EXCEPT ![Rung] = @ + Size])
        /\ UNCHANGED <<entry, order, paid, failed, missed, ahead>>
    BY <1>9 DEF Identified
  <2>2. order[n].state # "none"
    BY <1>9 DEF Identified, Matches, Resting
  <2>3. Books(order, row') /\ Chain(order, row')
    <3>0. Books(order, row) /\ Chain(order, row)
      BY <1>1
    <3>1. row' = Written(row, n, 0) /\ 0 \in Nat /\ (0 = 0 \/ 0 = order[n].size)
      BY <2>1 DEF Write, Written
    <3>2. Books(order, Written(row, n, 0)) /\ Chain(order, Written(row, n, 0))
      BY ONLY <2>2, <3>0, <3>1, n \in Ids, Writing
    <3>3. QED
      BY <3>1, <3>2
  <2>4. /\ Rung \in Rungs /\ Size \in Nat /\ pass.available - Size \in Int
    BY <1>1, <2>1, Upcoming
  <2>5. /\ Going(pass', step')
        /\ step' \in {"idle", "submit"} /\ (step' = "idle" <=> pass' = Idle)
    BY <1>1, <2>1, <2>4, Onwards
  <2>6. Flow(failed', step', pass')
    BY <1>1, <2>1, <2>5 DEF Flow
  <2>7. mistaken' \in [Rungs -> Nat]
    BY <1>2, <2>1, <2>4
  <2>8. Noted(missed', mistaken', ahead')
    BY <1>2, <2>1, <2>7 DEF Noted
  <2>9. Sold' = Sold
    BY <2>1 DEF Sold
  <2>10. QED
    BY <1>1, <2>1, <2>3, <2>5, <2>6, <2>8, <2>9, ShapeParts DEF entry
<1>10. ASSUME NEW n \in Ids, Placed(n) PROVE Shape'
  <2>1. PICK units \in AtOnce : Accept(n, units) /\ Write(n, IF units > 0 THEN Size ELSE 0)
    BY <1>10 DEF Placed
  <2>2. /\ step # "idle" /\ GoOn(pass.available - Size)
        /\ UNCHANGED <<entry, paid, failed, noted>>
    BY <1>10 DEF Placed
  <2>3. Size \in Nat /\ Size > 0 /\ pass.available - Size \in Int
    BY <1>1, <2>2, Upcoming
  <2>4. /\ Books(order', row) /\ Chain(order', row)
        /\ order'[n].size = Size /\ order'[n].state # "none"
        /\ \A m \in Ids : order[m].matched <= order'[m].matched
    BY <1>1, <2>1, <2>2, Accepting
  <2>5. Books(order', row') /\ Chain(order', row')
    <3> DEFINE matched == IF units > 0 THEN Size ELSE 0
    <3>1. matched \in Nat /\ (matched = 0 \/ matched = order'[n].size)
      BY <2>3, <2>4
    <3>2. row' = Written(row, n, matched)
      BY <2>1 DEF Write, Written
    <3> HIDE DEF matched
    <3>3. QED
      BY <2>4, <3>1, <3>2, Writing
  <2>6. /\ Going(pass', step')
        /\ step' \in {"idle", "submit"} /\ (step' = "idle" <=> pass' = Idle)
    BY <1>1, <2>2, <2>3, Onwards
  <2>7. Flow(failed', step', pass')
    BY <1>1, <2>2, <2>6 DEF Flow
  <2>8. paid' \in 0 .. Sold'
    BY <1>1, <2>2, <2>4, PaidWithinSold
  <2>9. QED
    BY <1>1, <2>2, <2>5, <2>6, <2>7, <2>8, ShapeParts DEF entry, noted
<1>11. ASSUME NEW lots \in Nat, lots >= learned, lots <= filled, BeginPass(lots),
              heard' \in BOOLEAN
       PROVE  Shape'
  <2>1. /\ Going(pass', step') /\ Flow(failed', step', pass')
        /\ UNCHANGED <<filled, settled, order, paid, row, failed, mistaken>>
        /\ learned' = lots /\ missed' \in BOOLEAN /\ ahead' \in Nat
    BY <1>1, <1>2, <1>11, Starting
  <2>2. Entry(filled', settled', learned', heard')
    BY <1>2, <1>11, <2>1 DEF Entry
  <2>3. Noted(missed', mistaken', ahead')
    BY <1>2, <2>1 DEF Noted
  <2>4. Sold' = Sold
    BY <2>1 DEF Sold
  <2>5. QED
    BY <1>1, <2>1, <2>2, <2>3, <2>4, ShapeParts
<1>12. CASE EntryGrew
  <2>1. PICK lots \in learned + 1 .. filled : BeginPass(lots) /\ UNCHANGED heard
    BY <1>12 DEF EntryGrew
  <2>2. lots \in Nat /\ lots >= learned /\ lots <= filled /\ heard' \in BOOLEAN
    BY <1>2, <2>1
  <2>3. QED
    BY <1>11, <2>1, <2>2
<1>13. CASE SettlementHeard
  <2>1. BeginPass(learned) /\ heard' \in BOOLEAN
    BY <1>13 DEF SettlementHeard
  <2>2. learned >= learned /\ learned <= filled
    BY <1>2
  <2>3. QED
    BY <1>2, <1>11, <2>1, <2>2
<1>14. CASE BalanceRaises
  <2>1. /\ learned' \in learned .. filled /\ heard' = FALSE /\ missed' = TRUE
        /\ UNCHANGED <<filled, settled, order, paid, rows, walk, mistaken, ahead>>
    BY <1>14 DEF BalanceRaises
  <2>2. Entry(filled', settled', learned', heard')
    <3>1. /\ filled' \in 0 .. Lots /\ settled' \in 0 .. filled' /\ learned' \in 0 .. filled'
      BY <1>2, <2>1
    <3>2. QED
      BY <2>1, <3>1 DEF Entry
  <2>3. Noted(missed', mistaken', ahead')
    BY <1>2, <2>1 DEF Noted
  <2>4. Sold' = Sold
    BY <2>1 DEF Sold
  <2>5. QED
    BY <1>1, <2>1, <2>2, <2>3, <2>4, ShapeParts DEF rows, walk
<1>15. CASE Raised
  <2>1. /\ step # "idle" /\ step' = "reconcile" /\ missed' = TRUE
        /\ UNCHANGED <<entry, paid, rows, pass, mistaken, ahead>>
    BY <1>15 DEF Raised
  <2>2. /\ Books(order', row) /\ Chain(order', row)
        /\ \A m \in Ids : order[m].matched <= order'[m].matched
    <3>1. CASE UNCHANGED order
      <4>1. \A m \in Ids : order[m].matched \in Nat
        BY <1>1 DEF Books
      <4>2. \A m \in Ids : order[m].matched <= order'[m].matched
        BY <3>1, <4>1
      <4>3. QED
        BY <1>1, <3>1, <4>2
    <3>2. ASSUME NEW n \in Ids, Enter(n, 0, "late")
          PROVE  /\ Books(order', row) /\ Chain(order', row)
                 /\ \A m \in Ids : order[m].matched <= order'[m].matched
      <4>1. 0 \in Nat /\ 0 <= Size
        BY <1>1, <2>1, Upcoming
      <4>2. "late" \in {"late", "resting", "over"} /\ ("late" = "over" => 0 = Size)
        OBVIOUS
      <4>3. QED
        BY <1>1, <2>1, <3>2, <4>1, <4>2, Entering
    <3>3. ASSUME NEW n \in Ids, NEW units \in AtOnce, Accept(n, units)
          PROVE  /\ Books(order', row) /\ Chain(order', row)
                 /\ \A m \in Ids : order[m].matched <= order'[m].matched
      BY <1>1, <2>1, <3>3, Accepting
    <3>4. QED
      BY <1>15, <3>1, <3>2, <3>3 DEF Raised
  <2>3. paid' \in 0 .. Sold'
    BY <1>1, <2>1, <2>2, PaidWithinSold
  <2>4. Going(pass', step') /\ Flow(failed', step', pass')
    BY <1>1, <2>1 DEF Going, Flow, rows
  <2>5. Noted(missed', mistaken', ahead')
    BY <1>2, <2>1 DEF Noted
  <2>6. QED
    BY <1>1, <2>1, <2>2, <2>3, <2>4, <2>5, ShapeParts DEF entry, rows
<1>16. CASE Unidentified
  <2>1. /\ step # "idle" /\ GoOn(pass.available)
        /\ failed' = [failed EXCEPT ![Rung] = @ + Size]
        /\ UNCHANGED <<entry, order, paid, row, noted>>
    BY <1>16 DEF Unidentified
  <2>2. Rung \in Rungs /\ Size \in Nat /\ pass.available \in Int
    BY <1>1, <2>1, Upcoming
  <2>3. failed' \in [Rungs -> Nat]
    BY <1>1, <2>1, <2>2 DEF Flow
  <2>4. /\ Going(pass', step')
        /\ step' \in {"idle", "submit"} /\ (step' = "idle" <=> pass' = Idle)
    BY <1>1, <2>1, <2>2, Onwards
  <2>5. Flow(failed', step', pass')
    BY <2>3, <2>4 DEF Flow
  <2>6. Sold' = Sold
    BY <2>1 DEF Sold
  <2>7. QED
    BY <1>1, <2>1, <2>4, <2>5, <2>6, ShapeParts DEF entry, noted
<1>17. CASE UNCHANGED vars
  <2>1. Sold' = Sold
    BY <1>17 DEF vars, Sold
  <2>2. QED
    BY <1>1, <1>17, <2>1, ShapeParts DEF vars, entry, rows, walk, noted
<1>18. QED
  BY <1>3, <1>4, <1>5, <1>6, <1>7, <1>8, <1>9, <1>10, <1>12, <1>13, <1>14,
     <1>15, <1>16, <1>17 DEF Next

\* Every order is of a rung, rows agree with their orders, and a pass in progress
\* has a rung and a size to go on with.
THEOREM ShapeInvariant == Spec => []Shape
<1>1. Init => Shape
  BY ShapeInit
<1>2. Shape /\ [Next]_vars => Shape'
  BY ShapeStep
<1>3. QED
  BY <1>1, <1>2, PTL DEF Spec

\* A row never says that more was sold than its order is for, an order never sells
\* more than its size, no more is paid than sold, and the pass is in progress just
\* when the loop says so, whatever the entry, the plan and the minimum size
\* (_place_missing_exits).
THEOREM TypeCorrect == Spec => []TypeOK
<1>1. Shape => TypeOK
  BY DEF Shape
<1>2. QED
  BY <1>1, ShapeInvariant, PTL

(***************************************************************************)
(* The sums.                                                               *)
(***************************************************************************)

\* The ledger, conjunct by conjunct, before and after a step.
LEMMA LedgerParts ==
  /\ Ledger <=> /\ Covered(order, row, failed, pass, learned)
                /\ \E z \in 0 .. MaxExits :
                     /\ z # 0 => /\ step = "reconcile"
                                 /\ Newest(order, row, z, Rung, Size)
                     /\ Accounted(order, row, Doubts, z, pass.available, Cap)
  /\ Ledger' <=> /\ Covered(order', row', failed', pass', learned')
                 /\ \E z \in 0 .. MaxExits :
                      /\ z # 0 => /\ step' = "reconcile"
                                  /\ Newest(order', row', z, Rung', Size')
                      /\ Accounted(order', row', Doubts', z, pass'.available, Cap')
BY DEF Ledger, Unclear

\* More of a thing is worth more.
LEMMA MoreTimes ==
  ASSUME NEW a \in Nat, NEW b \in Nat, NEW c \in Nat, a <= b
  PROVE  a * c <= b * c /\ a * c \in Nat /\ b * c \in Nat
OBVIOUS

\* What rows say is a number, and so is what is accounted for.
LEMMA ToldIsNumber ==
  ASSUME NEW o, NEW w, Books(o, w), NEW f \in [Rungs -> Nat], NEW r \in Rungs
  PROVE  Told(o, w, f, r) \in Nat /\ Total(Claims(o, w, r)) \in Nat
<1>1. Total(Claims(o, w, r)) \in Nat
  BY Counted
<1>2. f[r] \in Nat
  OBVIOUS
<1>3. QED
  BY <1>1, <1>2 DEF Told

\* What the accounts are made of, and rest on.
Sound == /\ Books(order, row) /\ Chain(order, row)
         /\ Flow(failed, step, pass) /\ Going(pass, step)
         /\ filled \in Nat /\ settled \in Nat /\ learned \in Nat
         /\ learned <= filled /\ heard \in BOOLEAN
         /\ paid \in Nat /\ mistaken \in [Rungs -> Nat] /\ ahead \in Nat

\* The shape gives it.
LEMMA ShapeIsSound ==
  /\ Shape => Sound
  /\ Shape' => /\ Books(order', row') /\ failed' \in [Rungs -> Nat]
               /\ mistaken' \in [Rungs -> Nat]
<1>1. ASSUME Shape PROVE Sound
  <2>1. /\ Entry(filled, settled, learned, heard)
        /\ Books(order, row) /\ Chain(order, row)
        /\ Flow(failed, step, pass) /\ Going(pass, step)
        /\ paid \in 0 .. Sold /\ Noted(missed, mistaken, ahead)
    BY <1>1, ShapeParts
  <2>2. Sold \in Nat
    BY <2>1, SoldIsNumber
  <2>3. paid \in Nat
    BY <2>1, <2>2
  <2>4. /\ filled \in Nat /\ settled \in Nat /\ learned \in Nat
        /\ learned <= filled /\ heard \in BOOLEAN
    BY <2>1, LadderAssumption DEF Entry
  <2>5. QED
    BY <2>1, <2>3, <2>4 DEF Sound, Noted
<1>2. QED
  BY <1>1, ShapeParts DEF Flow, Noted

\* Doubts are natural numbers, and the cap is a whole one.
LEMMA DoubtsAndCap ==
  ASSUME failed \in [Rungs -> Nat], mistaken \in [Rungs -> Nat],
         settled \in Nat, ahead \in Nat
  PROVE  /\ \A r \in Rungs : /\ Doubts[r] \in Nat /\ failed[r] \in Nat
                             /\ mistaken[r] \in Nat
                             /\ Doubts[r] = failed[r] + mistaken[r]
         /\ Cap \in Int /\ Cap = settled * Parts + ahead /\ settled * Parts \in Int
<1>1. settled * Parts \in Int
  BY Sizes
<1>2. QED
  BY <1>1 DEF Doubts, Cap

\* What does not touch what the accounts speak of leaves doubts and cap alone.
LEMMA SameDoubts ==
  ASSUME UNCHANGED <<failed, mistaken, settled, ahead>>
  PROVE  Doubts' = Doubts /\ Cap' = Cap
BY DEF Doubts, Cap

\* More filled, more settled and more counted though sold leave the accounts in
\* order.
LEMMA Widening ==
  ASSUME Ledger, Sound,
         UNCHANGED <<order, row, failed, mistaken, pass, step>>,
         learned' \in Nat, learned <= learned',
         settled' \in Nat, settled <= settled',
         ahead' \in Nat, ahead <= ahead'
  PROVE  Ledger'
<1>1. /\ pass.lacking \in [Rungs -> Int] /\ pass.available \in Int
      /\ failed \in [Rungs -> Nat] /\ mistaken \in [Rungs -> Nat]
      /\ learned \in Nat /\ settled \in Nat /\ ahead \in Nat /\ Books(order, row)
  BY DEF Sound, Going, Flow
<1>2. Covered(order, row, failed, pass, learned')
  <2>1. ASSUME NEW r \in Rungs
        PROVE  /\ Told(order, row, failed, r) <= learned' * Share[r]
               /\ r \in pass.todo
                    => Told(order, row, failed, r) + pass.lacking[r] <= learned' * Share[r]
    <3>1. learned * Share[r] <= learned' * Share[r]
      BY <1>1, MoreTimes, Sizes
    <3>2. learned * Share[r] \in Int /\ learned' * Share[r] \in Int
      BY <1>1, Sizes
    <3>3. Told(order, row, failed, r) \in Int /\ pass.lacking[r] \in Int
      BY <1>1, ToldIsNumber
    <3>4. /\ Told(order, row, failed, r) <= learned * Share[r]
          /\ r \in pass.todo
               => Told(order, row, failed, r) + pass.lacking[r] <= learned * Share[r]
      BY DEF Ledger, Covered
    <3>5. QED
      BY <3>1, <3>2, <3>3, <3>4
  <2>2. QED
    BY <2>1 DEF Covered
<1>3. PICK z \in 0 .. MaxExits :
         /\ z # 0 => step = "reconcile" /\ Newest(order, row, z, Rung, Size)
         /\ Accounted(order, row, Doubts, z, pass.available, Cap)
  BY LedgerParts
<1>4. Doubts' = Doubts
  BY DEF Doubts
<1>5. Cap <= Cap' /\ Cap \in Int /\ Cap' \in Int
  <2>1. settled * Parts <= settled' * Parts
    BY <1>1, MoreTimes, Sizes
  <2>2. settled * Parts \in Int /\ settled' * Parts \in Int
    BY <1>1, Sizes
  <2>3. QED
    BY <1>1, <2>1, <2>2 DEF Cap
<1>6. Accounted(order, row, Doubts, z, pass.available, Cap')
  <2>1. Total(Offers(order, z)) \in Int
    BY <1>1, Counted
  <2> HIDE DEF Cap
  <2>2. QED
    BY <1>1, <1>3, <1>5, <2>1 DEF Accounted
<1>7. Rung' = Rung /\ Size' = Size
  BY DEF Rung, Size
<1>8. QED
  BY <1>2, <1>3, <1>4, <1>6, <1>7, LedgerParts

\* Orders that keep their rungs and sizes and are exposed no more: the claims
\* are the same, and the rest is no more.
LEMMA LessExposed ==
  ASSUME NEW o, NEW p, NEW w, Books(o, w), Books(p, w), NEW z, NEW r,
         \A m \in Ids : /\ p[m].rung = o[m].rung /\ p[m].size = o[m].size
                        /\ Out(p, m) <= Out(o, m)
  PROVE  /\ Total(Claims(p, w, r)) = Total(Claims(o, w, r))
         /\ Total(Strays(p, w, z, r)) <= Total(Strays(o, w, z, r))
         /\ Total(Offers(p, z)) <= Total(Offers(o, z))
<1>1. \A m \in Ids : /\ Claims(p, w, r)[m] = Claims(o, w, r)[m]
                     /\ Strays(p, w, z, r)[m] <= Strays(o, w, z, r)[m]
                     /\ Offers(p, z)[m] <= Offers(o, z)[m]
  BY DEF Claims, Claimed, Strays, Offers
<1>2. \A m \in Ids : /\ Claims(o, w, r)[m] \in Nat /\ Claims(p, w, r)[m] \in Nat
                     /\ Strays(o, w, z, r)[m] \in Nat /\ Strays(p, w, z, r)[m] \in Nat
                     /\ Offers(o, z)[m] \in Nat /\ Offers(p, z)[m] \in Nat
  BY Counted
<1>3. Total(Claims(p, w, r)) = Total(Claims(o, w, r))
  BY <1>1, <1>2, Totals
<1>4. Total(Strays(p, w, z, r)) <= Total(Strays(o, w, z, r))
  BY <1>1, <1>2, Totals
<1>5. Total(Offers(p, z)) <= Total(Offers(o, z))
  BY <1>1, <1>2, Totals
<1>6. QED
  BY <1>3, <1>4, <1>5

\* Rows that claim no more for the orders they know: no more is said to be
\* claimed, and the same orders have none.
LEMMA LessClaimed ==
  ASSUME NEW o, NEW w, NEW v, Books(o, w), Books(o, v), NEW z, NEW r,
         \A m \in Ids : /\ v[m].status = "absent" <=> w[m].status = "absent"
                        /\ Claimed(o, v, m) <= Claimed(o, w, m)
  PROVE  /\ Total(Claims(o, v, r)) <= Total(Claims(o, w, r))
         /\ Total(Strays(o, v, z, r)) = Total(Strays(o, w, z, r))
<1>1. \A m \in Ids : /\ Claims(o, v, r)[m] <= Claims(o, w, r)[m]
                     /\ Strays(o, v, z, r)[m] = Strays(o, w, z, r)[m]
  BY DEF Claims, Strays
<1>2. \A m \in Ids : /\ Claims(o, w, r)[m] \in Nat /\ Claims(o, v, r)[m] \in Nat
                     /\ Strays(o, w, z, r)[m] \in Nat /\ Strays(o, v, z, r)[m] \in Nat
  BY Counted
<1>3. Total(Claims(o, v, r)) <= Total(Claims(o, w, r))
  BY <1>1, <1>2, Totals
<1>4. Total(Strays(o, v, z, r)) = Total(Strays(o, w, z, r))
  BY <1>1, <1>2, Totals
<1>5. QED
  BY <1>3, <1>4

\* Sales, orders off the book and rows that hear of them leave the accounts in
\* order: each of them can but lower what is claimed, astray or on offer.
LEMMA Lowering ==
  ASSUME Ledger, Sound, Books(order', row'),
         UNCHANGED <<failed, mistaken, pass, step, learned, settled, ahead>>,
         \A m \in Ids : /\ order'[m].rung = order[m].rung
                        /\ order'[m].size = order[m].size
                        /\ order'[m].state = "none" <=> order[m].state = "none"
                        /\ row'[m].status = "absent" <=> row[m].status = "absent",
         \A r \in Rungs : Total(Claims(order', row', r)) <= Total(Claims(order, row, r)),
         \A z \in 0 .. MaxExits :
            /\ \A r \in Rungs : Total(Strays(order', row', z, r))
                                   <= Total(Strays(order, row, z, r))
            /\ Total(Offers(order', z)) <= Total(Offers(order, z))
  PROVE  Ledger'
<1>1. /\ pass.lacking \in [Rungs -> Int] /\ pass.available \in Int
      /\ failed \in [Rungs -> Nat] /\ learned \in Nat /\ Books(order, row)
      /\ Doubts' = Doubts /\ Cap' = Cap /\ Cap \in Int
      /\ \A r \in Rungs : Doubts[r] \in Nat
  BY DoubtsAndCap, SameDoubts DEF Sound, Going, Flow
<1>2. Covered(order', row', failed', pass', learned')
  <2>1. ASSUME NEW r \in Rungs
        PROVE  /\ Told(order', row', failed, r) <= learned * Share[r]
               /\ r \in pass.todo
                    => Told(order', row', failed, r) + pass.lacking[r]
                          <= learned * Share[r]
    <3>1. Told(order', row', failed, r) <= Told(order, row, failed, r)
      <4>1. /\ Total(Claims(order', row', r)) \in Nat
            /\ Total(Claims(order, row, r)) \in Nat /\ failed[r] \in Nat
        BY <1>1, ToldIsNumber
      <4>2. QED
        BY <4>1 DEF Told
    <3>2. learned * Share[r] \in Int
      BY <1>1, Sizes
    <3>3. /\ Told(order', row', failed, r) \in Int
          /\ Told(order, row, failed, r) \in Int /\ pass.lacking[r] \in Int
      BY <1>1, ToldIsNumber
    <3>4. /\ Told(order, row, failed, r) <= learned * Share[r]
          /\ r \in pass.todo
               => Told(order, row, failed, r) + pass.lacking[r] <= learned * Share[r]
      BY DEF Ledger, Covered
    <3>5. QED
      BY <3>1, <3>2, <3>3, <3>4
  <2>2. QED
    BY <2>1 DEF Covered
<1>3. PICK z \in 0 .. MaxExits :
         /\ z # 0 => step = "reconcile" /\ Newest(order, row, z, Rung, Size)
         /\ Accounted(order, row, Doubts, z, pass.available, Cap)
  BY LedgerParts
<1>4. Accounted(order', row', Doubts', z, pass'.available, Cap')
  <2>1. ASSUME NEW r \in Rungs PROVE Total(Strays(order', row', z, r)) <= Doubts[r]
    <3>1. Total(Strays(order', row', z, r)) \in Nat /\ Total(Strays(order, row, z, r)) \in Nat
      BY <1>1, Counted
    <3>2. Total(Strays(order, row, z, r)) <= Doubts[r] /\ Doubts[r] \in Nat
      BY <1>1, <1>3 DEF Accounted
    <3>3. QED
      BY <3>1, <3>2
  <2>2. ASSUME \A r \in Rungs : Doubts[r] = 0
        PROVE  Total(Offers(order', z)) + pass.available <= Cap
    <3>1. Total(Offers(order', z)) \in Nat /\ Total(Offers(order, z)) \in Nat
      BY <1>1, Counted
    <3>2. Total(Offers(order, z)) + pass.available <= Cap
      BY <1>3, <2>2 DEF Accounted
    <3>3. Total(Offers(order', z)) <= Total(Offers(order, z))
      OBVIOUS
    <3>4. QED
      BY <1>1, <3>1, <3>2, <3>3
  <2>3. QED
    BY <1>1, <2>1, <2>2 DEF Accounted
<1>5. Rung' = Rung /\ Size' = Size
  BY DEF Rung, Size
<1>6. z # 0 => step' = "reconcile" /\ Newest(order', row', z, Rung', Size')
  BY <1>3, <1>5 DEF Newest
<1>7. QED
  BY <1>2, <1>4, <1>6, LedgerParts

\* A pass that goes on after a rung whose claims grew by no more than the size
\* submitted stays within the shares.
LEMMA Proceeding ==
  ASSUME Covered(order, row, failed, pass, learned),
         Books(order, row), Flow(failed, step, pass), Going(pass, step),
         learned \in Nat, learned' = learned,
         step # "idle", NEW left \in Int, GoOn(left),
         Books(order', row'), failed' \in [Rungs -> Nat],
         \A r \in Rungs : Told(order', row', failed', r)
            <= Told(order, row, failed, r) + (IF r = Rung THEN Size ELSE 0)
  PROVE  Covered(order', row', failed', pass', learned')
<1>1. /\ pass'.todo \subseteq pass.todo \ {Rung}
      /\ \A r \in pass'.todo : pass'.lacking[r] = pass.lacking[r]
  BY Onwards
<1>2. /\ Rung \in pass.todo /\ Rung \in Rungs
      /\ Size \in Nat /\ Size <= pass.lacking[Rung]
      /\ pass.lacking \in [Rungs -> Int]
  BY Upcoming
<1>3. failed \in [Rungs -> Nat]
  BY DEF Flow
<1>4. ASSUME NEW r \in Rungs
      PROVE  /\ Told(order', row', failed', r) <= learned * Share[r]
             /\ r \in pass'.todo
                  => Told(order', row', failed', r) + pass'.lacking[r]
                        <= learned * Share[r]
  <2>1. learned * Share[r] \in Int
    BY Sizes
  <2>2. /\ Told(order', row', failed', r) \in Int
        /\ Told(order, row, failed, r) \in Int /\ pass.lacking[r] \in Int
    BY <1>2, <1>3, ToldIsNumber
  <2>3. /\ Told(order, row, failed, r) <= learned * Share[r]
        /\ r \in pass.todo
             => Told(order, row, failed, r) + pass.lacking[r] <= learned * Share[r]
    BY DEF Covered
  <2>4. Told(order', row', failed', r)
           <= Told(order, row, failed, r) + (IF r = Rung THEN Size ELSE 0)
    OBVIOUS
  <2>5. CASE r = Rung
    <3>1. Told(order', row', failed', r) <= Told(order, row, failed, r) + Size
      BY <2>4, <2>5
    <3>2. r \notin pass'.todo /\ r \in pass.todo /\ Size <= pass.lacking[r]
      BY <1>1, <1>2, <2>5
    <3>3. QED
      BY <1>2, <2>1, <2>2, <2>3, <3>1, <3>2
  <2>6. CASE r # Rung
    <3>1. Told(order', row', failed', r) <= Told(order, row, failed, r)
      BY <2>2, <2>4, <2>6
    <3>2. r \in pass'.todo => r \in pass.todo /\ pass'.lacking[r] = pass.lacking[r]
      BY <1>1
    <3>3. QED
      BY <2>1, <2>2, <2>3, <3>1, <3>2
  <2>7. QED
    BY <2>5, <2>6
<1>5. QED
  BY <1>4 DEF Covered

\* With nothing in doubt, the orders are exposed for no more than what the rows
\* call sold and reserve.
LEMMA Backed ==
  ASSUME Books(order, row), Chain(order, row),
         \A r \in Rungs : Total(Strays(order, row, 0, r)) <= 0
  PROVE  Total(Offers(order, 0)) <= KnownSold + ReservedSize
<1> DEFINE U == {n \in Ids : row[n].status = "active"}
           v == [n \in Ids |-> row[n].matched]
           x == [n \in Ids |-> order[n].size - row[n].matched]
           w == [n \in Ids |-> IF row[n].status = "active"
                               THEN order[n].size - row[n].matched ELSE 0]
           u == [n \in Ids |-> v[n] + w[n]]
<1>1. \A n \in Ids : /\ order[n].size \in Nat /\ order[n].matched \in Nat
                     /\ row[n].matched \in Nat
                     /\ row[n].matched <= order[n].size
                     /\ order[n].matched <= order[n].size
  BY DEF Books
<1>2. /\ \A n \in Ids : v[n] \in Nat /\ w[n] \in Nat /\ u[n] \in Nat /\ u[n] = v[n] + w[n]
      /\ \A n \in U : w[n] \in Int /\ w[n] = x[n]
      /\ \A n \in Ids \ U : w[n] = 0
  BY <1>1
<1>3. U \in SUBSET Ids /\ IsFiniteSet(U)
  BY Sizes, FS_Subset
<1>4. KnownSold = Total(v) /\ ReservedSize = SumFunctionOnSet(x, U)
  BY DEF KnownSold, ReservedSize, Total
<1>5. \A n \in Ids : Offers(order, 0)[n] \in Nat /\ Offers(order, 0)[n] <= u[n]
  <2>1. ASSUME NEW n \in Ids PROVE Offers(order, 0)[n] <= u[n]
    <3>1. Offers(order, 0)[n] = Out(order, n) /\ Out(order, n) \in Nat
      <4>1. Out(order, n) \in Nat
        BY Counted
      <4>2. n # 0
        BY LadderAssumption DEF Ids
      <4>3. QED
        BY <4>1, <4>2 DEF Offers
    <3>2. CASE row[n].status = "active"
      <4>1. u[n] = order[n].size
        BY <1>1, <3>2
      <4>2. QED
        BY <3>1, <4>1, Counted
    <3>3. CASE row[n].status = "over"
      <4>1. u[n] = row[n].matched
        BY <1>1, <3>3
      <4>2. QED
        BY <3>1, <3>3, <4>1 DEF Chain
    <3>4. CASE row[n].status = "absent" /\ order[n].state = "none"
      <4>1. Out(order, n) = 0
        BY <3>4 DEF Chain, NoOrder, Out
      <4>2. QED
        BY <1>2, <3>1, <4>1
    <3>5. CASE row[n].status = "absent" /\ order[n].state # "none"
      <4> DEFINE r == order[n].rung
      <4>1. r \in Rungs
        BY <3>5 DEF Chain
      <4>2. Strays(order, row, 0, r)[n] = Out(order, n)
        BY <3>5, LadderAssumption DEF Strays, Ids
      <4>3. Strays(order, row, 0, r)[n] <= Total(Strays(order, row, 0, r))
        <5>1. \A m \in Ids : Strays(order, row, 0, r)[m] \in Nat
          BY Counted
        <5>2. QED
          BY <5>1, Sizes, SumPart DEF Total
      <4>4. Total(Strays(order, row, 0, r)) <= 0 /\ Total(Strays(order, row, 0, r)) \in Nat
        BY <4>1, Counted
      <4>5. Out(order, n) = 0
        BY <3>1, <4>2, <4>3, <4>4
      <4>6. QED
        BY <1>2, <3>1, <4>5
    <3>6. row[n].status \in {"absent", "active", "over"}
      BY DEF Books
    <3>7. QED
      BY <3>2, <3>3, <3>4, <3>5, <3>6
  <2>2. \A n \in Ids : Offers(order, 0)[n] \in Nat
    BY Counted
  <2>3. QED
    BY <2>1, <2>2
<1> HIDE DEF U, v, w, x, u
<1>6. Total(Offers(order, 0)) <= Total(u)
  BY <1>2, <1>5, Totals
<1>7. Total(u) = Total(v) + Total(w)
  <2>1. \A n \in Ids : v[n] \in Int /\ w[n] \in Int /\ u[n] = v[n] + w[n]
    BY <1>2
  <2>2. SumFunctionOnSet(u, Ids) = SumFunctionOnSet(v, Ids) + SumFunctionOnSet(w, Ids)
    <3>1. IsFiniteSet(Ids)
      BY Sizes
    <3>2. QED
      BY ONLY <2>1, <3>1, SumPlus
  <2>3. QED
    BY <2>2 DEF Total
<1>8. Total(w) = SumFunctionOnSet(x, U)
  <2>1. \A n \in Ids : w[n] \in Int
    BY <1>2
  <2>2. SumFunctionOnSet(w, Ids) = SumFunctionOnSet(w, U)
    BY <1>2, <1>3, <2>1, Sizes, SumWithin
  <2>3. SumFunctionOnSet(w, U) = SumFunctionOnSet(x, U)
    BY <1>2, <1>3, SumSame
  <2>4. QED
    BY <2>2, <2>3 DEF Total
<1>9. QED
  BY <1>4, <1>6, <1>7, <1>8

\* A new order without a row changes no total as long as it is left out.
LEMMA Joining ==
  ASSUME NEW o, NEW p, NEW w, Books(o, w), Books(p, w),
         NEW n \in Ids, o[n] = NoOrder, w[n].status = "absent",
         \A m \in Ids : m # n => p[m] = o[m], NEW r \in Rungs
  PROVE  /\ Total(Claims(p, w, r)) = Total(Claims(o, w, r))
         /\ Total(Strays(p, w, n, r)) = Total(Strays(o, w, 0, r))
         /\ Total(Offers(p, n)) = Total(Offers(o, 0))
<1>1. o[n].rung = 0 /\ r # 0 /\ Out(o, n) = 0 /\ n # 0 /\ \A m \in Ids : m # 0
  BY Sizes, LadderAssumption DEF NoOrder, Out, Ids
<1>2. ASSUME NEW m \in Ids
      PROVE  /\ Claims(p, w, r)[m] = Claims(o, w, r)[m]
             /\ Strays(p, w, n, r)[m] = Strays(o, w, 0, r)[m]
             /\ Offers(p, n)[m] = Offers(o, 0)[m]
  <2>1. CASE m = n
    BY <1>1, <2>1 DEF Claims, Strays, Offers
  <2>2. CASE m # n
    BY <1>1, <2>2 DEF Claims, Claimed, Strays, Offers, Out
  <2>3. QED
    BY <2>1, <2>2
<1>3. \A m \in Ids : /\ Claims(o, w, r)[m] \in Nat /\ Claims(p, w, r)[m] \in Nat
                     /\ Strays(o, w, 0, r)[m] \in Nat /\ Strays(p, w, n, r)[m] \in Nat
                     /\ Offers(o, 0)[m] \in Nat /\ Offers(p, n)[m] \in Nat
  BY Counted
<1>4. Total(Claims(p, w, r)) = Total(Claims(o, w, r))
  BY <1>2, <1>3, Totals
<1>5. Total(Strays(p, w, n, r)) = Total(Strays(o, w, 0, r))
  BY <1>2, <1>3, Totals
<1>6. Total(Offers(p, n)) = Total(Offers(o, 0))
  BY <1>2, <1>3, Totals
<1>7. QED
  BY <1>4, <1>5, <1>6

\* A row written for an order claims its size at most, and the order is no stray.
LEMMA WrittenDown ==
  ASSUME NEW o, NEW w, NEW v, Books(o, w), Books(o, v), NEW n \in Ids,
         v[n].status # "absent",
         \A m \in Ids : m # n => v[m] = w[m], NEW r \in Rungs
  PROVE  /\ Total(Claims(o, v, r))
               <= Total(Claims(o, w, r)) + (IF r = o[n].rung THEN o[n].size ELSE 0)
         /\ Total(Strays(o, v, 0, r)) = Total(Strays(o, w, n, r))
         /\ Total(Strays(o, w, n, r)) <= Total(Strays(o, w, 0, r))
<1>1. n # 0 /\ \A m \in Ids : m # 0
  BY LadderAssumption DEF Ids
<1>2. \A m \in Ids : Strays(o, v, 0, r)[m] = Strays(o, w, n, r)[m]
  BY <1>1 DEF Strays
<1>3. \A m \in Ids : /\ Claims(o, w, r)[m] \in Nat /\ Claims(o, v, r)[m] \in Nat
                     /\ Strays(o, v, 0, r)[m] \in Nat /\ Strays(o, w, n, r)[m] \in Nat
                     /\ Strays(o, w, 0, r)[m] \in Nat
  BY Counted
<1>4. \A m \in Ids \ {n} : Claims(o, v, r)[m] = Claims(o, w, r)[m]
  BY DEF Claims, Claimed
<1>5. Total(Claims(o, v, r)) = Total(Claims(o, w, r)) - Claims(o, w, r)[n]
                                  + Claims(o, v, r)[n]
  BY <1>3, <1>4, Totals
<1>6. Claims(o, v, r)[n] <= (IF r = o[n].rung THEN o[n].size ELSE 0)
  <2>1. v[n].matched \in Nat /\ o[n].size \in Nat /\ v[n].matched <= o[n].size
    BY DEF Books
  <2>2. Claimed(o, v, n) <= o[n].size
    BY <2>1 DEF Claimed
  <2>3. QED
    BY <2>2 DEF Claims
<1>7. /\ Total(Claims(o, v, r)) \in Int /\ Total(Claims(o, w, r)) \in Int
  BY <1>3, Totals
<1>8. (IF r = o[n].rung THEN o[n].size ELSE 0) \in Int
  BY DEF Books
<1> DEFINE top == IF r = o[n].rung THEN o[n].size ELSE 0
<1>9. Total(Claims(o, v, r)) <= Total(Claims(o, w, r)) + top
  <2>1. top \in Int /\ Claims(o, v, r)[n] <= top
    BY <1>6, <1>8
  <2> HIDE DEF top
  <2>2. Claims(o, w, r)[n] \in Nat /\ Claims(o, v, r)[n] \in Nat
    BY <1>3
  <2>3. QED
    BY <1>5, <1>7, <2>1, <2>2
<1>10. Total(Strays(o, v, 0, r)) = Total(Strays(o, w, n, r))
  BY <1>2, <1>3, Totals
<1>11. Total(Strays(o, w, n, r)) <= Total(Strays(o, w, 0, r))
  <2>1. \A m \in Ids : Strays(o, w, n, r)[m] <= Strays(o, w, 0, r)[m]
    BY <1>1, <1>3 DEF Strays
  <2>2. QED
    BY <1>3, <2>1, Totals
<1>12. QED
  BY <1>9, <1>10, <1>11

\* What one order adds to the strays and to the offers.
LEMMA LeftOut ==
  ASSUME NEW o, NEW w, Books(o, w), NEW z \in Ids, NEW r \in Rungs
  PROVE  /\ Total(Offers(o, 0)) = Total(Offers(o, z)) + Out(o, z)
         /\ Total(Strays(o, w, 0, r))
               <= Total(Strays(o, w, z, r)) + (IF r = o[z].rung THEN Out(o, z) ELSE 0)
         /\ r = o[z].rung /\ w[z].status = "absent" =>
               Total(Strays(o, w, 0, r)) = Total(Strays(o, w, z, r)) + Out(o, z)
<1>1. z # 0 /\ \A m \in Ids : m # 0
  BY LadderAssumption DEF Ids
<1>2. \A m \in Ids : /\ Strays(o, w, z, r)[m] \in Nat /\ Strays(o, w, 0, r)[m] \in Nat
                     /\ Offers(o, z)[m] \in Nat /\ Offers(o, 0)[m] \in Nat
  BY Counted
<1>3. \A m \in Ids \ {z} : /\ Strays(o, w, 0, r)[m] = Strays(o, w, z, r)[m]
                           /\ Offers(o, 0)[m] = Offers(o, z)[m]
  BY <1>1 DEF Strays, Offers
<1>4. Total(Offers(o, 0)) = Total(Offers(o, z)) - Offers(o, z)[z] + Offers(o, 0)[z]
  BY <1>2, <1>3, Totals
<1>5. Total(Strays(o, w, 0, r)) = Total(Strays(o, w, z, r)) - Strays(o, w, z, r)[z]
                                     + Strays(o, w, 0, r)[z]
  BY <1>2, <1>3, Totals
<1>6. /\ Offers(o, z)[z] = 0 /\ Offers(o, 0)[z] = Out(o, z)
      /\ Strays(o, w, z, r)[z] = 0
      /\ Strays(o, w, 0, r)[z] <= (IF r = o[z].rung THEN Out(o, z) ELSE 0)
      /\ r = o[z].rung /\ w[z].status = "absent" => Strays(o, w, 0, r)[z] = Out(o, z)
  <2>1. Out(o, z) \in Nat
    BY Counted
  <2>2. QED
    BY <1>1, <2>1 DEF Offers, Strays
<1>7. /\ Total(Offers(o, z)) \in Int /\ Total(Strays(o, w, z, r)) \in Int
      /\ Out(o, z) \in Nat
  BY Counted
<1>8. Total(Strays(o, w, 0, r)) = Total(Strays(o, w, z, r)) + Strays(o, w, 0, r)[z]
  BY <1>2, <1>5, <1>6, <1>7
<1>9. Total(Offers(o, 0)) = Total(Offers(o, z)) + Out(o, z)
  BY <1>4, <1>6, <1>7
<1>10. r = o[z].rung /\ w[z].status = "absent" =>
          Total(Strays(o, w, 0, r)) = Total(Strays(o, w, z, r)) + Out(o, z)
  BY <1>6, <1>8
<1>11. QED
  <2> DEFINE top == IF r = o[z].rung THEN Out(o, z) ELSE 0
  <2>1. top \in Int /\ Strays(o, w, 0, r)[z] <= top /\ Strays(o, w, 0, r)[z] \in Int
    BY <1>2, <1>6, <1>7
  <2> HIDE DEF top
  <2>2. Total(Strays(o, w, 0, r)) <= Total(Strays(o, w, z, r)) + top
    BY <1>7, <1>8, <2>1
  <2>3. QED
    BY <1>9, <1>10, <2>2 DEF top

\* A pass that begins has the lacks and the balance of the moment.
LEMMA LedgerStarting ==
  ASSUME Sound, Ledger, NEW lots \in Nat, learned <= lots, BeginPass(lots)
  PROVE  Ledger'
<1>1. /\ UNCHANGED <<filled, settled, order, paid, row, failed, mistaken>>
      /\ learned' = lots /\ step = "idle" /\ pass = Idle
      /\ ahead' \in Nat /\ ahead <= ahead'
      /\ \/ pass' = pass /\ step' = "idle"
         \/ /\ step' = "submit"
            /\ \A r \in pass'.todo :
                  pass'.lacking[r] = lots * Share[r] - Told(order, row, failed, r)
            /\ pass'.available = settled * Parts - paid - ReservedSize
            /\ KnownSold - paid <= ahead'
  BY Starting DEF Sound
<1>2. CASE pass' = pass /\ step' = "idle"
  <2>1. /\ learned' \in Nat /\ learned <= learned' /\ settled' \in Nat
        /\ settled <= settled' /\ ahead' \in Nat /\ ahead <= ahead'
        /\ UNCHANGED <<order, row, failed, mistaken, pass, step>>
    BY <1>1, <1>2 DEF Sound
  <2>2. QED
    BY <2>1, Widening
<1>3. CASE /\ step' = "submit"
           /\ \A r \in pass'.todo :
                 pass'.lacking[r] = lots * Share[r] - Told(order, row, failed, r)
           /\ pass'.available = settled * Parts - paid - ReservedSize
           /\ KnownSold - paid <= ahead'
  <2>1. /\ failed \in [Rungs -> Nat] /\ settled \in Nat /\ Books(order, row)
        /\ mistaken \in [Rungs -> Nat] /\ paid \in Nat /\ ahead \in Nat
    BY DEF Sound, Flow
  <2>2. Covered(order, row, failed, pass', lots)
    <3>1. ASSUME NEW r \in Rungs
          PROVE  /\ Told(order, row, failed, r) <= lots * Share[r]
                 /\ r \in pass'.todo
                      => Told(order, row, failed, r) + pass'.lacking[r]
                            <= lots * Share[r]
      <4>1. /\ learned * Share[r] <= lots * Share[r]
            /\ learned * Share[r] \in Int /\ lots * Share[r] \in Int
        BY MoreTimes, Sizes DEF Sound
      <4>2. Told(order, row, failed, r) \in Nat
        BY <2>1, ToldIsNumber
      <4>3. Told(order, row, failed, r) <= learned * Share[r]
        BY DEF Ledger, Covered
      <4>4. Told(order, row, failed, r) <= lots * Share[r]
        BY <4>1, <4>2, <4>3
      <4>5. r \in pass'.todo
               => Told(order, row, failed, r) + pass'.lacking[r] <= lots * Share[r]
        BY <1>3, <4>1, <4>2
      <4>6. QED
        BY <4>4, <4>5
    <3>2. QED
      BY <3>1 DEF Covered
  <2>3. \A r \in Rungs : Total(Strays(order, row, 0, r)) <= Doubts[r]
    <3>1. PICK z \in 0 .. MaxExits :
             /\ z # 0 => step = "reconcile" /\ Newest(order, row, z, Rung, Size)
             /\ Accounted(order, row, Doubts, z, pass.available, Cap)
      BY LedgerParts
    <3>2. z = 0
      BY <1>1, <3>1
    <3>3. QED
      BY <3>1, <3>2 DEF Accounted
  <2>4. Doubts' = Doubts
    BY <1>1 DEF Doubts
  <2>5. Cap' = settled * Parts + ahead' /\ settled * Parts \in Int
    BY <1>1, <2>1, Sizes DEF Cap
  <2>6. ASSUME \A r \in Rungs : Doubts[r] = 0
        PROVE  Total(Offers(order, 0)) + pass'.available <= Cap'
    <3>1. Total(Offers(order, 0)) <= KnownSold + ReservedSize
      <4>1. \A r \in Rungs : Total(Strays(order, row, 0, r)) <= 0
        BY <2>3, <2>6
      <4>2. QED
        BY <4>1, Backed DEF Sound
    <3>2. Total(Offers(order, 0)) \in Int /\ KnownSold \in Int /\ ReservedSize \in Int
      <4>1. Total(Offers(order, 0)) \in Nat
        BY <2>1, Counted
      <4>2. QED
        BY <2>1, <4>1, Reserved
    <3> HIDE DEF Cap
    <3>3. QED
      BY <1>1, <1>3, <2>1, <2>5, <3>1, <3>2
  <2>7. Accounted(order, row, Doubts, 0, pass'.available, Cap')
    BY <2>3, <2>6 DEF Accounted
  <2>8. 0 \in 0 .. MaxExits
    BY Sizes
  <2>9. QED
    BY <1>1, <2>2, <2>4, <2>7, <2>8, LedgerParts
<1>4. QED
  BY <1>1, <1>2, <1>3

\* A submission that is answered: the order and its row come together.
LEMMA LedgerPlaced ==
  ASSUME Sound, Ledger, Shape', NEW n \in Ids, Placed(n)
  PROVE  Ledger'
<1>1. PICK units \in AtOnce :
         /\ step = "submit" /\ GoOn(pass.available - Size) /\ Accept(n, units)
         /\ Write(n, IF units > 0 THEN Size ELSE 0)
         /\ UNCHANGED <<filled, settled, learned, failed, mistaken, ahead>>
  BY DEF Placed, entry, noted
<1>2. /\ Books(order, row) /\ Chain(order, row) /\ Going(pass, step)
      /\ failed \in [Rungs -> Nat] /\ step # "idle"
      /\ Books(order', row') /\ failed' \in [Rungs -> Nat]
  BY <1>1, ShapeIsSound DEF Sound, Flow
<1>3. /\ Books(order', row) /\ Chain(order', row)
      /\ order[n] = NoOrder /\ row[n].status = "absent"
      /\ order'[n].rung = Rung /\ order'[n].size = Size
      /\ Out(order', n) = Size
      /\ \A m \in Ids : m # n => order'[m] = order[m]
  BY <1>1, <1>2, Accepting
<1>4. Size \in Nat /\ pass.available \in Int /\ Size <= pass.available
  BY <1>2, Upcoming
<1>5. /\ row'[n].status # "absent" /\ \A m \in Ids : m # n => row'[m] = row[m]
  BY <1>1, <1>2 DEF Write, Books
<1>6. ASSUME NEW r \in Rungs
      PROVE  /\ Total(Claims(order', row', r))
                   <= Total(Claims(order, row, r)) + (IF r = Rung THEN Size ELSE 0)
             /\ Total(Strays(order', row', 0, r)) = Total(Strays(order, row, 0, r))
  <2>1. /\ Total(Claims(order', row, r)) = Total(Claims(order, row, r))
        /\ Total(Strays(order', row, n, r)) = Total(Strays(order, row, 0, r))
    BY <1>2, <1>3, Joining
  <2>2. /\ Total(Claims(order', row', r))
              <= Total(Claims(order', row, r))
                    + (IF r = order'[n].rung THEN order'[n].size ELSE 0)
        /\ Total(Strays(order', row', 0, r)) = Total(Strays(order', row, n, r))
    BY <1>2, <1>3, <1>5, WrittenDown
  <2>3. QED
    BY <1>3, <2>1, <2>2
<1>7. Covered(order', row', failed', pass', learned')
  <2>1. ASSUME NEW r \in Rungs
        PROVE  Told(order', row', failed', r)
                  <= Told(order, row, failed, r) + (IF r = Rung THEN Size ELSE 0)
    <3> DEFINE top == IF r = Rung THEN Size ELSE 0
    <3>1. /\ Total(Claims(order', row', r)) \in Nat /\ Total(Claims(order, row, r)) \in Nat
          /\ failed[r] \in Nat /\ top \in Nat
      BY <1>2, <1>4, ToldIsNumber
    <3>2. Total(Claims(order', row', r)) <= Total(Claims(order, row, r)) + top
      BY <1>6
    <3> HIDE DEF top
    <3>3. Told(order', row', failed', r) <= Told(order, row, failed, r) + top
      BY <1>1, <3>1, <3>2 DEF Told
    <3>4. QED
      BY <3>3 DEF top
  <2>2. pass.available - Size \in Int
    BY <1>4
  <2>3. QED
    BY <1>1, <1>2, <2>1, <2>2, Proceeding DEF Sound, Ledger
<1>8. Accounted(order, row, Doubts, 0, pass.available, Cap)
  BY <1>1, LedgerParts
<1>9. Doubts' = Doubts /\ Cap' = Cap /\ Cap \in Int
  BY <1>1, <1>2, DoubtsAndCap, SameDoubts DEF Sound
<1>10. Accounted(order', row', Doubts, 0, pass'.available, Cap)
  <2>1. ASSUME NEW r \in Rungs PROVE Total(Strays(order', row', 0, r)) <= Doubts[r]
    BY <1>6, <1>8 DEF Accounted
  <2>2. ASSUME \A r \in Rungs : Doubts[r] = 0
        PROVE  Total(Offers(order', 0)) + pass'.available <= Cap
    <3>1. Total(Offers(order, 0)) + pass.available <= Cap
      BY <1>8, <2>2 DEF Accounted
    <3>2. Total(Offers(order', n)) = Total(Offers(order, 0))
      <4>1. PICK r : r \in Rungs
        BY <1>2, Upcoming
      <4>2. QED
        BY <1>2, <1>3, <4>1, Joining
    <3>3. Total(Offers(order', 0)) = Total(Offers(order', n)) + Out(order', n)
      <4>1. PICK r : r \in Rungs
        BY <1>2, Upcoming
      <4>2. QED
        BY <1>2, <4>1, LeftOut
    <3>4. pass'.available <= pass.available - Size /\ pass'.available \in Int
      <4>1. pass.available - Size \in Int /\ pass.available - Size >= 0
        BY <1>4
      <4>2. QED
        BY <1>1, <1>2, <4>1, Onwards
    <3>5. Total(Offers(order, 0)) \in Nat
      BY <1>2, Counted
    <3>6. QED
      BY <1>3, <1>4, <1>9, <3>1, <3>2, <3>3, <3>4, <3>5
  <2>3. QED
    BY <2>1, <2>2 DEF Accounted
<1>11. 0 \in 0 .. MaxExits
  BY Sizes
<1>12. QED
  BY <1>7, <1>9, <1>10, <1>11, LedgerParts

\* A submission that raises: what the venue may have taken, or may take yet, is the
\* order that the pass is still to learn of.
LEMMA LedgerRaised ==
  ASSUME Sound, Ledger, Shape', Raised
  PROVE  Ledger'
<1>1. /\ step = "submit" /\ step' = "reconcile"
      /\ UNCHANGED <<filled, settled, learned, row, failed, pass, mistaken, ahead>>
      /\ \/ UNCHANGED order
         \/ \E n \in Ids : Enter(n, 0, "late") \/ \E units \in AtOnce : Accept(n, units)
  BY DEF Raised, entry, rows
<1>2. /\ Books(order, row) /\ Chain(order, row) /\ Going(pass, step)
      /\ failed \in [Rungs -> Nat] /\ step # "idle"
      /\ Books(order', row)
  BY <1>1, ShapeIsSound DEF Sound, Flow
<1>3. Accounted(order, row, Doubts, 0, pass.available, Cap)
  BY <1>1, LedgerParts
<1>4. Covered(order, row, failed, pass, learned)
  BY DEF Ledger
<1>5. Doubts' = Doubts /\ Cap' = Cap
  BY <1>1, SameDoubts
<1>6. CASE UNCHANGED order
  <2>1. 0 \in 0 .. MaxExits
    BY Sizes
  <2>2. QED
    BY <1>1, <1>3, <1>4, <1>5, <1>6, <2>1, LedgerParts
<1>7. ASSUME NEW n \in Ids,
             Enter(n, 0, "late") \/ \E units \in AtOnce : Accept(n, units)
      PROVE  Ledger'
  <2>1. /\ order[n] = NoOrder /\ row[n].status = "absent"
        /\ order'[n].rung = Rung /\ order'[n].size = Size /\ order'[n].state # "none"
        /\ \A m \in Ids : m # n => order'[m] = order[m]
    <3>1. CASE Enter(n, 0, "late")
      <4>1. 0 \in Nat /\ 0 <= Size
        BY <1>2, Upcoming
      <4>2. order'[n].state = "late"
        BY <1>2, <3>1, <4>1, Entering
      <4>3. QED
        BY <1>2, <3>1, <4>1, <4>2, Entering
    <3>2. ASSUME NEW units \in AtOnce, Accept(n, units)
          PROVE  /\ order[n] = NoOrder /\ row[n].status = "absent"
                 /\ order'[n].rung = Rung /\ order'[n].size = Size
                 /\ order'[n].state # "none"
                 /\ \A m \in Ids : m # n => order'[m] = order[m]
      BY <1>2, <3>2, Accepting
    <3>3. QED
      BY <1>7, <3>1, <3>2
  <2>2. ASSUME NEW r \in Rungs
        PROVE  /\ Total(Claims(order', row, r)) = Total(Claims(order, row, r))
               /\ Total(Strays(order', row, n, r)) = Total(Strays(order, row, 0, r))
               /\ Total(Offers(order', n)) = Total(Offers(order, 0))
    BY <1>2, <2>1, Joining
  <2>3. Covered(order', row', failed', pass', learned')
    BY <1>1, <1>4, <2>2 DEF Covered, Told
  <2>4. Total(Offers(order', n)) = Total(Offers(order, 0))
    <3>1. PICK r : r \in Rungs
      BY <1>2, Upcoming
    <3>2. QED
      BY <2>2, <3>1
  <2>5. Accounted(order', row', Doubts', n, pass'.available, Cap')
    BY <1>1, <1>3, <1>5, <2>2, <2>4 DEF Accounted
  <2>6. Rung' = Rung /\ Size' = Size
    BY <1>1 DEF Rung, Size
  <2>7. Newest(order', row', n, Rung', Size')
    BY <1>1, <2>1, <2>6 DEF Newest
  <2>8. n \in 0 .. MaxExits
    BY Sizes DEF Ids
  <2>9. QED
    BY <1>1, <2>3, <2>5, <2>7, <2>8, LedgerParts
<1>8. QED
  BY <1>1, <1>6, <1>7

\* Whatever the order is that a pass was still to learn of, it is no more than the
\* size submitted that may be astray besides.
LEMMA LeftOver ==
  ASSUME Books(order, row), Going(pass, step), NEW z \in 0 .. MaxExits, NEW r \in Rungs,
         z # 0 => step # "idle" /\ Newest(order, row, z, Rung, Size)
  PROVE  Total(Strays(order, row, 0, r))
            <= Total(Strays(order, row, z, r))
                  + (IF z # 0 /\ r = Rung THEN Size ELSE 0)
<1>1. /\ Total(Strays(order, row, z, r)) \in Nat
      /\ Total(Strays(order, row, 0, r)) \in Nat
  BY Counted
<1>2. CASE z = 0
  BY <1>1, <1>2
<1>3. CASE z # 0
  <2>1. z \in Ids /\ order[z].rung = Rung /\ order[z].size = Size /\ step # "idle"
    BY <1>3 DEF Newest
  <2>2. Total(Strays(order, row, 0, r))
           <= Total(Strays(order, row, z, r))
                 + (IF r = order[z].rung THEN Out(order, z) ELSE 0)
    BY <2>1, LeftOut
  <2>3. Out(order, z) \in Nat /\ Out(order, z) <= Size
    BY <2>1, Counted
  <2>4. Size \in Nat
    BY <2>1, Upcoming
  <2>5. QED
    BY <1>1, <1>3, <2>1, <2>2, <2>3, <2>4
<1>4. QED
  BY <1>2, <1>3

\* The one open order that looks like the one submitted is taken for it.  If it had
\* its row, what was submitted is in doubt; if it had none, either it is the one
\* that the pass was still to learn of, or as much is astray either way.
LEMMA LedgerIdentified ==
  ASSUME Sound, Ledger, Shape', NEW n \in Ids, Identified(n)
  PROVE  Ledger'
<1>1. /\ step = "reconcile" /\ Write(n, 0) /\ GoOn(pass.available - Size)
      /\ UNCHANGED <<filled, settled, learned, order, failed, ahead>>
      /\ mistaken' = IF row[n].status = "absent" THEN mistaken
                     ELSE [mistaken EXCEPT ![Rung] = @ + Size]
      /\ \E shown \in SUBSET Resting : Matches(shown) = {n}
  BY DEF Identified, entry
<1>2. /\ Books(order, row) /\ Chain(order, row) /\ Going(pass, step)
      /\ failed \in [Rungs -> Nat] /\ step # "idle"
      /\ Books(order', row') /\ failed' \in [Rungs -> Nat]
      /\ mistaken \in [Rungs -> Nat] /\ mistaken' \in [Rungs -> Nat]
      /\ settled \in Nat /\ ahead \in Nat /\ order' = order
  BY <1>1, ShapeIsSound DEF Sound, Flow
<1>3. order[n].state = "resting" /\ order[n].rung = Rung /\ order[n].size = Size
  BY <1>1 DEF Matches, Resting
<1>4. /\ Size \in Nat /\ Size > 0 /\ pass.available \in Int /\ Size <= pass.available
      /\ Rung \in Rungs
  BY <1>2, Upcoming
<1>5. /\ row'[n].status # "absent" /\ \A m \in Ids : m # n => row'[m] = row[m]
  BY <1>1, <1>2 DEF Write, Books
<1>6. ASSUME NEW r \in Rungs
      PROVE  /\ Total(Claims(order', row', r))
                   <= Total(Claims(order, row, r)) + (IF r = Rung THEN Size ELSE 0)
             /\ Total(Strays(order', row', 0, r)) = Total(Strays(order, row, n, r))
             /\ Total(Strays(order, row, n, r)) <= Total(Strays(order, row, 0, r))
  <2>1. /\ Total(Claims(order, row', r))
              <= Total(Claims(order, row, r))
                    + (IF r = order[n].rung THEN order[n].size ELSE 0)
        /\ Total(Strays(order, row', 0, r)) = Total(Strays(order, row, n, r))
        /\ Total(Strays(order, row, n, r)) <= Total(Strays(order, row, 0, r))
    BY <1>2, <1>5, WrittenDown
  <2>2. QED
    BY <1>2, <1>3, <2>1
<1>7. Covered(order', row', failed', pass', learned')
  <2>1. ASSUME NEW r \in Rungs
        PROVE  Told(order', row', failed', r)
                  <= Told(order, row, failed, r) + (IF r = Rung THEN Size ELSE 0)
    <3> DEFINE top == IF r = Rung THEN Size ELSE 0
    <3>1. /\ Total(Claims(order', row', r)) \in Nat /\ Total(Claims(order, row, r)) \in Nat
          /\ failed[r] \in Nat /\ top \in Nat
      BY <1>2, <1>4, ToldIsNumber
    <3>2. Total(Claims(order', row', r)) <= Total(Claims(order, row, r)) + top
      BY <1>6
    <3> HIDE DEF top
    <3>3. Told(order', row', failed', r) <= Told(order, row, failed, r) + top
      BY <1>1, <3>1, <3>2 DEF Told
    <3>4. QED
      BY <3>3 DEF top
  <2>2. pass.available - Size \in Int
    BY <1>4
  <2>3. QED
    BY <1>1, <1>2, <2>1, <2>2, Proceeding DEF Sound, Ledger
<1>8. PICK z \in 0 .. MaxExits :
         /\ z # 0 => step = "reconcile" /\ Newest(order, row, z, Rung, Size)
         /\ Accounted(order, row, Doubts, z, pass.available, Cap)
  BY LedgerParts
<1>9. pass'.available <= pass.available - Size /\ pass'.available \in Int
  <2>1. pass.available - Size \in Int /\ pass.available - Size >= 0
    BY <1>4
  <2>2. QED
    BY <1>1, <1>2, <2>1, Onwards
<1>10. Cap' = Cap /\ Cap \in Int
  BY <1>1, <1>2, DoubtsAndCap DEF Cap
<1>11. \A r \in Rungs : Doubts[r] \in Nat /\ Doubts[r] = failed[r] + mistaken[r]
  BY <1>2, DoubtsAndCap
<1>12. ASSUME NEW r \in Rungs
       PROVE  /\ Total(Strays(order, row, n, r)) \in Nat
              /\ Total(Strays(order, row, z, r)) \in Nat
              /\ Total(Strays(order, row, 0, r)) \in Nat
              /\ Total(Strays(order, row, z, r)) <= Doubts[r]
  BY <1>2, <1>8, Counted DEF Accounted
<1>13. ASSUME NEW r \in Rungs
       PROVE  Total(Strays(order, row, 0, r))
                 <= Total(Strays(order, row, z, r))
                       + (IF z # 0 /\ r = Rung THEN Size ELSE 0)
  BY <1>1, <1>2, <1>8, LeftOver
<1>14. 0 \in 0 .. MaxExits
  BY Sizes
<1>15. CASE row[n].status # "absent"
  <2>1. ASSUME NEW r \in Rungs
        PROVE  Doubts'[r] = Doubts[r] + (IF r = Rung THEN Size ELSE 0)
    <3>1. mistaken'[r] = mistaken[r] + (IF r = Rung THEN Size ELSE 0)
      BY <1>1, <1>2, <1>15
    <3>2. Doubts'[r] = failed'[r] + mistaken'[r] /\ failed' = failed
      BY <1>1 DEF Doubts
    <3>3. failed[r] \in Nat /\ mistaken[r] \in Nat
      BY <1>2
    <3>4. QED
      BY <1>4, <1>11, <3>1, <3>2, <3>3
  <2>2. ASSUME NEW r \in Rungs PROVE Total(Strays(order', row', 0, r)) <= Doubts'[r]
    <3> DEFINE k == Doubts[r]
               top == IF r = Rung THEN Size ELSE 0
    <3>1. Doubts'[r] = k + top /\ k \in Nat /\ top \in Nat
      BY <1>4, <1>11, <2>1
    <3>2. Total(Strays(order, row, 0, r)) <= Total(Strays(order, row, z, r)) + top
      BY <1>4, <1>12, <1>13
    <3>3. Total(Strays(order, row, z, r)) <= k
      BY <1>12
    <3> HIDE DEF k, top
    <3>4. QED
      BY <1>6, <1>12, <3>1, <3>2, <3>3
  <2>3. Doubts'[Rung] # 0
    BY <1>4, <1>11, <2>1
  <2>4. Accounted(order', row', Doubts', 0, pass'.available, Cap')
    BY <1>4, <2>2, <2>3 DEF Accounted
  <2>5. QED
    BY <1>7, <1>14, <2>4, LedgerParts
<1>16. CASE row[n].status = "absent"
  <2>1. Doubts' = Doubts
    BY <1>1, <1>16 DEF Doubts
  <2>2. ASSUME NEW r \in Rungs PROVE Total(Strays(order', row', 0, r)) <= Doubts[r]
    <3>1. Total(Strays(order, row, n, r)) <= Total(Strays(order, row, z, r))
      <4>1. CASE z = n
        BY <1>12, <4>1
      <4>2. CASE z = 0
        BY <1>6, <4>2
      <4>3. CASE z # 0 /\ r # Rung
        BY <1>6, <1>12, <1>13, <4>3
      <4>4. CASE z # 0 /\ r = Rung
        <5>1. Total(Strays(order, row, 0, r))
                 = Total(Strays(order, row, n, r)) + Out(order, n)
          BY <1>2, <1>3, <1>16, <4>4, LeftOut
        <5>2. Out(order, n) = Size
          BY <1>3 DEF Out
        <5>3. Total(Strays(order, row, 0, r)) <= Total(Strays(order, row, z, r)) + Size
          BY <1>13, <4>4
        <5>4. QED
          BY <1>4, <1>12, <5>1, <5>2, <5>3
      <4>5. QED
        BY <4>1, <4>2, <4>3, <4>4
    <3>2. QED
      BY <1>6, <1>11, <1>12, <3>1
  <2>3. ASSUME \A r \in Rungs : Doubts[r] = 0
        PROVE  Total(Offers(order', 0)) + pass'.available <= Cap
    <3>1. Total(Offers(order, z)) + pass.available <= Cap
      BY <1>8, <2>3 DEF Accounted
    <3>2. Total(Offers(order, z)) \in Nat /\ Total(Offers(order, 0)) \in Nat
      BY <1>2, Counted
    <3>3. CASE z = 0
      BY <1>2, <1>4, <1>9, <1>10, <3>1, <3>2, <3>3
    <3>4. CASE z = n
      <4>1. Total(Offers(order, 0)) = Total(Offers(order, n)) + Out(order, n)
        BY <1>2, <1>4, LeftOut
      <4>2. Out(order, n) = Size
        BY <1>3 DEF Out
      <4>3. QED
        BY <1>2, <1>4, <1>9, <1>10, <3>1, <3>2, <3>4, <4>1, <4>2
    <3>5. CASE z # 0 /\ z # n
      <4>1. Strays(order, row, z, Rung)[n] = Size
        BY <1>3, <1>16, <3>5 DEF Strays, Out
      <4>2. Strays(order, row, z, Rung)[n] <= Total(Strays(order, row, z, Rung))
        <5>1. \A m \in Ids : Strays(order, row, z, Rung)[m] \in Nat
          BY <1>2, Counted
        <5>2. QED
          BY <5>1, Sizes, SumPart DEF Total
      <4>3. Total(Strays(order, row, z, Rung)) <= 0
        BY <1>4, <1>12, <2>3
      <4>4. Total(Strays(order, row, z, Rung)) \in Nat
        BY <1>4, <1>12
      <4>5. QED
        BY <1>4, <4>1, <4>2, <4>3, <4>4
    <3>6. QED
      BY <3>3, <3>4, <3>5
  <2>4. Accounted(order', row', Doubts', 0, pass'.available, Cap')
    BY <1>10, <2>1, <2>2, <2>3 DEF Accounted
  <2>5. QED
    BY <1>7, <1>14, <2>4, LedgerParts
<1>17. QED
  BY <1>15, <1>16

\* What could not be identified is written off, and the pass goes on.
LEMMA LedgerUnidentified ==
  ASSUME Sound, Ledger, Shape', Unidentified
  PROVE  Ledger'
<1>1. /\ step = "reconcile" /\ GoOn(pass.available)
      /\ failed' = [failed EXCEPT ![Rung] = @ + Size]
      /\ UNCHANGED <<filled, settled, learned, order, row, mistaken, ahead>>
  BY DEF Unidentified, entry, noted
<1>2. /\ Books(order, row) /\ Going(pass, step)
      /\ failed \in [Rungs -> Nat] /\ failed' \in [Rungs -> Nat] /\ step # "idle"
      /\ Books(order', row') /\ mistaken \in [Rungs -> Nat]
      /\ settled \in Nat /\ ahead \in Nat
  BY <1>1, ShapeIsSound DEF Sound, Flow
<1>3. Rung \in Rungs /\ Size \in Nat /\ Size > 0 /\ pass.available \in Int
  BY <1>2, Upcoming
<1>4. ASSUME NEW r \in Rungs
      PROVE  failed'[r] = failed[r] + (IF r = Rung THEN Size ELSE 0)
  BY <1>1, <1>2
<1>5. Covered(order', row', failed', pass', learned')
  <2>1. ASSUME NEW r \in Rungs
        PROVE  Told(order', row', failed', r)
                  <= Told(order, row, failed, r) + (IF r = Rung THEN Size ELSE 0)
    <3> DEFINE top == IF r = Rung THEN Size ELSE 0
    <3>1. /\ Total(Claims(order, row, r)) \in Nat
          /\ failed[r] \in Nat /\ top \in Nat
      BY <1>2, <1>3, ToldIsNumber
    <3>2. failed'[r] = failed[r] + top
      BY <1>4
    <3> HIDE DEF top
    <3>3. Told(order', row', failed', r) <= Told(order, row, failed, r) + top
      BY <1>1, <3>1, <3>2 DEF Told
    <3>4. QED
      BY <3>3 DEF top
  <2>2. QED
    BY <1>1, <1>2, <1>3, <2>1, Proceeding DEF Sound, Ledger
<1>6. PICK z \in 0 .. MaxExits :
         /\ z # 0 => step = "reconcile" /\ Newest(order, row, z, Rung, Size)
         /\ Accounted(order, row, Doubts, z, pass.available, Cap)
  BY LedgerParts
<1>7. ASSUME NEW r \in Rungs
      PROVE  /\ Doubts[r] \in Nat
             /\ Doubts'[r] = Doubts[r] + (IF r = Rung THEN Size ELSE 0)
  <2>1. /\ Doubts[r] \in Nat /\ Doubts[r] = failed[r] + mistaken[r]
        /\ failed[r] \in Nat /\ mistaken[r] \in Nat
    BY <1>2, DoubtsAndCap
  <2>2. Doubts'[r] = failed'[r] + mistaken[r]
    BY <1>1 DEF Doubts
  <2>3. QED
    BY <1>3, <1>4, <2>1, <2>2
<1>8. ASSUME NEW r \in Rungs
      PROVE  Total(Strays(order, row, 0, r)) <= Doubts'[r]
  <2> DEFINE top == IF r = Rung THEN Size ELSE 0
             k == Doubts[r]
  <2>1. Total(Strays(order, row, z, r)) <= k /\ k \in Nat /\ top \in Nat
    BY <1>3, <1>6, <1>7 DEF Accounted
  <2>2. /\ Total(Strays(order, row, z, r)) \in Nat
        /\ Total(Strays(order, row, 0, r)) \in Nat
    BY <1>2, Counted
  <2>3. Total(Strays(order, row, 0, r)) <= Total(Strays(order, row, z, r)) + top
    <3>1. Total(Strays(order, row, 0, r))
             <= Total(Strays(order, row, z, r))
                   + (IF z # 0 /\ r = Rung THEN Size ELSE 0)
      BY <1>1, <1>2, <1>6, LeftOver
    <3>2. QED
      BY <1>3, <2>2, <3>1
  <2>4. Doubts'[r] = k + top
    BY <1>7
  <2> HIDE DEF top, k
  <2>5. QED
    BY <2>1, <2>2, <2>3, <2>4
<1>9. Doubts'[Rung] # 0
  BY <1>3, <1>7
<1>10. Accounted(order', row', Doubts', 0, pass'.available, Cap')
  BY <1>1, <1>3, <1>8, <1>9 DEF Accounted
<1>11. 0 \in 0 .. MaxExits
  BY Sizes
<1>12. QED
  BY <1>5, <1>10, <1>11, LedgerParts

\* Nothing is filled or offered at first, so the accounts are even.
LEMMA LedgerInit ==
  Init => Ledger
<1> SUFFICES ASSUME Init PROVE Ledger
  OBVIOUS
<1>1. /\ Books(order, row) /\ Flow(failed, step, pass)
      /\ step = "idle" /\ pass = Idle /\ settled = 0 /\ learned = 0
      /\ failed = [r \in Rungs |-> 0] /\ mistaken = [r \in Rungs |-> 0] /\ ahead = 0
  BY ShapeInit, ShapeParts DEF Init
<1>2. \A n \in Ids : order[n] = NoOrder /\ row[n] = NoRow
  BY DEF Init
<1>3. ASSUME NEW f, \A n \in Ids : f[n] = 0 PROVE Total(f) = 0
  <2>1. IsFiniteSet(Ids) /\ IsFiniteSet({}) /\ {} \in SUBSET Ids
    BY Sizes, FS_EmptySet
  <2>2. SumFunctionOnSet(f, Ids) = SumFunctionOnSet(f, {})
    <3>1. /\ \A x \in Ids : f[x] \in Int
          /\ \A x \in Ids \ {} : f[x] = 0
      BY <1>3
    <3>2. QED
      BY ONLY <2>1, <3>1, SumWithin
  <2>3. SumFunctionOnSet(f, {}) = 0
    BY <2>1, SumByChoice
  <2>4. QED
    BY <2>2, <2>3 DEF Total
<1>4. ASSUME NEW r \in Rungs
      PROVE  /\ Total(Claims(order, row, r)) = 0
             /\ Total(Strays(order, row, 0, r)) = 0
  <2>1. \A n \in Ids : Claims(order, row, r)[n] = 0 /\ Strays(order, row, 0, r)[n] = 0
    BY <1>2 DEF NoOrder, NoRow, Claims, Strays, Out
  <2>2. QED
    BY <1>3, <2>1
<1>5. Total(Offers(order, 0)) = 0
  <2>1. \A n \in Ids : Offers(order, 0)[n] = 0
    BY <1>2 DEF NoOrder, Offers, Out
  <2>2. QED
    BY <1>3, <2>1
<1>6. Covered(order, row, failed, pass, learned)
  <2>1. ASSUME NEW r \in Rungs
        PROVE  /\ Told(order, row, failed, r) <= learned * Share[r]
               /\ r \notin pass.todo
    <3>1. failed[r] = 0 /\ pass.todo = {}
      BY <1>1 DEF Idle
    <3>2. learned * Share[r] = 0
      BY <1>1, Sizes
    <3>3. QED
      BY <1>4, <3>1, <3>2 DEF Told
  <2>2. QED
    BY <2>1 DEF Covered
<1>7. Accounted(order, row, Doubts, 0, pass.available, Cap)
  <2>1. pass.available = 0 /\ Cap = 0
    BY <1>1, Sizes DEF Idle, Cap
  <2>2. \A r \in Rungs : Doubts[r] = 0
    BY <1>1 DEF Doubts
  <2>3. QED
    BY <1>4, <1>5, <2>1, <2>2 DEF Accounted
<1>8. 0 \in 0 .. MaxExits
  BY Sizes
<1>9. QED
  BY <1>6, <1>7, <1>8, LedgerParts

\* No operation leaves the accounts in disorder.
LEMMA LedgerStep ==
  Shape /\ Ledger /\ [Next]_vars => Ledger'
<1> SUFFICES ASSUME Shape, Ledger, [Next]_vars PROVE Ledger'
  OBVIOUS
<1>1. Shape' /\ Sound
  BY ShapeStep, ShapeIsSound
<1>2. /\ Books(order, row) /\ Chain(order, row)
      /\ Flow(failed, step, pass) /\ Going(pass, step)
      /\ settled \in Nat /\ learned \in Nat /\ filled \in Nat /\ learned <= filled
      /\ ahead \in Nat /\ Books(order', row')
  BY <1>1, ShapeIsSound DEF Sound
<1>3. ASSUME UNCHANGED <<order, row, failed, mistaken, pass, step, ahead>>,
             learned' \in Nat, learned <= learned', settled' \in Nat, settled <= settled'
      PROVE  Ledger'
  <2>1. ahead' \in Nat /\ ahead <= ahead'
    BY <1>2, <1>3
  <2>2. QED
    BY <1>1, <1>3, <2>1, Widening
<1>4. ASSUME UNCHANGED <<order, row, failed, mistaken, pass, step, learned, settled, ahead>>
      PROVE  Ledger'
  <2>1. learned <= learned /\ settled <= settled
    BY <1>2
  <2>2. QED
    BY <1>2, <1>3, <1>4, <2>1
<1>5. CASE Fill
  BY <1>4, <1>5 DEF Fill, rows, walk, noted
<1>6. ASSUME NEW lost \in BOOLEAN, Settle(lost) PROVE Ledger'
  <2>1. /\ settled' = settled + 1
        /\ UNCHANGED <<order, row, failed, mistaken, pass, step, learned, ahead>>
    BY <1>6 DEF Settle, rows, walk
  <2>2. settled' \in Nat /\ settled <= settled' /\ learned' \in Nat /\ learned <= learned'
    BY <1>2, <2>1
  <2>3. QED
    BY <1>3, <2>1, <2>2
<1>7. ASSUME NEW n \in Ids, NEW units \in {1, Remaining(n)} \ {0}, Sell(n, units)
      PROVE  Ledger'
  <2> units \in Nat
    <3>1. Remaining(n) \in Nat
      BY <1>2 DEF Remaining, Books
    <3>2. QED
      BY <3>1
  <2>1. /\ Books(order', row) /\ Chain(order', row)
        /\ \A m \in Ids : /\ order'[m].rung = order[m].rung
                          /\ order'[m].size = order[m].size
                          /\ order'[m].state = "none" <=> order[m].state = "none"
                          /\ Out(order', m) <= Out(order, m)
    BY <1>2, <1>7, Selling
  <2>2. UNCHANGED <<row, failed, mistaken, pass, step, learned, settled, ahead>>
    BY <1>7 DEF Sell, entry, rows, walk, noted
  <2>3. \A r \in Rungs : Total(Claims(order', row', r)) <= Total(Claims(order, row, r))
    <3>1. ASSUME NEW r \in Rungs
          PROVE  Total(Claims(order', row, r)) <= Total(Claims(order, row, r))
      <4>1. Total(Claims(order', row, r)) = Total(Claims(order, row, r))
        BY <1>2, <2>1, LessExposed
      <4>2. Total(Claims(order, row, r)) \in Nat
        BY <1>2, Counted
      <4>3. QED
        BY <4>1, <4>2
    <3>2. QED
      BY <2>2, <3>1
  <2>4. \A z \in 0 .. MaxExits :
           /\ \A r \in Rungs : Total(Strays(order', row', z, r))
                                  <= Total(Strays(order, row, z, r))
           /\ Total(Offers(order', z)) <= Total(Offers(order, z))
    <3>1. ASSUME NEW z \in 0 .. MaxExits, NEW r \in Rungs
          PROVE  Total(Strays(order', row, z, r)) <= Total(Strays(order, row, z, r))
      BY <1>2, <2>1, LessExposed
    <3>2. ASSUME NEW z \in 0 .. MaxExits
          PROVE  Total(Offers(order', z)) <= Total(Offers(order, z))
      BY <1>2, <2>1, LessExposed
    <3>3. QED
      BY <2>2, <3>1, <3>2
  <2>5. QED
    BY <1>1, <1>2, <2>1, <2>2, <2>3, <2>4, Lowering
<1>8. ASSUME NEW n \in Ids, Register(n) \/ Drop(n) PROVE Ledger'
  <2>1. /\ Books(order', row) /\ Chain(order', row)
        /\ \A m \in Ids : /\ order'[m].rung = order[m].rung
                          /\ order'[m].size = order[m].size
                          /\ order'[m].state = "none" <=> order[m].state = "none"
                          /\ Out(order', m) <= Out(order, m)
    BY <1>2, <1>8, Moving
  <2>2. UNCHANGED <<row, failed, mistaken, pass, step, learned, settled, ahead>>
    BY <1>8 DEF Register, Drop, entry, rows, walk, noted
  <2>3. \A r \in Rungs : Total(Claims(order', row', r)) <= Total(Claims(order, row, r))
    <3>1. ASSUME NEW r \in Rungs
          PROVE  Total(Claims(order', row, r)) <= Total(Claims(order, row, r))
      <4>1. Total(Claims(order', row, r)) = Total(Claims(order, row, r))
        BY <1>2, <2>1, LessExposed
      <4>2. Total(Claims(order, row, r)) \in Nat
        BY <1>2, Counted
      <4>3. QED
        BY <4>1, <4>2
    <3>2. QED
      BY <2>2, <3>1
  <2>4. \A z \in 0 .. MaxExits :
           /\ \A r \in Rungs : Total(Strays(order', row', z, r))
                                  <= Total(Strays(order, row, z, r))
           /\ Total(Offers(order', z)) <= Total(Offers(order, z))
    <3>1. ASSUME NEW z \in 0 .. MaxExits, NEW r \in Rungs
          PROVE  Total(Strays(order', row, z, r)) <= Total(Strays(order, row, z, r))
      BY <1>2, <2>1, LessExposed
    <3>2. ASSUME NEW z \in 0 .. MaxExits
          PROVE  Total(Offers(order', z)) <= Total(Offers(order, z))
      BY <1>2, <2>1, LessExposed
    <3>3. QED
      BY <2>2, <3>1, <3>2
  <2>5. QED
    BY <1>1, <1>2, <2>1, <2>2, <2>3, <2>4, Lowering
<1>9. ASSUME NEW n \in Ids, LearnExit(n) PROVE Ledger'
  <2>1. /\ Books(order, row') /\ Chain(order, row')
        /\ \A m \in Ids : /\ row'[m].status = "absent" <=> row[m].status = "absent"
                          /\ Claimed(order, row', m) <= Claimed(order, row, m)
    BY <1>2, <1>9, Learning
  <2>2. UNCHANGED <<order, failed, mistaken, pass, step, learned, settled, ahead>>
    BY <1>9 DEF LearnExit, entry, walk, noted
  <2>3. \A r \in Rungs : Total(Claims(order', row', r)) <= Total(Claims(order, row, r))
    <3>1. ASSUME NEW r \in Rungs
          PROVE  Total(Claims(order, row', r)) <= Total(Claims(order, row, r))
      BY <1>2, <2>1, LessClaimed
    <3>2. QED
      BY <2>2, <3>1
  <2>4. \A z \in 0 .. MaxExits :
           /\ \A r \in Rungs : Total(Strays(order', row', z, r))
                                  <= Total(Strays(order, row, z, r))
           /\ Total(Offers(order', z)) <= Total(Offers(order, z))
    <3>1. ASSUME NEW z \in 0 .. MaxExits, NEW r \in Rungs
          PROVE  Total(Strays(order, row', z, r)) <= Total(Strays(order, row, z, r))
      <4>1. Total(Strays(order, row', z, r)) = Total(Strays(order, row, z, r))
        BY <1>2, <2>1, LessClaimed
      <4>2. Total(Strays(order, row, z, r)) \in Nat
        BY <1>2, Counted
      <4>3. QED
        BY <4>1, <4>2
    <3>2. ASSUME NEW z \in 0 .. MaxExits
          PROVE  Total(Offers(order, z)) <= Total(Offers(order, z))
      <4>1. Total(Offers(order, z)) \in Nat
        BY <1>2, Counted
      <4>2. QED
        BY <4>1
    <3>3. QED
      BY <2>2, <3>1, <3>2
  <2>5. QED
    BY <1>1, <1>2, <2>1, <2>2, <2>3, <2>4, Lowering
<1>10. ASSUME NEW n \in Ids, Identified(n) PROVE Ledger'
  BY <1>1, <1>10, LedgerIdentified
<1>11. ASSUME NEW n \in Ids, Placed(n) PROVE Ledger'
  BY <1>1, <1>11, LedgerPlaced
<1>12. CASE SaleSettles
  BY <1>4, <1>12 DEF SaleSettles, entry, rows, walk, noted
<1>13. CASE EntryGrew
  <2>1. PICK lots \in learned + 1 .. filled : BeginPass(lots)
    BY <1>13 DEF EntryGrew
  <2>2. lots \in Nat /\ learned <= lots
    BY <1>2, <2>1
  <2>3. QED
    BY <1>1, <2>1, <2>2, LedgerStarting
<1>14. CASE SettlementHeard
  <2>1. BeginPass(learned) /\ learned <= learned
    BY <1>2, <1>14 DEF SettlementHeard
  <2>2. QED
    BY <1>1, <1>2, <2>1, LedgerStarting
<1>15. CASE BalanceRaises
  <2>1. /\ learned' \in learned .. filled
        /\ UNCHANGED <<settled, order, row, failed, mistaken, pass, step, ahead>>
    BY <1>15 DEF BalanceRaises, rows, walk
  <2>2. learned' \in Nat /\ learned <= learned' /\ settled' \in Nat /\ settled <= settled'
    BY <1>2, <2>1
  <2>3. QED
    BY <1>3, <2>1, <2>2
<1>16. CASE Raised
  BY <1>1, <1>16, LedgerRaised
<1>17. CASE Unidentified
  BY <1>1, <1>17, LedgerUnidentified
<1>18. CASE UNCHANGED vars
  BY <1>4, <1>18 DEF vars, entry, rows, walk, noted
<1>19. QED
  BY <1>5, <1>6, <1>7, <1>8, <1>9, <1>10, <1>11, <1>12, <1>13, <1>14,
     <1>15, <1>16, <1>17, <1>18 DEF Next

(***************************************************************************)
(* What follows from the accounts.                                         *)
(***************************************************************************)

\* What a rung sold and has on the book is claimed by its rows, or astray.
LEMMA ClaimedOrAstray ==
  ASSUME Books(order, row), Chain(order, row), NEW r \in Rungs
  PROVE  SumFunctionOnSet([n \in Ids |-> Exposed(n)], OfRung(r))
            <= Total(Claims(order, row, r)) + Total(Strays(order, row, 0, r))
<1> DEFINE x == [n \in Ids |-> Exposed(n)]
           e == [n \in Ids |-> IF order[n].rung = r THEN Out(order, n) ELSE 0]
           v == Claims(order, row, r)
           w == Strays(order, row, 0, r)
           u == [n \in Ids |-> v[n] + w[n]]
           U == OfRung(r)
<1>1. U \in SUBSET Ids /\ IsFiniteSet(U)
  <2>1. U \in SUBSET Ids
    BY DEF OfRung
  <2>2. QED
    BY <2>1, Sizes, FS_Subset
<1>2. \A n \in Ids : /\ Out(order, n) \in Nat /\ v[n] \in Nat /\ w[n] \in Nat
                     /\ Out(order, n) <= order[n].size
  BY Counted
<1>3. /\ \A n \in Ids : e[n] \in Nat /\ u[n] \in Nat /\ u[n] = v[n] + w[n]
      /\ \A n \in U : e[n] \in Int /\ e[n] = x[n]
      /\ \A n \in Ids \ U : e[n] = 0
  <2>1. \A n \in Ids : e[n] \in Nat
    BY <1>2
  <2>2. \A n \in Ids : u[n] \in Nat /\ u[n] = v[n] + w[n]
    <3> HIDE DEF v, w
    <3>1. QED
      BY <1>2
  <2>3. \A n \in U : e[n] \in Int /\ e[n] = x[n]
    BY <1>2 DEF OfRung, Exposed, Out
  <2>4. \A n \in Ids \ U : e[n] = 0
    BY DEF OfRung
  <2>5. QED
    BY <2>1, <2>2, <2>3, <2>4
<1>4. \A n \in Ids : e[n] <= u[n]
  <2>1. ASSUME NEW n \in Ids, order[n].rung = r PROVE Out(order, n) <= v[n] + w[n]
    <3>1. /\ row[n].status \in {"absent", "active", "over"}
          /\ order[n].size \in Nat /\ order[n].matched \in Nat /\ row[n].matched \in Nat
      BY DEF Books
    <3>2. n # 0
      BY LadderAssumption DEF Ids
    <3>3. CASE row[n].status = "absent"
      <4>1. v[n] = 0 /\ w[n] = Out(order, n)
        BY <2>1, <3>2, <3>3 DEF Claims, Strays
      <4>2. QED
        BY <1>2, <4>1
    <3>4. CASE row[n].status = "active"
      <4>1. v[n] = order[n].size /\ w[n] = 0
        BY <2>1, <3>4 DEF Claims, Claimed, Strays
      <4>2. QED
        BY <1>2, <3>1, <4>1
    <3>5. CASE row[n].status = "over"
      <4>1. row[n].matched >= Out(order, n)
        BY <3>5 DEF Chain
      <4>2. v[n] = row[n].matched /\ w[n] = 0
        BY <2>1, <3>5 DEF Claims, Claimed, Strays
      <4>3. QED
        BY <1>2, <3>1, <4>1, <4>2
    <3>6. QED
      BY <3>1, <3>3, <3>4, <3>5
  <2>2. ASSUME NEW n \in Ids PROVE e[n] <= u[n]
    <3>1. e[n] = (IF order[n].rung = r THEN Out(order, n) ELSE 0)
      OBVIOUS
    <3>2. u[n] = v[n] + w[n] /\ u[n] \in Nat
      BY <1>3
    <3> HIDE DEF e, u, v, w
    <3>3. QED
      BY <2>1, <3>1, <3>2
  <2>3. QED
    BY <2>2
<1>5. SumFunctionOnSet(x, U) = SumFunctionOnSet(e, U)
  <2> HIDE DEF x, e, U
  <2>1. SumFunctionOnSet(e, U) = SumFunctionOnSet(x, U)
    BY <1>1, <1>3, SumSame
  <2>2. QED
    BY <2>1
<1>6. SumFunctionOnSet(e, Ids) = SumFunctionOnSet(e, U)
  <2> HIDE DEF x, e, U
  <2>1. \A n \in Ids : e[n] \in Int
    BY <1>3
  <2>2. QED
    BY <1>1, <1>3, <2>1, Sizes, SumWithin
<1>7. Total(e) <= Total(u)
  <2> HIDE DEF e, u, v, w
  <2>1. QED
    BY <1>3, <1>4, Totals
<1>8. Total(u) = Total(v) + Total(w)
  <2> HIDE DEF u, v, w
  <2>1. \A n \in Ids : v[n] \in Int /\ w[n] \in Int /\ u[n] = v[n] + w[n]
    BY <1>2, <1>3
  <2>2. SumFunctionOnSet(u, Ids) = SumFunctionOnSet(v, Ids) + SumFunctionOnSet(w, Ids)
    <3>1. IsFiniteSet(Ids)
      BY Sizes
    <3>2. QED
      BY ONLY <2>1, <3>1, SumPlus
  <2>3. QED
    BY <2>2 DEF Total
<1>9. SumFunctionOnSet(x, U) <= Total(v) + Total(w)
  <2> HIDE DEF e, u, v, w, x, U
  <2>1. QED
    BY <1>5, <1>6, <1>7, <1>8 DEF Total
<1>10. QED
  BY <1>9

\* What the exits may yet sell, with what was sold, is what they are exposed for.
LEMMA RestAndSold ==
  ASSUME Books(order, row)
  PROVE  LET rest == SumFunctionOnSet([n \in Ids |-> Exposed(n) - order[n].matched], Ids)
         IN rest + Sold = Total(Offers(order, 0)) /\ rest \in Int
<1> DEFINE x == [n \in Ids |-> Exposed(n) - order[n].matched]
           v == [n \in Ids |-> order[n].matched]
           u == Offers(order, 0)
<1>1. \A n \in Ids : /\ order[n].size \in Nat /\ order[n].matched \in Nat
                     /\ Exposed(n) \in Nat
  BY DEF Books, Exposed
<1>2. \A n \in Ids : v[n] \in Int /\ x[n] \in Int
  BY <1>1
<1>3. \A n \in Ids : u[n] = x[n] + v[n]
  <2>1. ASSUME NEW n \in Ids PROVE u[n] = x[n] + v[n]
    <3>1. u[n] = Out(order, n)
      BY LadderAssumption DEF Offers, Ids
    <3>2. Out(order, n) = Exposed(n)
      BY DEF Out, Exposed
    <3>3. QED
      BY <1>1, <3>1, <3>2
  <2>2. QED
    BY <2>1
<1>4. Sold = SumFunctionOnSet(v, Ids)
  BY DEF Sold
<1> HIDE DEF u, v, x
<1>5. SumFunctionOnSet(u, Ids) = SumFunctionOnSet(x, Ids) + SumFunctionOnSet(v, Ids)
  <2>1. IsFiniteSet(Ids)
    BY Sizes
  <2>2. \A n \in Ids : x[n] \in Int /\ v[n] \in Int /\ u[n] = x[n] + v[n]
    BY <1>2, <1>3
  <2>3. QED
    BY ONLY <2>1, <2>2, SumPlus
<1>6. SumFunctionOnSet(x, Ids) \in Int
  <2>1. IsFiniteSet(Ids)
    BY Sizes
  <2>2. QED
    BY ONLY <1>2, <2>1, SumType
<1>7. SumFunctionOnSet(x, Ids) + Sold = Total(u) /\ SumFunctionOnSet(x, Ids) \in Int
  BY <1>4, <1>5, <1>6 DEF Total
<1>8. QED
  BY <1>7 DEF x, u

\* Throughout, what the rows say is within what filled, and the orders that the rows
\* do not speak of are within what was written off or taken for another one - with
\* late submissions, lists that lack an order and settlements in any order.
THEOREM LedgerInvariant == Spec => [](Shape /\ Ledger)
<1>1. Init => Shape /\ Ledger
  BY ShapeInit, LedgerInit
<1>2. (Shape /\ Ledger) /\ [Next]_vars => (Shape /\ Ledger)'
  BY ShapeStep, LedgerStep
<1>3. QED
  BY <1>1, <1>2, PTL DEF Spec

\* "Only the matched entry quantity is offered" (README.md:199) but for what a
\* submission without an answer adds when an older, equal exit was taken for it
\* (exchange.py:742): for any entry, plan and minimum size, whatever is refused, late,
\* left unanswered or lacking in the list of open orders.
THEOREM OfferedIsMatched == Spec => []OnlyMatchedIsOffered
<1>1. ASSUME Shape, Ledger PROVE OnlyMatchedIsOffered
  <2>1. /\ Books(order, row) /\ Chain(order, row) /\ Going(pass, step)
        /\ failed \in [Rungs -> Nat] /\ mistaken \in [Rungs -> Nat]
        /\ settled \in Nat /\ ahead \in Nat
        /\ learned \in Nat /\ filled \in Nat /\ learned <= filled
    BY <1>1, ShapeIsSound DEF Sound, Flow
  <2>2. PICK z \in 0 .. MaxExits :
           /\ z # 0 => step = "reconcile" /\ Newest(order, row, z, Rung, Size)
           /\ Accounted(order, row, Doubts, z, pass.available, Cap)
    BY <1>1, LedgerParts
  <2>3. ASSUME NEW r \in Rungs
        PROVE  Total(Claims(order, row, r)) + Total(Strays(order, row, 0, r))
                  <= filled * Share[r] + mistaken[r]
    <3>1. /\ learned * Share[r] <= filled * Share[r]
          /\ learned * Share[r] \in Int /\ filled * Share[r] \in Int
      BY <2>1, MoreTimes, Sizes
    <3>2. /\ Total(Claims(order, row, r)) \in Nat /\ Total(Strays(order, row, 0, r)) \in Nat
          /\ Total(Strays(order, row, z, r)) \in Nat /\ failed[r] \in Nat
          /\ mistaken[r] \in Nat
      BY <2>1, Counted
    <3>3. Total(Strays(order, row, z, r)) <= failed[r] + mistaken[r]
      <4>1. Total(Strays(order, row, z, r)) <= Doubts[r]
        BY <2>2 DEF Accounted
      <4>2. QED
        BY <2>1, <4>1, DoubtsAndCap
    <3>4. failed[r] + Total(Claims(order, row, r)) <= learned * Share[r]
      BY <1>1 DEF Ledger, Covered, Told
    <3>5. Total(Strays(order, row, 0, r))
             <= Total(Strays(order, row, z, r)) + (IF z # 0 /\ r = Rung THEN Size ELSE 0)
      BY <2>1, <2>2, LeftOver
    <3>6. CASE z # 0 /\ r = Rung
      <4>1. /\ Rung \in pass.todo /\ Size \in Nat
            /\ Size <= pass.lacking[Rung] /\ pass.lacking \in [Rungs -> Int]
        BY <2>1, <2>2, <3>6, Upcoming
      <4>2. failed[r] + Total(Claims(order, row, r)) + pass.lacking[r]
               <= learned * Share[r]
        BY <1>1, <3>6, <4>1 DEF Ledger, Covered, Told
      <4>3. Size <= pass.lacking[r] /\ pass.lacking[r] \in Int
        BY <3>6, <4>1
      <4>4. Total(Strays(order, row, 0, r)) <= Total(Strays(order, row, z, r)) + Size
        BY <3>5, <3>6
      <4>5. QED
        BY <3>1, <3>2, <3>3, <4>1, <4>2, <4>3, <4>4
    <3>7. CASE ~(z # 0 /\ r = Rung)
      <4>1. Total(Strays(order, row, 0, r)) <= Total(Strays(order, row, z, r))
        BY <3>2, <3>5, <3>7
      <4>2. QED
        BY <3>1, <3>2, <3>3, <3>4, <4>1
    <3>8. QED
      BY <3>6, <3>7
  <2>4. ASSUME NEW r \in Rungs
        PROVE  SumFunctionOnSet([n \in Ids |-> Exposed(n)], OfRung(r))
                  <= filled * Share[r] + mistaken[r]
    <3> DEFINE offered == SumFunctionOnSet([n \in Ids |-> Exposed(n)], OfRung(r))
    <3>1. offered <= Total(Claims(order, row, r)) + Total(Strays(order, row, 0, r))
      BY <2>1, ClaimedOrAstray
    <3>2. offered \in Int
      <4> DEFINE x == [n \in Ids |-> Exposed(n)]
      <4>1. OfRung(r) \in SUBSET Ids /\ IsFiniteSet(OfRung(r))
        <5>1. OfRung(r) \in SUBSET Ids
          BY DEF OfRung
        <5>2. QED
          BY <5>1, Sizes, FS_Subset
      <4>2. \A n \in OfRung(r) : x[n] \in Int
        BY <2>1, <4>1 DEF Books, Exposed
      <4> HIDE DEF x
      <4>3. SumFunctionOnSet(x, OfRung(r)) \in Int
        BY <4>1, <4>2, SumType
      <4>4. QED
        BY <4>3 DEF x
    <3>3. /\ Total(Claims(order, row, r)) \in Nat /\ Total(Strays(order, row, 0, r)) \in Nat
          /\ filled * Share[r] \in Int /\ mistaken[r] \in Nat
      <4>1. filled * Share[r] \in Int /\ mistaken[r] \in Nat
        BY <2>1, Sizes
      <4>2. QED
        BY <2>1, <4>1, Counted
    <3> HIDE DEF offered
    <3>4. offered <= filled * Share[r] + mistaken[r]
      BY <2>3, <3>1, <3>2, <3>3
    <3>5. QED
      BY <3>4 DEF offered
  <2>5. QED
    BY <2>4 DEF OnlyMatchedIsOffered
<1>2. Shape /\ Ledger => OnlyMatchedIsOffered
  BY <1>1
<1>3. QED
  BY <1>2, LedgerInvariant, PTL

\* "Exit submission is also capped by the exchange-reported conditional-token
\* balance" (README.md:203): with no exit written off or taken for another one, what
\* the exits may yet sell is backed by settled tokens that are not sold, but for what
\* the rows called sold while the balance still counted it.
THEOREM OfferedIsBacked == Spec => []OfferedIsSettled
<1>1. ASSUME Shape, Ledger PROVE OfferedIsSettled
  <2>1. /\ Books(order, row) /\ Going(pass, step) /\ Flow(failed, step, pass)
        /\ settled \in Nat /\ ahead \in Nat
        /\ failed \in [Rungs -> Nat] /\ mistaken \in [Rungs -> Nat]
        /\ Chain(order, row)
    BY <1>1, ShapeIsSound DEF Sound, Flow
  <2>2. PICK z \in 0 .. MaxExits :
           /\ z # 0 => step = "reconcile" /\ Newest(order, row, z, Rung, Size)
           /\ Accounted(order, row, Doubts, z, pass.available, Cap)
    BY <1>1, LedgerParts
  <2>3. pass.available \in Int /\ pass.available >= 0
    <3>1. CASE step = "idle"
      BY <2>1, <3>1 DEF Flow, Idle
    <3>2. CASE step # "idle"
      BY <2>1, <3>2, Sizes DEF Going
    <3>3. QED
      BY <3>1, <3>2
  <2>4. ASSUME \A r \in Rungs : failed[r] = 0 /\ mistaken[r] = 0
        PROVE  Total(Offers(order, 0)) <= settled * Parts + ahead
    <3>1. Total(Offers(order, z)) + pass.available <= settled * Parts + ahead
      <4>1. \A r \in Rungs : Doubts[r] = 0
        BY <2>4 DEF Doubts
      <4>2. QED
        BY <2>2, <4>1 DEF Accounted, Cap
    <3>2. /\ Total(Offers(order, z)) \in Nat /\ Total(Offers(order, 0)) \in Nat
          /\ settled * Parts \in Int
      <4>1. Total(Offers(order, z)) \in Nat /\ Total(Offers(order, 0)) \in Nat
        BY <2>1, Counted
      <4>2. QED
        BY <2>1, <4>1, Sizes
    <3>3. CASE z = 0
      BY <2>1, <2>3, <3>1, <3>2, <3>3
    <3>4. CASE z # 0
      <4>1. /\ step # "idle" /\ z \in Ids /\ order[z].size = Size
        BY <2>2, <3>4 DEF Newest
      <4>2. Rung \in Rungs /\ Size \in Nat /\ Size <= pass.available
        BY <2>1, <4>1, Upcoming
      <4>3. Total(Offers(order, 0)) = Total(Offers(order, z)) + Out(order, z)
        BY <2>1, <4>1, <4>2, LeftOut
      <4>4. Out(order, z) \in Nat /\ Out(order, z) <= Size
        BY <2>1, <4>1, Counted
      <4>5. QED
        BY <2>1, <2>3, <3>1, <3>2, <4>2, <4>3, <4>4
    <3>5. QED
      BY <3>3, <3>4
  <2> DEFINE rest == SumFunctionOnSet([n \in Ids |-> Exposed(n) - order[n].matched], Ids)
  <2>5. rest + Sold = Total(Offers(order, 0)) /\ rest \in Int
    BY <2>1, RestAndSold
  <2>6. Sold \in Nat /\ settled * Parts \in Int
    BY <2>1, SoldIsNumber, Sizes
  <2> HIDE DEF rest
  <2>7. (\A r \in Rungs : failed[r] = 0 /\ mistaken[r] = 0) =>
           rest <= settled * Parts - Sold + ahead
    BY <2>1, <2>4, <2>5, <2>6
  <2>8. QED
    BY <2>7 DEF OfferedIsSettled, rest
<1>2. Shape /\ Ledger => OfferedIsSettled
  BY <1>1
<1>3. QED
  BY <1>2, LedgerInvariant, PTL

=============================================================================
