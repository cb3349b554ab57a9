--------------------------- MODULE TimetableProofs ---------------------------
(***************************************************************************)
(* Proofs about Timetable, for every set of accounts and every timetable   *)
(* of bursts and cadence.                                                  *)
(***************************************************************************)
EXTENDS Timetable, MinimalElements

(***************************************************************************)
(* Slot arithmetic.                                                        *)
(***************************************************************************)

\* CeilDiv rounds up, for dividends of either sign.
LEMMA CeilDivRoundsUp ==
  ASSUME NEW x \in Int, NEW y \in Nat, y > 0
  PROVE  /\ CeilDiv(x, y) \in Int
         /\ CeilDiv(x, y) * y >= x /\ CeilDiv(x, y) * y < x + y
BY DEF CeilDiv

\* Multiples are ordered as what they are multiples of.
LEMMA MultiplesInOrder ==
  ASSUME NEW n \in Int, NEW m \in Int, NEW y \in Nat
  PROVE  (n <= m => n * y <= m * y) /\ (n * y < m * y => n < m)
OBVIOUS

\* The remainder is nought just for the multiples.
LEMMA NoRemainder ==
  ASSUME NEW x \in Nat, NEW y \in Nat, y > 0
  PROVE  x % y = 0 <=> \E n \in Nat : x = n * y
<1>1. ASSUME NEW n \in Nat, x = n * y PROVE x % y = 0
  BY <1>1
<1>2. ASSUME x % y = 0 PROVE \E n \in Nat : x = n * y
  <2>1. x = (x \div y) * y
    BY <1>2
  <2>2. x \div y \in Nat
    OBVIOUS
  <2>3. QED
    BY <2>1, <2>2
<1>3. QED
  BY <1>1, <1>2

\* A moment that is not before the origin gets the first slot of the timetable
\* that is no more than the tolerance before it, and no slot before the first.
LEMMA SlotIsFirst ==
  ASSUME NEW m \in Nat, NEW o \in Nat, NEW p \in Nat, NEW i \in Nat,
         Tolerance \in Nat, m >= o, p + Tolerance < i
  PROVE  LET s == SlotAtOrAfter(m, o, p, i)
         IN /\ \E n \in Nat : s = o + p + n * i
            /\ s >= m - Tolerance /\ s < m - Tolerance + i
            /\ \A n \in Nat : o + p + n * i >= m - Tolerance
                                 => s <= o + p + n * i
<1> DEFINE x == m - o - p - Tolerance
           c == CeilDiv(x, i)
<1>1. x \in Int /\ i > 0 /\ x > -i
  OBVIOUS
<1>2. c \in Int /\ c * i >= x /\ c * i < x + i
  <2> HIDE DEF x
  <2>1. QED
    BY <1>1, CeilDivRoundsUp
<1>3. SlotAtOrAfter(m, o, p, i) = o + p + c * i
  BY DEF SlotAtOrAfter
<1>4. c \in Nat
  <2>1. (-1) * i < c * i
    BY <1>1, <1>2
  <2>2. -1 < c
    BY <1>2, <2>1, MultiplesInOrder
  <2>3. QED
    BY <1>2, <2>2
<1>5. c * i \in Int /\ o + p + c * i >= m - Tolerance
        /\ o + p + c * i < m - Tolerance + i
  <2>1. c * i \in Int
    BY <1>2
  <2>2. QED
    BY <1>2, <2>1
<1>6. ASSUME NEW n \in Nat, o + p + n * i >= m - Tolerance
      PROVE  o + p + c * i <= o + p + n * i
  <2>1. n * i \in Int /\ c * i \in Int /\ (c - 1) * i \in Int
    BY <1>2
  <2>2. (c - 1) * i = c * i - i
    BY <1>2
  <2>3. (c - 1) * i < n * i
    BY <1>2, <1>6, <2>1, <2>2
  <2>4. c <= n
    <3> HIDE DEF c
    <3>1. c - 1 \in Int
      BY <1>4
    <3>2. c - 1 < n
      BY <3>1, <2>3, MultiplesInOrder
    <3>3. QED
      BY <1>4, <3>2
  <2>5. c * i <= n * i
    BY <1>2, <2>4, MultiplesInOrder
  <2>6. QED
    BY <2>1, <2>5
<1>7. QED
  <2> HIDE DEF c
  <2>1. QED
    BY <1>3, <1>4, <1>5, <1>6

(***************************************************************************)
(* Timetables.  The slots of a member are those of each burst, up to its   *)
(* end, and those of the cadence; At finds the first that is left.         *)
(***************************************************************************)

InBurst(t, a, i, s) ==
    /\ \E n \in Nat : s = t.from + t.bursts[i].from + BurstPhase(a, t.bursts[i])
                            + n * t.bursts[i].interval
    /\ s < Until(t, i)

InCadence(t, a, s) ==
    \E n \in Nat : s = Origin(t) + Phase[a] + n * Interval

\* A slot that is left at a moment: no slot of a burst that is over is.
IsLeft(t, a, m, s) ==
    /\ s >= m - Tolerance
    /\ \/ InCadence(t, a, s)
       \/ \E i \in 1 .. Len(t.bursts) : m < Until(t, i) /\ InBurst(t, a, i, s)

Tables == [from : Nat, bursts : {<<>>, Bursts}]

\* Every table a knock lays out is one of these.
LEMMA TableIsTable ==
  ASSUME NEW f \in Nat, NEW p \in BOOLEAN
  PROVE  Table(f, p) \in Tables
<1>1. CASE p
  BY <1>1 DEF Table, Tables
<1>2. CASE ~p
  BY <1>2 DEF Table, Tables
<1>3. QED
  BY <1>1, <1>2

\* What the assumption says of one burst.
LEMMA BurstFacts ==
  ASSUME NEW i \in 1 .. Len(Bursts)
  PROVE  /\ Bursts[i].from \in Nat /\ Bursts[i].until \in Nat
         /\ Bursts[i].interval \in Nat
         /\ Bursts[i].from < Bursts[i].until
         /\ \A a \in Accounts :
               BurstPhase(a, Bursts[i]) + Tolerance < Bursts[i].interval
         /\ \A j \in 1 .. i - 1 : Bursts[j].until <= Bursts[i].from
<1>1. Bursts[i] \in [from : Nat, until : Nat, interval : Nat]
  <2>1. Bursts \in Seq([from : Nat, until : Nat, interval : Nat])
    BY TimetableAssumption
  <2>2. ASSUME NEW R, Bursts \in Seq(R) PROVE Bursts[i] \in R
    BY <2>2
  <2>3. QED
    BY <2>1, <2>2
<1>2. /\ Bursts[i].from < Bursts[i].until
      /\ \A a \in Accounts :
            BurstPhase(a, Bursts[i]) + Tolerance < Bursts[i].interval
      /\ \A j \in 1 .. i - 1 : Bursts[j].until <= Bursts[i].from
  BY TimetableAssumption, Zenon
<1>3. QED
  BY <1>1, <1>2

\* The place of a member in a burst is a number.
LEMMA BurstPhaseNat ==
  ASSUME NEW a \in Accounts, NEW i \in 1 .. Len(Bursts)
  PROVE  BurstPhase(a, Bursts[i]) \in Nat
<1>1. Interval \in Nat /\ Interval > 0 /\ Phase[a] \in Nat
  BY TimetableAssumption
<1>2. Bursts[i].interval \in Nat
  BY BurstFacts
<1>3. Phase[a] % Interval \in Nat
  BY <1>1
<1>4. ASSUME NEW x \in Nat, NEW y \in Nat, NEW z \in Nat, z > 0
      PROVE  (2 * x * y + z) \div (2 * z) \in Nat
  <2>1. 2 * x * y \in Nat
    OBVIOUS
  <2>2. 2 * x * y + z \in Nat /\ 2 * z \in Nat /\ 2 * z > 0
    BY <1>4, <2>1
  <2>3. ASSUME NEW v \in Nat, NEW w \in Nat, w > 0 PROVE v \div w \in Nat
    BY <2>3
  <2>4. QED
    BY <2>2, <2>3
<1>5. QED
  BY <1>1, <1>2, <1>3, <1>4 DEF BurstPhase

\* The bursts of a table come one after the other and before its cadence.
LEMMA TableFacts ==
  ASSUME NEW t \in Tables, NEW a \in Accounts
  PROVE  /\ t.from \in Nat /\ Origin(t) \in Nat /\ Len(t.bursts) \in Nat
         /\ \A i \in 1 .. Len(t.bursts) :
               /\ t.bursts[i].from \in Nat /\ t.bursts[i].interval \in Nat
               /\ t.bursts[i].until \in Nat
               /\ t.bursts[i].from < t.bursts[i].until
               /\ Until(t, i) \in Nat
               /\ BurstPhase(a, t.bursts[i]) \in Nat
               /\ BurstPhase(a, t.bursts[i]) + Tolerance < t.bursts[i].interval
               /\ Until(t, i) <= Origin(t)
               /\ \A j \in 1 .. i - 1 : Until(t, j) <= t.from + t.bursts[i].from
<1>1. t.from \in Nat /\ t.bursts \in {<<>>, Bursts}
  BY DEF Tables
<1>2. CASE t.bursts = <<>>
  BY <1>1, <1>2 DEF Origin
<1>3. CASE t.bursts = Bursts /\ Bursts # <<>>
  <2>1. Len(Bursts) \in Nat /\ Len(Bursts) \in 1 .. Len(Bursts)
    BY <1>3, TimetableAssumption
  <2>2. \A i \in 1 .. Len(Bursts) :
            /\ Bursts[i].from \in Nat /\ Bursts[i].interval \in Nat
            /\ Bursts[i].until \in Nat /\ Bursts[i].from < Bursts[i].until
            /\ BurstPhase(a, Bursts[i]) + Tolerance < Bursts[i].interval
            /\ \A j \in 1 .. i - 1 : Bursts[j].until <= Bursts[i].from
    BY BurstFacts
  <2>3. Origin(t) = t.from + Bursts[Len(Bursts)].until
    BY <1>3 DEF Origin, Until
  <2>4. \A i \in 1 .. Len(Bursts) : Until(t, i) = t.from + Bursts[i].until
    BY <1>3 DEF Until
  <2>5. Origin(t) \in Nat
    BY <1>1, <2>1, <2>2, <2>3
  <2>6. ASSUME NEW i \in 1 .. Len(Bursts)
        PROVE  Bursts[i].until <= Bursts[Len(Bursts)].until
    <3>1. CASE i = Len(Bursts)
      BY <2>1, <2>2, <3>1
    <3>2. CASE i # Len(Bursts)
      <4>1. i \in 1 .. Len(Bursts) - 1
        BY <2>1, <3>2
      <4>2. Bursts[i].until <= Bursts[Len(Bursts)].from
        BY <2>1, <2>2, <4>1
      <4>3. QED
        BY <2>1, <2>2, <4>2
    <3>3. QED
      BY <3>1, <3>2
  <2>7. ASSUME NEW i \in 1 .. Len(Bursts)
        PROVE  Until(t, i) \in Nat /\ Until(t, i) <= Origin(t)
    BY <1>1, <2>1, <2>2, <2>3, <2>4, <2>6
  <2>8. ASSUME NEW i \in 1 .. Len(Bursts), NEW j \in 1 .. i - 1
        PROVE  Until(t, j) <= t.from + Bursts[i].from
    <3>1. j \in 1 .. Len(Bursts)
      BY <2>1
    <3>2. Bursts[j].until <= Bursts[i].from
      BY BurstFacts
    <3>3. QED
      BY <1>1, <2>4, <3>1, <3>2, BurstFacts
  <2>9. \A i \in 1 .. Len(Bursts) : BurstPhase(a, Bursts[i]) \in Nat
    BY BurstPhaseNat
  <2>10. t.bursts = Bursts
    BY <1>3
  <2>11. QED
    BY <1>1, <2>1, <2>2, <2>5, <2>7, <2>8, <2>9, <2>10
<1>4. QED
  BY <1>1, <1>2, <1>3

\* The numbers of the cadence.
LEMMA CadenceFacts ==
  ASSUME NEW a \in Accounts
  PROVE  /\ Interval \in Nat /\ Tolerance \in Nat /\ Phase[a] \in Nat
         /\ Phase[a] + Tolerance < Interval
BY TimetableAssumption

\* The numbers of a burst of a timetable.
LEMMA BurstOfTable ==
  ASSUME NEW t \in Tables, NEW a \in Accounts, NEW i \in 1 .. Len(t.bursts)
  PROVE  /\ t.from \in Nat /\ t.bursts[i].from \in Nat
         /\ t.from + t.bursts[i].from \in Nat
         /\ t.bursts[i].interval \in Nat /\ Until(t, i) \in Nat
         /\ BurstPhase(a, t.bursts[i]) \in Nat /\ Tolerance \in Nat
         /\ BurstPhase(a, t.bursts[i]) + Tolerance < t.bursts[i].interval
         /\ Until(t, i) <= Origin(t)
<1>1. /\ t.from \in Nat /\ t.bursts[i].from \in Nat
      /\ t.bursts[i].interval \in Nat /\ Until(t, i) \in Nat
      /\ BurstPhase(a, t.bursts[i]) \in Nat
      /\ BurstPhase(a, t.bursts[i]) + Tolerance < t.bursts[i].interval
      /\ Until(t, i) <= Origin(t)
  BY ONLY TableFacts, t \in Tables, a \in Accounts, i \in 1 .. Len(t.bursts)
<1>2. t.from + t.bursts[i].from \in Nat
  BY ONLY <1>1
<1>3. QED
  BY <1>1, <1>2, CadenceFacts

\* What a burst offers for a moment before its end is its first slot left, and
\* it offers nothing if that lies past the end.
LEMMA BurstSlotIsFirst ==
  ASSUME NEW t \in Tables, NEW a \in Accounts, NEW m \in Nat,
         NEW i \in 1 .. Len(t.bursts)
  PROVE  LET s == BurstSlot(t, a, i, m)
         IN /\ s \in Int /\ s >= m - Tolerance
            /\ s < Until(t, i) => InBurst(t, a, i, s)
            /\ \A z \in Int : InBurst(t, a, i, z) /\ z >= m - Tolerance => s <= z
<1> DEFINE b == t.bursts[i]
           from == t.from + b.from
           late == Larger(m, from)
           s == BurstSlot(t, a, i, m)
<1>1. /\ from \in Nat /\ b.interval \in Nat /\ BurstPhase(a, b) \in Nat
      /\ BurstPhase(a, b) + Tolerance < b.interval /\ Tolerance \in Nat
  BY BurstOfTable
<1>2. late \in Nat /\ late >= from /\ late >= m
  BY <1>1 DEF Larger
<1>3. s = SlotAtOrAfter(late, from, BurstPhase(a, b), b.interval)
  BY DEF BurstSlot
<1>4. /\ \E n \in Nat : s = from + BurstPhase(a, b) + n * b.interval
      /\ s >= late - Tolerance
      /\ \A n \in Nat : from + BurstPhase(a, b) + n * b.interval >= late - Tolerance
                           => s <= from + BurstPhase(a, b) + n * b.interval
  <2> DEFINE p == BurstPhase(a, b)
             v == b.interval
             z == SlotAtOrAfter(late, from, p, v)
  <2>1. /\ late \in Nat /\ from \in Nat /\ p \in Nat /\ v \in Nat
        /\ Tolerance \in Nat /\ late >= from /\ p + Tolerance < v
    BY <1>1, <1>2
  <2>2. /\ \E n \in Nat : z = from + p + n * v
        /\ z >= late - Tolerance /\ z < late - Tolerance + v
        /\ \A n \in Nat : from + p + n * v >= late - Tolerance
                             => z <= from + p + n * v
    <3> HIDE DEF late, from, p, v
    <3>1. QED
      BY <2>1, SlotIsFirst
  <2>3. s = z
    BY <1>3
  <2>4. QED
    BY <2>2, <2>3
<1>5. s \in Int /\ s >= m - Tolerance
  <2>1. PICK n \in Nat : s = from + BurstPhase(a, b) + n * b.interval
    BY <1>4
  <2>2. n * b.interval \in Int
    <3> HIDE DEF s, late, from, b
    <3>1. QED
      BY <1>1, <2>1
  <2> DEFINE p == BurstPhase(a, b)
             w == n * b.interval
  <2>3. /\ s = from + p + w /\ from \in Nat /\ p \in Nat /\ w \in Int
        /\ s >= late - Tolerance /\ late \in Nat /\ late >= m
        /\ Tolerance \in Nat
    BY <1>1, <1>2, <1>4, <2>1, <2>2
  <2> HIDE DEF s, late, from, p, w
  <2>4. QED
    BY ONLY <2>3, m \in Nat
<1>6. ASSUME s < Until(t, i) PROVE InBurst(t, a, i, s)
  BY <1>4, <1>6 DEF InBurst
<1>7. ASSUME NEW z \in Int, InBurst(t, a, i, z), z >= m - Tolerance
      PROVE  s <= z
  <2>1. PICK n \in Nat : z = from + BurstPhase(a, b) + n * b.interval
    BY <1>7 DEF InBurst
  <2>2. n * b.interval \in Nat
    BY <1>1
  <2>3. late = m \/ late = from
    BY DEF Larger
  <2>4. z >= late - Tolerance
    <3> DEFINE p == BurstPhase(a, b)
               w == n * b.interval
    <3>1. z = from + p + w /\ from \in Nat /\ p \in Nat /\ w \in Nat
      BY <1>1, <2>1, <2>2
    <3>2. z >= m - Tolerance /\ Tolerance \in Nat
      BY <1>1, <1>7
    <3> HIDE DEF late, from, p, w
    <3>3. QED
      BY ONLY <2>3, <3>1, <3>2
  <2>5. QED
    BY <1>4, <2>1, <2>4
<1>8. QED
  <2> HIDE DEF s
  <2>1. QED
    BY <1>5, <1>6, <1>7 DEF s

\* The same of the cadence, which has no end and starts no earlier than the
\* bursts are over.
LEMMA CadenceSlotIsFirst ==
  ASSUME NEW t \in Tables, NEW a \in Accounts, NEW m \in Nat
  PROVE  LET late == Larger(m, Origin(t))
             s == SlotAtOrAfter(late, Origin(t), Phase[a], Interval)
         IN /\ s \in Nat /\ s >= m - Tolerance /\ InCadence(t, a, s)
            /\ s <= late + Interval
            /\ \A z \in Int : InCadence(t, a, z) /\ z >= m - Tolerance => s <= z
<1> DEFINE o == Origin(t)
           late == Larger(m, o)
           s == SlotAtOrAfter(late, o, Phase[a], Interval)
<1>1. /\ o \in Nat /\ Interval \in Nat /\ Phase[a] \in Nat
      /\ Phase[a] + Tolerance < Interval /\ Tolerance \in Nat
  BY TableFacts, TimetableAssumption
<1>2. late \in Nat /\ late >= o /\ late >= m /\ (late = m \/ late = o)
  BY <1>1 DEF Larger
<1>3. /\ \E n \in Nat : s = o + Phase[a] + n * Interval
      /\ s >= late - Tolerance /\ s < late - Tolerance + Interval
      /\ \A n \in Nat : o + Phase[a] + n * Interval >= late - Tolerance
                           => s <= o + Phase[a] + n * Interval
  <2> HIDE DEF late, o
  <2>1. QED
    BY <1>1, <1>2, SlotIsFirst
<1>4. InCadence(t, a, s)
  BY <1>3 DEF InCadence
<1>5. s \in Nat /\ s >= m - Tolerance /\ s <= late + Interval
  <2>1. PICK n \in Nat : s = o + Phase[a] + n * Interval
    BY <1>3
  <2>2. n * Interval \in Nat
    BY <1>1
  <2> HIDE DEF s, late, o
  <2>3. QED
    BY <1>1, <1>2, <1>3, <2>1, <2>2
<1>6. ASSUME NEW z \in Int, InCadence(t, a, z), z >= m - Tolerance
      PROVE  s <= z
  <2>1. PICK n \in Nat : z = o + Phase[a] + n * Interval
    BY <1>6 DEF InCadence
  <2>2. n * Interval \in Nat
    BY <1>1
  <2>3. z >= late - Tolerance
    <3> HIDE DEF s, late, o
    <3>1. QED
      BY <1>1, <1>2, <1>6, <2>1, <2>2
  <2>4. QED
    BY <1>3, <2>1, <2>3
<1>7. QED
  BY <1>4, <1>5, <1>6

\* A burst's slots lie within it.
LEMMA BurstBounds ==
  ASSUME NEW t \in Tables, NEW a \in Accounts, NEW i \in 1 .. Len(t.bursts),
         NEW z, InBurst(t, a, i, z)
  PROVE  z \in Nat /\ z >= t.from + t.bursts[i].from /\ z < Until(t, i)
<1> DEFINE b == t.bursts[i]
           first == t.from + b.from + BurstPhase(a, b)
<1>1. t.from \in Nat /\ b.from \in Nat /\ BurstPhase(a, b) \in Nat
      /\ b.interval \in Nat
  BY BurstOfTable
<1>2. PICK n \in Nat : z = first + n * b.interval
  BY DEF InBurst
<1>3. n * b.interval \in Nat
  BY <1>1
<1>4. z \in Nat /\ z >= t.from + b.from
  <2> DEFINE f == b.from
             p == BurstPhase(a, b)
             g == n * b.interval
  <2>1. /\ t.from \in Nat /\ f \in Nat /\ p \in Nat /\ g \in Nat
        /\ z = t.from + f + p + g
    BY <1>1, <1>2, <1>3
  <2>2. z >= t.from + f
    <3> HIDE DEF f, p, g
    <3>1. QED
      BY <2>1
  <2>3. z \in Nat
    <3> HIDE DEF f, p, g
    <3>1. QED
      BY <2>1
  <2>4. QED
    BY <2>2, <2>3
<1>5. QED
  BY <1>4 DEF InBurst

\* The cadence's slots come after its origin.
LEMMA CadenceBounds ==
  ASSUME NEW t \in Tables, NEW a \in Accounts, NEW z, InCadence(t, a, z)
  PROVE  z \in Nat /\ z >= Origin(t)
<1>1. Origin(t) \in Nat /\ Phase[a] \in Nat /\ Interval \in Nat
  BY TableFacts, TimetableAssumption
<1>2. PICK n \in Nat : z = Origin(t) + Phase[a] + n * Interval
  BY DEF InCadence
<1>3. n * Interval \in Nat
  BY <1>1
<1>4. QED
  BY <1>1, <1>2, <1>3

\* A burst with a slot left at a moment is among those At looks at.
LEMMA LeftIsHit ==
  ASSUME NEW t \in Tables, NEW a \in Accounts, NEW m \in Nat,
         NEW i \in 1 .. Len(t.bursts), NEW z \in Int,
         m < Until(t, i), InBurst(t, a, i, z), z >= m - Tolerance
  PROVE  i \in Hits(t, a, m) /\ BurstSlot(t, a, i, m) <= z
<1>1. BurstSlot(t, a, i, m) \in Int /\ BurstSlot(t, a, i, m) <= z
  BY BurstSlotIsFirst
<1>2. z < Until(t, i) /\ Until(t, i) \in Nat
  BY BurstBounds, TableFacts
<1>3. BurstSlot(t, a, i, m) < Until(t, i)
  BY <1>1, <1>2
<1>4. QED
  BY <1>1, <1>3 DEF Hits

\* At finds the first slot that is left (schedule.go:32): a burst's before any
\* later burst's and before the cadence's.
LEMMA AtIsFirst ==
  ASSUME NEW t \in Tables, NEW a \in Accounts, NEW m \in Nat
  PROVE  /\ At(t, a, m) \in Nat /\ At(t, a, m) >= m - Tolerance
         /\ At(t, a, m) <= Larger(m, Origin(t)) + Interval
         /\ IsLeft(t, a, m, At(t, a, m))
         /\ \A z : IsLeft(t, a, m, z) => At(t, a, m) <= z
<1> DEFINE hits == Hits(t, a, m)
           cadence == SlotAtOrAfter(Larger(m, Origin(t)), Origin(t), Phase[a], Interval)
<1>1. /\ cadence \in Nat /\ cadence >= m - Tolerance /\ InCadence(t, a, cadence)
      /\ cadence <= Larger(m, Origin(t)) + Interval
      /\ \A z \in Int : InCadence(t, a, z) /\ z >= m - Tolerance => cadence <= z
  BY CadenceSlotIsFirst
<1>2. CASE hits = {}
  <2>1. At(t, a, m) = cadence
    BY <1>2 DEF At
  <2>2. IsLeft(t, a, m, cadence)
    BY <1>1 DEF IsLeft
  <2>3. ASSUME NEW z, IsLeft(t, a, m, z) PROVE cadence <= z
    <3>1. CASE InCadence(t, a, z)
      <4>1. z \in Int
        BY <3>1, CadenceBounds
      <4>2. QED
        BY <1>1, <2>3, <3>1, <4>1 DEF IsLeft
    <3>2. CASE \E i \in 1 .. Len(t.bursts) : m < Until(t, i) /\ InBurst(t, a, i, z)
      <4>1. PICK i \in 1 .. Len(t.bursts) : m < Until(t, i) /\ InBurst(t, a, i, z)
        BY <3>2
      <4>2. z \in Int /\ z >= m - Tolerance
        BY <2>3, <4>1, BurstBounds DEF IsLeft
      <4>3. i \in hits
        BY <4>1, <4>2, LeftIsHit
      <4>4. QED
        BY <1>2, <4>3
    <3>3. QED
      BY <2>3, <3>1, <3>2 DEF IsLeft
  <2> HIDE DEF cadence
  <2>4. QED
    BY <1>1, <2>1, <2>2, <2>3
<1>3. CASE hits # {}
  <2> DEFINE i == CHOOSE j \in hits : \A l \in hits : j <= l
             s == BurstSlot(t, a, i, m)
  <2>1. hits \subseteq 1 .. Len(t.bursts) /\ Len(t.bursts) \in Nat
    BY TableFacts DEF Hits
  <2>2. \E j \in hits : \A l \in hits : j <= l
    <3>1. hits \in SUBSET Nat
      BY <2>1
    <3> HIDE DEF hits
    <3>2. QED
      BY <1>3, <3>1, LeastNatural
  <2>3. i \in hits /\ \A l \in hits : i <= l
    <3> HIDE DEF hits
    <3>1. QED
      BY <2>2
  <2>4. At(t, a, m) = s
    BY <1>3 DEF At
  <2> HIDE DEF i
  <2>5. i \in 1 .. Len(t.bursts) /\ m < Until(t, i) /\ s < Until(t, i)
    BY <2>1, <2>3 DEF Hits
  <2>6. s \in Int /\ s >= m - Tolerance /\ InBurst(t, a, i, s)
    BY <2>5, BurstSlotIsFirst
  <2>7. s \in Nat
    BY <2>5, <2>6, BurstBounds
  <2>8. IsLeft(t, a, m, s)
    BY <2>5, <2>6 DEF IsLeft
  <2>9. Until(t, i) \in Nat /\ Origin(t) \in Nat /\ Until(t, i) <= Origin(t)
    BY <2>5, TableFacts
  <2>10. s <= Larger(m, Origin(t)) + Interval
    <3>1. Larger(m, Origin(t)) \in Nat /\ Origin(t) <= Larger(m, Origin(t))
      BY <2>9 DEF Larger
    <3>2. Interval \in Nat
      BY TimetableAssumption
    <3> HIDE DEF s
    <3>3. QED
      BY <2>5, <2>7, <2>9, <3>1, <3>2
  <2>11. ASSUME NEW z, IsLeft(t, a, m, z) PROVE s <= z
    <3>1. CASE InCadence(t, a, z)
      <4>1. z \in Nat /\ z >= Origin(t)
        BY <3>1, CadenceBounds
      <4> HIDE DEF s
      <4>2. QED
        BY <2>5, <2>7, <2>9, <4>1
    <3>2. CASE \E j \in 1 .. Len(t.bursts) : m < Until(t, j) /\ InBurst(t, a, j, z)
      <4>1. PICK j \in 1 .. Len(t.bursts) : m < Until(t, j) /\ InBurst(t, a, j, z)
        BY <3>2
      <4>2. z \in Nat /\ z >= m - Tolerance /\ z >= t.from + t.bursts[j].from
        BY <2>11, <4>1, BurstBounds DEF IsLeft
      <4>3. j \in hits /\ BurstSlot(t, a, j, m) <= z
        BY <4>1, <4>2, LeftIsHit
      <4>4. i <= j
        BY <2>3, <4>3
      <4>5. CASE i = j
        BY <4>3, <4>5
      <4>6. CASE i # j
        <5>1. i \in 1 .. j - 1
          BY <2>1, <2>5, <4>1, <4>4, <4>6
        <5>2. Until(t, i) <= t.from + t.bursts[j].from
              /\ t.from + t.bursts[j].from \in Nat
          BY <4>1, <5>1, TableFacts
        <5> HIDE DEF s
        <5>3. QED
          BY <2>5, <2>7, <2>9, <4>2, <5>2
      <4>7. QED
        BY <4>5, <4>6
    <3>3. QED
      BY <2>11, <3>1, <3>2 DEF IsLeft
  <2> HIDE DEF s
  <2>12. QED
    BY <2>4, <2>6, <2>7, <2>8, <2>10, <2>11
<1>4. QED
  BY <1>2, <1>3

\* A later moment has no earlier slot.
LEMMA AtInOrder ==
  ASSUME NEW t \in Tables, NEW a \in Accounts,
         NEW m \in Nat, NEW n \in Nat, m <= n
  PROVE  At(t, a, m) <= At(t, a, n)
<1>1. IsLeft(t, a, n, At(t, a, n)) /\ At(t, a, n) \in Nat
  BY AtIsFirst
<1>2. \A i \in 1 .. Len(t.bursts) : Until(t, i) \in Nat
  BY TableFacts
<1>3. IsLeft(t, a, m, At(t, a, n))
  BY <1>1, <1>2, TimetableAssumption DEF IsLeft
<1>4. QED
  BY <1>3, AtIsFirst

(***************************************************************************)
(* Types, and the counts of holders.                                       *)
(***************************************************************************)

Late == {"top", "sleep", "hand", "write"}

\* The holders are counted, and what the collector is to get back is the usual
\* setting, also while one knock's thread holds after another's.
HoldInv ==
    /\ IsFiniteSet(held) /\ CountsAreHolders
    /\ channel \in Nat /\ gcSaved \in Int /\ (held # {} => gcSaved = Percent)

\* Where the threads are: none has begun before its knock, none holds before it
\* has laid its slots out or after it ended, and one that waits or writes does
\* so for a member.
BegunInv ==
    /\ \A k \in Knocks : pc[k] = "none" <=> k > knock
    /\ \A k \in Knocks : pc[k] \in {"none", "lay", "over"} => k \notin held
    /\ \A k \in Knocks : pc[k] \in {"sleep", "hand", "write"} => due[k] \in Accounts
    /\ \A k \in Knocks : k < knock => k \in done

TypeInv == TypeOK /\ HoldInv /\ BegunInv

\* A thread that starts to hold is counted in.
LEMMA HoldOnCounts ==
  ASSUME HoldInv, NEW k \in Knocks, k \notin held, HoldOn(k)
  PROVE  HoldInv'
<1>1. IsFiniteSet(held') /\ Cardinality(held') = Cardinality(held) + 1
  BY FS_AddElement DEF HoldInv, HoldOn
<1>2. Cardinality(held) \in Nat /\ (Cardinality(held) = 0 <=> held = {})
  BY FS_CardinalityType, FS_EmptySet DEF HoldInv
<1>3. held' # {}
  BY DEF HoldOn
<1>4. bursting' = Cardinality(held') /\ gcHeld' = Cardinality(held')
  BY <1>1, <1>2 DEF HoldInv, CountsAreHolders, HoldOn
<1>5. gcSaved' = Percent /\ gcPercent' = -1
  BY <1>2 DEF HoldInv, CountsAreHolders, HoldOn
<1>6. channel' \in Nat /\ gcSaved' \in Int
  BY <1>5, TimetableAssumption DEF HoldInv, HoldOn
<1>7. QED
  BY <1>1, <1>3, <1>4, <1>5, <1>6 DEF HoldInv, CountsAreHolders

\* A holder that lets go is counted out, and the last gives the setting back.
LEMMA HoldOffCounts ==
  ASSUME HoldInv, NEW k \in held, HoldOff(k)
  PROVE  HoldInv'
<1>1. IsFiniteSet(held') /\ Cardinality(held') = Cardinality(held) - 1
  BY FS_RemoveElement DEF HoldInv, HoldOff
<1>2. /\ Cardinality(held) \in Nat /\ Cardinality(held') \in Nat
      /\ (Cardinality(held') = 0 <=> held' = {})
  BY <1>1, FS_CardinalityType, FS_EmptySet DEF HoldInv
<1>3. bursting' = Cardinality(held') /\ gcHeld' = Cardinality(held')
  BY <1>1, <1>2 DEF HoldInv, CountsAreHolders, HoldOff, Larger
<1>4. gcSaved' = Percent /\ gcSaved = Percent /\ gcPercent = -1
  BY DEF HoldInv, CountsAreHolders, HoldOff
<1>5. gcPercent' = IF held' = {} THEN Percent ELSE -1
  BY <1>1, <1>2, <1>4 DEF HoldInv, CountsAreHolders, HoldOff
<1>6. channel' \in Nat /\ gcSaved' \in Int
  BY <1>4, TimetableAssumption DEF HoldInv, HoldOff
<1>7. QED
  BY <1>1, <1>3, <1>4, <1>5, <1>6 DEF HoldInv, CountsAreHolders

\* The holds of a step: a thread starts to hold when it lays out, and stops
\* when its burst is over or when it ends.
LEMMA HoldStep ==
  ASSUME TypeInv, Next
  PROVE  /\ HoldInv'
         /\ held' \subseteq 1 .. knock'
         /\ \A k \in Knocks : pc'[k] \in {"none", "lay", "over"} => k \notin held'
<1>1. /\ HoldInv /\ held \subseteq 1 .. knock
      /\ knock \in 0 .. MaxKnocks /\ MaxKnocks \in Nat
      /\ pc \in [Knocks -> {"none", "lay", "top", "sleep", "hand", "write", "over"}]
      /\ \A k \in Knocks : pc[k] = "none" <=> k > knock
      /\ \A k \in Knocks : pc[k] \in {"none", "lay", "over"} => k \notin held
  BY TimetableAssumption DEF TypeInv, TypeOK, BegunInv
<1>2. ASSUME UNCHANGED quietVars PROVE HoldInv'
  BY <1>1, <1>2 DEF quietVars, HoldInv, CountsAreHolders
<1>3. ASSUME UNCHANGED quietVars, UNCHANGED <<knock, pc>>
      PROVE  /\ held' \subseteq 1 .. knock'
             /\ \A k \in Knocks : pc'[k] \in {"none", "lay", "over"} => k \notin held'
  BY <1>1, <1>3 DEF quietVars
<1>4. CASE Advance \/ ReaderTakes \/ ReaderReturns
  BY <1>2, <1>3, <1>4 DEF Advance, ReaderTakes, ReaderReturns, threads, knockVars
<1>5. CASE Begin
  <2>1. UNCHANGED held /\ knock' = knock + 1 /\ pc' = [pc EXCEPT ![knock'] = "lay"]
        /\ UNCHANGED quietVars /\ knock < MaxKnocks
    BY <1>5 DEF Begin, quietVars
  <2>2. ASSUME NEW k \in Knocks, pc'[k] \in {"none", "lay", "over"} PROVE k \notin held'
    BY <1>1, <2>1, <2>2
  <2>3. held' \subseteq 1 .. knock'
    BY <1>1, <2>1
  <2>4. QED
    BY <1>2, <2>1, <2>2, <2>3
<1>6. ASSUME NEW k \in Knocks, Return(k) \/ \E a \in Accounts : MemberStops(k, a)
      PROVE  UNCHANGED quietVars /\ UNCHANGED <<knock, pc>>
  BY <1>6 DEF Return, MemberStops, threads
<1>7. ASSUME NEW k \in Knocks, Step(k)
      PROVE  /\ HoldInv'
             /\ held' \subseteq 1 .. knock'
             /\ \A j \in Knocks : pc'[j] \in {"none", "lay", "over"} => j \notin held'
  <2> DEFINE Kept(to) == /\ knock' = knock /\ pc' = [pc EXCEPT ![k] = to]
  <2>1. ASSUME NEW to, Kept(to), to \in Late, held' \subseteq held \cup {k}, k <= knock
        PROVE  /\ held' \subseteq 1 .. knock'
               /\ \A j \in Knocks : pc'[j] \in {"none", "lay", "over"} => j \notin held'
    BY <1>1, <2>1 DEF Late, Knocks
  <2>2. CASE LayOutSomewhere(k)
    <3>1. PICK from : LayOut(k, from)
      BY <2>2 DEF LayOutSomewhere
    <3>2. k \notin held /\ k <= knock
      BY <1>1, <3>1 DEF LayOut, Knocks
    <3>3. HoldOn(k) \/ UNCHANGED quietVars
      BY <3>1 DEF LayOut
    <3>4. held' \subseteq held \cup {k} /\ Kept("top")
      BY <3>1, <3>3 DEF LayOut, HoldOn, quietVars, knockVars
    <3>5. HoldInv'
      BY <1>1, <1>2, <3>2, <3>3, HoldOnCounts
    <3>6. QED
      BY <2>1, <3>2, <3>4, <3>5 DEF Late
  <2>3. ASSUME NEW a \in Accounts, Choose(k, a)
        PROVE  /\ HoldInv'
               /\ held' \subseteq 1 .. knock'
               /\ \A j \in Knocks : pc'[j] \in {"none", "lay", "over"} => j \notin held'
    <3>1. (k \in held /\ HoldOff(k)) \/ UNCHANGED quietVars
      BY <2>3 DEF Choose, QuietAgain
    <3>2. held' \subseteq held \cup {k} /\ Kept("sleep") /\ k <= knock
      BY <1>1, <2>3, <3>1 DEF Choose, HoldOff, quietVars, knockVars, Knocks
    <3>3. HoldInv'
      BY <1>1, <1>2, <3>1, HoldOffCounts
    <3>4. QED
      BY <2>1, <3>2, <3>3 DEF Late
  <2>4. CASE Leaves(k)
    <3>1. (k \in held /\ HoldOff(k)) \/ (k \notin held /\ UNCHANGED quietVars)
      BY <2>4 DEF Leaves, LetGo
    <3>2. held' = held \ {k} /\ knock' = knock /\ pc' = [pc EXCEPT ![k] = "over"]
      BY <2>4, <3>1 DEF Leaves, HoldOff, quietVars, knockVars
    <3>3. HoldInv'
      BY <1>1, <1>2, <3>1, HoldOffCounts
    <3>4. held' \subseteq 1 .. knock'
      BY <1>1, <3>2
    <3>5. \A j \in Knocks : pc'[j] \in {"none", "lay", "over"} => j \notin held'
      BY <1>1, <3>2
    <3>6. QED
      BY <3>3, <3>4, <3>5
  <2>5. CASE SleptForNothing(k) \/ Wake(k) \/ HandOver(k) \/ WriteNext(k)
    <3>1. UNCHANGED quietVars /\ k <= knock
      BY <1>1, <2>5 DEF SleptForNothing, Wake, HandOver, WriteNext, Knocks
    <3>2. held' \subseteq held \cup {k}
      BY <3>1 DEF quietVars
    <3>3. Kept("top") \/ Kept("hand") \/ Kept("write")
      BY <2>5 DEF SleptForNothing, Wake, HandOver, WriteNext, knockVars
    <3>4. QED
      <4> HIDE DEF Kept
      <4>1. "top" \in Late /\ "hand" \in Late /\ "write" \in Late
        BY DEF Late
      <4>2. QED
        BY <1>2, <2>1, <3>1, <3>2, <3>3, <4>1
  <2>6. QED
    BY <1>7, <2>2, <2>3, <2>4, <2>5 DEF Step, NobodySends, SeesTheEnd
<1>8. QED
  BY <1>2, <1>3, <1>4, <1>5, <1>6, <1>7 DEF Next

\* The rest of the types, and where the threads are.
Typed ==
    /\ now \in Nat /\ knock \in 0 .. MaxKnocks /\ done \subseteq 1 .. knock
    /\ sending \in [Knocks -> SUBSET Accounts]
    /\ previewed \in [Knocks -> BOOLEAN]
    /\ pc \in [Knocks -> {"none", "lay", "top", "sleep", "hand", "write", "over"}]
    /\ start \in [Knocks -> Nat]
    /\ next \in [Knocks -> [Accounts -> Nat]]
    /\ due \in [Knocks -> Accounts \cup {None}]
    /\ nextSlot \in [Accounts -> Nat] /\ clear \in [Accounts -> Nat]
    /\ stray \subseteq Accounts
    /\ reader \in {"out", "holding"} /\ reading \in Nat
    /\ \A k \in Knocks : pc[k] = "none" <=> k > knock
    /\ \A k \in Knocks : pc[k] \in {"sleep", "hand", "write"} => due[k] \in Accounts
    /\ \A k \in Knocks : k < knock => k \in done

\* Only threads at work hold.
Holders ==
    /\ held \subseteq 1 .. knock
    /\ \A k \in Knocks : pc[k] \in {"none", "lay", "over"} => k \notin held

\* The invariant is made of these parts.
LEMMA TypeParts == TypeInv <=> Typed /\ HoldInv /\ Holders
<1>1. TypeInv => Typed /\ HoldInv /\ Holders
  BY DEF TypeInv, TypeOK, BegunInv, Typed, Holders
<1>2. ASSUME Typed, HoldInv, Holders
      PROVE  TypeInv
  <2>1. Cardinality(held) \in Nat
    BY <1>2, FS_CardinalityType DEF HoldInv
  <2>2. bursting \in Nat /\ gcHeld \in Nat /\ channel \in Nat /\ gcSaved \in Int
        /\ gcPercent \in {Percent, -1}
    BY <1>2, <2>1 DEF HoldInv, CountsAreHolders
  <2>3. TypeOK
    BY <1>2, <2>2 DEF Typed, TypeOK, Holders
  <2>4. BegunInv
    BY <1>2 DEF Typed, BegunInv, Holders
  <2>5. QED
    BY <1>2, <2>3, <2>4 DEF TypeInv
<1>3. QED
  BY <1>1, <1>2

\* A table a thread lays out, or works from, is a table.
LEMMA ThreadTable ==
  ASSUME Typed, NEW k \in Knocks
  PROVE  TableOf(k) \in Tables
<1>1. start[k] \in Nat /\ previewed[k] \in BOOLEAN
  BY DEF Typed
<1>2. QED
  BY <1>1, TableIsTable DEF TableOf

\* The steps of a thread keep the types.
LEMMA TypedThread ==
  ASSUME Typed, NEW k \in Knocks, Step(k)
  PROVE  Typed'
<1>1. CASE LayOutSomewhere(k)
  <2>1. PICK from \in Larger(0, now - AnchorLag) .. now : LayOut(k, from)
    BY <1>1 DEF LayOutSomewhere
  <2>2. now \in Nat /\ Larger(0, now - AnchorLag) \in Nat
    BY TimetableAssumption DEF Typed, Larger
  <2>3. from \in Nat
    BY <2>1, <2>2
  <2>4. previewed[k] \in BOOLEAN /\ nextSlot \in [Accounts -> Nat]
    BY DEF Typed
  <2> DEFINE t == Table(from, previewed[k])
             laid == [a \in Accounts |-> At(t, a, Larger(now, nextSlot[a]))]
  <2>5. t \in Tables
    BY <2>3, <2>4, TableIsTable
  <2>6. ASSUME NEW a \in Accounts
        PROVE  At(t, a, Larger(now, nextSlot[a])) \in Nat
    <3>1. Larger(now, nextSlot[a]) \in Nat
      BY <2>2, <2>4 DEF Larger
    <3> HIDE DEF t
    <3>2. QED
      BY <2>5, <3>1, AtIsFirst
  <2>7. laid \in [Accounts -> Nat]
    <3> HIDE DEF t
    <3>1. QED
      BY <2>6
  <2>8. /\ start' = [start EXCEPT ![k] = from] /\ next' = [next EXCEPT ![k] = laid]
        /\ pc' = [pc EXCEPT ![k] = "top"] /\ pc[k] = "lay"
        /\ UNCHANGED <<now, knock, done, sending, previewed, due, reader, reading,
                       nextSlot, clear, stray>>
    BY <2>1 DEF LayOut, knockVars, readerVars
  <2> HIDE DEF laid
  <2>9. QED
    BY <2>3, <2>7, <2>8 DEF Typed
<1>2. ASSUME NEW a \in Accounts, Choose(k, a) PROVE Typed'
  BY <1>2 DEF Choose, Typed, knockVars, readerVars
<1>3. CASE pc[k] # "none" /\ Leaves(k)
  <2>1. [a \in Accounts |-> 0] \in [Accounts -> Nat]
    OBVIOUS
  <2>2. QED
    BY <1>3, <2>1 DEF Leaves, Typed, knockVars, readerVars
<1>4. CASE SleptForNothing(k)
  BY <1>4 DEF SleptForNothing, Typed, knockVars, readerVars
<1>5. CASE Wake(k)
  BY <1>5 DEF Wake, Typed, knockVars, readerVars
<1>6. CASE HandOver(k)
  <2> DEFINE a == due[k]
             later == Larger(next[k][a] + Tolerance + 1, now)
             after == At(TableOf(k), a, later)
             clears == At(TableOf(k), a, next[k][a] + Tolerance + 1)
  <2>1. a \in Accounts /\ next[k][a] \in Nat /\ TableOf(k) \in Tables
    BY <1>6, ThreadTable DEF HandOver, Typed
  <2>2. later \in Nat /\ next[k][a] + Tolerance + 1 \in Nat
    BY <2>1, TimetableAssumption DEF Typed, Larger
  <2>3. after \in Nat /\ clears \in Nat
    <3> HIDE DEF later, a
    <3>1. QED
      BY <2>1, <2>2, AtIsFirst
  <2>4. /\ next' = [next EXCEPT ![k][a] = after]
        /\ clear' = clear \/ clear' = [clear EXCEPT ![a] = clears]
        /\ pc[k] = "hand" /\ pc' = [pc EXCEPT ![k] = "write"]
        /\ UNCHANGED <<now, knock, done, sending, previewed, start, due, reader,
                       reading, nextSlot, stray>>
    <3> HIDE DEF after, clears, later
    <3>1. /\ pc[k] = "hand" /\ pc' = [pc EXCEPT ![k] = "write"]
          /\ UNCHANGED <<now, knock, done, sending, previewed, start, due, reader,
                         reading, nextSlot, stray>>
      BY <1>6 DEF HandOver, knockVars, readerVars
    <3>2. next' = [next EXCEPT ![k][a] = after]
      BY <1>6 DEF HandOver, after, later
    <3>3. clear' = clear \/ clear' = [clear EXCEPT ![a] = clears]
      BY <1>6 DEF HandOver, clears
    <3> QED
      BY <3>1, <3>2, <3>3
  <2>5. next' \in [Knocks -> [Accounts -> Nat]] /\ clear' \in [Accounts -> Nat]
    <3> HIDE DEF after, clears, a
    <3>1. next \in [Knocks -> [Accounts -> Nat]] /\ clear \in [Accounts -> Nat]
      BY DEF Typed
    <3>2. next' \in [Knocks -> [Accounts -> Nat]]
      <4>1. next' = [next EXCEPT ![k][a] = after]
        BY <2>4
      <4> QED
        BY ONLY <2>1, <2>3, <3>1, <4>1, k \in Knocks
    <3>3. clear' \in [Accounts -> Nat]
      BY <2>1, <2>3, <2>4, <3>1
    <3>4. QED
      BY <3>2, <3>3
  <2>6. QED
    <3> HIDE DEF after, clears, a
    <3>1. QED
      BY <2>4, <2>5 DEF Typed
<1>7. CASE WriteNext(k)
  <2>1. next[k][due[k]] \in Nat
    BY <1>7 DEF WriteNext, Typed
  <2>2. QED
    BY <1>7, <2>1 DEF WriteNext, Typed, knockVars, readerVars
<1>8. QED
  <2>1. CASE NobodySends(k) \/ SeesTheEnd(k)
    BY <1>3, <2>1 DEF NobodySends, SeesTheEnd
  <2>2. QED
    BY <1>1, <1>2, <1>4, <1>5, <1>6, <1>7, <2>1 DEF Step

\* Every step keeps the types.
LEMMA TypedStep ==
  ASSUME TypeInv, Next
  PROVE  Typed'
<1>1. Typed /\ channel \in Nat
  BY TypeParts DEF TypeInv, HoldInv
<1>2. CASE Advance
  BY <1>1, <1>2 DEF Advance, Typed, knockVars, threads, readerVars
<1>3. CASE Begin
  <2>1. PICK p \in BOOLEAN : previewed' = [previewed EXCEPT ![knock'] = p]
    BY <1>3 DEF Begin
  <2>2. /\ knock' = knock + 1 /\ knock < MaxKnocks /\ (knock > 0 => knock \in done)
        /\ sending' = [sending EXCEPT ![knock'] = Accounts]
        /\ pc' = [pc EXCEPT ![knock'] = "lay"]
        /\ UNCHANGED <<now, done, start, next, due, reader, reading, nextSlot, clear,
                       stray>>
    BY <1>3 DEF Begin, readerVars
  <2>3. knock' \in Knocks /\ knock' \in 0 .. MaxKnocks /\ knock \in 0 .. MaxKnocks
    BY <1>1, <2>2, TimetableAssumption DEF Typed, Knocks
  <2>4. \A k \in Knocks : k < knock' => k \in done
    BY <1>1, <2>2, <2>3 DEF Typed, Knocks
  <2>5. \A k \in Knocks : pc'[k] = "none" <=> k > knock'
    BY <1>1, <2>2, <2>3 DEF Typed, Knocks
  <2>6. done \subseteq 1 .. knock'
    BY <1>1, <2>2, <2>3 DEF Typed
  <2>7. QED
    BY <1>1, <2>1, <2>2, <2>3, <2>4, <2>5, <2>6 DEF Typed
<1>4. ASSUME NEW k \in Knocks, Step(k) PROVE Typed'
  BY <1>1, <1>4, TypedThread
<1>5. ASSUME NEW k \in Knocks, Return(k) PROVE Typed'
  BY <1>1, <1>5 DEF Return, Typed, threads, readerVars, Knocks
<1>6. ASSUME NEW k \in Knocks, NEW a \in Accounts, MemberStops(k, a) PROVE Typed'
  BY <1>1, <1>6 DEF MemberStops, Typed, threads, readerVars
<1>7. CASE ReaderTakes \/ ReaderReturns
  <2>1. reader' \in {"out", "holding"} /\ reading' \in Nat
    BY <1>1, <1>7 DEF ReaderTakes, ReaderReturns
  <2>2. UNCHANGED <<now, knock, done, sending, previewed, pc, start, next, due,
                    nextSlot, clear, stray>>
    BY <1>7 DEF ReaderTakes, ReaderReturns, knockVars, threads
  <2>3. QED
    BY <1>1, <2>1, <2>2 DEF Typed
<1>8. QED
  BY <1>2, <1>3, <1>4, <1>5, <1>6, <1>7 DEF Next

\* The invariant holds on.
LEMMA TypeStep ==
  ASSUME TypeInv, [Next]_vars
  PROVE  TypeInv'
<1>1. CASE Next
  <2>1. Typed' /\ HoldInv' /\ Holders'
    BY <1>1, HoldStep, TypedStep DEF Holders
  <2>2. QED
    BY <2>1, TypeParts, PTL
<1>2. CASE UNCHANGED vars
  BY <1>2 DEF vars, knockVars, threads, quietVars, readerVars, TypeInv, TypeOK,
              HoldInv, BegunInv, CountsAreHolders
<1>3. QED
  BY <1>1, <1>2

\* At the start no thread has begun and nothing is held.
LEMMA InitTyped == Init => TypeInv
<1> SUFFICES ASSUME Init PROVE TypeInv
  OBVIOUS
<1>1. Typed
  BY TimetableAssumption DEF Init, Typed, Knocks
<1>2. HoldInv
  BY FS_EmptySet DEF Init, HoldInv, CountsAreHolders
<1>3. Holders
  BY DEF Init, Holders
<1>4. QED
  BY <1>1, <1>2, <1>3, TypeParts

\* The invariant those three lemmas make: types, holders, and where the threads
\* are (knock.go:235).
THEOREM TypeInvariant == Spec => []TypeInv
BY InitTyped, TypeStep, PTL DEF Spec

\* Every variable keeps its type: no slot a thread works out lies before the
\* clock's zero, and no count of holders drops below it (schedule.go:49,
\* quiet.go:30).
THEOREM TypeCorrect == Spec => []TypeOK
<1>1. TypeInv => TypeOK
  BY DEF TypeInv
<1>2. QED
  BY <1>1, TypeInvariant, PTL

\* However many knocks' threads overlap, the counts of the hold on replies and
\* on collections are the threads that hold, and the collector is off just
\* while one does (quiet.go:26).
THEOREM HoldsCounted == Spec => []CountsAreHolders
<1>1. TypeInv => CountsAreHolders
  BY DEF TypeInv, HoldInv
<1>2. QED
  BY <1>1, TypeInvariant, PTL

(***************************************************************************)
(* The slot after the one handed over.                                     *)
(***************************************************************************)

\* Counting on from a first slot is having no remainder.
LEMMA CountsOn ==
  ASSUME NEW f \in Nat, NEW v \in Nat, v > 0, NEW s \in Nat
  PROVE  (s >= f /\ (s - f) % v = 0) <=> \E n \in Nat : s = f + n * v
<1>1. ASSUME s >= f, (s - f) % v = 0 PROVE \E n \in Nat : s = f + n * v
  <2> DEFINE x == s - f
  <2>1. x \in Nat /\ x % v = 0 /\ s = f + x
    BY <1>1
  <2> HIDE DEF x
  <2>2. PICK n \in Nat : x = n * v
    BY <2>1, NoRemainder
  <2>3. QED
    BY <2>1, <2>2
<1>2. ASSUME NEW n \in Nat, s = f + n * v PROVE s >= f /\ (s - f) % v = 0
  <2> DEFINE x == s - f
  <2>1. n * v \in Nat
    OBVIOUS
  <2>2. x = n * v /\ x \in Nat /\ s >= f
    BY <1>2, <2>1
  <2>3. x % v = 0
    <3> HIDE DEF x
    <3>1. QED
      BY <2>2, NoRemainder
  <2>4. QED
    BY <2>2, <2>3
<1>3. QED
  BY <1>1, <1>2

\* The reference's slots are those that are left.
LEMMA ReferenceIsLeft ==
  ASSUME NEW t \in Tables, NEW a \in Accounts, NEW m \in Nat, NEW h \in Nat,
         NEW s \in 0 .. h, s >= m - Tolerance
  PROVE  s \in SlotsFrom(t, a, m, h) <=> IsLeft(t, a, m, s)
<1>1. ASSUME NEW i \in 1 .. Len(t.bursts)
      PROVE  LET b == t.bursts[i]
                 first == t.from + b.from + BurstPhase(a, b)
             IN (s >= first /\ (s - first) % b.interval = 0)
                  <=> \E n \in Nat : s = first + n * b.interval
  <2> DEFINE b == t.bursts[i]
             first == t.from + b.from + BurstPhase(a, b)
             v == b.interval
  <2>1. first \in Nat /\ v \in Nat /\ v > 0 /\ s \in Nat
    <3>1. /\ t.from \in Nat /\ b.from \in Nat /\ BurstPhase(a, b) \in Nat
          /\ v \in Nat /\ BurstPhase(a, b) + Tolerance < v /\ Tolerance \in Nat
      BY TableFacts, TimetableAssumption
    <3> HIDE DEF b, v
    <3>2. QED
      BY <3>1
  <2>2. (s >= first /\ (s - first) % v = 0) <=> \E n \in Nat : s = first + n * v
    <3> HIDE DEF first, v
    <3>1. QED
      BY <2>1, CountsOn
  <2>3. QED
    BY <2>2
<1>2. (s >= Origin(t) + Phase[a] /\ (s - Origin(t) - Phase[a]) % Interval = 0)
        <=> InCadence(t, a, s)
  <2> DEFINE first == Origin(t) + Phase[a]
  <2>1. /\ Origin(t) \in Nat /\ Phase[a] \in Nat /\ first \in Nat /\ s \in Nat
        /\ Interval \in Nat /\ Interval > 0
    BY TableFacts, TimetableAssumption
  <2>2. s - Origin(t) - Phase[a] = s - first
    BY <2>1
  <2>3. (s >= first /\ (s - first) % Interval = 0)
          <=> \E n \in Nat : s = first + n * Interval
    <3> HIDE DEF first
    <3>1. QED
      BY <2>1, CountsOn
  <2>4. QED
    BY <2>2, <2>3 DEF InCadence
<1>3. \A i \in 1 .. Len(t.bursts) :
         LET b == t.bursts[i]
             first == t.from + b.from + BurstPhase(a, b)
         IN (/\ s >= first /\ (s - first) % b.interval = 0
             /\ s < Until(t, i) /\ m < Until(t, i))
              <=> (m < Until(t, i) /\ InBurst(t, a, i, s))
  BY <1>1, Zenon DEF InBurst
<1>4. QED
  BY <1>2, <1>3, Zenon DEF SlotsFrom, IsLeft

\* Only a hand-over takes a thread from its wait to its book-keeping.
LEMMA HandsOver ==
  ASSUME Typed, Next, NEW k \in Knocks, pc[k] = "hand", pc'[k] = "write"
  PROVE  HandOver(k)
<1>1. pc \in [Knocks -> {"none", "lay", "top", "sleep", "hand", "write", "over"}]
      /\ knock \in 0 .. MaxKnocks /\ MaxKnocks \in Nat
  BY TimetableAssumption DEF Typed
<1>2. CASE UNCHANGED pc
  BY <1>2
<1>3. CASE Begin
  BY <1>1, <1>3 DEF Begin
<1>4. ASSUME NEW j \in Knocks, Step(j) PROVE HandOver(k)
  <2>1. CASE HandOver(j)
    BY <1>1, <2>1 DEF HandOver
  <2>2. ASSUME NEW to, pc' = [pc EXCEPT ![j] = to], to # "write" PROVE FALSE
    BY <1>1, <2>2
  <2>3. CASE LayOutSomewhere(j) \/ (\E a \in Accounts : Choose(j, a)) \/ Leaves(j)
    BY <2>2, <2>3 DEF LayOutSomewhere, LayOut, Choose, Leaves
  <2>4. CASE SleptForNothing(j) \/ Wake(j) \/ WriteNext(j)
    BY <2>2, <2>4 DEF SleptForNothing, Wake, WriteNext
  <2>5. QED
    BY <1>4, <2>1, <2>3, <2>4 DEF Step, NobodySends, SeesTheEnd
<1>5. QED
  BY <1>2, <1>3, <1>4 DEF Next, Advance, Return, MemberStops, ReaderTakes,
     ReaderReturns, threads

\* The slot a thread works out is the first one left.
LEMMA AfterIsFirst ==
  ASSUME Typed, NEW k \in Knocks, HandOver(k)
  PROVE  LET a == due[k]
             t == TableOf(k)
             moment == Larger(next[k][a] + Tolerance + 1, now)
             horizon == Larger(moment, Origin(t)) + Interval
             slots == {s \in SlotsFrom(t, a, moment, horizon) :
                          s >= moment - Tolerance}
         IN next'[k][a] \in slots /\ \A s \in slots : next'[k][a] <= s
<1> DEFINE a == due[k]
           t == TableOf(k)
           moment == Larger(next[k][a] + Tolerance + 1, now)
           horizon == Larger(moment, Origin(t)) + Interval
           slots == {s \in SlotsFrom(t, a, moment, horizon) :
                        s >= moment - Tolerance}
           found == At(t, a, moment)
<1>1. a \in Accounts /\ t \in Tables /\ next[k][a] \in Nat /\ now \in Nat
      /\ Tolerance \in Nat /\ Interval \in Nat
  BY ThreadTable, TimetableAssumption DEF HandOver, Typed
<1>2. moment \in Nat
  BY <1>1 DEF Larger
<1>3. horizon \in Nat
  BY <1>1, <1>2, TableFacts DEF Larger
<1>4. next'[k][a] = found
  BY <1>1 DEF HandOver, Typed
<1> HIDE DEF a, t, moment
<1>5. /\ found \in Nat /\ found >= moment - Tolerance /\ found <= horizon
      /\ IsLeft(t, a, moment, found)
      /\ \A z : IsLeft(t, a, moment, z) => found <= z
  BY <1>1, <1>2, AtIsFirst
<1> HIDE DEF horizon, found
<1>6. found \in 0 .. horizon
  BY <1>3, <1>5
<1>7. found \in slots
  BY <1>1, <1>2, <1>3, <1>5, <1>6, ReferenceIsLeft
<1>8. ASSUME NEW s \in slots PROVE found <= s
  <2>1. s \in 0 .. horizon /\ s >= moment - Tolerance
        /\ s \in SlotsFrom(t, a, moment, horizon)
    BY DEF SlotsFrom
  <2>2. IsLeft(t, a, moment, s)
    BY <1>1, <1>2, <1>3, <2>1, ReferenceIsLeft
  <2>3. QED
    BY <1>5, <2>2
<1>9. next'[k][a] \in slots /\ \A s \in slots : next'[k][a] <= s
  <2> HIDE DEF slots
  <2>1. QED
    BY <1>4, <1>7, <1>8
<1>10. QED
  BY <1>9 DEF a, t, moment, horizon

\* Whatever the bursts and however long the thread was stalled, the slot it
\* waits for next is the first of its member's timetable that is left
\* (schedule.go:32, knock.go:329).
THEOREM FirstSlotNext == Spec => NextIsFirst
<1> DEFINE Good == \A k \in Knocks :
             pc[k] = "hand" /\ pc'[k] = "write" =>
                LET a == due[k]
                    t == TableOf(k)
                    moment == Larger(next[k][a] + Tolerance + 1, now)
                    horizon == Larger(moment, Origin(t)) + Interval
                    slots == {s \in SlotsFrom(t, a, moment, horizon) :
                                 s >= moment - Tolerance}
                IN next'[k][a] \in slots /\ \A s \in slots : next'[k][a] <= s
<1>1. ASSUME Typed, Next, NEW k \in Knocks, pc[k] = "hand", pc'[k] = "write"
      PROVE  HandOver(k)
  BY <1>1, HandsOver
<1>2. ASSUME Typed, Next PROVE Good
  BY <1>1, <1>2, AfterIsFirst
<1>3. Typed /\ [Next]_vars => [Good]_vars
  BY <1>2
<1>4. TypeInv => Typed
  BY TypeParts
<1>5. Spec => [][Good]_vars
  <2> HIDE DEF Good
  <2>1. QED
    BY <1>3, <1>4, TypeInvariant, PTL DEF Spec
<1>6. QED
  BY <1>5, PTL DEF NextIsFirst

(***************************************************************************)
(* The spacing of an account's sends, over all knocks.  A slot may be used *)
(* the tolerance early, so the first slot of a new timetable may lie the   *)
(* tolerance before the slot the last one kept for the account.  A thread  *)
(* past its look for the end writes for a knock that goes on, unless the   *)
(* knock returned in between and the account strayed.                      *)
(***************************************************************************)
Mine == <<knock, done, previewed, pc, start, next, due, nextSlot, clear, stray>>

\* A thread of a knock that has returned is at a hand-over or its book-keeping
\* only for an account that strayed.
LateStrays ==
    \A k \in Knocks :
        k \in done /\ pc[k] \in {"hand", "write"} => due[k] \in stray

\* What a thread still waits for is no more than the tolerance before the slot
\* after the account's last send, and what it writes down is not before it.
Spaced ==
    /\ \A k \in Knocks \ done : pc[k] \in Late =>
          \A a \in Accounts \ stray : next[k][a] >= clear[a] - Tolerance
    /\ \A k \in Knocks : pc[k] = "write" /\ due[k] \notin stray =>
          next[k][due[k]] >= clear[due[k]]

SlotInv == LateStrays /\ Spaced /\ NextSlotCoversLastSend

\* Only the last knock may still go on.
LEMMA LastGoesOn ==
  ASSUME Typed, NEW k \in Knocks \ done, pc[k] # "none"
  PROVE  /\ k = knock
         /\ \A j \in Knocks : j # k => j \in done \/ pc[j] = "none"
BY DEF Typed, Knocks

\* Laying out starts no earlier than the kept slot, but for the tolerance.
LEMMA SpacedLayOut ==
  ASSUME Typed, SlotInv, NEW k \in Knocks, LayOutSomewhere(k)
  PROVE  SlotInv'
<1>1. PICK from \in Larger(0, now - AnchorLag) .. now : LayOut(k, from)
  BY DEF LayOutSomewhere
<1>2. /\ from \in Nat /\ now \in Nat /\ previewed[k] \in BOOLEAN
      /\ nextSlot \in [Accounts -> Nat] /\ clear \in [Accounts -> Nat]
      /\ Tolerance \in Nat
  BY <1>1, TimetableAssumption DEF Typed, Larger
<1> DEFINE t == Table(from, previewed[k])
<1>3. /\ t \in Tables
      /\ next' = [next EXCEPT ![k] = [a \in Accounts |->
                     At(t, a, Larger(now, nextSlot[a]))]]
      /\ pc' = [pc EXCEPT ![k] = "top"] /\ pc[k] = "lay"
      /\ UNCHANGED <<done, due, nextSlot, clear, stray>>
  BY <1>1, <1>2, TableIsTable DEF LayOut, knockVars
<1> HIDE DEF t
<1>4. ASSUME k \notin done, NEW a \in Accounts \ stray
      PROVE  nextSlot[a] >= clear[a]
  <2>1. ASSUME NEW j \in Knocks, pc[j] = "write", due[j] = a PROVE FALSE
    <3>1. j # k /\ j \in done
      BY <1>3, <1>4, <2>1, LastGoesOn
    <3> QED
      BY <1>4, <2>1, <3>1 DEF SlotInv, LateStrays
  <2> QED
    BY <2>1 DEF SlotInv, NextSlotCoversLastSend
<1>5. ASSUME k \notin done, NEW a \in Accounts \ stray
      PROVE  next'[k][a] >= clear[a] - Tolerance
  <2> DEFINE m == Larger(now, nextSlot[a])
             z == At(t, a, m)
  <2>1. m \in Nat /\ m >= nextSlot[a] /\ nextSlot[a] \in Nat /\ clear[a] \in Nat
    BY <1>2 DEF Larger
  <2>2. next'[k][a] = z
    BY <1>3 DEF Typed
  <2> HIDE DEF m
  <2>3. z \in Nat /\ z >= m - Tolerance
    BY <1>3, <2>1, AtIsFirst
  <2> HIDE DEF z
  <2>4. QED
    BY <1>2, <1>4, <1>5, <2>1, <2>2, <2>3
<1>6. pc'[k] = "top"
  BY <1>3 DEF Typed
<1>7. ASSUME NEW j \in Knocks, j # k
      PROVE  pc'[j] = pc[j] /\ next'[j] = next[j]
  BY <1>3, <1>7 DEF Typed
<1>8. Spaced'
  BY <1>3, <1>5, <1>6, <1>7 DEF SlotInv, Spaced
<1>9. NextSlotCoversLastSend'
  <2>1. ASSUME NEW j \in Knocks, pc[j] = "write" PROVE pc'[j] = "write"
    BY <1>3, <1>7, <2>1
  <2> QED
    BY <1>3, <2>1 DEF SlotInv, NextSlotCoversLastSend
<1>10. LateStrays'
  BY <1>3, <1>6, <1>7 DEF SlotInv, LateStrays
<1>11. QED
  BY <1>8, <1>9, <1>10 DEF SlotInv

\* A hand-over: to a coordinator that sends, it moves on what the next slot
\* must clear; to none, the slot worked out clears it still.
LEMMA SpacedHandOver ==
  ASSUME Typed, SlotInv, NEW k \in Knocks, HandOver(k)
  PROVE  SlotInv'
<1> DEFINE a == due[k]
           t == Table(start[k], previewed[k])
           slot == next[k][a]
           m == Larger(slot + Tolerance + 1, now)
           after == At(t, a, m)
           clears == At(t, a, slot + Tolerance + 1)
<1>1. /\ a \in Accounts /\ slot \in Nat /\ t \in Tables /\ pc[k] \in Late
      /\ now \in Nat /\ Tolerance \in Nat /\ clear[a] \in Nat
  BY ThreadTable, TimetableAssumption DEF HandOver, Typed, TableOf, Late
<1>2. m \in Nat /\ slot + Tolerance + 1 \in Nat /\ slot + Tolerance + 1 <= m
  BY <1>1 DEF Larger
<1>3. /\ pc[k] = "hand" /\ pc' = [pc EXCEPT ![k] = "write"]
      /\ next' = [next EXCEPT ![k][a] = after]
      /\ clear' = IF k \in done THEN clear ELSE [clear EXCEPT ![a] = clears]
      /\ UNCHANGED <<done, due, nextSlot, stray>>
  BY DEF HandOver, TableOf, knockVars
<1> HIDE DEF a, t, slot, m
<1>5. after \in Nat /\ after >= m - Tolerance
  BY <1>1, <1>2, AtIsFirst
<1>6. clears \in Nat /\ clears <= after
  BY <1>1, <1>2, AtIsFirst, AtInOrder
<1> HIDE DEF after, clears
<1>7. ASSUME NEW j \in Knocks, NEW b \in Accounts
      PROVE  next'[j][b] = IF j = k /\ b = a THEN after ELSE next[j][b]
  BY <1>1, <1>3 DEF Typed
<1>8. ASSUME NEW j \in Knocks PROVE pc'[j] = IF j = k THEN "write" ELSE pc[j]
  BY <1>3 DEF Typed
<1>9. LateStrays'
  BY <1>3, <1>8 DEF SlotInv, LateStrays
<1>10. ASSUME NEW j \in Knocks, j # k PROVE next'[j] = next[j] /\ due'[j] = due[j]
  BY <1>3, <1>10 DEF Typed
<1>11. CASE k \in done
  <2>1. clear' = clear /\ due[k] \in stray
    BY <1>3, <1>11 DEF SlotInv, LateStrays
  <2>2. Spaced'
    BY <1>3, <1>8, <1>10, <1>11, <2>1 DEF SlotInv, Spaced
  <2>3. NextSlotCoversLastSend'
    BY <1>3, <1>8, <2>1 DEF SlotInv, NextSlotCoversLastSend
  <2> QED
    BY <1>9, <2>2, <2>3 DEF SlotInv
<1>12. CASE k \notin done
  <2>1. \A j \in Knocks : j # k => j \in done \/ pc[j] = "none"
    BY <1>3, <1>12, LastGoesOn
  <2>2. ASSUME NEW j \in Knocks, j # k, pc[j] = "write" PROVE due[j] \in stray
    BY <2>1, <2>2 DEF SlotInv, LateStrays
  <2>3. ASSUME NEW b \in Accounts
        PROVE  clear'[b] = IF b = a THEN clears ELSE clear[b]
    BY <1>1, <1>3, <1>12 DEF Typed
  <2>4. ASSUME NEW b \in Accounts \ stray PROVE next'[k][b] >= clear'[b] - Tolerance
    <3>1. CASE b = a
      BY <1>1, <1>5, <1>6, <1>7, <2>3, <3>1
    <3>2. CASE b # a
      BY <1>1, <1>7, <1>12, <2>3, <3>2 DEF SlotInv, Spaced
    <3>3. QED
      BY <3>1, <3>2
  <2>5. next'[k][due'[k]] >= clear'[due'[k]]
    <3>1. next'[k][a] >= clear'[a]
      BY <1>1, <1>5, <1>6, <1>7, <2>3
    <3>2. QED
      BY <1>3, <3>1 DEF a
  <2>6. \A j \in Knocks \ done : j = k \/ pc[j] \notin Late
    BY <2>1 DEF Late
  <2>7. Spaced'
    <3>1. ASSUME NEW j \in Knocks, pc'[j] = "write", due'[j] \notin stray'
          PROVE  next'[j][due'[j]] >= clear'[due'[j]]
      <4>1. CASE j = k
        BY <2>5, <4>1
      <4>2. CASE j # k
        BY <1>3, <1>8, <1>10, <2>2, <3>1, <4>2
      <4> QED
        BY <4>1, <4>2
    <3>2. ASSUME NEW j \in Knocks \ done', pc'[j] \in Late
          PROVE  j = k
      BY <1>3, <1>8, <2>6, <3>2
    <3> QED
      BY <1>3, <2>4, <3>1, <3>2 DEF Spaced
  <2>8. ASSUME NEW b \in Accounts \ stray
        PROVE  nextSlot[b] >= clear'[b] \/ \E j \in Knocks : pc'[j] = "write" /\ due[j] = b
    <3>1. CASE b = a
      BY <1>8, <3>1 DEF a
    <3>2. CASE b # a
      BY <1>8, <2>3, <3>2 DEF SlotInv, NextSlotCoversLastSend
    <3>3. QED
      BY <3>1, <3>2
  <2>9. NextSlotCoversLastSend'
    BY <1>3, <2>8 DEF NextSlotCoversLastSend
  <2>10. QED
    BY <1>9, <2>7, <2>9 DEF SlotInv
<1>13. QED
  BY <1>11, <1>12

\* The other steps of the threads and of the knocks.
LEMMA SpacedOthers ==
  ASSUME Typed, SlotInv, NEW k \in Knocks,
         \/ \E a \in Accounts : Choose(k, a)
         \/ Leaves(k) /\ pc[k] # "write"
         \/ SleptForNothing(k) \/ Wake(k) \/ WriteNext(k)
  PROVE  SlotInv'
<1>1. CASE (\E a \in Accounts : Choose(k, a)) \/ SleptForNothing(k)
  <2>1. PICK to \in {"top", "sleep"}, d \in Accounts \cup {None} :
           pc' = [pc EXCEPT ![k] = to] /\ due' = [due EXCEPT ![k] = d]
    BY <1>1 DEF Choose, SleptForNothing
  <2>2. pc[k] \in Late /\ pc[k] # "write" /\ UNCHANGED <<done, next, nextSlot, clear,
                                                         stray>>
    BY <1>1 DEF Choose, SleptForNothing, knockVars, Late
  <2>3. ASSUME NEW j \in Knocks, j # k PROVE pc'[j] = pc[j] /\ due'[j] = due[j]
    BY <2>1, <2>3 DEF Typed
  <2>4. pc'[k] \in {"top", "sleep"}
    BY <2>1 DEF Typed
  <2>5. Spaced'
    BY <2>2, <2>3, <2>4 DEF SlotInv, Spaced
  <2>6. NextSlotCoversLastSend'
    BY <2>2, <2>3 DEF SlotInv, NextSlotCoversLastSend
  <2>8. LateStrays'
    BY <2>2, <2>3, <2>4 DEF SlotInv, LateStrays
  <2>7. QED
    BY <2>5, <2>6, <2>8 DEF SlotInv
<1>2. CASE Leaves(k) /\ pc[k] # "write"
  <2>1. /\ pc' = [pc EXCEPT ![k] = "over"] /\ due' = [due EXCEPT ![k] = None]
        /\ next' = [next EXCEPT ![k] = [a \in Accounts |-> 0]]
        /\ UNCHANGED <<done, nextSlot, clear, stray>>
    BY <1>2 DEF Leaves, knockVars
  <2>2. ASSUME NEW j \in Knocks, j # k
        PROVE  pc'[j] = pc[j] /\ due'[j] = due[j] /\ next'[j] = next[j]
    BY <2>1, <2>2 DEF Typed
  <2>3. pc'[k] = "over"
    BY <2>1 DEF Typed
  <2>4. Spaced'
    BY <2>1, <2>2, <2>3 DEF SlotInv, Spaced, Late
  <2>5. NextSlotCoversLastSend'
    BY <1>2, <2>1, <2>2 DEF SlotInv, NextSlotCoversLastSend
  <2>7. LateStrays'
    BY <2>1, <2>2, <2>3 DEF SlotInv, LateStrays
  <2>6. QED
    BY <2>4, <2>5, <2>7 DEF SlotInv
<1>3. CASE Wake(k)
  <2>1. /\ pc' = [pc EXCEPT ![k] = "hand"] /\ pc[k] = "sleep" /\ k \notin done
        /\ UNCHANGED <<done, next, due, nextSlot, clear, stray>>
    BY <1>3 DEF Wake, knockVars
  <2>2. ASSUME NEW j \in Knocks PROVE pc'[j] = IF j = k THEN "hand" ELSE pc[j]
    BY <2>1 DEF Typed
  <2>4. LateStrays'
    BY <2>1, <2>2 DEF SlotInv, LateStrays
  <2>5. Spaced'
    BY <2>1, <2>2 DEF SlotInv, Spaced, Late
  <2>6. NextSlotCoversLastSend'
    BY <2>1, <2>2 DEF SlotInv, NextSlotCoversLastSend
  <2>7. QED
    BY <2>4, <2>5, <2>6 DEF SlotInv
<1>4. CASE WriteNext(k)
  <2>1. /\ pc' = [pc EXCEPT ![k] = "top"] /\ pc[k] = "write"
        /\ nextSlot' = [nextSlot EXCEPT ![due[k]] = next[k][due[k]]]
        /\ due' = [due EXCEPT ![k] = None]
        /\ UNCHANGED <<done, next, clear, stray>>
    BY <1>4 DEF WriteNext, knockVars
  <2>2. ASSUME NEW j \in Knocks, j # k PROVE pc'[j] = pc[j] /\ due'[j] = due[j]
    BY <2>1, <2>2 DEF Typed
  <2>3. pc'[k] = "top"
    BY <2>1 DEF Typed
  <2>4. Spaced'
    BY <2>1, <2>2, <2>3 DEF SlotInv, Spaced, Late
  <2>5. due[k] \notin stray => next[k][due[k]] >= clear[due[k]]
    BY <2>1 DEF SlotInv, Spaced
  <2>6. ASSUME NEW b \in Accounts \ stray
        PROVE  nextSlot'[b] >= clear[b] \/ \E j \in Knocks : pc'[j] = "write" /\ due'[j] = b
    <3>1. CASE b = due[k]
      BY <2>1, <2>5, <3>1 DEF Typed
    <3>2. CASE b # due[k]
      <4>1. nextSlot'[b] = nextSlot[b]
        BY <2>1, <3>2 DEF Typed
      <4>2. QED
        BY <2>2, <3>2, <4>1 DEF SlotInv, NextSlotCoversLastSend
    <3>3. QED
      BY <3>1, <3>2
  <2>7. NextSlotCoversLastSend'
    BY <2>1, <2>6 DEF NextSlotCoversLastSend
  <2>9. LateStrays'
    BY <2>1, <2>2, <2>3 DEF SlotInv, LateStrays
  <2>8. QED
    BY <2>4, <2>7, <2>9 DEF SlotInv
<1>5. QED
  BY <1>1, <1>2, <1>3, <1>4

\* Every step keeps the slots where they belong.
LEMMA SlotStep ==
  ASSUME TypeInv, SlotInv, [Next]_vars
  PROVE  SlotInv'
<1>1. Typed
  BY TypeParts
<1>2. CASE UNCHANGED Mine
  BY <1>2 DEF Mine, SlotInv, LateStrays, Spaced, NextSlotCoversLastSend
<1>3. CASE Begin
  <2>1. /\ pc' = [pc EXCEPT ![knock'] = "lay"] /\ knock' = knock + 1
        /\ UNCHANGED <<done, next, due, nextSlot, clear, stray>>
    BY <1>3 DEF Begin
  <2>2. ASSUME NEW k \in Knocks
        PROVE  pc'[k] = pc[k] \/ (pc[k] = "none" /\ pc'[k] = "lay")
    BY <1>1, <2>1 DEF Typed
  <2>3. Spaced'
    BY <2>1, <2>2 DEF SlotInv, Spaced, Late
  <2>4. NextSlotCoversLastSend'
    BY <2>1, <2>2 DEF SlotInv, NextSlotCoversLastSend
  <2>5. LateStrays'
    BY <1>1, <2>1, <2>2 DEF SlotInv, LateStrays
  <2>6. QED
    BY <2>3, <2>4, <2>5 DEF SlotInv
<1>4. ASSUME NEW k \in Knocks, Return(k) PROVE SlotInv'
  <2>1. /\ done' = done \cup {k} /\ UNCHANGED <<pc, next, due, nextSlot, clear>>
        /\ stray' = IF pc[k] \in {"hand", "write"} THEN stray \cup {due[k]} ELSE stray
    BY <1>4 DEF Return, threads
  <2>2. stray \subseteq stray'
    BY <2>1
  <2>3. Spaced' /\ NextSlotCoversLastSend'
    BY <2>1, <2>2 DEF SlotInv, Spaced, NextSlotCoversLastSend
  <2>4. LateStrays'
    BY <2>1, <2>2 DEF SlotInv, LateStrays
  <2>5. QED
    BY <2>3, <2>4 DEF SlotInv
<1>5. ASSUME NEW k \in Knocks, Step(k) PROVE SlotInv'
  <2>1. CASE LayOutSomewhere(k)
    BY <1>1, <2>1, SpacedLayOut
  <2>2. CASE HandOver(k)
    BY <1>1, <2>2, SpacedHandOver
  <2>3. CASE \/ \E a \in Accounts : Choose(k, a)
             \/ Leaves(k) /\ pc[k] # "write"
             \/ SleptForNothing(k) \/ Wake(k) \/ WriteNext(k)
    BY <1>1, <2>3, SpacedOthers
  <2>4. CASE NobodySends(k) \/ SeesTheEnd(k)
    BY <2>3, <2>4 DEF NobodySends, SeesTheEnd
  <2>5. QED
    BY <1>5, <2>1, <2>2, <2>3, <2>4 DEF Step
<1>6. QED
  BY <1>2, <1>3, <1>4, <1>5 DEF Next, Advance, MemberStops, ReaderTakes,
     ReaderReturns, threads, knockVars, vars, Mine

\* Before the first knock nothing waits.
LEMMA InitSlots == Init => SlotInv
BY DEF Init, SlotInv, LateStrays, Spaced, NextSlotCoversLastSend, Late

\* The invariant those lemmas make, whatever stalls the threads (knock.go:316).
THEOREM SlotInvariant == Spec => []SlotInv
<1>1. TypeInv /\ SlotInv /\ [Next]_vars => SlotInv'
  BY SlotStep
<1>2. QED
  BY <1>1, InitSlots, TypeInvariant, PTL DEF Spec

\* Over any number of knocks and however they end, the slot kept for an account
\* lies behind none that followed one of its sends, but for an account whose
\* knock returned between its thread's look for the end and its write
\* (knock.go:318).
THEOREM NextSlotCovers == Spec => []NextSlotCoversLastSend
<1>1. SlotInv => NextSlotCoversLastSend
  BY DEF SlotInv
<1>2. QED
  BY <1>1, SlotInvariant, PTL

\* No account is handed a slot inside the spacing of its previous one, also
\* across markets, but for an account that strayed (knock.go:49).
THEOREM SpacingKept == Spec => KeepsSpacing
<1> DEFINE Kept == \A k \in Knocks \ done :
             pc[k] = "hand" /\ pc'[k] = "write" /\ due[k] \notin stray =>
                next[k][due[k]] >= clear[due[k]] - Tolerance
<1>1. TypeInv /\ SlotInv => Kept
  <2> SUFFICES ASSUME TypeInv, SlotInv, NEW k \in Knocks \ done, pc[k] = "hand",
                      due[k] \notin stray
               PROVE  next[k][due[k]] >= clear[due[k]] - Tolerance
    OBVIOUS
  <2>1. due[k] \in Accounts
    BY TypeParts DEF Typed
  <2> QED
    BY <2>1 DEF SlotInv, Spaced, Late
<1>2. Spec => [][Kept]_vars
  <2> HIDE DEF Kept
  <2>1. QED
    BY <1>1, SlotInvariant, TypeInvariant, PTL DEF Spec
<1>3. QED
  BY <1>2, PTL DEF KeepsSpacing
=============================================================================
