-------------------------- MODULE ActivationProofs --------------------------
(***************************************************************************)
(* Proofs about Activation, for every number of markets, every window and  *)
(* every length of run.                                                    *)
(***************************************************************************)
EXTENDS Activation, TLAPS

USE DEF outside, discovery, service

(***************************************************************************)
(* Sequences without duplicates.                                           *)
(***************************************************************************)

\* What is appended is the only new element, and it comes last.
LEMMA RangeOfAppend ==
  ASSUME NEW S, NEW s \in Seq(S), NEW e \in S
  PROVE  Range(Append(s, e)) = Range(s) \cup {e}
<1>1. DOMAIN s = 1 .. Len(s) /\ Len(s) \in Nat
  OBVIOUS
<1>2. /\ DOMAIN Append(s, e) = 1 .. Len(s) + 1
      /\ \A i \in 1 .. Len(s) : Append(s, e)[i] = s[i]
      /\ Append(s, e)[Len(s) + 1] = e
  OBVIOUS
<1> DEFINE t == Append(s, e)
           n == Len(s)
<1>3. /\ DOMAIN t = 1 .. n + 1 /\ n \in Nat /\ DOMAIN s = 1 .. n
      /\ t[n + 1] = e /\ \A i \in 1 .. n : t[i] = s[i]
  BY <1>1, <1>2
<1> HIDE DEF t, n
<1>4. DOMAIN t = DOMAIN s \cup {n + 1}
  BY <1>3
<1>5. Range(t) = Range(s) \cup {e}
  BY ONLY <1>3, <1>4 DEF Range
<1>6. QED
  BY <1>5 DEF t

\* Appending a new element keeps a sequence free of duplicates.
LEMMA AppendKeepsDistinct ==
  ASSUME NEW S, NEW s \in Seq(S), NEW e \in S, e \notin Range(s),
         \A i, j \in DOMAIN s : s[i] = s[j] => i = j
  PROVE  \A i, j \in DOMAIN Append(s, e) :
             Append(s, e)[i] = Append(s, e)[j] => i = j
<1>1. \A i \in DOMAIN s : s[i] # e
  BY DEF Range
<1>2. DOMAIN s = 1 .. Len(s) /\ Len(s) \in Nat
  OBVIOUS
<1>3. DOMAIN Append(s, e) = 1 .. Len(s) + 1
  OBVIOUS
<1>4. \A i \in 1 .. Len(s) : Append(s, e)[i] = s[i]
  OBVIOUS
<1>5. Append(s, e)[Len(s) + 1] = e
  OBVIOUS
<1>6. QED
  BY <1>1, <1>2, <1>3, <1>4, <1>5

\* The second part of a concatenation holds no element that is not in the
\* whole, and no duplicate the whole does not hold.
LEMMA SuffixOfConcat ==
  ASSUME NEW S, NEW s \in Seq(S), NEW t \in Seq(S)
  PROVE  /\ Range(s \o t) = Range(s) \cup Range(t)
         /\ (\A i, j \in DOMAIN (s \o t) : (s \o t)[i] = (s \o t)[j] => i = j)
              => /\ \A i, j \in DOMAIN t : t[i] = t[j] => i = j
                 /\ Range(s) \cap Range(t) = {}
<1>1. /\ Len(s) \in Nat /\ Len(t) \in Nat
      /\ DOMAIN s = 1 .. Len(s) /\ DOMAIN t = 1 .. Len(t)
      /\ DOMAIN (s \o t) = 1 .. Len(s) + Len(t)
  OBVIOUS
<1>2. \A i \in DOMAIN s : i \in DOMAIN (s \o t) /\ (s \o t)[i] = s[i]
  OBVIOUS
<1>3. \A i \in DOMAIN t : /\ i + Len(s) \in DOMAIN (s \o t)
                          /\ (s \o t)[i + Len(s)] = t[i]
  OBVIOUS
<1>4. \A k \in DOMAIN (s \o t) :
         \/ k \in DOMAIN s /\ (s \o t)[k] = s[k]
         \/ k - Len(s) \in DOMAIN t /\ (s \o t)[k] = t[k - Len(s)]
  OBVIOUS
<1>5. Range(s \o t) = Range(s) \cup Range(t)
  <2>1. ASSUME NEW e \in Range(s \o t)
        PROVE  e \in Range(s) \cup Range(t)
    BY <1>4, <2>1 DEF Range
  <2>2. ASSUME NEW e \in Range(s)
        PROVE  e \in Range(s \o t)
    <3>1. PICK i \in DOMAIN s : e = s[i]
      BY <2>2 DEF Range
    <3> QED
      BY <3>1, <1>2 DEF Range
  <2>3. ASSUME NEW e \in Range(t)
        PROVE  e \in Range(s \o t)
    <3>1. PICK i \in DOMAIN t : e = t[i]
      BY <2>3 DEF Range
    <3> QED
      BY <3>1, <1>3 DEF Range
  <2> QED
    BY <2>1, <2>2, <2>3
<1>6. ASSUME \A i, j \in DOMAIN (s \o t) : (s \o t)[i] = (s \o t)[j] => i = j
      PROVE  \A i, j \in DOMAIN t : t[i] = t[j] => i = j
  <2> TAKE i, j \in DOMAIN t
  <2> HAVE t[i] = t[j]
  <2>1. i + Len(s) = j + Len(s)
    BY <1>3, <1>6
  <2> QED
    BY <2>1, <1>1
<1>7. ASSUME \A i, j \in DOMAIN (s \o t) : (s \o t)[i] = (s \o t)[j] => i = j,
             NEW e, e \in Range(s), e \in Range(t)
      PROVE  FALSE
  <2>1. PICK i \in DOMAIN s : s[i] = e
    BY <1>7 DEF Range
  <2>2. PICK j \in DOMAIN t : t[j] = e
    BY <1>7 DEF Range
  <2>3. i = j + Len(s)
    BY <1>2, <1>3, <1>7, <2>1, <2>2
  <2> QED
    BY <2>3, <1>1
<1>8. QED
  BY <1>5, <1>6, <1>7

\* No two places of a sequence hold the same.
Distinct(s) == \A i, j \in DOMAIN s : s[i] = s[j] => i = j

\* Where the elements of a concatenation come from.
LEMMA ConcatParts ==
  ASSUME NEW S, NEW s \in Seq(S), NEW t \in Seq(S)
  PROVE  /\ s \o t \in Seq(S) /\ Len(s \o t) = Len(s) + Len(t)
         /\ DOMAIN (s \o t) = 1 .. Len(s) + Len(t)
         /\ \A i \in 1 .. Len(s) : (s \o t)[i] = s[i]
         /\ \A i \in 1 .. Len(t) : (s \o t)[i + Len(s)] = t[i]
         /\ \A i \in Len(s) + 1 .. Len(s) + Len(t) : (s \o t)[i] = t[i - Len(s)]
OBVIOUS

\* A walk that considers its first market, and hands it to the next tick or not.
LEMMA HeadLeavesWalk ==
  ASSUME NEW S, NEW r \in Seq(S), r # <<>>, NEW s \in Seq(S), NEW t \in Seq(S),
         Distinct(r \o s \o t)
  PROVE  /\ Distinct(Tail(r) \o s \o t)
         /\ Head(r) \notin Range(Tail(r) \o s \o t)
         /\ Range(r \o s \o t) = {Head(r)} \cup Range(Tail(r) \o s \o t)
         /\ Distinct(Tail(r) \o Append(s, Head(r)) \o t)
         /\ Range(Tail(r) \o Append(s, Head(r)) \o t) = Range(r \o s \o t)
<1> DEFINE h == Head(r)
           u == Tail(r)
           a == r \o s
           b == u \o Append(s, h)
           c == u \o s
           k == Len(r) + Len(s)
           n == k + Len(t)
           w == a \o t
           v == b \o t
           x == c \o t
<1>1. /\ h \in S /\ u \in Seq(S) /\ Len(r) \in Nat /\ Len(r) > 0
      /\ Len(u) = Len(r) - 1 /\ Len(s) \in Nat /\ Len(t) \in Nat
      /\ h = r[1] /\ \A i \in 1 .. Len(u) : u[i] = r[i + 1]
  OBVIOUS
<1> HIDE DEF h, u
<1>2. /\ a \in Seq(S) /\ Len(a) = k /\ a[1] = h
      /\ \A i \in 1 .. Len(r) : a[i] = r[i]
      /\ \A i \in 1 .. Len(s) : a[i + Len(r)] = s[i]
  BY <1>1
<1>3. /\ c \in Seq(S) /\ Len(c) = k - 1
      /\ \A i \in 1 .. k - 1 : c[i] = a[i + 1]
  <2>1. /\ c \in Seq(S) /\ Len(c) = k - 1
        /\ \A i \in 1 .. Len(u) : c[i] = u[i]
        /\ \A i \in 1 .. Len(s) : c[i + Len(u)] = s[i]
    <3>1. /\ c \in Seq(S) /\ Len(c) = Len(u) + Len(s)
          /\ \A i \in 1 .. Len(u) : c[i] = u[i]
          /\ \A i \in 1 .. Len(s) : c[i + Len(u)] = s[i]
      <4>1. u \in Seq(S) /\ s \in Seq(S)
        BY <1>1
      <4> QED
        BY ONLY <4>1, ConcatParts
    <3> HIDE DEF c
    <3> QED
      BY <1>1, <3>1
  <2>2. ASSUME NEW i \in 1 .. k - 1
        PROVE  c[i] = a[i + 1]
    <3> HIDE DEF a, c
    <3>1. CASE i \in 1 .. Len(u)
      BY <1>1, <1>2, <2>1, <3>1
    <3>2. CASE i \notin 1 .. Len(u)
      <4> DEFINE j == i - Len(u)
      <4>1. j \in 1 .. Len(s) /\ i = j + Len(u) /\ i + 1 = j + Len(r)
        BY <1>1, <3>2
      <4> QED
        BY <4>1, <1>2, <2>1
    <3> QED
      BY <3>1, <3>2
  <2> QED
    BY <2>1, <2>2
<1>4. /\ b \in Seq(S) /\ Len(b) = k /\ b[k] = h
      /\ \A i \in 1 .. k - 1 : b[i] = c[i]
  <2>1. b = Append(c, h)
    BY <1>1
  <2> HIDE DEF b, c
  <2> QED
    BY <2>1, <1>1, <1>3
<1> HIDE DEF a, b, c
<1>5. k \in Nat /\ k > 0 /\ n \in Nat /\ n >= k
  BY <1>1
<1>6. /\ DOMAIN w = 1 .. n
      /\ \A i \in 1 .. k : w[i] = a[i]
      /\ \A i \in k + 1 .. n : w[i] = t[i - k]
  <2>1. /\ DOMAIN w = 1 .. Len(a) + Len(t)
        /\ \A i \in 1 .. Len(a) : w[i] = a[i]
        /\ \A i \in Len(a) + 1 .. Len(a) + Len(t) : w[i] = t[i - Len(a)]
    <3>1. a \in Seq(S) /\ t \in Seq(S)
      BY <1>2
    <3> QED
      BY ONLY <3>1, ConcatParts
  <2> HIDE DEF k, w
  <2> QED
    BY <1>2, <2>1
<1>7. /\ DOMAIN v = 1 .. n
      /\ \A i \in 1 .. k : v[i] = b[i]
      /\ \A i \in k + 1 .. n : v[i] = t[i - k]
  <2>1. /\ DOMAIN v = 1 .. Len(b) + Len(t)
        /\ \A i \in 1 .. Len(b) : v[i] = b[i]
        /\ \A i \in Len(b) + 1 .. Len(b) + Len(t) : v[i] = t[i - Len(b)]
    <3>1. b \in Seq(S) /\ t \in Seq(S)
      BY <1>4
    <3> QED
      BY ONLY <3>1, ConcatParts
  <2> HIDE DEF k, v
  <2> QED
    BY <1>4, <2>1
<1>8. /\ DOMAIN x = 1 .. n - 1
      /\ \A i \in 1 .. k - 1 : x[i] = c[i]
      /\ \A i \in k .. n - 1 : x[i] = t[i + 1 - k]
  <2>1. /\ DOMAIN x = 1 .. Len(c) + Len(t)
        /\ \A i \in 1 .. Len(c) : x[i] = c[i]
        /\ \A i \in Len(c) + 1 .. Len(c) + Len(t) : x[i] = t[i - Len(c)]
    BY <1>3, ConcatParts
  <2>2. k \in Int /\ Len(t) \in Int /\ Len(c) = k - 1
    BY <1>1, <1>3
  <2> HIDE DEF k, x
  <2>3. /\ (k - 1) + Len(t) = n - 1 /\ (k - 1) + 1 = k
        /\ \A i \in Int : i - (k - 1) = i + 1 - k
    BY <2>2
  <2> HIDE DEF n
  <2>4. n \in Int
    BY <2>2 DEF n
  <2> QED
    BY <2>1, <2>2, <2>3, <2>4
<1> HIDE DEF k, n, w, v, x
<1>9. w[1] = h /\ \A i \in 1 .. n - 1 : x[i] = w[i + 1]
  BY <1>2, <1>3, <1>5, <1>6, <1>8
<1>10. /\ v[k] = w[1] /\ \A i \in 1 .. k - 1 : v[i] = w[i + 1]
       /\ \A i \in k + 1 .. n : v[i] = w[i]
  BY <1>2, <1>3, <1>4, <1>5, <1>6, <1>7
<1>11. \A i, j \in 1 .. n : w[i] = w[j] => i = j
  <2>1. Distinct(w)
    BY DEF w, a
  <2> QED
    BY <1>6, <2>1 DEF Distinct
<1>12. Distinct(x)
  <2>1. ASSUME NEW i \in 1 .. n - 1, NEW j \in 1 .. n - 1, x[i] = x[j]
        PROVE  i = j
    <3>1. i + 1 \in 1 .. n /\ j + 1 \in 1 .. n /\ w[i + 1] = w[j + 1]
      BY <1>5, <1>9, <2>1
    <3>2. i + 1 = j + 1
      BY <1>11, <3>1
    <3> QED
      BY <1>5, <3>2
  <2> QED
    BY <1>8, <2>1 DEF Distinct
<1>13. h \notin Range(x)
  BY <1>5, <1>8, <1>9, <1>11 DEF Range
<1>14. Range(w) = {h} \cup Range(x)
  <2>1. \A i \in 1 .. n : i = 1 \/ (i - 1 \in 1 .. n - 1 /\ w[i] = x[i - 1])
    BY <1>5, <1>9
  <2>2. ASSUME NEW i \in 1 .. n - 1
        PROVE  i + 1 \in 1 .. n /\ x[i] = w[i + 1]
    BY <1>5, <1>9
  <2>3. 1 \in 1 .. n
    BY <1>5
  <2> QED
    BY <1>6, <1>8, <1>9, <2>1, <2>2, <2>3 DEF Range
<1>15. Distinct(v)
  <2> DEFINE pi(i) == IF i < k THEN i + 1 ELSE IF i = k THEN 1 ELSE i
  <2>1. \A i \in 1 .. n : pi(i) \in 1 .. n /\ v[i] = w[pi(i)]
    BY <1>5, <1>10
  <2>2. \A i, j \in 1 .. n : pi(i) = pi(j) => i = j
    BY <1>5
  <2>3. ASSUME NEW i \in 1 .. n, NEW j \in 1 .. n, v[i] = v[j]
        PROVE  i = j
    <3>1. /\ pi(i) \in 1 .. n /\ pi(j) \in 1 .. n
          /\ v[i] = w[pi(i)] /\ v[j] = w[pi(j)]
      BY <2>1
    <3> HIDE DEF pi
    <3>2. pi(i) = pi(j)
      BY <1>11, <2>3, <3>1
    <3> QED
      BY <2>2, <3>2
  <2> QED
    BY <1>7, <2>3 DEF Distinct
<1>16. Range(v) = Range(w)
  <2>1. \A i \in 1 .. n : \E j \in 1 .. n : v[i] = w[j]
    BY <1>5, <1>10
  <2>2. ASSUME NEW i \in 1 .. n
        PROVE  \E j \in 1 .. n : v[j] = w[i]
    <3>1. CASE i = 1
      BY <1>5, <1>10, <3>1
    <3>2. CASE i \in 2 .. k
      <4>1. i - 1 \in 1 .. k - 1 /\ i - 1 \in 1 .. n /\ (i - 1) + 1 = i
        BY <1>5, <3>2
      <4> QED
        BY <4>1, <1>10
    <3>3. CASE i \in k + 1 .. n
      BY <1>5, <1>10, <3>3
    <3> QED
      BY <1>5, <3>1, <3>2, <3>3
  <2>3. /\ Range(v) = {v[i] : i \in 1 .. n}
        /\ Range(w) = {w[i] : i \in 1 .. n}
    BY <1>6, <1>7 DEF Range
  <2> QED
    BY <2>1, <2>2, <2>3
<1>17. QED
  BY <1>12, <1>13, <1>14, <1>15, <1>16 DEF w, v, x, a, b, c, h, u

(***************************************************************************)
(* The inductive invariant.                                                *)
(***************************************************************************)

\* The handled markets are those that ended, those on their way or there and
\* those a limit lost.
HandledIsAccounted ==
    /\ handled = gone \cup Range(Waiting) \cup considered \cup dropped
    /\ candidates \cap handled = {}

\* The metadata thread holds the answer to the name it asked for.
AnswerIsNext ==
    /\ nextStart # None /\ answer # {} => answer = {nextStart}
    /\ (seeded = None) <=> (nextStart = None)

\* From the drain on, an update that came later has set the event or is about
\* to.
WakeFollowsPut ==
    loop \in {"place", "walk", "wait"} /\ ~wake /\ poller # "wake" => queue = <<>>

\* A tick that begins to place has no walk of an earlier one left.
WalkIsOver == walk # <<>> => loop \in {"walk", "stopping", "ended"}

\* An answer in hand is about a market.
AskedIsMarket == poller \in {"take", "wake"} => asked \in Markets

IInv == /\ TypeOK /\ EmittedOnce /\ OnlyLimitsLose
        /\ HandledIsAccounted /\ AnswerIsNext /\ WakeFollowsPut /\ AskedIsMarket
        /\ WalkIsOver

\* The worker begins with the whole of the invariant.
LEMMA InitIInv == Init => IInv
<1> SUFFICES ASSUME Init
             PROVE  IInv
  OBVIOUS
<1>0. now \in 0 .. MaxNow
  BY ActivationAssumption DEF Init
<1>a. wake \in BOOLEAN /\ stop \in BOOLEAN
  BY DEF Init
<1>b. queue \in Seq(Markets) /\ inbox \in Seq(Markets) /\ walk \in Seq(Markets)
  BY DEF Init
<1>c. poller \in {"idle", "ask", "take", "wake"}
      /\ loop \in {"clear", "drain", "place", "walk", "wait", "stopping", "ended"}
  BY DEF Init
<1>d. /\ listed \subseteq Markets /\ known \subseteq listed /\ answer \subseteq listed
      /\ candidates \subseteq Markets /\ handled \subseteq Markets
      /\ gone \subseteq Markets /\ discovered \subseteq Markets
      /\ round \subseteq Markets /\ considered \subseteq Markets
      /\ dropped \subseteq Markets /\ asked \in Markets \cup {None}
  BY DEF Init
<1>1. TypeOK
  BY <1>0, <1>a, <1>b, <1>c, <1>d DEF Init, TypeOK
<1>2. Waiting = <<>> /\ Range(Waiting) = {}
  BY DEF Init, Waiting, Range
<1>3. EmittedOnce /\ OnlyLimitsLose /\ HandledIsAccounted
  BY <1>2 DEF Init, EmittedOnce, OnlyLimitsLose, HandledIsAccounted
<1>4. AnswerIsNext /\ WakeFollowsPut /\ AskedIsMarket /\ WalkIsOver
  BY DEF Init, AnswerIsNext, WakeFollowsPut, AskedIsMarket, WalkIsOver
<1>5. QED
  BY <1>1, <1>3, <1>4 DEF IInv

\* Everything on its way is there once, apart from what was considered.
LEMMA TypeOfWaiting == TypeOK => Waiting \in Seq(Markets)
BY DEF TypeOK, Waiting

(***************************************************************************)
(* One lemma for each action that changes what the invariant is about.     *)
(***************************************************************************)

\* A registration, of the seed or of the next name.
LEMMA RegisterStep ==
  ASSUME IInv, NEW S \in SUBSET Markets, RegisterCandidates(S),
         UNCHANGED <<queue, inbox, walk, considered, dropped>>
  PROVE  /\ candidates' \subseteq Markets /\ handled' \subseteq Markets
         /\ gone' \subseteq Markets /\ discovered' \subseteq Markets
         /\ EmittedOnce' /\ HandledIsAccounted'
         /\ discovered' \subseteq
               candidates' \cup gone' \cup Range(Waiting') \cup considered'
                  \cup dropped'
<1>1. Waiting' = Waiting
  BY DEF Waiting
<1> DEFINE W == Range(Waiting)
<1>2. W' = W
  BY <1>1
<1>3. /\ handled = gone \cup W \cup considered \cup dropped
      /\ candidates \cap handled = {}
      /\ Range(queue) \cap (considered \cup dropped) = {}
      /\ (W \cup considered \cup dropped) \cap (candidates \cup gone) = {}
      /\ discovered \subseteq candidates \cup gone \cup W \cup considered \cup dropped
  BY DEF IInv, HandledIsAccounted, EmittedOnce, OnlyLimitsLose
<1> DEFINE fresh == S \ handled
           over == {m \in fresh : Ended(m)}
<1>4. /\ handled' = handled \cup over
      /\ gone' = gone \cup over
      /\ candidates' = (candidates \ over) \cup (fresh \ over)
      /\ discovered' = discovered \cup S
      /\ considered' = considered /\ dropped' = dropped
  BY DEF RegisterCandidates
<1>5. over \subseteq fresh
  OBVIOUS
<1> HIDE DEF W, over
<1>6. /\ candidates' \subseteq Markets /\ handled' \subseteq Markets
      /\ gone' \subseteq Markets /\ discovered' \subseteq Markets
  BY <1>4, <1>5 DEF IInv, TypeOK
<1>7. HandledIsAccounted'
  <2>1. handled' = gone' \cup W \cup considered' \cup dropped'
    BY <1>3, <1>4
  <2>2. candidates' \cap handled' = {}
    BY <1>3, <1>4, <1>5
  <2> QED
    BY <2>1, <2>2, <1>2 DEF HandledIsAccounted, W
<1>8. EmittedOnce'
  <2>1. (W \cup considered' \cup dropped') \cap (candidates' \cup gone') = {}
    BY <1>3, <1>4, <1>5
  <2>2. Range(queue') \cap (considered' \cup dropped') = {}
    BY <1>3, <1>4
  <2> QED
    BY <2>1, <2>2, <1>1 DEF EmittedOnce, IInv, W
<1>9. discovered' \subseteq candidates' \cup gone' \cup W \cup considered' \cup dropped'
  BY <1>3, <1>4, <1>5
<1>10. QED
  BY <1>6, <1>7, <1>8, <1>9, <1>1 DEF W

\* A step that leaves the books alone keeps what is said of them.
LEMMA BooksAlone ==
  ASSUME IInv,
         UNCHANGED <<candidates, handled, gone, queue, inbox, walk, considered,
                     dropped, discovered, nextStart, seeded>>
  PROVE  EmittedOnce' /\ OnlyLimitsLose' /\ HandledIsAccounted'
BY DEF IInv, EmittedOnce, OnlyLimitsLose, HandledIsAccounted, Waiting

\* The drain moves updates from the queue to the inbox and loses none.
LEMMA DrainKeepsWaiting ==
  ASSUME TypeOK, inbox' = inbox \o queue, queue' = <<>>, walk' = walk
  PROVE  Waiting' = Waiting
<1>1. inbox \in Seq(Markets) /\ queue \in Seq(Markets) /\ walk \in Seq(Markets)
  BY DEF TypeOK
<1>2. (walk \o (inbox \o queue)) \o <<>> = (walk \o inbox) \o queue
  BY <1>1
<1>3. QED
  BY <1>2 DEF Waiting

\* Types: the threads' steps.
LEMMA TypeStep ==
  ASSUME IInv, [Next]_vars
  PROVE  TypeOK'
<1> USE DEF IInv, TypeOK
<1>1. ASSUME NEW m \in Markets, List(m) \/ Know(m)
      PROVE  TypeOK'
  BY <1>1 DEF List, Know
<1>2. ASSUME NEW m \in Markets, AskUnknown(m)
      PROVE  TypeOK'
  BY <1>2 DEF AskUnknown, GoOnAfter
<1>3. ASSUME NEW m \in Markets, AskKnown(m)
      PROVE  TypeOK'
  BY <1>3 DEF AskKnown
<1>4. CASE Tick
  <2>1. now' \in 0 .. MaxNow
    BY <1>4, ActivationAssumption DEF Tick
  <2> QED
    BY <1>4, <2>1 DEF Tick
<1>5. CASE Seed
  <2>1. Discover \subseteq listed
    BY DEF Discover
  <2> QED
    BY <1>5, <2>1 DEF Seed
<1>6. CASE FindNext
  BY <1>6 DEF FindNext
<1>7. CASE RegisterSeed
  <2>1. nextStart' \in 0 .. LastMarket + 1
    BY <1>7, ActivationAssumption DEF RegisterSeed, Markets
  <2>2. answer \in SUBSET Markets
    OBVIOUS
  <2>3. /\ candidates' \subseteq Markets /\ handled' \subseteq Markets
        /\ gone' \subseteq Markets /\ discovered' \subseteq Markets
    BY <1>7, <2>2, RegisterStep DEF RegisterSeed
  <2> QED
    BY <1>7, <2>1, <2>3 DEF RegisterSeed
<1>8. CASE RegisterNext
  <2>1. nextStart \in Markets
    BY <1>8 DEF RegisterNext, AnswerIsNext
  <2>2. nextStart' \in 0 .. LastMarket + 1
    BY <1>8, <2>1, ActivationAssumption DEF RegisterNext, Markets
  <2>3. answer \in SUBSET Markets
    OBVIOUS
  <2>4. /\ candidates' \subseteq Markets /\ handled' \subseteq Markets
        /\ gone' \subseteq Markets /\ discovered' \subseteq Markets
    BY <1>8, <2>3, RegisterStep DEF RegisterNext
  <2> QED
    BY <1>8, <2>2, <2>4 DEF RegisterNext
<1>9. CASE BeginRound
  BY <1>9 DEF BeginRound
<1>10. CASE AskFails
  BY <1>10 DEF AskFails
<1>11. CASE TakeCandidate
  <2>1. asked \in Markets
    BY <1>11 DEF TakeCandidate, AskedIsMarket
  <2>2. Append(queue, asked) \in Seq(Markets)
    BY <2>1
  <2> QED
    BY <1>11, <2>1, <2>2 DEF TakeCandidate, GoOnAfter
<1>12. CASE SetWake
  BY <1>12 DEF SetWake, GoOnAfter
<1>13. CASE ClearWake
  BY <1>13 DEF ClearWake
<1>14. CASE Drain \/ LastDrain
  <2>1. inbox \o queue \in Seq(Markets) /\ <<>> \in Seq(Markets)
    OBVIOUS
  <2> QED
    BY <1>14, <2>1 DEF Drain, LastDrain
<1>15. CASE Place
  <2>1. <<>> \in Seq(Markets)
    OBVIOUS
  <2> QED
    BY <1>15, <2>1 DEF Place
<1>16. CASE PlaceLater \/ WaitEnds \/ EndWalk
  BY <1>16 DEF PlaceLater, WaitEnds, EndWalk
<1>20. CASE Consider
  <2>1. /\ Head(walk) \in Markets /\ Tail(walk) \in Seq(Markets)
        /\ Append(inbox, Head(walk)) \in Seq(Markets)
    BY <1>20 DEF Consider
  <2> QED
    BY <1>20, <2>1 DEF Consider
<1>21. CASE MeetLimit
  <2>1. Range(walk) \subseteq Markets /\ <<>> \in Seq(Markets)
    BY DEF Range
  <2> QED
    BY <1>21, <2>1 DEF MeetLimit
<1>17. CASE Interrupt
  BY <1>17 DEF Interrupt
<1>18. CASE UNCHANGED vars
  BY <1>18 DEF vars
<1>19. QED
  BY <1>1, <1>2, <1>3, <1>4, <1>5, <1>6, <1>7, <1>8, <1>9, <1>10, <1>11, <1>12,
     <1>13, <1>14, <1>15, <1>16, <1>17, <1>18, <1>20, <1>21 DEF Next

\* What is said of the books, action by action.
LEMMA BooksStep ==
  ASSUME IInv, [Next]_vars
  PROVE  EmittedOnce' /\ OnlyLimitsLose' /\ HandledIsAccounted'
<1> DEFINE W == Range(Waiting)
<1>0. /\ TypeOK /\ Waiting \in Seq(Markets)
      /\ handled = gone \cup W \cup considered \cup dropped
      /\ candidates \cap handled = {}
      /\ Range(queue) \cap (considered \cup dropped) = {}
      /\ (W \cup considered \cup dropped) \cap (candidates \cup gone) = {}
      /\ discovered \subseteq candidates \cup gone \cup W \cup considered \cup dropped
      /\ nextStart # None => seeded .. nextStart - 1 \subseteq discovered
  BY TypeOfWaiting DEF IInv, HandledIsAccounted, EmittedOnce, OnlyLimitsLose
<1>1. ASSUME NEW m \in Markets,
             List(m) \/ Know(m) \/ AskUnknown(m) \/ AskKnown(m)
      PROVE  EmittedOnce' /\ OnlyLimitsLose' /\ HandledIsAccounted'
  <2>1. UNCHANGED <<candidates, handled, gone, queue, inbox, walk, considered,
                    dropped, discovered, nextStart, seeded>>
    BY <1>1 DEF List, Know, AskUnknown, AskKnown
  <2> QED
    BY <2>1, BooksAlone
<1>2. CASE \/ Tick \/ Seed \/ FindNext \/ AskFails \/ SetWake \/ ClearWake
           \/ EndWalk \/ PlaceLater \/ WaitEnds \/ Interrupt \/ UNCHANGED vars
  <2>1. UNCHANGED <<candidates, handled, gone, queue, inbox, walk, considered,
                    dropped, discovered, nextStart, seeded>>
    BY <1>2 DEF Tick, Seed, FindNext, AskFails, SetWake, ClearWake, EndWalk,
                PlaceLater, WaitEnds, Interrupt, vars
  <2> QED
    BY <2>1, BooksAlone
<1>3. CASE RegisterSeed
  <2>1. answer \in SUBSET Markets
    BY <1>0 DEF TypeOK
  <2>2. UNCHANGED <<queue, inbox, walk, considered, dropped>>
    BY <1>3 DEF RegisterSeed
  <2>3. PICK m \in answer : nextStart' = m + 1 /\ seeded' = m + 1
    BY <1>3 DEF RegisterSeed
  <2>4. seeded' .. nextStart' - 1 = {}
    BY <2>1, <2>3, ActivationAssumption DEF Markets
  <2>5. CASE Window = 0
    <3>1. UNCHANGED <<candidates, handled, gone, discovered>>
      BY <1>3, <2>5 DEF RegisterSeed
    <3> QED
      BY <2>2, <2>4, <3>1 DEF IInv, EmittedOnce, OnlyLimitsLose, HandledIsAccounted,
                              Waiting
  <2>6. CASE Window # 0
    <3>1. RegisterCandidates(answer)
      BY <1>3, <2>6 DEF RegisterSeed
    <3> QED
      BY <2>1, <2>2, <2>4, <3>1, RegisterStep DEF OnlyLimitsLose
  <2>7. QED
    BY <2>5, <2>6
<1>4. CASE RegisterNext
  <2>1. answer \in SUBSET Markets
    BY <1>0 DEF TypeOK
  <2>2. /\ answer = {nextStart} /\ nextStart # None /\ seeded # None
        /\ nextStart' = nextStart + 1 /\ seeded' = seeded
        /\ UNCHANGED <<queue, inbox, walk, considered, dropped>>
        /\ RegisterCandidates(answer)
    BY <1>4 DEF RegisterNext, IInv, AnswerIsNext
  <2>3. discovered' = discovered \cup {nextStart}
    BY <2>2 DEF RegisterCandidates
  <2>4. nextStart \in Int /\ seeded \in Int
    BY <2>2, ActivationAssumption DEF IInv, TypeOK
  <2>5. seeded' .. nextStart' - 1 \subseteq discovered'
    BY <1>0, <2>2, <2>3, <2>4
  <2> QED
    BY <2>1, <2>2, <2>5, RegisterStep DEF OnlyLimitsLose
<1>5. CASE BeginRound
  <2> DEFINE over == {m \in candidates : Ended(m)}
  <2>1. /\ candidates' = candidates \ over /\ over \subseteq candidates
        /\ handled' = handled \cup over /\ gone' = gone \cup over
        /\ UNCHANGED <<queue, inbox, walk, considered, dropped, discovered,
                       nextStart, seeded>>
    BY <1>5 DEF BeginRound
  <2>2. Waiting' = Waiting
    BY <2>1 DEF Waiting
  <2> HIDE DEF over, W
  <2>3. (W \cup considered' \cup dropped') \cap (candidates' \cup gone') = {}
    BY <1>0, <2>1
  <2>4. discovered' \subseteq candidates' \cup gone' \cup W \cup considered' \cup dropped'
    BY <1>0, <2>1
  <2>5. handled' = gone' \cup W \cup considered' \cup dropped' /\ candidates' \cap handled' = {}
    BY <1>0, <2>1
  <2>6. EmittedOnce'
    BY <1>0, <2>1, <2>2, <2>3 DEF EmittedOnce, IInv, W
  <2>7. OnlyLimitsLose'
    BY <1>0, <2>1, <2>2, <2>4 DEF OnlyLimitsLose, W
  <2>8. HandledIsAccounted'
    BY <2>2, <2>5 DEF HandledIsAccounted, W
  <2> QED
    BY <2>6, <2>7, <2>8
<1>6. CASE TakeCandidate
  <2>1. CASE asked \notin candidates
    <3>1. UNCHANGED <<candidates, handled, gone, queue, inbox, walk, considered,
                      dropped, discovered, nextStart, seeded>>
      BY <1>6, <2>1 DEF TakeCandidate
    <3> QED
      BY <3>1, BooksAlone
  <2>2. CASE asked \in candidates
    <3>1. /\ candidates' = candidates \ {asked} /\ handled' = handled \cup {asked}
          /\ queue' = Append(queue, asked)
          /\ UNCHANGED <<gone, inbox, walk, considered, dropped, discovered,
                         nextStart, seeded>>
      BY <1>6, <2>2 DEF TakeCandidate
    <3>2. asked \in Markets
      BY <1>0, <2>2 DEF TypeOK
    <3>3. Waiting' = Append(Waiting, asked)
      BY <1>0, <3>1, <3>2 DEF Waiting, TypeOK
    <3>4. Range(Waiting') = W \cup {asked}
      BY <1>0, <3>2, <3>3, RangeOfAppend
    <3>5. asked \notin W /\ asked \notin considered \cup dropped
          /\ asked \notin gone
      BY <1>0, <2>2
    <3>6. \A i, j \in DOMAIN Waiting' : Waiting'[i] = Waiting'[j] => i = j
      BY <1>0, <3>2, <3>3, <3>5, AppendKeepsDistinct DEF EmittedOnce, IInv
    <3> HIDE DEF W
    <3>7. (W \cup {asked} \cup considered' \cup dropped')
              \cap (candidates' \cup gone') = {}
      BY <1>0, <3>1, <3>5
    <3>13. Range(queue') \cap (considered' \cup dropped') = {}
      <4>1. Range(queue') = Range(queue) \cup {asked}
        BY <1>0, <3>1, <3>2, RangeOfAppend DEF TypeOK
      <4> QED
        BY <1>0, <3>1, <3>5, <4>1
    <3>8. discovered' \subseteq
             candidates' \cup gone' \cup (W \cup {asked}) \cup considered'
                         \cup dropped'
      BY <1>0, <3>1
    <3>9. /\ handled' = gone' \cup (W \cup {asked}) \cup considered'
                         \cup dropped'
          /\ candidates' \cap handled' = {}
      BY <1>0, <3>1, <3>5
    <3>10. EmittedOnce'
      BY <3>4, <3>6, <3>7, <3>13 DEF EmittedOnce
    <3>11. OnlyLimitsLose'
      BY <1>0, <3>1, <3>4, <3>8 DEF OnlyLimitsLose
    <3>12. HandledIsAccounted'
      BY <3>4, <3>9 DEF HandledIsAccounted
    <3> QED
      BY <3>10, <3>11, <3>12
  <2>3. QED
    BY <2>1, <2>2
<1>7. CASE Drain \/ LastDrain
  <2>1. /\ Waiting' = Waiting
        /\ queue' = <<>>
        /\ UNCHANGED <<candidates, handled, gone, considered, dropped, discovered,
                       nextStart, seeded>>
    BY <1>0, <1>7, DrainKeepsWaiting DEF Drain, LastDrain
  <2>2. Range(queue') = {}
    BY <2>1 DEF Range
  <2> QED
    BY <2>1, <2>2 DEF IInv, EmittedOnce, OnlyLimitsLose, HandledIsAccounted
<1>8. CASE Place
  <2>1. /\ walk = <<>> /\ walk' = inbox /\ inbox' = <<>>
        /\ UNCHANGED <<candidates, handled, gone, queue, considered, dropped,
                       discovered, nextStart, seeded>>
    BY <1>8 DEF Place, IInv, WalkIsOver
  <2>2. inbox \in Seq(Markets)
    BY <1>0 DEF TypeOK
  <2>3. inbox \o <<>> = <<>> \o inbox
    BY <2>2
  <2>4. Waiting' = Waiting
    BY <2>1, <2>3 DEF Waiting
  <2> QED
    BY <2>1, <2>4 DEF IInv, EmittedOnce, OnlyLimitsLose, HandledIsAccounted
<1>9. CASE Consider
  <2> DEFINE h == Head(walk)
             V == Range(Waiting')
  <2>1. /\ walk # <<>> /\ walk' = Tail(walk) /\ considered' = considered \cup {h}
        /\ inbox' = inbox \/ inbox' = Append(inbox, h)
        /\ UNCHANGED <<candidates, handled, gone, queue, dropped, discovered,
                       nextStart, seeded>>
    BY <1>9 DEF Consider
  <2>2. walk \in Seq(Markets) /\ inbox \in Seq(Markets) /\ queue \in Seq(Markets)
    BY <1>0 DEF TypeOK
  <2>3. Distinct(walk \o inbox \o queue)
    BY DEF Distinct, EmittedOnce, IInv, Waiting
  <2>4. /\ Distinct(Tail(walk) \o inbox \o queue)
        /\ h \notin Range(Tail(walk) \o inbox \o queue)
        /\ Range(walk \o inbox \o queue)
               = {h} \cup Range(Tail(walk) \o inbox \o queue)
        /\ Distinct(Tail(walk) \o Append(inbox, h) \o queue)
        /\ Range(Tail(walk) \o Append(inbox, h) \o queue)
               = Range(walk \o inbox \o queue)
    BY <2>1, <2>2, <2>3, HeadLeavesWalk
  <2>5. h \in W /\ V \subseteq W /\ W \subseteq V \cup {h} /\ Distinct(Waiting')
    BY <2>1, <2>4 DEF Waiting
  <2>6. h \notin Range(queue)
    <3>1. Tail(walk) \in Seq(Markets) /\ Tail(walk) \o inbox \in Seq(Markets)
      <4>1. Tail(walk) \in Seq(Markets)
        BY <2>1, <2>2
      <4> QED
        BY <2>2, <4>1, ConcatParts
    <3> DEFINE p == Tail(walk) \o inbox
    <3>2. Range(queue) \subseteq Range(p \o queue)
      <4>1. p \in Seq(Markets) /\ queue \in Seq(Markets)
        BY <2>2, <3>1
      <4> HIDE DEF p
      <4>2. Range(p \o queue) = Range(p) \cup Range(queue)
        BY ONLY <4>1, SuffixOfConcat
      <4> QED
        BY <4>2
    <3> QED
      BY <2>4, <3>2
  <2> HIDE DEF h, V, W
  <2>7. EmittedOnce'
    <3>1. Range(queue') \cap (considered' \cup dropped') = {}
      BY <1>0, <2>1, <2>6
    <3>2. (V \cup considered' \cup dropped') \cap (candidates' \cup gone') = {}
      BY <1>0, <2>1, <2>5
    <3> QED
      BY <2>5, <3>1, <3>2 DEF EmittedOnce, Distinct, V
  <2>8. OnlyLimitsLose'
    <3>1. discovered' \subseteq
               candidates' \cup gone' \cup V \cup considered' \cup dropped'
      BY <1>0, <2>1, <2>5
    <3> QED
      BY <1>0, <2>1, <3>1 DEF OnlyLimitsLose, V
  <2>9. HandledIsAccounted'
    <3>1. handled' = gone' \cup V \cup considered' \cup dropped'
      BY <1>0, <2>1, <2>5
    <3> QED
      BY <1>0, <2>1, <3>1 DEF HandledIsAccounted, V
  <2> QED
    BY <2>7, <2>8, <2>9
<1>10. CASE MeetLimit
  <2> DEFINE V == Range(Waiting')
  <2>1. /\ walk' = <<>> /\ dropped' = dropped \cup Range(walk)
        /\ UNCHANGED <<candidates, handled, gone, queue, inbox, considered,
                       discovered, nextStart, seeded>>
    BY <1>10 DEF MeetLimit
  <2>2. /\ walk \in Seq(Markets) /\ inbox \in Seq(Markets)
        /\ queue \in Seq(Markets) /\ inbox \o queue \in Seq(Markets)
    BY <1>0 DEF TypeOK
  <2>3. Waiting = walk \o (inbox \o queue) /\ Waiting' = inbox \o queue
    BY <2>1, <2>2 DEF Waiting
  <2>4. /\ W = Range(walk) \cup V
        /\ Distinct(Waiting') /\ Range(walk) \cap V = {}
    <3>1. \A i, j \in DOMAIN (walk \o (inbox \o queue)) :
             (walk \o (inbox \o queue))[i] = (walk \o (inbox \o queue))[j] => i = j
      BY <2>3 DEF EmittedOnce, IInv
    <3> QED
      BY <2>2, <2>3, <3>1, SuffixOfConcat DEF Distinct
  <2>5. Range(queue) \subseteq V
    BY <2>2, <2>3, SuffixOfConcat
  <2> HIDE DEF V, W
  <2>6. EmittedOnce'
    <3>1. Range(queue') \cap (considered' \cup dropped') = {}
      BY <1>0, <2>1, <2>4, <2>5
    <3>2. (V \cup considered' \cup dropped') \cap (candidates' \cup gone') = {}
      BY <1>0, <2>1, <2>4
    <3> QED
      BY <2>4, <3>1, <3>2 DEF EmittedOnce, Distinct, V
  <2>7. OnlyLimitsLose'
    <3>1. discovered' \subseteq
               candidates' \cup gone' \cup V \cup considered' \cup dropped'
      BY <1>0, <2>1, <2>4
    <3> QED
      BY <1>0, <2>1, <3>1 DEF OnlyLimitsLose, V
  <2>8. HandledIsAccounted'
    <3>1. handled' = gone' \cup V \cup considered' \cup dropped'
      BY <1>0, <2>1, <2>4
    <3> QED
      BY <1>0, <2>1, <3>1 DEF HandledIsAccounted, V
  <2> QED
    BY <2>6, <2>7, <2>8
<1>11. QED
  BY <1>1, <1>2, <1>3, <1>4, <1>5, <1>6, <1>7, <1>8, <1>9, <1>10 DEF Next

\* What is said of the threads' own positions.
LEMMA ThreadsStep ==
  ASSUME IInv, [Next]_vars
  PROVE  AnswerIsNext' /\ WakeFollowsPut' /\ AskedIsMarket' /\ WalkIsOver'
<1> USE DEF IInv, AnswerIsNext, WakeFollowsPut, AskedIsMarket, WalkIsOver
<1>1. ASSUME NEW m \in Markets,
             List(m) \/ Know(m) \/ AskUnknown(m) \/ AskKnown(m)
      PROVE  AnswerIsNext' /\ WakeFollowsPut' /\ AskedIsMarket' /\ WalkIsOver'
  BY <1>1 DEF List, Know, AskUnknown, AskKnown, GoOnAfter
<1>2. CASE Tick \/ Seed \/ FindNext \/ AskFails \/ BeginRound
  BY <1>2 DEF Tick, Seed, FindNext, AskFails, BeginRound
<1>3. CASE RegisterSeed
  <2>1. PICK m \in answer : nextStart' = m + 1 /\ seeded' = m + 1
    BY <1>3 DEF RegisterSeed
  <2>2. nextStart' # None /\ seeded' # None
    BY <2>1, ActivationAssumption DEF TypeOK, Markets
  <2> QED
    BY <1>3, <2>2 DEF RegisterSeed
<1>4. CASE RegisterNext
  <2>1. nextStart \in Int
    BY <1>4, ActivationAssumption DEF RegisterNext, TypeOK
  <2>2. nextStart' # None
    BY <1>4, <2>1, ActivationAssumption DEF RegisterNext
  <2> QED
    BY <1>4, <2>2 DEF RegisterNext
<1>5. CASE TakeCandidate
  BY <1>5 DEF TakeCandidate, GoOnAfter
<1>6. CASE SetWake
  BY <1>6 DEF SetWake, GoOnAfter
<1>7. CASE ClearWake \/ Drain \/ Place \/ PlaceLater \/ WaitEnds
  BY <1>7 DEF ClearWake, Drain, Place, PlaceLater, WaitEnds
<1>10. CASE Consider \/ MeetLimit \/ EndWalk
  BY <1>10 DEF Consider, MeetLimit, EndWalk
<1>8. CASE Interrupt \/ LastDrain \/ UNCHANGED vars
  BY <1>8 DEF Interrupt, LastDrain, vars
<1>9. QED
  BY <1>1, <1>2, <1>3, <1>4, <1>5, <1>6, <1>7, <1>8, <1>10 DEF Next

(***************************************************************************)
(* The theorems.                                                           *)
(***************************************************************************)

\* The invariant holds of every reachable state.
THEOREM Invariance == Spec => []IInv
<1>1. IInv /\ [Next]_vars => IInv'
  BY TypeStep, BooksStep, ThreadsStep DEF IInv
<1>2. QED
  BY InitIInv, <1>1, PTL DEF Spec

\* Every state the worker and the loop reach has its type: in particular the
\* metadata thread only ever holds answers about markets Gamma lists.
THEOREM Typing == Spec => []TypeOK
<1>1. IInv => TypeOK
  BY DEF IInv
<1>2. QED
  BY Invariance, <1>1, PTL

\* For every number of markets, the worker emits a market once, however rounds,
\* registrations, ticks and placements put off interleave.
THEOREM OnceEach == Spec => []EmittedOnce
<1>1. IInv => EmittedOnce
  BY DEF IInv
<1>2. QED
  BY Invariance, <1>1, PTL

\* Between Gamma and the main loop's last word on a market nothing but a limit
\* loses one, and no name is passed over.
THEOREM LostToLimitsOnly == Spec => []OnlyLimitsLose
<1>1. IInv => OnlyLimitsLose
  BY DEF IInv
<1>2. QED
  BY Invariance, <1>1, PTL

\* The wake-up of an update is never lost to the loop's own clearing of it.
THEOREM WakesUp == Spec => []NoSleepOverUpdate
<1>1. IInv => NoSleepOverUpdate
  BY DEF IInv, WakeFollowsPut, NoSleepOverUpdate
<1>2. QED
  BY Invariance, <1>1, PTL
=============================================================================
