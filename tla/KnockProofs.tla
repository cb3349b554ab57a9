---------------------------- MODULE KnockProofs ----------------------------
(***************************************************************************)
(* Proofs about Knock, for any members, legs and bounds.                   *)
(***************************************************************************)
EXTENDS Knock, TLAPS, FiniteSetTheorems

USE DEF callerVars, venueVars

\* The requests of one member among S.
Of(S, m) == {s \in S : s.member = m}

\* A request more is one more in flight for its member, and for no other.
LEMMA CountAdd ==
  ASSUME NEW S, IsFiniteSet(S), NEW t, t \notin S, NEW m
  PROVE  /\ IsFiniteSet(S \cup {t})
         /\ Cardinality(Of(S, m)) \in Nat
         /\ t.member = m =>
              Cardinality(Of(S \cup {t}, m)) = Cardinality(Of(S, m)) + 1
         /\ t.member # m => Of(S \cup {t}, m) = Of(S, m)
<1>1. IsFiniteSet(S \cup {t}) BY FS_AddElement
<1>2. Of(S, m) \in SUBSET S BY DEF Of
<1>3. IsFiniteSet(Of(S, m)) BY <1>2, FS_Subset
<1>4. Cardinality(Of(S, m)) \in Nat BY <1>3, FS_CardinalityType
<1>5. ASSUME t.member = m
      PROVE  Cardinality(Of(S \cup {t}, m)) = Cardinality(Of(S, m)) + 1
  <2>1. Of(S \cup {t}, m) = Of(S, m) \cup {t} BY <1>5 DEF Of
  <2>2. t \notin Of(S, m) BY DEF Of
  <2> QED BY <1>3, <2>1, <2>2, FS_AddElement
<1>6. t.member # m => Of(S \cup {t}, m) = Of(S, m) BY DEF Of
<1> QED BY <1>1, <1>4, <1>5, <1>6

\* A request less is one less.
LEMMA CountRemove ==
  ASSUME NEW S, IsFiniteSet(S), NEW t \in S, NEW m
  PROVE  /\ IsFiniteSet(S \ {t})
         /\ t.member = m =>
              /\ Cardinality(Of(S \ {t}, m)) = Cardinality(Of(S, m)) - 1
              /\ Cardinality(Of(S, m)) \in Nat \ {0}
         /\ t.member # m => Of(S \ {t}, m) = Of(S, m)
<1>1. IsFiniteSet(S \ {t}) BY FS_RemoveElement
<1>2. Of(S, m) \in SUBSET S BY DEF Of
<1>3. IsFiniteSet(Of(S, m)) BY <1>2, FS_Subset
<1>4. Cardinality(Of(S, m)) \in Nat BY <1>3, FS_CardinalityType
<1>5. ASSUME t.member = m
      PROVE  /\ Cardinality(Of(S \ {t}, m)) = Cardinality(Of(S, m)) - 1
             /\ Cardinality(Of(S, m)) \in Nat \ {0}
  <2>1. Of(S \ {t}, m) = Of(S, m) \ {t} BY DEF Of
  <2>2. t \in Of(S, m) BY <1>5 DEF Of
  <2>3. Cardinality(Of(S, m)) # 0 BY <1>3, <2>2, FS_EmptySet
  <2> QED BY <1>3, <1>4, <2>1, <2>2, <2>3, FS_RemoveElement
<1>6. t.member # m => Of(S \ {t}, m) = Of(S, m) BY DEF Of
<1> QED BY <1>1, <1>5, <1>6

\* A member stopped by the clock keeps its counts and says why.
LEMMA TimedOutMember ==
  ASSUME NEW r \in MemberStates
  PROVE  /\ TimedOut(r) \in MemberStates
         /\ TimedOut(r).attempts = r.attempts
         /\ TimedOut(r).inFlight = r.inFlight
         /\ Explains(TimedOut(r))
BY DEF TimedOut, MemberStates, Texts, Explains

\* So does one stopped by Ctrl+C.
LEMMA StoppedMember ==
  ASSUME NEW r \in MemberStates, r.stopped => Explains(r)
  PROVE  /\ StopAs(r, "bot stopping") \in MemberStates
         /\ StopAs(r, "bot stopping").attempts = r.attempts
         /\ StopAs(r, "bot stopping").inFlight = r.inFlight
         /\ Explains(StopAs(r, "bot stopping"))
BY DEF StopAs, MemberStates, Texts, Explains

\* A reply leaves the counts of its member, and stops it only with a reason.
LEMMA JudgedMember ==
  ASSUME NEW r \in MemberStates, NEW s \in Sends, r.stopped => Explains(r)
  PROVE  /\ Judged(r, s) \in MemberStates
         /\ Judged(r, s).attempts = r.attempts
         /\ Judged(r, s).inFlight = r.inFlight
         /\ Judged(r, s).stopped => Explains(Judged(r, s))
<1>1. s.leg \in Legs BY DEF Sends
<1> DEFINE taken == [r EXCEPT !.accepted = @ \cup {s.leg},
                              !.stopped = @ \/ r.accepted \cup {s.leg} = Legs]
           ambiguous == [r EXCEPT !.ambiguous = TRUE]
           stopped == [r EXCEPT !.ambiguous = TRUE, !.stopped = TRUE]
           refused == [r EXCEPT !.errors = @ \cup {"not ready"}]
           rejected == [r EXCEPT !.errors = @ \cup {"rejected"},
                                 !.stopped = TRUE]
           Fine(x) == /\ x \in MemberStates
                      /\ x.attempts = r.attempts /\ x.inFlight = r.inFlight
                      /\ x.stopped => Explains(x)
<1>2. Fine(r) OBVIOUS
<1>3. Fine(taken)
  <2>1. taken \in MemberStates BY <1>1 DEF MemberStates
  <2>2. taken.attempts = r.attempts /\ taken.inFlight = r.inFlight
    BY DEF MemberStates
  <2>3. taken.stopped => Explains(taken)
    BY <1>1 DEF MemberStates, Explains
  <2> QED BY <2>1, <2>2, <2>3
<1>4. Fine(ambiguous) /\ Fine(stopped) BY DEF MemberStates, Explains
<1>5. Fine(refused) /\ Fine(rejected) BY DEF MemberStates, Explains, Texts
<1>6. Judged(r, s) \in {r, taken, ambiguous, stopped, refused, rejected}
  BY DEF Judged
<1> HIDE DEF taken, ambiguous, stopped, refused, rejected
<1> QED BY <1>2, <1>3, <1>4, <1>5, <1>6

----------------------------------------------------------------------------
(***************************************************************************)
(* The invariant, by what a step touches.                                  *)
(***************************************************************************)
\* The types of everything but the members and the requests.
Others ==
  /\ phase \in {"calling", "knocking", "returned"}
  /\ slots \in Seq(Members)
  /\ timing \in [at : {"watching", "choosing", "sleeping", "gone"},
                 due : SUBSET Members]
  /\ failure \in {"none", "sent", "taken"}
  /\ stopping \in {"open", "closed", "heard"}
  /\ {interrupted, told, open} \subseteq BOOLEAN
  /\ clock \in {"early", "budget", "ended"}
  /\ held \subseteq Members \X Legs

\* What the invariant says of the members and the requests.
Counted ==
  /\ mem \in [Members -> MemberStates]
  /\ sends \subseteq Sends
  /\ SendsNumbered
  /\ RepliesCountedOnce
  /\ StoppedExplains

\* The two together are the invariant, but for what a return says.
LEMMA InvSplits == KnockInv <=> Others /\ Counted /\ EveryMemberExplains
BY DEF KnockInv, TypeOK, Others, Counted

\* A request handed over by a slot has a number of its own.
LEMMA SendCounts ==
  ASSUME Counted, NEW m \in Members, NEW t \in Sends,
         t.member = m, t.attempt = mem[m].attempts,
         sends' = sends \cup {t},
         mem' \in [Members -> MemberStates],
         mem'[m].attempts = mem[m].attempts + 1,
         mem'[m].inFlight = mem[m].inFlight + 1,
         ~mem'[m].stopped,
         mem[m].inFlight < InFlightCap,
         \A n \in Members \ {m} : mem'[n] = mem[n]
  PROVE  Counted'
<1>1. /\ mem \in [Members -> MemberStates] /\ sends \subseteq Sends
      /\ SendsNumbered /\ RepliesCountedOnce /\ StoppedExplains
  BY DEF Counted
<1>2. IsFiniteSet(sends) BY <1>1 DEF SendsNumbered
<1>3. mem[m].attempts \in Nat /\ mem[m].inFlight \in Nat
  BY <1>1 DEF MemberStates
<1>4. \A s \in sends : /\ s.member \in Members /\ s.attempt \in Nat
                       /\ s.attempt < mem[s.member].attempts
  BY <1>1 DEF SendsNumbered, Sends
<1>5. \A s \in sends : s.member = m => s.attempt # t.attempt
  BY <1>3, <1>4
<1>6. t \notin sends BY <1>5
<1>7. sends' \subseteq Sends BY <1>1
<1>8. SendsNumbered'
  <2>1. IsFiniteSet(sends') BY <1>2, <1>6, CountAdd
  <2>2. \A s \in sends' : s.attempt < mem'[s.member].attempts
    <3>1. t.attempt < mem'[t.member].attempts
      <4>1. mem'[t.member].attempts = mem[m].attempts + 1 OBVIOUS
      <4> QED BY <1>3, <4>1
    <3>2. ASSUME NEW s \in sends PROVE s.attempt < mem'[s.member].attempts
      <4>1. CASE s.member = m
        <5>1. mem'[s.member].attempts = mem[s.member].attempts + 1 BY <4>1
        <5>2. mem[s.member].attempts \in Nat BY <1>3, <4>1
        <5>3. s.attempt \in Nat /\ s.attempt < mem[s.member].attempts BY <1>4
        <5> QED BY <5>1, <5>2, <5>3
      <4>2. CASE s.member # m
        <5>1. mem'[s.member] = mem[s.member] BY <1>4, <4>2
        <5> QED BY <1>4, <5>1
      <4> QED BY <4>1, <4>2
    <3> QED BY <3>1, <3>2
  <2>3. \A s, u \in sends' :
          s.member = u.member /\ s.attempt = u.attempt => s = u
    BY <1>1, <1>5 DEF SendsNumbered
  <2> QED BY <2>1, <2>2, <2>3 DEF SendsNumbered
<1>9. RepliesCountedOnce'
  <2> SUFFICES ASSUME NEW n \in Members
               PROVE  /\ mem'[n].inFlight = Cardinality(Of(sends', n))
                      /\ mem'[n].inFlight <= InFlightCap
    BY DEF RepliesCountedOnce, SendsOf, Of
  <2>1. /\ mem[n].inFlight = Cardinality(Of(sends, n))
        /\ mem[n].inFlight <= InFlightCap
    BY <1>1 DEF RepliesCountedOnce, SendsOf, Of
  <2>2. /\ t.member = n => Cardinality(Of(sends \cup {t}, n))
                             = Cardinality(Of(sends, n)) + 1
        /\ t.member # n => Of(sends \cup {t}, n) = Of(sends, n)
    <3> DEFINE c == Cardinality(Of(sends \cup {t}, n))
               d == Cardinality(Of(sends, n))
    <3>1. /\ t.member = n => c = d + 1
          /\ t.member # n => Of(sends \cup {t}, n) = Of(sends, n)
      BY ONLY <1>2, <1>6, CountAdd
    <3> QED BY <3>1
  <2>3. CASE n # m
    <3>1. Of(sends', n) = Of(sends, n) BY <2>2, <2>3
    <3>2. mem'[n] = mem[n] BY <2>3
    <3> QED BY <2>1, <3>1, <3>2
  <2>4. CASE n = m
    <3>1. Cardinality(Of(sends', n)) = mem[m].inFlight + 1
      BY <2>1, <2>2, <2>4
    <3>2. InFlightCap \in Nat BY KnockAssumption
    <3>3. mem[m].inFlight + 1 <= InFlightCap BY <1>3, <3>2
    <3> QED BY <2>4, <3>1, <3>3
  <2> QED BY <2>3, <2>4
<1>10. StoppedExplains'
  BY <1>1 DEF StoppedExplains, Explains
<1> QED BY <1>7, <1>8, <1>9, <1>10 DEF Counted

\* A reply takes its request, and only it, out of the count.
LEMMA ReplyCounts ==
  ASSUME Counted, NEW t \in sends,
         sends' = sends \ {t},
         mem' \in [Members -> MemberStates],
         mem'[t.member].attempts = mem[t.member].attempts,
         mem'[t.member].inFlight = mem[t.member].inFlight - 1,
         mem'[t.member].stopped => Explains(mem'[t.member]),
         \A n \in Members \ {t.member} : mem'[n] = mem[n]
  PROVE  Counted'
<1>1. /\ mem \in [Members -> MemberStates] /\ sends \subseteq Sends
      /\ SendsNumbered /\ RepliesCountedOnce /\ StoppedExplains
  BY DEF Counted
<1>2. IsFiniteSet(sends) BY <1>1 DEF SendsNumbered
<1>3. t.member \in Members BY <1>1 DEF Sends
<1>4. sends' \subseteq Sends BY <1>1
<1>5. SendsNumbered'
  <2>1. IsFiniteSet(sends') BY <1>2, CountRemove
  <2>2. \A s \in sends' : mem'[s.member].attempts = mem[s.member].attempts
    BY <1>1, <1>3 DEF Sends
  <2> QED BY <1>1, <2>1, <2>2 DEF SendsNumbered
<1>6. RepliesCountedOnce'
  <2> SUFFICES ASSUME NEW n \in Members
               PROVE  /\ mem'[n].inFlight = Cardinality(Of(sends', n))
                      /\ mem'[n].inFlight <= InFlightCap
    BY DEF RepliesCountedOnce, SendsOf, Of
  <2>1. /\ mem[n].inFlight = Cardinality(Of(sends, n))
        /\ mem[n].inFlight <= InFlightCap
    BY <1>1 DEF RepliesCountedOnce, SendsOf, Of
  <2>2. /\ t.member = n =>
             /\ Cardinality(Of(sends \ {t}, n)) = Cardinality(Of(sends, n)) - 1
             /\ Cardinality(Of(sends, n)) \in Nat \ {0}
        /\ t.member # n => Of(sends \ {t}, n) = Of(sends, n)
    BY <1>2, CountRemove
  <2>3. CASE t.member # n
    <3>1. Of(sends', n) = Of(sends, n) BY <2>2, <2>3
    <3>2. mem'[n] = mem[n] BY <2>3
    <3> QED BY <2>1, <3>1, <3>2
  <2>4. CASE t.member = n
    <3>1. Cardinality(Of(sends', n)) = mem[n].inFlight - 1
      BY <2>1, <2>2, <2>4
    <3>2. InFlightCap \in Nat BY KnockAssumption
    <3>3. mem[n].inFlight \in Nat BY <2>1, <2>2, <2>4
    <3>4. mem[n].inFlight - 1 <= InFlightCap BY <2>1, <3>2, <3>3
    <3>5. mem'[n].inFlight = mem[n].inFlight - 1 BY <2>4
    <3> QED BY <3>1, <3>4, <3>5
  <2> QED BY <2>3, <2>4
<1>7. StoppedExplains'
  BY <1>1, <1>3 DEF StoppedExplains, Explains
<1> QED BY <1>4, <1>5, <1>6, <1>7 DEF Counted

\* Members may change, requests not: the counts stay as they were.
LEMMA MemberCounts ==
  ASSUME Counted, UNCHANGED sends, mem' \in [Members -> MemberStates],
         \A m \in Members :
           /\ mem'[m].attempts = mem[m].attempts
           /\ mem'[m].inFlight = mem[m].inFlight
           /\ mem'[m].stopped => Explains(mem'[m])
  PROVE  Counted'
<1>1. SendsNumbered'
  BY DEF Counted, SendsNumbered, Sends
<1>2. RepliesCountedOnce' BY DEF Counted, RepliesCountedOnce, SendsOf
<1>3. StoppedExplains' BY DEF StoppedExplains, Explains
<1> QED BY <1>1, <1>2, <1>3 DEF Counted

\* An answered request is the same request.
LEMMA AnswerCounts ==
  ASSUME Counted, NEW t \in sends, NEW text \in Answers, Answer(t, text),
         UNCHANGED mem
  PROVE  Counted'
<1> DEFINE u == [t EXCEPT !.answer = text]
           rest == sends \ {t}
<1>1. /\ mem \in [Members -> MemberStates] /\ sends \subseteq Sends
      /\ SendsNumbered /\ RepliesCountedOnce /\ StoppedExplains
  BY DEF Counted
<1>2. IsFiniteSet(sends) BY <1>1 DEF SendsNumbered
<1>3. u \in Sends /\ u.member = t.member /\ u.attempt = t.attempt
  BY <1>1 DEF Sends
<1>4. sends' = rest \cup {u} BY DEF Answer
<1> HIDE DEF u
<1>5. u \notin rest BY <1>1, <1>3 DEF SendsNumbered
<1>6. sends' \subseteq Sends BY <1>1, <1>3, <1>4
<1>7. SendsNumbered'
  <2>1. IsFiniteSet(rest) BY ONLY <1>2, CountRemove
  <2>2. IsFiniteSet(rest \cup {u}) BY ONLY <1>5, <2>1, CountAdd
  <2>3. \A s \in sends' : s.attempt < mem'[s.member].attempts
    BY <1>1, <1>3, <1>4 DEF SendsNumbered
  <2>4. \A s, v \in sends' :
          s.member = v.member /\ s.attempt = v.attempt => s = v
    BY <1>1, <1>3, <1>4 DEF SendsNumbered
  <2> QED BY <1>4, <2>2, <2>3, <2>4 DEF SendsNumbered
<1>8. RepliesCountedOnce'
  <2> SUFFICES ASSUME NEW n \in Members
               PROVE  Cardinality(Of(sends', n)) = Cardinality(Of(sends, n))
    BY <1>1 DEF RepliesCountedOnce, SendsOf, Of
  <2>1. IsFiniteSet(rest) BY ONLY <1>2, CountRemove
  <2>2. /\ t.member = n =>
             /\ Cardinality(Of(rest, n)) = Cardinality(Of(sends, n)) - 1
             /\ Cardinality(Of(sends, n)) \in Nat \ {0}
        /\ t.member # n => Of(rest, n) = Of(sends, n)
    BY ONLY <1>2, t \in sends, CountRemove
  <2>3. /\ u.member = n => Cardinality(Of(rest \cup {u}, n))
                             = Cardinality(Of(rest, n)) + 1
        /\ u.member # n => Of(rest \cup {u}, n) = Of(rest, n)
    BY ONLY <1>5, <2>1, CountAdd
  <2>4. CASE t.member = n BY ONLY <1>3, <1>4, <2>2, <2>3, <2>4
  <2>5. CASE t.member # n BY ONLY <1>3, <1>4, <2>2, <2>3, <2>5
  <2> QED BY <2>4, <2>5
<1>9. StoppedExplains' BY <1>1 DEF StoppedExplains
<1> QED BY <1>1, <1>6, <1>7, <1>8, <1>9 DEF Counted

\* A step that touches neither keeps both.
LEMMA QuietCounts ==
  ASSUME Counted, UNCHANGED <<mem, sends>>
  PROVE  Counted'
BY DEF Counted, SendsNumbered, RepliesCountedOnce, SendsOf, StoppedExplains

----------------------------------------------------------------------------
(***************************************************************************)
(* The steps.                                                              *)
(***************************************************************************)
\* A slot that is used: the request and the member's counts move together.
LEMMA SlotSends ==
  ASSUME Counted, NEW m \in Members, NEW leg \in Legs, MaySend(mem[m]),
         mem' = [mem EXCEPT ![m].attempts = @ + 1, ![m].inFlight = @ + 1],
         sends' = sends \cup {[member |-> m, attempt |-> mem[m].attempts,
                              leg |-> leg, answer |-> "none"]}
  PROVE  Counted'
<1> DEFINE t == [member |-> m, attempt |-> mem[m].attempts, leg |-> leg,
                 answer |-> "none"]
           r == mem[m]
           r1 == [r EXCEPT !.attempts = @ + 1, !.inFlight = @ + 1]
<1>1. mem \in [Members -> MemberStates] BY DEF Counted
<1>2. r \in MemberStates BY <1>1
<1>3. r.attempts \in Nat /\ r.inFlight \in Nat BY <1>2 DEF MemberStates
<1>4. ~r.stopped /\ r.inFlight < InFlightCap BY DEF MaySend
<1>5. r.attempts + 1 \in Nat /\ r.inFlight + 1 \in Nat BY <1>3
<1>6. /\ r1.attempts = r.attempts + 1
      /\ r1.inFlight = r.inFlight + 1
      /\ r1.stopped = r.stopped
      /\ r1 \in MemberStates
  <2> DEFINE x == r.attempts + 1
             y == r.inFlight + 1
             r2 == [r EXCEPT !.attempts = x, !.inFlight = y]
  <2>1. r1 = r2 BY <1>2 DEF MemberStates
  <2>2. x \in Nat /\ y \in Nat BY <1>5
  <2> HIDE DEF x, y
  <2>3. r2.attempts = x /\ r2.inFlight = y /\ r2.stopped = r.stopped
        /\ r2 \in MemberStates
    BY <1>2, <2>2 DEF MemberStates
  <2> QED BY <2>1, <2>3 DEF x, y
<1>7. /\ mem' \in [Members -> MemberStates] /\ mem'[m] = r1
      /\ \A n \in Members \ {m} : mem'[n] = mem[n]
  <2>1. mem' = [mem EXCEPT ![m] = r1] OBVIOUS
  <2> HIDE DEF r1
  <2> QED BY <1>1, <1>6, <2>1
<1>8. t \in Sends /\ t.member = m /\ t.attempt = r.attempts
  BY <1>3 DEF Sends, Answers
<1>9. sends' = sends \cup {t} OBVIOUS
<1> HIDE DEF t, r1
<1> QED BY <1>4, <1>6, <1>7, <1>8, <1>9, SendCounts

\* A reply: judged, then out of the count.
LEMMA ReplyStep ==
  ASSUME Counted, NEW s \in sends, OnReply(s)
  PROVE  Counted'
<1> DEFINE m == s.member
           r == mem[m]
           r1 == Landed(r)
<1>1. /\ mem \in [Members -> MemberStates] /\ sends \subseteq Sends
      /\ SendsNumbered /\ RepliesCountedOnce /\ StoppedExplains
  BY DEF Counted
<1>2. s \in Sends /\ m \in Members BY <1>1 DEF Sends
<1>3. r \in MemberStates BY <1>1, <1>2
<1>4. r.inFlight \in Nat \ {0}
  <2>1. IsFiniteSet(sends) BY <1>1 DEF SendsNumbered
  <2>2. Cardinality(Of(sends, m)) \in Nat \ {0}
    BY ONLY <2>1, s \in sends, CountRemove
  <2>3. r.inFlight = Cardinality(Of(sends, m))
    BY <1>1, <1>2 DEF RepliesCountedOnce, SendsOf, Of
  <2> QED BY <2>2, <2>3
<1>5. /\ r1 \in MemberStates /\ r1.attempts = r.attempts
      /\ r1.inFlight = r.inFlight - 1
      /\ r1.stopped => Explains(r1)
  <2> DEFINE y == r.inFlight - 1
             r2 == [r EXCEPT !.inFlight = y]
  <2>1. r1 = r2 BY <1>3 DEF MemberStates, Landed
  <2>2. y \in Nat BY <1>4
  <2> HIDE DEF y
  <2>3. r2.attempts = r.attempts /\ r2.inFlight = y /\ r2 \in MemberStates
    BY <1>3, <2>2 DEF MemberStates
  <2>4. r2.stopped => Explains(r2)
    BY <1>1, <1>2, <1>3 DEF MemberStates, StoppedExplains, Explains
  <2> QED BY <2>1, <2>3, <2>4 DEF y
<1>6. mem' = [mem EXCEPT ![m] = Judged(r1, s)] BY DEF OnReply
<1>7. sends' = sends \ {s} BY DEF OnReply
<1> HIDE DEF r1
<1>8. /\ Judged(r1, s) \in MemberStates
      /\ Judged(r1, s).attempts = r1.attempts
      /\ Judged(r1, s).inFlight = r1.inFlight
      /\ Judged(r1, s).stopped => Explains(Judged(r1, s))
  BY <1>2, <1>5, JudgedMember
<1>9. /\ mem' \in [Members -> MemberStates] /\ mem'[m] = Judged(r1, s)
      /\ \A n \in Members \ {m} : mem'[n] = mem[n]
  BY <1>1, <1>2, <1>6, <1>8
<1> QED BY <1>5, <1>7, <1>8, <1>9, ReplyCounts

\* What every step does to the members and their requests.
LEMMA CountedStep ==
  ASSUME Counted, slots \in Seq(Members), [Next]_vars
  PROVE  Counted'
<1>1. /\ mem \in [Members -> MemberStates] /\ sends \subseteq Sends
      /\ StoppedExplains
  BY DEF Counted
<1>2. CASE CallerNext
  BY <1>2, QuietCounts DEF CallerNext, Start, CtrlC, StopAll
<1>3. CASE TimingNext
  <2>1. UNCHANGED <<mem, sends>>
    BY <1>3 DEF TimingNext, RecordTurns, TimingEnds, ThreadFails, ChooseSlot,
                HandOver
  <2> QED BY <2>1, QuietCounts
<1>4. CASE OnSlot
  <2> DEFINE m == Head(slots)
  <2>1. m \in Members BY <1>4 DEF OnSlot
  <2>2. CASE UNCHANGED <<mem, sends>> BY <2>2, QuietCounts
  <2>3. CASE mem' = [mem EXCEPT ![m] = TimedOut(mem[m])] /\ UNCHANGED sends
    <3>1. /\ TimedOut(mem[m]) \in MemberStates
          /\ TimedOut(mem[m]).attempts = mem[m].attempts
          /\ TimedOut(mem[m]).inFlight = mem[m].inFlight
          /\ Explains(TimedOut(mem[m]))
      BY <1>1, <2>1, TimedOutMember
    <3>2. /\ mem' \in [Members -> MemberStates]
          /\ mem'[m] = TimedOut(mem[m])
          /\ \A n \in Members \ {m} : mem'[n] = mem[n]
      BY <1>1, <2>1, <2>3, <3>1
    <3>3. \A n \in Members : /\ mem'[n].attempts = mem[n].attempts
                             /\ mem'[n].inFlight = mem[n].inFlight
                             /\ mem'[n].stopped => Explains(mem'[n])
      BY <1>1, <3>1, <3>2 DEF StoppedExplains, Explains
    <3> QED BY <2>3, <3>2, <3>3, MemberCounts
  <2>4. CASE /\ MaySend(mem[m])
             /\ \E leg \in Legs :
                  /\ mem' = [mem EXCEPT ![m].attempts = @ + 1,
                                        ![m].inFlight = @ + 1]
                  /\ sends' = sends \cup
                       {[member |-> m, attempt |-> mem[m].attempts,
                         leg |-> leg, answer |-> "none"]}
    BY <2>1, <2>4, SlotSends
  <2> QED BY <1>4, <2>2, <2>3, <2>4 DEF OnSlot
<1>5. CASE TakeFailure \/ CoordinatorFails
  <2>1. PICK f \in BOOLEAN :
          mem' = [m \in Members |->
                    IF mem[m].stopped THEN mem[m]
                    ELSE IF f THEN [mem[m] EXCEPT !.ambiguous = TRUE,
                                                  !.stopped = TRUE]
                    ELSE [mem[m] EXCEPT !.ambiguous = TRUE]]
    BY <1>5 DEF TakeFailure, CoordinatorFails
  <2>2. UNCHANGED sends BY <1>5 DEF TakeFailure, CoordinatorFails
  <2>3. \A m \in Members : /\ mem'[m] \in MemberStates
                           /\ mem'[m].attempts = mem[m].attempts
                           /\ mem'[m].inFlight = mem[m].inFlight
                           /\ mem'[m].stopped => Explains(mem'[m])
    <3> SUFFICES ASSUME NEW m \in Members
                 PROVE  /\ mem'[m] \in MemberStates
                        /\ mem'[m].attempts = mem[m].attempts
                        /\ mem'[m].inFlight = mem[m].inFlight
                        /\ mem'[m].stopped => Explains(mem'[m])
      OBVIOUS
    <3>1. mem[m] \in MemberStates BY <1>1
    <3>2. mem[m].stopped => Explains(mem[m]) BY <1>1 DEF StoppedExplains
    <3>3. \/ mem'[m] = mem[m]
          \/ mem'[m] = [mem[m] EXCEPT !.ambiguous = TRUE, !.stopped = TRUE]
          \/ mem'[m] = [mem[m] EXCEPT !.ambiguous = TRUE]
      BY <2>1
    <3>4. ASSUME mem'[m] = mem[m]
          PROVE  /\ mem'[m] \in MemberStates
                 /\ mem'[m].stopped => Explains(mem'[m])
      BY <3>1, <3>2, <3>4
    <3>5. ASSUME \/ mem'[m] = [mem[m] EXCEPT !.ambiguous = TRUE,
                                             !.stopped = TRUE]
                 \/ mem'[m] = [mem[m] EXCEPT !.ambiguous = TRUE]
          PROVE  /\ mem'[m] \in MemberStates /\ mem'[m].ambiguous
                 /\ mem'[m].attempts = mem[m].attempts
                 /\ mem'[m].inFlight = mem[m].inFlight
      BY ONLY <3>1, <3>5 DEF MemberStates
    <3> QED BY <3>3, <3>4, <3>5 DEF Explains
  <2>4. mem' \in [Members -> MemberStates] BY <2>1, <2>3
  <2> QED BY <2>2, <2>3, <2>4, MemberCounts
<1>6. CASE TakeStop
  <2>1. mem' = [m \in Members |-> StopAs(mem[m], "bot stopping")]
    BY <1>6 DEF TakeStop
  <2>2. \A m \in Members :
          /\ StopAs(mem[m], "bot stopping") \in MemberStates
          /\ StopAs(mem[m], "bot stopping").attempts = mem[m].attempts
          /\ StopAs(mem[m], "bot stopping").inFlight = mem[m].inFlight
          /\ Explains(StopAs(mem[m], "bot stopping"))
    BY <1>1, StoppedMember DEF StoppedExplains
  <2>3. \A m \in Members : mem'[m] = StopAs(mem[m], "bot stopping")
    BY <2>1
  <2>4. mem' \in [Members -> MemberStates]
    BY ONLY <2>1, <2>2
  <2>5. UNCHANGED sends BY <1>6 DEF TakeStop
  <2> QED BY <2>2, <2>3, <2>4, <2>5, MemberCounts
<1>7. CASE DeadlineFires
  <2>1. mem' = [m \in Members |->
                  IF mem[m].stopped THEN mem[m] ELSE TimedOut(mem[m])]
    BY <1>7 DEF DeadlineFires
  <2>2. \A m \in Members :
          /\ TimedOut(mem[m]) \in MemberStates
          /\ TimedOut(mem[m]).attempts = mem[m].attempts
          /\ TimedOut(mem[m]).inFlight = mem[m].inFlight
          /\ Explains(TimedOut(mem[m]))
    BY <1>1, TimedOutMember
  <2>3. \A m \in Members : /\ mem'[m] \in MemberStates
                           /\ mem'[m].attempts = mem[m].attempts
                           /\ mem'[m].inFlight = mem[m].inFlight
                           /\ mem'[m].stopped => Explains(mem'[m])
    BY <1>1, <2>1, <2>2 DEF StoppedExplains
  <2>4. mem' \in [Members -> MemberStates] BY <2>1, <2>3
  <2>5. UNCHANGED sends BY <1>7 DEF DeadlineFires
  <2> QED BY <2>3, <2>4, <2>5, MemberCounts
<1>8. CASE Return BY <1>8, QuietCounts DEF Return
<1>9. CASE \E s \in sends : OnReply(s) BY <1>9, ReplyStep
<1>10. CASE VenueNext
  <2>1. CASE DoorOpens BY <2>1, QuietCounts DEF DoorOpens
  <2>2. ASSUME NEW s \in sends, Reach(s) \/ Miss(s)
        PROVE  Counted'
    <3>1. /\ UNCHANGED mem
          /\ UNCHANGED sends \/ \E text \in Answers : Answer(s, text)
      BY <2>2 DEF Reach, Miss, Answers
    <3> QED BY <3>1, AnswerCounts, QuietCounts
  <2> QED BY <1>10, <2>1, <2>2 DEF VenueNext
<1>11. CASE TimeNext
  <2>1. CASE ClockMoves BY <2>1, QuietCounts DEF ClockMoves
  <2>2. ASSUME NEW m \in Members, DrainEnds(m)
        PROVE  Counted'
    <3>1. \A n \in Members : /\ mem'[n] \in MemberStates
                             /\ mem'[n].attempts = mem[n].attempts
                             /\ mem'[n].inFlight = mem[n].inFlight
                             /\ mem'[n].stopped => Explains(mem'[n])
      BY <1>1, <2>2 DEF DrainEnds, MemberStates, StoppedExplains, Explains
    <3>2. mem' \in [Members -> MemberStates] BY <1>1, <2>2, <3>1 DEF DrainEnds
    <3>3. UNCHANGED sends BY <2>2 DEF DrainEnds
    <3> QED BY <3>1, <3>2, <3>3, MemberCounts
  <2> QED BY <1>11, <2>1, <2>2 DEF TimeNext
<1>12. CASE UNCHANGED vars BY <1>12, QuietCounts DEF vars
<1> QED BY <1>2, <1>3, <1>4, <1>5, <1>6, <1>7, <1>8, <1>9, <1>10, <1>11,
           <1>12 DEF Next, CoordinatorNext

\* The rest keeps its types.
LEMMA OthersStep ==
  ASSUME Others, Counted, [Next]_vars
  PROVE  Others'
<1>1. sends \subseteq Sends BY DEF Counted
<1>2. CASE CallerNext
  BY <1>2 DEF Others, CallerNext, Start, CtrlC, StopAll
<1>3. CASE RecordTurns \/ TimingEnds \/ ThreadFails
  BY <1>3 DEF Others, RecordTurns, TimingEnds, ThreadFails
<1>4. ASSUME NEW m \in Members, ChooseSlot(m) \/ HandOver(m)
      PROVE  Others'
  BY <1>4 DEF Others, ChooseSlot, HandOver
<1>5. CASE OnSlot BY <1>5 DEF Others, OnSlot
<1>6. CASE TakeFailure \/ TakeStop \/ DeadlineFires \/ Return
           \/ CoordinatorFails
  BY <1>6 DEF Others, TakeFailure, TakeStop, DeadlineFires, Return,
              CoordinatorFails
<1>7. CASE \E s \in sends : OnReply(s) BY <1>7 DEF Others, OnReply
<1>8. CASE DoorOpens BY <1>8 DEF Others, DoorOpens
<1>9. ASSUME NEW s \in sends, Reach(s) \/ Miss(s)
      PROVE  Others'
  <2>1. <<s.member, s.leg>> \in Members \X Legs BY <1>1 DEF Sends
  <2>2. held' \subseteq Members \X Legs
    BY <1>9, <2>1 DEF Others, Reach, Miss
  <2>3. UNCHANGED <<phase, slots, timing, failure, stopping, callerVars,
                    clock, open>>
    BY <1>9 DEF Reach, Miss
  <2> QED BY <2>2, <2>3 DEF Others
<1>10. CASE ClockMoves BY <1>10 DEF Others, ClockMoves
<1>11. CASE \E m \in Members : DrainEnds(m) BY <1>11 DEF Others, DrainEnds
<1>12. CASE UNCHANGED vars BY <1>12 DEF Others, vars
<1> QED BY <1>2, <1>3, <1>4, <1>5, <1>6, <1>7, <1>8, <1>9, <1>10, <1>11,
           <1>12 DEF Next, TimingNext, CoordinatorNext, VenueNext, TimeNext

\* A knock returns with every member stopped, or fails with every other
\* member in doubt; after it returned no member changes.
LEMMA ExplainStep ==
  ASSUME Counted, EveryMemberExplains, [Next]_vars
  PROVE  EveryMemberExplains'
<1> SUFFICES ASSUME phase' = "returned", NEW m \in Members
             PROVE  Explains(mem'[m])
  BY DEF EveryMemberExplains, Explains
<1>1. mem \in [Members -> MemberStates] /\ StoppedExplains BY DEF Counted
<1>2. CASE Return
  <2>1. mem' = mem /\ mem[m].stopped
    BY <1>2 DEF Return, Finished, Drained
  <2> QED BY <1>1, <2>1 DEF StoppedExplains
<1>3. CASE CoordinatorFails
  <2>1. mem'[m] = IF mem[m].stopped THEN mem[m]
                  ELSE [mem[m] EXCEPT !.ambiguous = TRUE]
    BY <1>3 DEF CoordinatorFails
  <2> QED BY <1>1, <2>1 DEF StoppedExplains, Explains, MemberStates
<1>4. ASSUME ~Return, ~CoordinatorFails PROVE UNCHANGED <<phase, mem>>
  <2>1. CASE CallerNext BY <2>1 DEF CallerNext, Start, CtrlC, StopAll
  <2>2. CASE TimingNext
    BY <2>2 DEF TimingNext, RecordTurns, TimingEnds, ThreadFails, ChooseSlot,
                HandOver
  <2>3. CASE CoordinatorNext
    BY <1>4, <2>3 DEF CoordinatorNext, Coordinating, OnSlot, OnReply,
                      TakeFailure, TakeStop, DeadlineFires
  <2>4. CASE VenueNext BY <2>4 DEF VenueNext, DoorOpens, Reach, Miss
  <2>5. CASE TimeNext BY <2>5 DEF TimeNext, ClockMoves, DrainEnds
  <2>6. CASE UNCHANGED vars BY <2>6 DEF vars
  <2> QED BY <2>1, <2>2, <2>3, <2>4, <2>5, <2>6 DEF Next
<1>5. CASE UNCHANGED <<phase, mem>> BY <1>5 DEF EveryMemberExplains, Explains
<1> QED BY <1>2, <1>3, <1>4, <1>5

----------------------------------------------------------------------------
(***************************************************************************)
(* The theorems.                                                           *)
(***************************************************************************)
\* The invariant holds of every knock, whatever its members, its legs and
\* its limits.
THEOREM KnockInvariant == Spec => []KnockInv
<1>1. Init => KnockInv
  <2> SUFFICES ASSUME Init PROVE KnockInv OBVIOUS
  <2>1. Others
    <3>1. slots \in Seq(Members) BY DEF Init
    <3>2. timing \in [at : {"watching", "choosing", "sleeping", "gone"},
                      due : SUBSET Members]
      BY DEF Init
    <3> QED BY <3>1, <3>2 DEF Init, Others
  <2>2. mem \in [Members -> MemberStates] /\ sends \subseteq Sends
    BY DEF Init, NewMember, MemberStates
  <2>3. SendsNumbered BY FS_EmptySet DEF Init, SendsNumbered
  <2>4. RepliesCountedOnce
    <3>1. \A m \in Members : SendsOf(m) = {} BY DEF Init, SendsOf
    <3>2. \A m \in Members : mem[m].inFlight = 0 BY DEF Init, NewMember
    <3>3. InFlightCap \in Nat BY KnockAssumption
    <3>4. Cardinality({}) = 0 BY FS_EmptySet
    <3> QED BY <3>1, <3>2, <3>3, <3>4 DEF RepliesCountedOnce
  <2>5. StoppedExplains BY DEF Init, NewMember, StoppedExplains
  <2>6. EveryMemberExplains BY DEF Init, EveryMemberExplains
  <2> QED BY <2>1, <2>2, <2>3, <2>4, <2>5, <2>6, InvSplits DEF Counted
<1>2. KnockInv /\ [Next]_vars => KnockInv'
  <2> SUFFICES ASSUME KnockInv, [Next]_vars PROVE KnockInv' OBVIOUS
  <2>1. Others /\ Counted /\ EveryMemberExplains BY InvSplits
  <2>2. slots \in Seq(Members) BY <2>1 DEF Others
  <2>3. Others' BY <2>1, OthersStep
  <2>4. Counted' BY <2>1, <2>2, CountedStep
  <2>5. EveryMemberExplains' BY <2>1, ExplainStep
  <2> QED BY <2>3, <2>4, <2>5 DEF KnockInv, TypeOK, Others, Counted
<1> QED BY <1>1, <1>2, PTL DEF Spec

\* Every variable keeps its type; a member's count of requests in flight
\* never goes below zero.
THEOREM TypeCorrect == Spec => []TypeOK
<1>1. KnockInv => TypeOK BY DEF KnockInv
<1> QED BY <1>1, KnockInvariant, PTL

\* However many members and requests there are, and however late the
\* replies, the count of requests in flight is exact and within its cap.
THEOREM CountIsExact == Spec => []RepliesCountedOnce
<1>1. KnockInv => RepliesCountedOnce BY DEF KnockInv
<1> QED BY <1>1, KnockInvariant, PTL

\* No member comes back without its orders and without a reason.
THEOREM NoSilentMember == Spec => []EveryMemberExplains
<1>1. KnockInv => EveryMemberExplains BY DEF KnockInv
<1> QED BY <1>1, KnockInvariant, PTL

\* No slot handed over before a member's stop makes it send after it.
THEOREM StopIsFinal == Spec => StoppedSendsNothing
<1> DEFINE Silent == \A m \in Members :
              mem[m].stopped => mem'[m].attempts = mem[m].attempts
<1>1. KnockInv /\ [Next]_vars => [Silent]_vars
  <2> SUFFICES ASSUME KnockInv, Next, NEW m \in Members, mem[m].stopped
               PROVE  mem'[m].attempts = mem[m].attempts
    BY DEF vars
  <2>1. /\ mem \in [Members -> MemberStates] /\ sends \subseteq Sends
        /\ slots \in Seq(Members)
    BY DEF KnockInv, TypeOK
  <2>2. CASE OnSlot
    <3>1. Head(slots) \in Members BY <2>1, <2>2 DEF OnSlot
    <3>2. mem'[m] = mem[m]
      BY <2>1, <2>2, <3>1 DEF OnSlot, MaySend
    <3> QED BY <3>2
  <2>3. ASSUME NEW s \in sends, OnReply(s)
        PROVE  mem'[m].attempts = mem[m].attempts
    <3> DEFINE r1 == Landed(mem[s.member])
    <3>1. mem' = [mem EXCEPT ![s.member] = Judged(r1, s)]
      BY <2>3 DEF OnReply
    <3>2. Judged(r1, s).attempts = mem[s.member].attempts
      <4>1. r1.attempts = mem[s.member].attempts
        BY <2>1 DEF MemberStates, Sends, Landed
      <4>2. Judged(r1, s).attempts = r1.attempts
        BY <2>1 DEF Judged, MemberStates, Sends, Landed
      <4> QED BY <4>1, <4>2
    <3> HIDE DEF r1
    <3>3. s.member \in Members BY <2>1 DEF Sends
    <3> QED BY <2>1, <3>1, <3>2, <3>3
  <2>4. CASE TakeFailure \/ TakeStop \/ DeadlineFires \/ CoordinatorFails
    BY <2>1, <2>4 DEF TakeFailure, TakeStop, DeadlineFires, CoordinatorFails,
                      StopAs
  <2>5. ASSUME NEW n \in Members, DrainEnds(n)
        PROVE  mem'[m].attempts = mem[m].attempts
    BY <2>1, <2>5 DEF DrainEnds, MemberStates
  <2>6. CASE CallerNext \/ TimingNext \/ VenueNext \/ Return \/ ClockMoves
    <3>1. UNCHANGED mem
      BY <2>6 DEF CallerNext, Start, CtrlC, StopAll, TimingNext, RecordTurns,
                  TimingEnds, ThreadFails, ChooseSlot, HandOver, VenueNext,
                  DoorOpens, Reach, Miss, Return, ClockMoves
    <3> QED BY <3>1
  <2> QED BY <2>2, <2>3, <2>4, <2>5, <2>6 DEF Next, CoordinatorNext, TimeNext
<1>2. Spec => [][Silent]_vars BY <1>1, KnockInvariant, PTL DEF Spec
<1> QED BY <1>2 DEF StoppedSendsNothing
============================================================================
