------------------------------ MODULE Timetable ------------------------------
(***************************************************************************)
(* The knock's timing threads: the slots each account is sent on, over     *)
(* knocks that follow one another, and the hold on replies and on garbage  *)
(* collection while a burst is on (schedule.go, quiet.go, knock.go tick,   *)
(* preview.go timeBursts, main.go KnockerNextAttempts).                    *)
(*                                                                         *)
(* A knock's timing thread may outlive it: it notices the end only where   *)
(* it looks.  What the coordinator does with a slot is Knock's business;   *)
(* here a knock may end and a member may stop at any moment.               *)
(*                                                                         *)
(* Simplifications: time is counted in steps of one tolerance or more; the *)
(* two stages of a sleep are one, and a thread may wake any time late.     *)
(***************************************************************************)
EXTENDS Integers, Sequences, FiniteSets

CONSTANTS
    Accounts,
    Phase,          \* per account, its place in the cadence
    Interval,       \* the cadence
    Bursts,         \* sequence of [from, until, interval], from the anchor
    Tolerance,      \* gridTolerance
    ReplyMargin,
    AnchorLag,      \* how long before the anchor is heard it may lie
    Percent,        \* the collector's usual setting
    MaxKnocks, MaxNow,
    None

\* The same place within a burst's interval, rounded to the nearest.
BurstPhase(a, b) ==
    (2 * (Phase[a] % Interval) * b.interval + Interval) \div (2 * Interval)

ASSUME TimetableAssumption ==
    /\ Interval \in Nat /\ Tolerance \in Nat /\ ReplyMargin \in Nat
    /\ Phase \in [Accounts -> Nat]
    /\ \A a \in Accounts : Phase[a] + Tolerance < Interval
    /\ Bursts \in Seq([from : Nat, until : Nat, interval : Nat])
    /\ \A i \in 1 .. Len(Bursts) :
          /\ Bursts[i].from < Bursts[i].until
          /\ \A a \in Accounts :
                BurstPhase(a, Bursts[i]) + Tolerance < Bursts[i].interval
          /\ \A j \in 1 .. i - 1 : Bursts[j].until <= Bursts[i].from
    /\ AnchorLag \in Nat /\ MaxKnocks \in Nat /\ MaxNow \in Nat
    /\ Percent \in Nat
    /\ None \notin Int

Knocks == 1 .. MaxKnocks

VARIABLES
    now,            \* the monotonic clock
    knock,          \* how many knocks have begun
    done,           \* the knocks that have returned
    sending,        \* per knock, the members still sending
    previewed,      \* per knock, whether it waits for the record to turn
    pc,             \* per knock, where its timing thread is
    start,          \* per knock, where its cadence or its bursts are counted from
    next,           \* per knock and account, the slot it waits for
    due,            \* per knock, the member whose turn it is
    held,           \* the knocks whose thread holds replies and collections
    nextSlot,       \* per account, the first slot it may use, over all knocks
    bursting,       \* how many bursts are on; the channel is closed at none
    channel,        \* number of channels made, one for each run of bursts
    gcHeld, gcPercent, gcSaved,
    reader,         \* the call that hands replies to Python
    reading,        \* the channel it waits for
    clear,          \* history: per account, the slot after its last send
    stray           \* history: accounts whose knock returned while its thread
                    \* was past its look for the end and had yet to write

threads == <<pc, start, next, due>>
quietVars == <<held, bursting, channel, gcHeld, gcPercent, gcSaved>>
knockVars == <<knock, done, sending, previewed>>
readerVars == <<reader, reading>>
vars == <<now, knockVars, threads, quietVars, readerVars, nextSlot, clear, stray>>

Larger(x, y) == IF x > y THEN x ELSE y

(***************************************************************************)
(* Slot arithmetic.                                                        *)
(***************************************************************************)

\* Mutation of CeilDiv: a negative dividend is rounded down, as in Python.
CeilDivFloors(x, y) == IF x > 0 THEN (x + y - 1) \div y ELSE x \div y

\* Integer division that rounds up; for a negative dividend that is Go's own
\* rounding towards zero.
CeilDiv(x, y) == IF x > 0 THEN (x + y - 1) \div y ELSE -((-x) \div y)

SlotAtOrAfter(moment, origin, phase, interval) ==
    origin + phase
        + CeilDiv(moment - origin - phase - Tolerance, interval) * interval

\* A timetable: the moment it is laid out from and its bursts, of which an
\* unpreviewed knock has none; the cadence carries on where the last one ends.
Table(from, preview) ==
    [from |-> from, bursts |-> IF preview THEN Bursts ELSE <<>>]
Until(t, i) == t.from + t.bursts[i].until
Origin(t) == IF t.bursts = <<>> THEN t.from ELSE Until(t, Len(t.bursts))

BurstSlot(t, a, i, moment) ==
    LET b == t.bursts[i]
        from == t.from + b.from
    IN SlotAtOrAfter(Larger(moment, from), from, BurstPhase(a, b), b.interval)

\* Mutation of Hits: the end of a burst is not looked at.
HitsPastTheEnd(t, a, moment) ==
    {i \in 1 .. Len(t.bursts) : moment < Until(t, i)}

\* The bursts that still have a slot for a moment.
Hits(t, a, moment) ==
    {i \in 1 .. Len(t.bursts) :
        moment < Until(t, i) /\ BurstSlot(t, a, i, moment) < Until(t, i)}

\* The member's first slot at or after a moment.
At(t, a, moment) ==
    LET hits == Hits(t, a, moment)
    IN IF hits # {}
       THEN BurstSlot(t, a, CHOOSE i \in hits : \A j \in hits : i <= j, moment)
       ELSE SlotAtOrAfter(Larger(moment, Origin(t)), Origin(t), Phase[a], Interval)

TableOf(k) == Table(start[k], previewed[k])

(***************************************************************************)
(* The hold on replies and on garbage collection.                          *)
(***************************************************************************)
\* Mutation of HoldOn: every holder saves the setting it finds.
HoldOnSavesAlways(k) ==
    /\ held' = held \cup {k}
    /\ bursting' = bursting + 1
    /\ channel' = IF bursting = 0 THEN channel + 1 ELSE channel
    /\ gcHeld' = gcHeld + 1
    /\ gcSaved' = gcPercent
    /\ gcPercent' = -1

HoldOn(k) ==
    /\ held' = held \cup {k}
    /\ bursting' = bursting + 1
    /\ channel' = IF bursting = 0 THEN channel + 1 ELSE channel
    /\ gcHeld' = gcHeld + 1
    /\ gcSaved' = IF gcHeld = 0 THEN gcPercent ELSE gcSaved
    /\ gcPercent' = IF gcHeld = 0 THEN -1 ELSE gcPercent

HoldOff(k) ==
    /\ held' = held \ {k}
    /\ bursting' = Larger(bursting - 1, 0)
    /\ gcHeld' = Larger(gcHeld - 1, 0)
    /\ gcPercent' = IF gcHeld = 1 THEN gcSaved ELSE gcPercent
    /\ UNCHANGED <<channel, gcSaved>>

\* Mutation of LetGo: a thread that ends lets go of nothing.
LetGoNever(k) == UNCHANGED quietVars

\* What a thread's deferred call does when it ends.
LetGo(k) == IF k \in held THEN HoldOff(k) ELSE UNCHANGED quietVars

(***************************************************************************)
(* The caller and the coordinator, as far as they matter here.             *)
(***************************************************************************)
Init ==
    /\ now = 0 /\ knock = 0 /\ done = {}
    /\ sending = [k \in Knocks |-> {}]
    /\ previewed = [k \in Knocks |-> FALSE]
    /\ pc = [k \in Knocks |-> "none"]
    /\ start = [k \in Knocks |-> 0]
    /\ next = [k \in Knocks |-> [a \in Accounts |-> 0]]
    /\ due = [k \in Knocks |-> None]
    /\ held = {} /\ bursting = 0 /\ channel = 0
    /\ gcHeld = 0 /\ gcPercent = Percent /\ gcSaved = 0
    /\ nextSlot = [a \in Accounts |-> 0]
    /\ clear = [a \in Accounts |-> 0] /\ stray = {}
    /\ reader = "out" /\ reading = 0

Advance ==
    /\ now < MaxNow
    /\ now' = now + 1
    /\ UNCHANGED <<knockVars, threads, quietVars, readerVars, nextSlot, clear, stray>>

\* One knock at a time: the caller waits for the one before.
Begin ==
    /\ knock < MaxKnocks
    /\ knock > 0 => knock \in done
    /\ knock' = knock + 1
    /\ \E p \in BOOLEAN : previewed' = [previewed EXCEPT ![knock'] = p]
    /\ sending' = [sending EXCEPT ![knock'] = Accounts]
    /\ pc' = [pc EXCEPT ![knock'] = "lay"]
    /\ UNCHANGED <<now, done, start, next, due, quietVars, readerVars, nextSlot,
                   clear, stray>>

MemberStops(k, a) ==
    /\ k \notin done /\ a \in sending[k]
    /\ sending' = [sending EXCEPT ![k] = @ \ {a}]
    /\ UNCHANGED <<now, knock, done, previewed, threads, quietVars, readerVars,
                   nextSlot, clear, stray>>

\* The coordinator is through, or fails; Run closes done on its way out.
Return(k) ==
    /\ k <= knock /\ k \notin done
    /\ done' = done \cup {k}
    /\ stray' = IF pc[k] \in {"hand", "write"} THEN stray \cup {due[k]} ELSE stray
    /\ UNCHANGED <<now, knock, sending, previewed, threads, quietVars, readerVars,
                   nextSlot, clear>>

(***************************************************************************)
(* The timing thread of knock k.                                           *)
(***************************************************************************)

\* Mutation of LayOut: the slots start at this moment, whatever was before.
LayOutAfresh(k, from) ==
    /\ pc[k] = "lay"
    /\ start' = [start EXCEPT ![k] = from]
    /\ next' = [next EXCEPT ![k] = [a \in Accounts |->
                   At(Table(from, previewed[k]), a, now)]]
    /\ pc' = [pc EXCEPT ![k] = "top"]
    /\ IF previewed[k] /\ Bursts # <<>>
          /\ now < from + Bursts[Len(Bursts)].until + ReplyMargin
       THEN HoldOn(k)
       ELSE UNCHANGED quietVars
    /\ UNCHANGED <<now, knockVars, due, readerVars, nextSlot, clear, stray>>

\* The timetable counts from this moment, or from the anchor the watch found,
\* and starts no earlier than the account may be used again.
LayOut(k, from) ==
    /\ pc[k] = "lay"
    /\ start' = [start EXCEPT ![k] = from]
    /\ next' = [next EXCEPT ![k] = [a \in Accounts |->
                   At(Table(from, previewed[k]), a, Larger(now, nextSlot[a]))]]
    /\ pc' = [pc EXCEPT ![k] = "top"]
    /\ IF previewed[k] /\ Bursts # <<>>
          /\ now < from + Bursts[Len(Bursts)].until + ReplyMargin
       THEN HoldOn(k)
       ELSE UNCHANGED quietVars
    /\ UNCHANGED <<now, knockVars, due, readerVars, nextSlot, clear, stray>>

LayOutSomewhere(k) ==
    \E from \in Larger(0, now - AnchorLag) .. now :
        (~previewed[k] => from = now) /\ LayOut(k, from)

\* Due to let go: the replies to the last burst are in.
QuietAgain(k) ==
    /\ k \in held
    /\ now >= start[k] + Bursts[Len(Bursts)].until + ReplyMargin

\* The head of the loop: whose slot is next, if anybody still sends.
Choose(k, a) ==
    /\ pc[k] = "top"
    /\ a \in sending[k] /\ \A b \in sending[k] : next[k][a] <= next[k][b]
    /\ due' = [due EXCEPT ![k] = a]
    /\ pc' = [pc EXCEPT ![k] = "sleep"]
    /\ IF QuietAgain(k) THEN HoldOff(k) ELSE UNCHANGED quietVars
    /\ UNCHANGED <<now, knockVars, start, next, readerVars, nextSlot, clear, stray>>

\* The thread ends: nobody sends any more, or it sees that the knock is over.
Leaves(k) ==
    /\ pc' = [pc EXCEPT ![k] = "over"]
    /\ start' = [start EXCEPT ![k] = 0]
    /\ next' = [next EXCEPT ![k] = [a \in Accounts |-> 0]]
    /\ due' = [due EXCEPT ![k] = None]
    /\ LetGo(k)
    /\ UNCHANGED <<now, knockVars, readerVars, nextSlot, clear, stray>>

NobodySends(k) == pc[k] = "top" /\ sending[k] = {} /\ Leaves(k)

SeesTheEnd(k) ==
    /\ k \in done
    /\ \/ pc[k] = "lay" /\ previewed[k]
       \/ pc[k] \in {"sleep", "hand"}
    /\ Leaves(k)

\* The member stopped while the thread slept for it.
SleptForNothing(k) ==
    /\ pc[k] = "sleep" /\ due[k] \notin sending[k]
    /\ pc' = [pc EXCEPT ![k] = "top"]
    /\ due' = [due EXCEPT ![k] = None]
    /\ UNCHANGED <<now, knockVars, start, next, quietVars, readerVars, nextSlot,
                   clear, stray>>

\* Mutation of Wake: the end of the knock is not looked at.
WakeRegardless(k) ==
    /\ pc[k] = "sleep" /\ now >= next[k][due[k]]
    /\ pc' = [pc EXCEPT ![k] = "hand"]
    /\ UNCHANGED <<now, knockVars, start, next, due, quietVars, readerVars,
                   nextSlot, clear, stray>>

\* The slot has come and the knock goes on.
Wake(k) ==
    /\ pc[k] = "sleep" /\ now >= next[k][due[k]]
    /\ k \notin done
    /\ pc' = [pc EXCEPT ![k] = "hand"]
    /\ UNCHANGED <<now, knockVars, start, next, due, quietVars, readerVars,
                   nextSlot, clear, stray>>

\* The slot is handed to the coordinator, who sends on it if it is still
\* there, and the one after it is worked out: never one already gone.
HandOver(k) ==
    LET a == due[k]
        slot == next[k][a]
    IN /\ pc[k] = "hand"
       /\ next' = [next EXCEPT ![k][a] =
                      At(TableOf(k), a, Larger(slot + Tolerance + 1, now))]
       /\ clear' = IF k \in done THEN clear
                   ELSE [clear EXCEPT ![a] =
                            At(TableOf(k), a, slot + Tolerance + 1)]
       /\ pc' = [pc EXCEPT ![k] = "write"]
       /\ UNCHANGED <<now, knockVars, start, due, quietVars, readerVars, nextSlot,
                      stray>>

WriteNext(k) ==
    /\ pc[k] = "write"
    /\ nextSlot' = [nextSlot EXCEPT ![due[k]] = next[k][due[k]]]
    /\ pc' = [pc EXCEPT ![k] = "top"]
    /\ due' = [due EXCEPT ![k] = None]
    /\ UNCHANGED <<now, knockVars, start, next, quietVars, readerVars, clear, stray>>

(***************************************************************************)
(* The reader of replies: with the first reply in hand it waits for quiet, *)
(* for as long as that takes.  The wait before it, for quiet and a reply,  *)
(* ends at its timeout and changes nothing.                                *)
(***************************************************************************)

\* A channel is closed once the bursts it was made for are over.
Closed(c) == c < channel \/ bursting = 0

\* A call that found quiet before a burst began gets a reply during it.  With
\* no burst on a reply is handed over at once, which is no step here.
ReaderTakes ==
    /\ reader = "out" /\ bursting > 0
    /\ reader' = "holding" /\ reading' = channel
    /\ UNCHANGED <<now, knockVars, threads, quietVars, nextSlot, clear, stray>>

ReaderReturns ==
    /\ reader = "holding" /\ Closed(reading)
    /\ reader' = "out" /\ reading' = 0
    /\ UNCHANGED <<now, knockVars, threads, quietVars, nextSlot, clear, stray>>

Step(k) ==
    \/ LayOutSomewhere(k) \/ (\E a \in Accounts : Choose(k, a)) \/ NobodySends(k)
    \/ SeesTheEnd(k) \/ SleptForNothing(k) \/ Wake(k) \/ HandOver(k)
    \/ WriteNext(k)

Next ==
    \/ Advance \/ Begin
    \/ \E k \in Knocks : Step(k) \/ Return(k) \/ \E a \in Accounts : MemberStops(k, a)
    \/ ReaderTakes \/ ReaderReturns

Spec == Init /\ [][Next]_vars

\* The clock and the threads run, and every knock comes to its end, which
\* Knock shows.  The reader's calls are not made to happen.
FairSpec ==
    /\ Spec
    /\ WF_vars(Advance) /\ WF_vars(ReaderReturns)
    /\ \A k \in Knocks : WF_vars(Step(k)) /\ WF_vars(Return(k))

-----------------------------------------------------------------------------
(***************************************************************************)
(* Properties.                                                             *)
(***************************************************************************)
\* Every variable keeps its type; in particular no slot index and no count of
\* holders goes below zero.
TypeOK ==
    /\ now \in Nat /\ knock \in 0 .. MaxKnocks
    /\ done \subseteq 1 .. knock /\ held \subseteq 1 .. knock
    /\ sending \in [Knocks -> SUBSET Accounts]
    /\ previewed \in [Knocks -> BOOLEAN]
    /\ pc \in [Knocks -> {"none", "lay", "top", "sleep", "hand", "write", "over"}]
    /\ start \in [Knocks -> Nat]
    /\ next \in [Knocks -> [Accounts -> Nat]]
    /\ due \in [Knocks -> Accounts \cup {None}]
    /\ bursting \in Nat /\ gcHeld \in Nat
    /\ channel \in Nat /\ gcSaved \in Int /\ gcPercent \in {Percent, -1}
    /\ nextSlot \in [Accounts -> Nat] /\ clear \in [Accounts -> Nat]
    /\ stray \subseteq Accounts
    /\ reader \in {"out", "holding"} /\ reading \in Nat

\* Reference for At: of all the slots of the table, bursts and cadence, the
\* earliest that is no more than the tolerance before the moment.
SlotsFrom(t, a, moment, horizon) ==
    {s \in 0 .. horizon :
        \/ \E i \in 1 .. Len(t.bursts) :
              LET b == t.bursts[i]
                  first == t.from + b.from + BurstPhase(a, b)
              IN /\ s >= first /\ (s - first) % b.interval = 0
                 /\ s < Until(t, i) /\ moment < Until(t, i)
        \/ /\ s >= Origin(t) + Phase[a]
           /\ (s - Origin(t) - Phase[a]) % Interval = 0}

\* The slot a thread waits for after it handed one over is the first of the
\* member's timetable that is neither that one nor already gone: a stall skips
\* the slots it ate and no other, and a burst's end is respected
\* (schedule.go:32, knock.go:329).
NextIsFirst ==
    [][\A k \in Knocks :
         pc[k] = "hand" /\ pc'[k] = "write" =>
            LET a == due[k]
                t == TableOf(k)
                moment == Larger(next[k][a] + Tolerance + 1, now)
                horizon == Larger(moment, Origin(t)) + Interval
                slots == {s \in SlotsFrom(t, a, moment, horizon) :
                             s >= moment - Tolerance}
            IN next'[k][a] \in slots /\ \A s \in slots : next'[k][a] <= s]_vars

\* "A new market never starts an account inside the spacing of its previous
\* send" (knock.go:49): no slot handed to a coordinator that is there to send
\* on it comes before the slot that followed the account's last send, whatever
\* knock that was in.  One window is left (knock.go:319-336): a knock that
\* returns after its thread looked for the end and before it wrote the
\* account's slot down has the next one start from an old slot.
KeepsSpacing ==
    [][\A k \in Knocks \ done :
         pc[k] = "hand" /\ pc'[k] = "write" /\ due[k] \notin stray =>
            next[k][due[k]] >= clear[due[k]] - Tolerance]_vars

\* The account's next slot is never moved back behind the one after its last
\* send, once that is written down: a thread whose knock has ended keeps its
\* hands off it (knock.go:318), but for the same window.
NextSlotCoversLastSend ==
    \A a \in Accounts \ stray :
        \/ nextSlot[a] >= clear[a]
        \/ \E k \in Knocks : pc[k] = "write" /\ due[k] = a

\* The counts are the threads that hold, also when an old knock's thread and a
\* new one's hold at once, and the collector has its usual setting back when
\* none does (quiet.go:26).
CountsAreHolders ==
    /\ bursting = Cardinality(held) /\ gcHeld = Cardinality(held)
    /\ gcPercent = IF held = {} THEN Percent ELSE -1

\* A reply the reader has in hand is handed over in the end: no burst stays on
\* (main.go:76 waits without a timeout).
ReaderLetGo == reader = "holding" ~> reader = "out"
=============================================================================
