------------------------------- MODULE Knock -------------------------------
(***************************************************************************)
(* One knock: the Go engine sends a market's signed orders, one per slot,  *)
(* until the venue registers them, and reports what came of it.            *)
(*                                                                         *)
(*   - the Python caller (knocker.py `knock`) starts it on a thread, waits,*)
(*     and on Ctrl+C calls KnockerStop once;                               *)
(*   - the timing thread (`tick`) wakes on each member's slots and hands   *)
(*     them to the coordinator;                                            *)
(*   - the coordinator owns the members: it sends, judges replies, stops   *)
(*     members and returns when each has drained;                          *)
(*   - every send is a goroutine whose reply comes back in any order, late *)
(*     or never;                                                           *)
(*   - the venue (external) refuses orders until its door opens; a resend  *)
(*     of an order it holds is answered as accepted.                       *)
(*                                                                         *)
(* Abstractions: time is three facts, whether the knocking budget or the   *)
(* market has ended (`clock`) and whether a member's 3 s drain is over;    *)
(* which member's slot comes next is a free choice (module SlotTable has   *)
(* the arithmetic); replies are the classes reply.go puts them in; held    *)
(* back slots and the preview's counters are not kept.                     *)
(***************************************************************************)
EXTENDS Naturals, Sequences, FiniteSets

CONSTANTS
  Members,
  LegSeq,      \* the plan's legs, in order
  InFlightCap, \* requests a member may have outstanding
  SlotCap,     \* slots the channel holds
  MaxAttempts, \* bound: sends per member
  Previewed,   \* the knock waits for the market's record to turn active
  Faults       \* a thread may fail, a send may fail before it leaves

ASSUME KnockAssumption ==
  /\ IsFiniteSet(Members)
  /\ LegSeq \in Seq(STRING) /\ LegSeq # <<>>
  /\ {InFlightCap, SlotCap, MaxAttempts} \subseteq Nat \ {0}
  /\ {Previewed, Faults} \subseteq BOOLEAN

VARIABLES
  phase,       \* "calling" until the run is in `running`, then "knocking"
  mem,         \* the members, the coordinator's alone
  slots,       \* Seq of members: slots handed over
  timing,      \* the timing thread
  sends,       \* requests without a processed reply
  failure,     \* the `failed` channel
  stopping,    \* the `stopping` channel
  interrupted, \* Ctrl+C came during the call
  told,        \* KnockerStop was called and returned
  clock,       \* how far wall time is
  open,        \* the venue takes orders
  held         \* the orders it registered

vars == <<phase, mem, slots, timing, sends, failure, stopping, interrupted,
          told, clock, open, held>>

callerVars == <<interrupted, told>>
venueVars  == <<open, held>>

----------------------------------------------------------------------------
Legs == {LegSeq[i] : i \in DOMAIN LegSeq}

\* The classes a reply is put in ("other id": accepted under an order id that
\* is not the one already known), our own failure to send, and no reply yet.
Answers == {"none", "accepted", "other id", "transient", "not ready",
            "rejected", "failed"}

NewMember == [attempts |-> 0, inFlight |-> 0, accepted |-> {}, errors |-> {},
              ambiguous |-> FALSE, stopped |-> FALSE, gaveUp |-> FALSE,
              drained |-> FALSE]

Init ==
  /\ phase = "calling"
  /\ mem = [m \in Members |-> NewMember]
  /\ slots = <<>>
  /\ timing = [at |-> IF Previewed THEN "watching" ELSE "choosing", due |-> {}]
  /\ sends = {}
  /\ failure = "none"
  /\ stopping = "open"
  /\ interrupted = FALSE
  /\ told = FALSE
  /\ clock = "early"
  /\ open = FALSE
  /\ held = {}

(***************************************************************************)
(* The caller.                                                             *)
(***************************************************************************)
\* Run puts itself in `running` once the plan is read.
Start ==
  /\ phase = "calling"
  /\ phase' = "knocking"
  /\ UNCHANGED <<mem, slots, timing, sends, failure, stopping, callerVars,
                 clock, venueVars>>

CtrlC ==
  /\ phase # "returned"
  /\ ~interrupted
  /\ interrupted' = TRUE
  /\ UNCHANGED <<phase, mem, slots, timing, sends, failure, stopping, told,
                 clock, venueVars>>

\* KnockerStop: StopAll closes the channel of every run in `running`.
StopAll ==
  /\ phase # "returned"
  /\ interrupted /\ ~told
  /\ told' = TRUE
  /\ stopping' = IF phase = "knocking" THEN "closed" ELSE stopping
  /\ UNCHANGED <<phase, mem, slots, timing, sends, failure, interrupted,
                 clock, venueVars>>

(***************************************************************************)
(* The timing thread and the preview watch that starts it.                 *)
(***************************************************************************)
RecordTurns ==
  /\ phase = "knocking"
  /\ timing.at = "watching"
  /\ timing' = [timing EXCEPT !.at = "choosing"]
  /\ UNCHANGED <<phase, mem, slots, sends, failure, stopping, callerVars,
                 clock, venueVars>>

ChooseSlot(m) ==
  /\ phase = "knocking"
  /\ timing.at = "choosing"
  /\ ~mem[m].stopped
  /\ mem[m].attempts < MaxAttempts
  /\ timing' = [at |-> "sleeping", due |-> {m}]
  /\ UNCHANGED <<phase, mem, slots, sends, failure, stopping, callerVars,
                 clock, venueVars>>

\* Between the choice and the hand-over the member may stop: the thread sees
\* it only if it slept long enough to look again.
HandOver(m) ==
  /\ timing.at = "sleeping"
  /\ m \in timing.due
  /\ phase = "knocking"
  /\ timing' = [at |-> "choosing", due |-> {}]
  /\ \/ Len(slots) < SlotCap /\ slots' = Append(slots, m)
     \/ mem[m].stopped /\ UNCHANGED slots
  /\ UNCHANGED <<phase, mem, sends, failure, stopping, callerVars, clock,
                 venueVars>>

\* Mutant of SeesDone: the hand-over does not also wait on `done`.
SeesDoneChoosing == timing.at = "choosing" /\ phase = "returned"

\* `done` is closed when the coordinator returns.
SeesDone == timing.at # "gone" /\ phase = "returned"

\* No member is sending any more, or the knock is done.
TimingEnds ==
  /\ \/ timing.at = "choosing" /\ \A m \in Members : mem[m].stopped
     \/ SeesDone
  /\ timing' = [at |-> "gone", due |-> {}]
  /\ UNCHANGED <<phase, mem, slots, sends, failure, stopping, callerVars,
                 clock, venueVars>>

\* A panic in the timing thread, or a preview watch that cannot ask.
ThreadFails ==
  /\ Faults
  /\ phase = "knocking"
  /\ timing.at # "gone"
  /\ failure = "none"
  /\ failure' = "sent"
  /\ timing' = IF timing.at = "watching" THEN timing
               ELSE [at |-> "gone", due |-> {}]
  /\ UNCHANGED <<phase, mem, slots, sends, stopping, callerVars, clock,
                 venueVars>>

(***************************************************************************)
(* The coordinator.                                                        *)
(***************************************************************************)
Drained(m) == mem[m].stopped /\ (mem[m].inFlight = 0 \/ mem[m].drained)

\* Mutant of Finished: every reply is waited for.
AllAnswered == \A m \in Members : mem[m].stopped /\ mem[m].inFlight = 0

\* pending(): nothing left to wait for.
Finished == \A m \in Members : Drained(m)

Coordinating == phase = "knocking" /\ ~Finished

\* pastDeadline: what the clock makes of a member that still sends.
TimedOut(r) ==
  IF clock = "ended"
  THEN [r EXCEPT !.errors = @ \cup {"market ended"}, !.stopped = TRUE]
  ELSE [r EXCEPT !.errors = @ \cup {"budget"}, !.gaveUp = TRUE,
                 !.stopped = TRUE]

\* Mutant of StopAs: a stopped member does not say why.
StopMutely(r, text) == [r EXCEPT !.stopped = TRUE]

\* stop with a text, for every member still sending.
StopAs(r, text) ==
  IF r.stopped THEN r
  ELSE [r EXCEPT !.errors = @ \cup {text}, !.stopped = TRUE]

\* One leg per slot, turning over the legs not registered yet.
NextLeg(r) ==
  LET remaining == SelectSeq(LegSeq, LAMBDA l : l \notin r.accepted)
      turn      == IF remaining = <<>> THEN LegSeq ELSE remaining
  IN turn[(r.attempts % Len(turn)) + 1]

\* Mutant of MaySend: a slot handed over before the stop is still used.
HasRoom(r) == r.inFlight < InFlightCap

\* At the cap the slot is given up rather than the queue deepened.
MaySend(r) == ~r.stopped /\ r.inFlight < InFlightCap

OnSlot ==
  /\ Coordinating
  /\ slots # <<>>
  /\ slots' = Tail(slots)
  /\ LET m == Head(slots)
         r == mem[m]
     IN IF ~r.stopped /\ clock # "early"
        THEN /\ mem' = [mem EXCEPT ![m] = TimedOut(r)]
             /\ UNCHANGED sends
        ELSE IF ~MaySend(r)
        THEN UNCHANGED <<mem, sends>>
        ELSE \E leg \in Legs :
               /\ leg = NextLeg(r)
               /\ mem' = [mem EXCEPT ![m].attempts = @ + 1,
                                     ![m].inFlight = @ + 1]
               /\ sends' = sends \cup {[member |-> m, attempt |-> r.attempts,
                                        leg |-> leg, answer |-> "none"]}
  /\ UNCHANGED <<phase, timing, failure, stopping, callerVars, clock,
                 venueVars>>

\* Mutant of Judged: every reply is taken out of flight once more.
JudgedTwice(r, s) == [r EXCEPT !.inFlight = @ - 1]

\* What a reply makes of its member.
Judged(r, s) ==
  LET taken == [r EXCEPT !.accepted = @ \cup {s.leg},
                         !.stopped = @ \/ r.accepted \cup {s.leg} = Legs]
  IN CASE r.stopped /\ r.drained -> r
       [] s.answer = "failed"    -> [r EXCEPT !.ambiguous = TRUE, !.stopped = TRUE]
       [] s.answer = "transient" -> [r EXCEPT !.ambiguous = TRUE]
       [] s.answer = "not ready" -> [r EXCEPT !.errors = @ \cup {"not ready"}]
       [] s.answer = "rejected"  -> [r EXCEPT !.errors = @ \cup {"rejected"},
                                              !.stopped = TRUE]
       [] s.answer = "other id" /\ s.leg \in r.accepted ->
            [r EXCEPT !.ambiguous = TRUE, !.stopped = TRUE]
       [] OTHER                  -> taken

\* Mutant of Landed: a reply to a member that has stopped is not counted.
LandedInTime(r) == IF r.stopped THEN r ELSE [r EXCEPT !.inFlight = @ - 1]

\* A reply came: its request is no longer in flight.
Landed(r) == [r EXCEPT !.inFlight = @ - 1]

OnReply(s) ==
  /\ Coordinating
  /\ s.answer # "none"
  /\ sends' = sends \ {s}
  /\ mem' = [mem EXCEPT ![s.member] = Judged(Landed(mem[s.member]), s)]
  /\ UNCHANGED <<phase, slots, timing, failure, stopping, callerVars, clock,
                 venueVars>>

TakeFailure ==
  /\ Coordinating
  /\ failure = "sent"
  /\ failure' = "taken"
  /\ mem' = [m \in Members |->
               IF mem[m].stopped THEN mem[m]
               ELSE [mem[m] EXCEPT !.ambiguous = TRUE, !.stopped = TRUE]]
  /\ UNCHANGED <<phase, slots, timing, sends, stopping, callerVars, clock,
                 venueVars>>

TakeStop ==
  /\ Coordinating
  /\ stopping = "closed"
  /\ stopping' = "heard"
  /\ mem' = [m \in Members |-> StopAs(mem[m], "bot stopping")]
  /\ UNCHANGED <<phase, slots, timing, sends, failure, callerVars, clock,
                 venueVars>>

\* The coordinator's timer: the deadline holds even if no slot comes.
DeadlineFires ==
  /\ Coordinating
  /\ clock # "early"
  /\ \E m \in Members : ~mem[m].stopped
  /\ mem' = [m \in Members |->
               IF mem[m].stopped THEN mem[m] ELSE TimedOut(mem[m])]
  /\ UNCHANGED <<phase, slots, timing, sends, failure, stopping, callerVars,
                 clock, venueVars>>

Return ==
  /\ phase = "knocking"
  /\ Finished
  /\ phase' = "returned"
  /\ UNCHANGED <<mem, slots, timing, sends, failure, stopping, callerVars,
                 clock, venueVars>>

\* A panic in the coordinator: what was recorded stands.
CoordinatorFails ==
  /\ Faults
  /\ Coordinating
  /\ phase' = "returned"
  /\ mem' = [m \in Members |->
               IF mem[m].stopped THEN mem[m]
               ELSE [mem[m] EXCEPT !.ambiguous = TRUE]]
  /\ UNCHANGED <<slots, timing, sends, failure, stopping, callerVars, clock,
                 venueVars>>

(***************************************************************************)
(* Time and the venue.                                                     *)
(***************************************************************************)
ClockMoves ==
  /\ \/ clock = "early" /\ clock' \in {"budget", "ended"}
     \/ clock = "budget" /\ clock' = "ended"
  /\ UNCHANGED <<phase, mem, slots, timing, sends, failure, stopping,
                 callerVars, venueVars>>

\* DrainTime after a member stopped.
DrainEnds(m) ==
  /\ phase = "knocking"
  /\ mem[m].stopped
  /\ ~mem[m].drained
  /\ mem' = [mem EXCEPT ![m].drained = TRUE]
  /\ UNCHANGED <<phase, slots, timing, sends, failure, stopping, callerVars,
                 clock, venueVars>>

DoorOpens ==
  /\ ~open
  /\ open' = TRUE
  /\ UNCHANGED <<phase, mem, slots, timing, sends, failure, stopping,
                 callerVars, clock, held>>

Answer(s, text) == sends' = (sends \ {s}) \cup {[s EXCEPT !.answer = text]}

\* The request reaches the venue: it may register even if its reply is lost,
\* and even after the knock has returned.
Reach(s) ==
  /\ s.answer = "none"
  /\ IF open
     THEN \/ /\ held' = held \cup {<<s.member, s.leg>>}
             /\ \/ Answer(s, "accepted") \/ Answer(s, "transient")
                \/ (Faults /\ Answer(s, "other id")) \/ UNCHANGED sends
          \/ /\ <<s.member, s.leg>> \notin held
             /\ Answer(s, "rejected")
             /\ UNCHANGED held
     ELSE /\ Answer(s, "not ready")
          /\ UNCHANGED held
  /\ UNCHANGED <<phase, mem, slots, timing, failure, stopping, callerVars,
                 clock, open>>

\* A connection that breaks, a 429 or a 5xx, before the venue's engine; or
\* our own failure before anything is sent.
Miss(s) ==
  /\ s.answer = "none"
  /\ Answer(s, "transient") \/ (Faults /\ Answer(s, "failed"))
  /\ UNCHANGED <<phase, mem, slots, timing, failure, stopping, callerVars,
                 clock, venueVars>>

----------------------------------------------------------------------------
CallerNext == Start \/ CtrlC \/ StopAll

TimingNext ==
  \/ RecordTurns \/ TimingEnds \/ ThreadFails
  \/ \E m \in Members : ChooseSlot(m) \/ HandOver(m)

CoordinatorNext ==
  \/ OnSlot \/ TakeFailure \/ TakeStop \/ DeadlineFires \/ Return
  \/ CoordinatorFails
  \/ \E s \in sends : OnReply(s)

VenueNext == DoorOpens \/ \E s \in sends : Reach(s) \/ Miss(s)

TimeNext == ClockMoves \/ \E m \in Members : DrainEnds(m)

Next == CallerNext \/ TimingNext \/ CoordinatorNext \/ VenueNext \/ TimeNext

Spec == Init /\ [][Next]_vars

(***************************************************************************)
(* Fairness: threads run, time passes; the Go runtime picks among ready    *)
(* channels at random, so one that stays ready is not passed over for      *)
(* ever.  Nothing is asked of the venue: a reply may never come.           *)
(***************************************************************************)
Running ==
  /\ WF_vars(Start)
  /\ WF_vars(StopAll)
  /\ WF_vars(TimingEnds)
  /\ WF_vars(TakeStop)
  /\ WF_vars(TakeFailure)
  /\ WF_vars(DeadlineFires)
  /\ WF_vars(Return)
  /\ \A m \in Members : WF_vars(HandOver(m)) /\ WF_vars(DrainEnds(m))

FairSpec == Spec /\ Running

----------------------------------------------------------------------------
(***************************************************************************)
(* Properties                                                              *)
(***************************************************************************)
Texts   == {"budget", "market ended", "bot stopping", "not ready", "rejected"}
Sends   == [member : Members, attempt : Nat, leg : Legs, answer : Answers]
MemberStates ==
  [attempts : Nat, inFlight : Nat, accepted : SUBSET Legs,
   errors : SUBSET Texts, ambiguous : BOOLEAN, stopped : BOOLEAN,
   gaveUp : BOOLEAN, drained : BOOLEAN]

\* Every variable keeps its type; in particular no count of requests in flight
\* goes below zero.
TypeOK ==
  /\ phase \in {"calling", "knocking", "returned"}
  /\ mem \in [Members -> MemberStates]
  /\ slots \in Seq(Members)
  /\ timing \in [at : {"watching", "choosing", "sleeping", "gone"},
                 due : SUBSET Members]
  /\ sends \subseteq Sends
  /\ failure \in {"none", "sent", "taken"}
  /\ stopping \in {"open", "closed", "heard"}
  /\ {interrupted, told, open} \subseteq BOOLEAN
  /\ clock \in {"early", "budget", "ended"}
  /\ held \subseteq Members \X Legs

SendsOf(m) == {s \in sends : s.member = m}

Explains(r) == r.accepted = Legs \/ r.errors # {} \/ r.ambiguous

\* Every send is counted in flight exactly until its reply is judged, the
\* replies that come after the member's drain included (knock.go:539-541):
\* a member counted short would return before its drain, one counted over
\* would hold slots back for ever.
RepliesCountedOnce ==
  \A m \in Members :
    /\ mem[m].inFlight = Cardinality(SendsOf(m))
    /\ mem[m].inFlight <= InFlightCap

\* Whatever ended it, a member that returns without all its orders says why
\* (knock.go:228-233, 385-399, 432-449): the caller tells a market to retry
\* from one to skip by it.
EveryMemberExplains ==
  phase = "returned" => \A m \in Members : Explains(mem[m])

(***************************************************************************)
(* Why they hold: sends are told apart by their number, which the member   *)
(* counts up, and no member is stopped without a reason.                   *)
(***************************************************************************)
SendsNumbered ==
  /\ IsFiniteSet(sends)
  /\ \A s \in sends : s.attempt < mem[s.member].attempts
  /\ \A s, t \in sends :
       s.member = t.member /\ s.attempt = t.attempt => s = t

StoppedExplains ==
  \A m \in Members : mem[m].stopped => Explains(mem[m])

KnockInv ==
  /\ TypeOK
  /\ SendsNumbered
  /\ RepliesCountedOnce
  /\ StoppedExplains
  /\ EveryMemberExplains

\* A stopped member sends nothing more, though the timing thread may have
\* handed over slots for it before it saw the stop (knock.go:451-455).
StoppedSendsNothing ==
  [][\A m \in Members :
       mem[m].stopped => mem'[m].attempts = mem[m].attempts]_vars

\* "returns once each has stopped sending and collected its replies, or
\* DrainTime has passed since it stopped" (knock.go:134-136): no reply the
\* venue never gives, and no slot that never comes, keeps it from returning
\* once its deadline is there, nor once the stop has reached it: shutdown takes
\* the drain, not the budget (knock.go:67-73).
KnockReturns == (clock # "early" \/ stopping # "open") ~> phase = "returned"

\* Nor does the timing thread outlive the knock, wherever it sleeps.
TimingThreadEnds == phase = "returned" ~> timing.at = "gone"
============================================================================
