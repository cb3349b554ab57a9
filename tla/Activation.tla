----------------------------- MODULE Activation -----------------------------
(***************************************************************************)
(* The market activation worker and the loop it feeds                      *)
(* (market_activation.py, discovery.py, the service's main loop).          *)
(*                                                                         *)
(* Two threads share the candidates under a lock.  The metadata thread     *)
(* seeds its window from Gamma once and then asks for one market after the *)
(* other by name; the activation thread asks the CLOB about every candidate*)
(* in rounds and puts the ones it knows on a queue, which the main loop    *)
(* drains between two waits on a wake event.  What it drained it walks in  *)
(* order, from a list emptied beforehand: a market that is put off goes    *)
(* back on that list, and one that meets a limit ends the walk.            *)
(*                                                                         *)
(* Simplifications: a market is its number, its start time is that number  *)
(* of five-minute units and it ends one unit later.  A Gamma request that  *)
(* fails changes nothing and is no action.  The workers' health, which only*)
(* the log and the event table see, is left out.                           *)
(***************************************************************************)
EXTENDS Integers, FiniteSets, Sequences, Functions

CONSTANTS
    LastMarket,     \* markets are 0 .. LastMarket
    Window,         \* lookahead in markets; 0 only seeds the next name
    Farthest,       \* farthest-first seeding
    MaxNow,         \* bound on the clock
    None

ASSUME ActivationAssumption ==
    /\ LastMarket \in Nat
    /\ Window \in Nat
    /\ Farthest \in BOOLEAN
    /\ MaxNow \in Nat
    /\ None \notin Int

Markets == 0 .. LastMarket

VARIABLES
    now,            \* the wall clock
    listed,         \* what Gamma lists
    known,          \* what the CLOB has parameters for
    nextStart,      \* _next_start_ts
    answer,         \* markets the metadata thread read and has not registered
    candidates,     \* _candidates
    handled,        \* _handled_slugs
    gone,           \* the handled ones that ended before they were emitted
    poller,         \* where the activation thread is
    round,          \* the rest of its snapshot
    asked,          \* the market it has an answer about
    queue,          \* _updates
    wake,           \* wake_event
    loop,           \* where the main loop is
    inbox,          \* activation_market_updates
    walk,           \* the rest of what _place_activated_markets took off it
    considered,     \* markets _consider_market dealt with
    dropped,        \* history: those in a walk that a limit ended
    stop,           \* _stop
    seeded,         \* history: the first name asked for after the seed
    discovered      \* history: every market registered

discovery == <<nextStart, answer, seeded>>
service == <<loop, inbox, walk, considered, dropped, stop>>
outside == <<now, listed, known>>
vars == <<outside, discovery, candidates, handled, gone, poller, round, asked,
          queue, wake, service, discovered>>

Ended(m) == m + 1 <= now

Init ==
    /\ now = 0
    /\ listed = {} /\ known = {}
    /\ nextStart = None /\ seeded = None
    /\ answer = {} /\ discovered = {}
    /\ candidates = {} /\ handled = {} /\ gone = {}
    /\ poller = "idle" /\ round = {} /\ asked = None
    /\ queue = <<>> /\ wake = FALSE
    /\ loop = "clear" /\ inbox = <<>> /\ walk = <<>>
    /\ considered = {} /\ dropped = {} /\ stop = FALSE

(***************************************************************************)
(* Gamma, the CLOB and the clock.                                          *)
(***************************************************************************)
List(m) ==
    /\ m \notin listed
    /\ listed' = listed \cup {m}
    /\ UNCHANGED <<now, known, discovery, candidates, handled, gone, poller,
                   round, asked, queue, wake, service, discovered>>

\* What the CLOB knows before Gamma lists it makes no difference to anyone.
Know(m) ==
    /\ m \in listed \ known
    /\ known' = known \cup {m}
    /\ UNCHANGED <<now, listed, discovery, candidates, handled, gone, poller,
                   round, asked, queue, wake, service, discovered>>

Tick ==
    /\ now < MaxNow
    /\ now' = now + 1
    /\ UNCHANGED <<listed, known, discovery, candidates, handled, gone, poller,
                   round, asked, queue, wake, service, discovered>>

(***************************************************************************)
(* The metadata thread.                                                    *)
(***************************************************************************)
SeedSize == IF Window = 0 THEN 1 ELSE Window

\* What discover returns: events that ended up to five minutes ago are asked
\* for too; farthest first, the last SeedSize of them, and otherwise those
\* that end within the window.
Discover ==
    LET open == {m \in listed : now - 1 <= m + 1}
    IN IF Farthest
       THEN {m \in open : Cardinality({n \in open : n > m}) < SeedSize}
       ELSE {m \in open : m + 1 <= now + SeedSize}

Seed ==
    /\ ~stop /\ nextStart = None /\ answer = {}
    /\ Discover # {}
    /\ answer' = Discover
    /\ UNCHANGED <<outside, nextStart, seeded, candidates, handled, gone, poller,
                   round, asked, queue, wake, service, discovered>>

\* Mutation of FindNext: an answer of "not found" is taken for a market.
FindNextAnyway ==
    /\ ~stop /\ nextStart # None /\ answer = {}
    /\ nextStart \in Markets
    /\ answer' = {nextStart}
    /\ UNCHANGED <<outside, nextStart, seeded, candidates, handled, gone, poller,
                   round, asked, queue, wake, service, discovered>>

FindNext ==
    /\ ~stop /\ nextStart # None /\ answer = {}
    /\ nextStart \in listed
    /\ answer' = {nextStart}
    /\ UNCHANGED <<outside, nextStart, seeded, candidates, handled, gone, poller,
                   round, asked, queue, wake, service, discovered>>

\* _register_candidates, under the lock.
RegisterCandidates(markets) ==
    LET fresh == markets \ handled
        over == {m \in fresh : Ended(m)}
    IN /\ handled' = handled \cup over
       /\ gone' = gone \cup over
       /\ candidates' = (candidates \ over) \cup (fresh \ over)
       /\ discovered' = discovered \cup markets

RegisterSeed ==
    /\ nextStart = None /\ answer # {}
    /\ IF Window = 0
       THEN UNCHANGED <<candidates, handled, gone, discovered>>
       ELSE RegisterCandidates(answer)
    /\ \E m \in answer : (\A n \in answer : n <= m) /\ nextStart' = m + 1
    /\ seeded' = nextStart'
    /\ answer' = {}
    /\ UNCHANGED <<outside, poller, round, asked, queue, wake, service>>

RegisterNext ==
    /\ nextStart # None /\ answer # {}
    /\ RegisterCandidates(answer)
    /\ nextStart' = nextStart + 1
    /\ answer' = {}
    /\ UNCHANGED <<outside, seeded, poller, round, asked, queue, wake, service>>

(***************************************************************************)
(* The activation thread.                                                  *)
(***************************************************************************)

\* Insertion order of the candidates: the seed as discover sorted it, then
\* one market after the other.
Before(m, n) ==
    IF m < seeded /\ n < seeded /\ Farthest THEN m > n ELSE m < n

IsFirst(m) == m \in round /\ \A n \in round \ {m} : Before(m, n)

\* The snapshot, under the lock: what ended leaves the candidates.
BeginRound ==
    LET over == {m \in candidates : Ended(m)}
    IN /\ ~stop /\ poller = "idle"
       /\ candidates' = candidates \ over
       /\ handled' = handled \cup over
       /\ gone' = gone \cup over
       /\ round' = candidates \ over
       /\ poller' = IF round' = {} THEN "idle" ELSE "ask"
       /\ UNCHANGED <<outside, discovery, asked, queue, wake, service,
                      discovered>>

\* The rest of the round without m.
GoOnAfter(m) ==
    /\ round' = round \ {m}
    /\ poller' = IF round' = {} THEN "idle" ELSE "ask"

\* Mutation of AskUnknown: a market the CLOB does not know ends the round.
AskUnknownEndsRound(m) ==
    /\ poller = "ask" /\ IsFirst(m) /\ m \notin known
    /\ round' = {} /\ poller' = "idle"
    /\ UNCHANGED <<outside, discovery, candidates, handled, gone, asked, queue,
                   wake, service, discovered>>

\* Not found, or found without both of its tokens.
AskUnknown(m) ==
    /\ poller = "ask" /\ IsFirst(m) /\ m \notin known
    /\ GoOnAfter(m)
    /\ UNCHANGED <<outside, discovery, candidates, handled, gone, asked, queue,
                   wake, service, discovered>>

\* A request that raises ends the round for everybody behind it.
AskFails ==
    /\ poller = "ask"
    /\ round' = {} /\ poller' = "idle"
    /\ UNCHANGED <<outside, discovery, candidates, handled, gone, asked, queue,
                   wake, service, discovered>>

AskKnown(m) ==
    /\ poller = "ask" /\ IsFirst(m) /\ m \in known
    /\ asked' = m /\ poller' = "take"
    /\ UNCHANGED <<outside, discovery, candidates, handled, gone, round, queue,
                   wake, service, discovered>>

\* Mutation of TakeCandidate: the market stays among the candidates.
TakeCandidateKept ==
    /\ poller = "take"
    /\ IF asked \in candidates
       THEN /\ handled' = handled \cup {asked}
            /\ queue' = Append(queue, asked)
            /\ poller' = "wake"
            /\ UNCHANGED <<candidates, round>>
       ELSE /\ GoOnAfter(asked)
            /\ UNCHANGED <<candidates, handled, queue>>
    /\ UNCHANGED <<outside, discovery, gone, asked, wake, service, discovered>>

\* The pop under the lock, and the put.
TakeCandidate ==
    /\ poller = "take"
    /\ IF asked \in candidates
       THEN /\ candidates' = candidates \ {asked}
            /\ handled' = handled \cup {asked}
            /\ queue' = Append(queue, asked)
            /\ poller' = "wake"
            /\ UNCHANGED round
       ELSE /\ GoOnAfter(asked)
            /\ UNCHANGED <<candidates, handled, queue>>
    /\ UNCHANGED <<outside, discovery, gone, asked, wake, service, discovered>>

SetWake ==
    /\ poller = "wake"
    /\ wake' = TRUE
    /\ asked' = None
    /\ GoOnAfter(asked)
    /\ UNCHANGED <<outside, discovery, candidates, handled, gone, queue, service,
                   discovered>>

(***************************************************************************)
(* The main loop.                                                          *)
(***************************************************************************)

ClearWake ==
    /\ loop = "clear"
    /\ wake' = FALSE
    /\ loop' = "drain"
    /\ UNCHANGED <<outside, discovery, candidates, handled, gone, poller, round,
                   asked, queue, inbox, walk, considered, dropped, stop,
                   discovered>>

\* Mutation of Drain: what an earlier tick left undone is written over.
DrainOver ==
    /\ loop = "drain"
    /\ inbox' = queue /\ queue' = <<>>
    /\ loop' = "place"
    /\ UNCHANGED <<outside, discovery, candidates, handled, gone, poller, round,
                   asked, wake, walk, considered, dropped, stop, discovered>>

Drain ==
    /\ loop = "drain"
    /\ inbox' = inbox \o queue /\ queue' = <<>>
    /\ loop' = "place"
    /\ UNCHANGED <<outside, discovery, candidates, handled, gone, poller, round,
                   asked, wake, walk, considered, dropped, stop, discovered>>

\* Markets are placed only while trading is possible.
Place ==
    /\ loop = "place"
    /\ walk' = inbox /\ inbox' = <<>>
    /\ loop' = "walk"
    /\ UNCHANGED <<outside, discovery, candidates, handled, gone, poller, round,
                   asked, queue, wake, considered, dropped, stop, discovered>>

\* The next market is placed, skipped, expired or left alone; or its placement
\* may be retried, and _requeue_placement hands it to the next tick.
Consider ==
    /\ loop = "walk" /\ walk # <<>>
    /\ considered' = considered \cup {Head(walk)}
    /\ walk' = Tail(walk)
    /\ \/ UNCHANGED <<inbox, wake>>
       \/ inbox' = Append(inbox, Head(walk)) /\ wake' = TRUE
    /\ UNCHANGED <<outside, discovery, candidates, handled, gone, poller, round,
                   asked, queue, loop, dropped, stop, discovered>>

\* The next market meets a limit: neither it nor the ones behind it come back.
MeetLimit ==
    /\ loop = "walk" /\ walk # <<>>
    /\ dropped' = dropped \cup Range(walk)
    /\ walk' = <<>>
    /\ loop' = "wait"
    /\ UNCHANGED <<outside, discovery, candidates, handled, gone, poller, round,
                   asked, queue, wake, inbox, considered, stop, discovered>>

\* Mutation of EndWalk: the event is cleared at the end of the tick.
EndWalkThenClear ==
    /\ loop = "walk" /\ walk = <<>>
    /\ wake' = FALSE
    /\ loop' = "wait"
    /\ UNCHANGED <<outside, discovery, candidates, handled, gone, poller, round,
                   asked, queue, inbox, walk, considered, dropped, stop,
                   discovered>>

EndWalk ==
    /\ loop = "walk" /\ walk = <<>>
    /\ loop' = "wait"
    /\ UNCHANGED <<outside, discovery, candidates, handled, gone, poller, round,
                   asked, queue, wake, inbox, walk, considered, dropped, stop,
                   discovered>>

PlaceLater ==
    /\ loop = "place"
    /\ loop' = "wait"
    /\ UNCHANGED <<outside, discovery, candidates, handled, gone, poller, round,
                   asked, queue, wake, inbox, walk, considered, dropped, stop,
                   discovered>>

\* The wait ends with the event or after a fifth of a second.
WaitEnds ==
    /\ loop = "wait"
    /\ loop' = "clear"
    /\ UNCHANGED <<outside, discovery, candidates, handled, gone, poller, round,
                   asked, queue, wake, inbox, walk, considered, dropped, stop,
                   discovered>>

\* Ctrl+C, in the middle of a walk too, and the drain that follows the
\* worker's stop.
Interrupt ==
    /\ ~stop
    /\ stop' = TRUE /\ loop' = "stopping"
    /\ UNCHANGED <<outside, discovery, candidates, handled, gone, poller, round,
                   asked, queue, wake, inbox, walk, considered, dropped,
                   discovered>>

LastDrain ==
    /\ loop = "stopping"
    /\ inbox' = inbox \o queue /\ queue' = <<>>
    /\ loop' = "ended"
    /\ UNCHANGED <<outside, discovery, candidates, handled, gone, poller, round,
                   asked, wake, walk, considered, dropped, stop, discovered>>

Next ==
    \/ \E m \in Markets : List(m) \/ Know(m) \/ AskUnknown(m) \/ AskKnown(m)
    \/ Tick
    \/ Seed \/ FindNext \/ RegisterSeed \/ RegisterNext
    \/ BeginRound \/ AskFails \/ TakeCandidate \/ SetWake
    \/ ClearWake \/ Drain \/ Place \/ PlaceLater \/ WaitEnds
    \/ Consider \/ MeetLimit \/ EndWalk
    \/ Interrupt \/ LastDrain

Spec == Init /\ [][Next]_vars

\* The three threads run, each of which has one thing to do at a time.
\* Gamma's answer to a market it lists arrives in the end, and no market's CLOB
\* request raises for ever.  Trading is possible again and again.  Nothing is
\* assumed of what Gamma lists and the CLOB knows.
Fairness ==
    /\ WF_vars(Seed \/ FindNext \/ RegisterSeed \/ RegisterNext)
    /\ WF_vars(BeginRound \/ TakeCandidate \/ SetWake)
    /\ \A m \in Markets : SF_vars(AskUnknown(m) \/ AskKnown(m))
    /\ WF_vars(ClearWake \/ Drain \/ Consider \/ MeetLimit \/ EndWalk \/ WaitEnds)
    /\ SF_vars(Place)

FairSpec == Spec /\ Fairness

-----------------------------------------------------------------------------
(***************************************************************************)
(* Properties.                                                             *)
(***************************************************************************)
\* Every variable keeps its type, and the two threads and the loop are only where
\* their code can be.
TypeOK ==
    /\ now \in 0 .. MaxNow
    /\ listed \subseteq Markets /\ known \subseteq listed
    /\ nextStart \in 0 .. LastMarket + 1 \cup {None}
    /\ seeded \in 0 .. LastMarket + 1 \cup {None}
    /\ answer \subseteq listed
    /\ candidates \subseteq Markets /\ handled \subseteq Markets
    /\ gone \subseteq Markets /\ discovered \subseteq Markets
    /\ poller \in {"idle", "ask", "take", "wake"}
    /\ round \subseteq Markets /\ asked \in Markets \cup {None}
    /\ queue \in Seq(Markets) /\ inbox \in Seq(Markets) /\ walk \in Seq(Markets)
    /\ wake \in BOOLEAN /\ stop \in BOOLEAN
    /\ loop \in {"clear", "drain", "place", "walk", "wait", "stopping", "ended"}
    /\ considered \subseteq Markets /\ dropped \subseteq Markets

\* What the worker handed over and the main loop has not dealt with for good.
Waiting == walk \o inbox \o queue

\* The worker emits a market once: what is on its way to the main loop is there
\* once, is no candidate any more and was not written off, and what the worker
\* put last was neither dealt with nor dropped before (the pop under the lock
\* in _poll_market_parameters, against rounds that overlap registration).  A
\* market that was put off comes back without the worker.
EmittedOnce ==
    /\ \A i, j \in DOMAIN Waiting : Waiting[i] = Waiting[j] => i = j
    /\ Range(queue) \cap (considered \cup dropped) = {}
    /\ (Range(Waiting) \cup considered \cup dropped) \cap (candidates \cup gone)
           = {}

\* Only a limit loses a market: every one registered is still a candidate, has
\* ended, is on its way, was dealt with, or stood in a walk that a limit ended;
\* and every market whose name discovery moved past after its seed was
\* registered.
OnlyLimitsLose ==
    /\ discovered \subseteq
           candidates \cup gone \cup Range(Waiting) \cup considered \cup dropped
    /\ nextStart # None => seeded .. nextStart - 1 \subseteq discovered

\* The main loop never sleeps its fifth of a second over an update: once the
\* put and the set are both done, a loop that waits without the event set has
\* nothing to drain (the event is cleared before the drain, service.py:272).
NoSleepOverUpdate ==
    loop = "wait" /\ ~wake /\ poller # "wake" => queue = <<>>

\* A market the CLOB knows is considered in the end, whatever the others do:
\* it need not wait for markets the CLOB does not know, and a discovered one
\* behind them is reached.  It holds from the moment Gamma lists all names up
\* to it, unless it ends first, a limit ends the walk it stands in
\* (service.py:390-397) or the run is stopped.
KnownIsConsidered ==
    \A m \in Markets :
        (/\ seeded # None
         /\ m >= seeded /\ seeded .. m \subseteq listed
         /\ m \in known)
            ~> (m \in considered \cup gone \cup dropped \/ stop)
=============================================================================
