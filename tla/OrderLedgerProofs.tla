------------------------- MODULE OrderLedgerProofs -------------------------
(***************************************************************************)
(* Proofs about OrderLedger, for every number of orders, markets, runs and *)
(* disconnections.                                                         *)
(***************************************************************************)
EXTENDS OrderLedger, TLAPS

USE DEF venueVars, streamVars, workerVars, loopVars

\* What the venue shows of an order that exists is an event.
LEMMA ShownIsEvent ==
  ASSUME NEW v \in VenueStates, v.state # "none"
  PROVE  Shown(v) \in Events
BY DEF Shown, Events, VenueStates, VenueOver

\* A change at the venue leaves venue and wire in their types.
LEMMA BecomesType ==
  ASSUME TypeOK, NEW o \in Orders, NEW v \in VenueStates, v.state # "none",
         Becomes(o, v)
  PROVE  /\ venue' \in [Orders -> VenueStates]
         /\ wire' \in [Orders -> Seq(Events)]
<1>1. Shown(v) \in Events
  BY ShownIsEvent
<1>2. Append(wire[o], Shown(v)) \in Seq(Events)
  BY <1>1 DEF TypeOK
<1>3. QED
  BY <1>1, <1>2 DEF TypeOK, Becomes

\* The venue's own steps keep the types; VenueSane bounds the fills.
LEMMA TypeVenue == TypeOK /\ VenueSane /\ VenueNext => TypeOK'
<1> SUFFICES ASSUME TypeOK, VenueSane, NEW o \in Orders,
                    Register(o) \/ Index(o) \/ Fill(o) \/ VenueCancels(o)
             PROVE  TypeOK'
  BY DEF VenueNext
<1>1. CASE Register(o)
  <2> DEFINE v == [state |-> "resting", matched |-> 0]
  <2>1. v \in VenueStates /\ v.state # "none"
    BY LedgerAssumption DEF VenueStates
  <2> HIDE DEF v
  <2>2. Becomes(o, v)
    BY <1>1 DEF Register, v
  <2>3. QED
    BY <1>1, <2>1, <2>2, BecomesType DEF TypeOK, Register
<1>2. CASE Index(o)
  BY <1>2 DEF TypeOK, Index
<1>3. CASE Fill(o)
  <2> DEFINE m == venue[o].matched + 1
             v == [state |-> IF m = Size THEN "filled" ELSE "resting", matched |-> m]
  <2>1. v \in VenueStates /\ v.state # "none"
    BY <1>3, LedgerAssumption DEF VenueStates, TypeOK, VenueSane, Fill, VenueOver
  <2> HIDE DEF v
  <2>2. Becomes(o, v)
    BY <1>3 DEF Fill, v
  <2>3. QED
    BY <1>3, <2>1, <2>2, BecomesType DEF TypeOK, Fill
<1>4. CASE VenueCancels(o)
  <2> DEFINE v == [venue[o] EXCEPT !.state = "cancelled"]
  <2>1. v \in VenueStates /\ v.state # "none"
    BY DEF VenueStates, TypeOK, VenueOver
  <2> HIDE DEF v
  <2>2. Becomes(o, v)
    BY <1>4 DEF VenueCancels, v
  <2>3. QED
    BY <1>4, <2>1, <2>2, BecomesType DEF TypeOK, VenueCancels
<1>5. QED
  BY <1>1, <1>2, <1>3, <1>4

\* get_order answers with an event or with "unknown".
LEMMA AnswerType ==
  ASSUME TypeOK, VenueSane, NEW o \in Orders, NEW a \in Answers(o)
  PROVE  \/ a \in Events
         \/ a = [status |-> "unknown", matched |-> 0]
<1>1. o \in indexed => Shown(venue[o]) \in Events
  BY ShownIsEvent DEF TypeOK, VenueSane
<1>2. QED
  BY <1>1 DEF Answers

\* A report of an event is a report.
LEMMA ReportType ==
  ASSUME NEW o \in Orders, NEW e \in Events
  PROVE  Report(o, e) \in Reports
BY DEF Report, Reports, Events, ReportStatus, Terminal, VenueOver

\* So is the verdict that an order is gone.
LEMMA GoneReportType ==
  ASSUME NEW o \in Orders
  PROVE  Report(o, [status |-> "terminal_unknown", matched |-> 0]) \in Reports
BY LedgerAssumption DEF Report, Reports, ReportStatus, Terminal

\* The reconciliation thread's steps keep the types.
LEMMA TypeWorker == TypeOK /\ VenueSane /\ WorkerNext => TypeOK'
<1> SUFFICES ASSUME TypeOK, VenueSane, WorkerNext PROVE TypeOK'
  OBVIOUS
<1>1. CASE ReadOpenOrders
  BY <1>1 DEF TypeOK, ReadOpenOrders, Jobs, Report, Shown, Reports,
              VenueStates, ReportStatus, Terminal, VenueOver
<1>2. CASE ReadOpenOrdersFails
  BY <1>2 DEF TypeOK, ReadOpenOrdersFails, Jobs, IdleJob
<1>3. CASE Pause
  BY <1>3 DEF TypeOK, Pause, Jobs
<1>4. CASE FinishFetch
  BY <1>4 DEF TypeOK, FinishFetch, Jobs, IdleJob, Rounds
<1>5. ASSUME NEW o \in Orders, ReadOrder(o) PROVE TypeOK'
  <2>1. PICK a \in Answers(o) :
          job' = [job EXCEPT
                    !.todo = @ \ {o},
                    !.missing = IF a.status = "unknown" THEN @ \cup {o} ELSE @,
                    !.found = IF a.status = "unknown" THEN @
                              ELSE @ \cup {Report(o, a)}]
    BY <1>5 DEF ReadOrder
  <2>2. a.status # "unknown" => Report(o, a) \in Reports
    BY AnswerType, ReportType
  <2>3. job' \in Jobs
    BY <2>1, <2>2 DEF TypeOK, Jobs
  <2>4. QED
    BY <1>5, <2>3 DEF TypeOK, ReadOrder
<1>6. ASSUME NEW o \in Orders, Recheck(o) PROVE TypeOK'
  <2>1. PICK a \in Answers(o) :
          job' = [job EXCEPT
                    !.todo = @ \ {o},
                    !.found = @ \cup
                      {IF a.status = "unknown"
                       THEN Report(o, [status |-> "terminal_unknown",
                                       matched |-> 0])
                       ELSE Report(o, a)}]
    BY <1>6 DEF Recheck
  <2>2. a.status # "unknown" => Report(o, a) \in Reports
    BY AnswerType, ReportType
  <2>3. job' \in Jobs
    BY <2>1, <2>2, GoneReportType DEF TypeOK, Jobs
  <2>4. QED
    BY <1>6, <2>3 DEF TypeOK, Recheck
<1>7. ASSUME NEW o \in Orders, ReadOrderFails(o) PROVE TypeOK'
  BY <1>7 DEF TypeOK, ReadOrderFails, Jobs
<1>8. QED
  BY <1>1, <1>2, <1>3, <1>4, <1>5, <1>6, <1>7 DEF WorkerNext

\* The empty values every reset writes are of the right types.
LEMMA EmptyTypes ==
  /\ [o \in Orders |-> <<>>] \in [Orders -> Seq(Events)]
  /\ [o \in Orders |-> NoEvent] \in [Orders -> Events \cup {NoEvent}]
  /\ IdleJob \in Jobs
  /\ NoCall \in Calls
  /\ <<>> \in Seq(Rounds)
<1>1. [o \in Orders |-> <<>>] \in [Orders -> Seq(Events)]
  OBVIOUS
<1>2. [o \in Orders |-> NoEvent] \in [Orders -> Events \cup {NoEvent}]
  OBVIOUS
<1>3. IdleJob \in Jobs /\ NoCall \in Calls
  BY DEF IdleJob, Jobs, NoCall, Calls
<1>4. <<>> \in Seq(Rounds)
  OBVIOUS
<1>5. QED
  BY <1>1, <1>2, <1>3, <1>4

\* The WebSocket's steps, and time, keep the types.
LEMMA TypeStream == TypeOK /\ (StreamNext \/ TimeNext) => TypeOK'
<1> SUFFICES ASSUME TypeOK, StreamNext \/ TimeNext PROVE TypeOK'
  OBVIOUS
<1>1. ASSUME NEW o \in Orders, Deliver(o) PROVE TypeOK'
  BY <1>1 DEF TypeOK, Deliver
<1>2. CASE Disconnect
  <2>1. wire' \in [Orders -> Seq(Events)] /\ streamUp' \in BOOLEAN
    BY <1>2, EmptyTypes DEF Disconnect
  <2>2. drops' \in 0..MaxDrops
    BY <1>2, LedgerAssumption DEF TypeOK, Disconnect
  <2>3. QED
    BY <1>2, <2>1, <2>2 DEF TypeOK, Disconnect
<1>3. CASE Connect
  BY <1>3 DEF TypeOK, Connect
<1>4. ASSUME NEW m \in Markets, ComesDue(m) PROVE TypeOK'
  BY <1>4 DEF TypeOK, ComesDue
<1>5. ASSUME NEW o \in Orders, Ages(o) PROVE TypeOK'
  BY <1>5 DEF TypeOK, Ages
<1>6. QED
  BY <1>1, <1>2, <1>3, <1>4, <1>5 DEF StreamNext, TimeNext

\* Every way to rewrite the table writes rows.
LEMMA RowTypes ==
  ASSUME TypeOK
  PROVE  /\ \A u \in Rounds : Absorbed(u) \in [Orders -> Rows]
         /\ \A u \in Rounds : Adoptable(u) \subseteq Orders
         /\ Streamed \in [Orders -> Rows]
         /\ \A S, s : s \in RowStatus => Marked(S, s) \in [Orders -> Rows]
<1>1. ASSUME NEW u \in Rounds PROVE Absorbed(u) \in [Orders -> Rows]
  <2>1. ASSUME NEW o \in Orders, NEW r \in Reports
        PROVE  Reconciled(o, r) \in Rows
    <3> DEFINE prev == row[o]
    <3>1. /\ prev \in Rows
          /\ prev.matched \in 0..Size /\ prev.status \in RowStatus
          /\ r.matched \in 0..Size /\ r.status \in ReportStatus
      BY DEF TypeOK, Rows, Reports
    <3>2. Larger(r.matched, prev.matched) \in 0..Size
      BY <3>1 DEF Larger
    <3>3. /\ ReportStatus \subseteq RowStatus
          /\ (IF prev.status \in Terminal /\ r.status \notin Terminal
              THEN prev.status ELSE r.status) \in RowStatus
      BY <3>1 DEF ReportStatus, RowStatus, Terminal, Tracked
    <3>4. QED
      BY <3>1, <3>2, <3>3 DEF Reconciled, Rows
  <2>2. ASSUME NEW o \in Orders, \E r \in u.found : r.order = o
        PROVE  (CHOOSE r \in u.found : r.order = o) \in Reports
    BY <1>1, <2>2 DEF Rounds
  <2>3. [status |-> "live", matched |-> 0] \in Rows
    BY LedgerAssumption DEF Rows, RowStatus, Tracked
  <2>4. QED
    BY <2>1, <2>2, <2>3 DEF Absorbed, TypeOK
<1>2. ASSUME NEW u \in Rounds PROVE Adoptable(u) \subseteq Orders
  BY <1>2 DEF Adoptable, Rounds
<1>3. Streamed \in [Orders -> Rows]
  BY DEF TypeOK, Streamed, Rows, Events, RowStatus, Tracked, Terminal, VenueOver
<1>4. ASSUME NEW S, NEW s \in RowStatus
      PROVE  Marked(S, s) \in [Orders -> Rows]
  BY <1>4 DEF TypeOK, Marked, Rows
<1>5. QED
  BY <1>1, <1>2, <1>3, <1>4

\* Marking rows and starting a cancel call keeps the types.
LEMMA StartCancelType ==
  ASSUME TypeOK, NEW S \in SUBSET Orders, NEW d \in MainSteps,
         NEW a \in MainSteps, StartCancel(S, d, a)
  PROVE  row' \in [Orders -> Rows] /\ call' \in Calls /\ main' \in MainSteps
<1>1. CASE S = {}
  BY <1>1, EmptyTypes DEF StartCancel, TypeOK
<1>2. CASE S # {}
  <2>1. row' \in [Orders -> Rows]
    BY <1>2, RowTypes DEF StartCancel, RowStatus, Tracked
  <2>2. call' \in Calls
    BY <1>2 DEF StartCancel, NoCall, Calls
  <2>3. QED
    BY <1>2, <2>1, <2>2 DEF StartCancel
<1>3. QED
  BY <1>1, <1>2

\* So does acting on the answer of the call.
LEMMA CallStepType ==
  ASSUME TypeOK, NEW a \in MainSteps, CallStep(a)
  PROVE  row' \in [Orders -> Rows] /\ main' \in MainSteps
<1>1. main' \in MainSteps
  BY DEF CallStep
<1>2. row \in [Orders -> Rows]
  BY DEF TypeOK
<1>3. \A r \in Rows, s \in {"terminal_unknown", "cancelled"} :
         [r EXCEPT !.status = s] \in Rows
  BY DEF Rows, RowStatus, Terminal
<1>4. CASE row' = row
  BY <1>1, <1>2, <1>4
<1>5. CASE row' = [o \in Orders |->
                     IF o \in call.gone
                     THEN [row[o] EXCEPT !.status = "terminal_unknown"]
                     ELSE IF o \in call.canceled
                          THEN [row[o] EXCEPT !.status = "cancelled"]
                          ELSE row[o]]
  BY ONLY <1>1, <1>2, <1>3, <1>5
<1>6. QED
  BY <1>4, <1>5 DEF CallStep

\* Draining one round keeps the types.
LEMMA DrainOneType ==
  ASSUME TypeOK, NEW a \in MainSteps, DrainOne(a)
  PROVE  /\ row' \in [Orders -> Rows]
         /\ fresh' \subseteq Orders
         /\ updates' \in Seq(Rounds)
         /\ main' \in MainSteps
         /\ grown' \in BOOLEAN
<1>1. CASE updates = <<>>
  BY <1>1 DEF DrainOne, TypeOK
<1>2. CASE updates # <<>>
  <2>1. Head(updates) \in Rounds /\ Tail(updates) \in Seq(Rounds)
    BY <1>2 DEF TypeOK
  <2>2. grown' \in BOOLEAN
    BY <1>2 DEF DrainOne, TypeOK, Changed
  <2>3. QED
    BY <1>2, <2>1, <2>2, RowTypes DEF DrainOne, TypeOK
<1>3. QED
  BY <1>1, <1>2

\* The steps of the tick keep the types.
LEMMA TypeTick == TypeOK /\ TickNext => TypeOK'
<1> SUFFICES ASSUME TypeOK, TickNext PROVE TypeOK'
  OBVIOUS
<1> USE DEF MainSteps, StopSteps
<1>1. CASE DrainReconciliation
  BY <1>1, DrainOneType DEF TypeOK, DrainReconciliation
<1>2. CASE DrainUserStream
  BY <1>2, RowTypes, EmptyTypes DEF TypeOK, DrainUserStream, DrainStream
<1>3. CASE CancelDueOrders
  <2>1. DueOrders \in SUBSET Orders
    BY DEF DueOrders
  <2>2. QED
    BY <1>3, <2>1, StartCancelType DEF TypeOK, CancelDueOrders
<1>4. CASE CancelReturns
  BY <1>4, CallStepType, EmptyTypes DEF TypeOK, CancelReturns
<1>5. CASE SubmitReconciliation
  <2>1. job' \in Jobs
    <3>1. [IdleJob EXCEPT !.phase = "list", !.todo = TrackedOrders] \in Jobs
      BY EmptyTypes DEF Jobs, TrackedOrders
    <3>2. QED
      BY <1>5, <3>1 DEF SubmitReconciliation, TypeOK
  <2>2. QED
    BY <1>5, <2>1 DEF TypeOK, SubmitReconciliation
<1>6. CASE FinishPlacement
  <2>1. PICK reported \in SUBSET Orders :
          /\ fresh' = fresh \cup reported
          /\ \E as \in [reported -> RowStatus] :
               row' = [o \in Orders |-> IF o \in reported
                                       THEN [status |-> as[o], matched |-> 0]
                                       ELSE row[o]]
    BY <1>6 DEF FinishPlacement
  <2>2. \A st \in RowStatus : [status |-> st, matched |-> 0] \in Rows
    BY LedgerAssumption DEF Rows
  <2>3. row' \in [Orders -> Rows]
    <3>1. PICK as \in [reported -> RowStatus] :
            row' = [o \in Orders |-> IF o \in reported
                                    THEN [status |-> as[o], matched |-> 0]
                                    ELSE row[o]]
      BY <2>1
    <3>2. ASSUME NEW o \in Orders
          PROVE  (IF o \in reported THEN [status |-> as[o], matched |-> 0]
                  ELSE row[o]) \in Rows
      BY <2>2 DEF TypeOK
    <3>3. QED
      BY ONLY <3>1, <3>2
  <2>4. QED
    BY <1>6, <2>1, <2>3 DEF TypeOK, FinishPlacement
<1>7. CASE NothingToPlace
  BY <1>7 DEF TypeOK, NothingToPlace
<1>8. ASSUME NEW m \in Markets, BeginPlacement(m) PROVE TypeOK'
  <2>1. marketRun' \in [Markets -> 0..MaxRun]
    BY <1>8, LedgerAssumption DEF TypeOK, BeginPlacement
  <2>2. QED
    BY <1>8, <2>1 DEF TypeOK, BeginPlacement
<1>9. QED
  BY <1>1, <1>2, <1>3, <1>4, <1>5, <1>6, <1>7, <1>8 DEF TickNext

\* The ways out of the loop, and back into it, keep the types.
LEMMA TypeExit == TypeOK /\ ExitNext => TypeOK'
<1> SUFFICES ASSUME TypeOK, ExitNext PROVE TypeOK'
  OBVIOUS
<1> USE EmptyTypes DEF MainSteps, StopSteps
<1>1. CASE Interrupt
  BY <1>1 DEF TypeOK, Interrupt
<1>2. CASE Fail
  BY <1>2 DEF TypeOK, Fail
<1>3. CASE StopReconciliation
  BY <1>3 DEF TypeOK, StopReconciliation
<1>4. CASE LastDrain
  BY <1>4, DrainOneType DEF TypeOK, LastDrain
<1>5. CASE LastStreamDrain
  BY <1>5, RowTypes DEF TypeOK, LastStreamDrain, DrainStream
<1>6. CASE CancelTrackedOrders
  <2>1. TrackedOrders \in SUBSET Orders
    BY DEF TrackedOrders
  <2>2. QED
    BY <1>6, <2>1, StartCancelType DEF TypeOK, CancelTrackedOrders
<1>7. CASE SweepReturns
  <2>1. call' \in Calls
    BY <1>7 DEF TypeOK, SweepReturns, Calls
  <2>2. QED
    BY <1>7, <2>1, CallStepType DEF TypeOK, SweepReturns
<1>8. CASE Crash
  <2>1. drops' \in 0..MaxDrops
    BY <1>8, LedgerAssumption DEF Crash
  <2>2. QED
    BY <1>8, <2>1 DEF TypeOK, Crash
<1>9. CASE Restart
  <2>1. run' \in 1..MaxRun /\ drops' \in 0..MaxDrops
    BY <1>9, LedgerAssumption DEF TypeOK, Restart
  <2>2. QED
    BY <1>9, <2>1 DEF TypeOK, Restart
<1>10. CASE ReconciliationRaises
  BY <1>10 DEF TypeOK, ReconciliationRaises, Raises
<1>11. CASE StreamRaises
  BY <1>11, RowTypes DEF TypeOK, StreamRaises, Raises
<1>12. QED
  BY <1>1, <1>2, <1>3, <1>4, <1>5, <1>6, <1>7, <1>8, <1>9, <1>10, <1>11
  DEF ExitNext

\* The venue's handling of a cancel call keeps the types.
LEMMA TypeCall == TypeOK /\ CallNext => TypeOK'
<1> SUFFICES ASSUME TypeOK, NEW o \in Orders, ServeCancel(o) \/ RefuseCancel(o)
             PROVE  TypeOK'
  BY DEF CallNext
<1>1. CASE ServeCancel(o) /\ venue[o].state = "resting"
  <2> DEFINE v == [venue[o] EXCEPT !.state = "cancelled"]
  <2>1. v \in VenueStates /\ v.state # "none"
    BY DEF VenueStates, TypeOK, VenueOver
  <2> HIDE DEF v
  <2>2. Becomes(o, v)
    BY <1>1 DEF ServeCancel, v
  <2>3. call' \in Calls
    <3>1. call' = [call EXCEPT !.pending = @ \ {o}, !.canceled = @ \cup {o}]
      BY <1>1 DEF ServeCancel
    <3>2. QED
      BY <3>1 DEF TypeOK, Calls
  <2>4. QED
    BY <1>1, <2>1, <2>2, <2>3, BecomesType DEF TypeOK, ServeCancel
<1>2. CASE ServeCancel(o) /\ venue[o].state # "resting"
  <2>1. call' \in Calls
    <3>1. call' = [call EXCEPT !.pending = @ \ {o}, !.gone = @ \cup {o}]
      BY <1>2 DEF ServeCancel
    <3>2. QED
      BY <3>1 DEF TypeOK, Calls
  <2>2. QED
    BY <1>2, <2>1 DEF TypeOK, ServeCancel
<1>3. CASE RefuseCancel(o)
  <2>1. call' \in Calls
    BY <1>3 DEF RefuseCancel, TypeOK, Calls
  <2>2. QED
    BY <1>3, <2>1 DEF TypeOK, RefuseCancel
<1>4. QED
  BY <1>1, <1>2, <1>3
----------------------------------------------------------------------------
(***************************************************************************)
(* The venue only moves forward.                                           *)
(***************************************************************************)
Grows(v, w) ==
  /\ v.matched <= w.matched
  /\ v.state \in VenueOver => w = v
  /\ v.state # "none" => w.state # "none"

\* Overwriting one order's state with a later one only grows the venue.
LEMMA BecomesGrows ==
  ASSUME TypeOK, VenueSane, NEW o \in Orders, NEW v \in VenueStates,
         Grows(venue[o], v), Becomes(o, v)
  PROVE  \A x \in Orders : Grows(venue[x], venue'[x])
BY DEF TypeOK, Becomes, Grows, VenueStates

\* Every step only grows the venue and keeps it sane.
LEMMA VenueSteps ==
  ASSUME TypeOK, VenueSane, [Next]_vars
  PROVE  /\ \A x \in Orders : Grows(venue[x], venue'[x])
         /\ VenueSane'
<1> USE LedgerAssumption
<1>1. ASSUME UNCHANGED <<venue, indexed>>
      PROVE  /\ \A x \in Orders : Grows(venue[x], venue'[x])
             /\ VenueSane'
  BY <1>1 DEF TypeOK, VenueSane, Grows, VenueStates
<1>2. ASSUME NEW o \in Orders, Register(o)
      PROVE  /\ \A x \in Orders : Grows(venue[x], venue'[x])
             /\ VenueSane'
  BY <1>2 DEF TypeOK, VenueSane, Register, Becomes, Grows, VenueStates, VenueOver
<1>3. ASSUME NEW o \in Orders, Index(o)
      PROVE  /\ \A x \in Orders : Grows(venue[x], venue'[x])
             /\ VenueSane'
  BY <1>3 DEF TypeOK, VenueSane, Index, Grows, VenueStates
<1>4. ASSUME NEW o \in Orders, Fill(o)
      PROVE  /\ \A x \in Orders : Grows(venue[x], venue'[x])
             /\ VenueSane'
  <2> DEFINE m == venue[o].matched + 1
             v == [state |-> IF m = Size THEN "filled" ELSE "resting", matched |-> m]
  <2>1. /\ v \in VenueStates
        /\ Grows(venue[o], v)
        /\ v.state = "filled" => v.matched = Size
        /\ v.state = "resting" => v.matched < Size
        /\ v.state # "none"
    <3>1. /\ venue[o].state = "resting"
          /\ venue[o].matched \in 0..Size
          /\ venue[o].matched < Size
      BY <1>4 DEF TypeOK, VenueSane, Fill, VenueStates
    <3>2. m \in 0..Size /\ venue[o].matched <= m
      BY <3>1
    <3>3. v.matched = m /\ v.state = IF m = Size THEN "filled" ELSE "resting"
      OBVIOUS
    <3>4. v \in VenueStates
      BY <3>2 DEF VenueStates, VenueOver
    <3> HIDE DEF v
    <3>5. QED
      BY <3>1, <3>2, <3>3, <3>4 DEF Grows, VenueOver
  <2>2. Becomes(o, v) /\ indexed' = indexed
    BY <1>4 DEF Fill
  <2> HIDE DEF v
  <2>3. \A x \in Orders : Grows(venue[x], venue'[x])
    BY <2>1, <2>2, BecomesGrows
  <2>4. VenueSane'
    BY <2>1, <2>2 DEF VenueSane, Becomes, TypeOK
  <2>5. QED
    BY <2>3, <2>4
<1>5. ASSUME NEW o \in Orders, venue[o].state = "resting", UNCHANGED indexed,
             Becomes(o, [venue[o] EXCEPT !.state = "cancelled"])
      PROVE  /\ \A x \in Orders : Grows(venue[x], venue'[x])
             /\ VenueSane'
  BY <1>5 DEF TypeOK, VenueSane, Becomes, Grows, VenueStates, VenueOver
<1>6. ASSUME NEW o \in Orders, ServeCancel(o)
      PROVE  /\ \A x \in Orders : Grows(venue[x], venue'[x])
             /\ VenueSane'
  <2>1. CASE venue[o].state = "resting"
    BY <1>6, <1>5, <2>1 DEF ServeCancel
  <2>2. CASE venue[o].state # "resting"
    BY <1>6, <1>1, <2>2 DEF ServeCancel
  <2>3. QED
    BY <2>1, <2>2
<1>7. CASE VenueNext
  BY <1>2, <1>3, <1>4, <1>5, <1>7 DEF VenueNext, VenueCancels
<1>8. CASE CallNext
  BY <1>1, <1>6, <1>8 DEF CallNext, RefuseCancel
<1>9. CASE StreamNext \/ TimeNext
  BY <1>1, <1>9 DEF StreamNext, Deliver, Disconnect, Connect, TimeNext,
                    ComesDue, Ages
<1>10. CASE WorkerNext
  BY <1>1, <1>10 DEF WorkerNext, ReadOpenOrders, ReadOpenOrdersFails, Pause,
       FinishFetch, ReadOrder, Recheck, ReadOrderFails
<1>11. CASE TickNext
  BY <1>1, <1>11 DEF TickNext, DrainReconciliation, DrainUserStream,
       CancelDueOrders, CancelReturns, SubmitReconciliation, FinishPlacement,
       NothingToPlace, BeginPlacement
<1>12. CASE ExitNext
  BY <1>1, <1>12 DEF ExitNext, Interrupt, Fail, StopReconciliation, LastDrain,
       LastStreamDrain, ReconciliationRaises, StreamRaises,
       CancelTrackedOrders, SweepReturns, Crash, Restart
<1>13. CASE UNCHANGED vars
  BY <1>1, <1>13 DEF vars
<1>14. QED
  BY <1>7, <1>8, <1>9, <1>10, <1>11, <1>12, <1>13 DEF Next

\* The initial state is of the types.
LEMMA TypeInit == Init => TypeOK /\ VenueSane
<1> SUFFICES ASSUME Init PROVE TypeOK /\ VenueSane
  OBVIOUS
<1>1. /\ venue \in [Orders -> VenueStates]
      /\ row \in [Orders -> Rows]
  BY LedgerAssumption DEF Init, VenueStates, Rows, NoRow, RowStatus
<1>2. /\ run \in 1..MaxRun
      /\ marketRun \in [Markets -> 0..MaxRun]
      /\ drops \in 0..MaxDrops
  BY LedgerAssumption DEF Init
<1>3. lost \subseteq Losable /\ main \in MainSteps
  BY DEF Init, MainSteps
<1>4. TypeOK
  BY <1>1, <1>2, <1>3, EmptyTypes DEF Init, TypeOK
<1>5. VenueSane
  BY LedgerAssumption DEF Init, VenueSane
<1>6. QED
  BY <1>4, <1>5

\* Every step keeps the types, given a sane venue.
LEMMA TypeStep == TypeOK /\ VenueSane /\ [Next]_vars => TypeOK' /\ VenueSane'
<1>1. ASSUME TypeOK, VenueSane, UNCHANGED vars PROVE TypeOK'
  BY <1>1 DEF vars, TypeOK
<1>2. QED
  BY <1>1, VenueSteps, TypeVenue, TypeStream, TypeWorker, TypeTick, TypeExit,
     TypeCall DEF Next

\* The bot's state stays within its types, for every value of the constants:
\* fills within an order's size, statuses the queries know, runs and
\* disconnections within their bounds.
THEOREM TypeCorrect == Spec => []TypeOK
<1>1. Spec => [](TypeOK /\ VenueSane)
  BY TypeInit, TypeStep, PTL DEF Spec
<1>2. QED
  BY <1>1, PTL
----------------------------------------------------------------------------
(***************************************************************************)
(* What was true of an order when it was said stays true.                  *)
(***************************************************************************)
LEMMA BorneStable ==
  ASSUME NEW v \in VenueStates, NEW w \in VenueStates, Grows(v, w),
         NEW e, e.matched \in Nat, BorneOut(e, v)
  PROVE  BorneOut(e, w)
BY DEF BorneOut, Grows, VenueStates, VenueOver

\* What the venue shows now, it bears out now.
LEMMA ShownBorne ==
  ASSUME NEW v \in VenueStates, v.state # "none"
  PROVE  BorneOut(Shown(v), v)
BY DEF BorneOut, Shown, VenueStates, VenueOver

\* An event's fill is a number of shares.
LEMMA EventMatched ==
  /\ \A e \in Events \cup {NoEvent} : e.matched \in Nat
  /\ \A r \in Reports : r.matched \in Nat /\ r.order \in Orders
BY DEF Events, NoEvent, Reports

\* The absence of an event claims nothing.
LEMMA NoEventBorne ==
  ASSUME NEW v \in VenueStates
  PROVE  BorneOut(NoEvent, v)
BY DEF BorneOut, NoEvent, VenueStates, VenueOver

\* Pushed and queued events stay borne out: each was true when pushed.
LEMMA PushesStep ==
  ASSUME LedgerInv, [Next]_vars
  PROVE  PushesTruthful'
<1> USE DEF LedgerInv
<1>0. TypeOK' /\ VenueSane'
  BY TypeStep
<1>1. \A x \in Orders : /\ venue[x] \in VenueStates
                        /\ venue'[x] \in VenueStates
                        /\ Grows(venue[x], venue'[x])
  BY <1>0, VenueSteps DEF TypeOK
<1>2. \A x \in Orders : /\ BorneOut(inbox[x], venue'[x])
                        /\ BorneOut(NoEvent, venue'[x])
                        /\ \A i \in 1..Len(wire[x]) : BorneOut(wire[x][i], venue'[x])
  <2> SUFFICES ASSUME NEW x \in Orders
               PROVE  /\ BorneOut(inbox[x], venue'[x])
                      /\ BorneOut(NoEvent, venue'[x])
                      /\ \A i \in 1..Len(wire[x]) : BorneOut(wire[x][i], venue'[x])
    OBVIOUS
  <2>1. BorneOut(inbox[x], venue'[x])
    BY <1>1, BorneStable, EventMatched DEF PushesTruthful, Truthful, TypeOK
  <2>2. ASSUME NEW i \in 1..Len(wire[x])
        PROVE  BorneOut(wire[x][i], venue'[x])
    <3>1. wire[x][i] \in Events
      BY DEF TypeOK
    <3>2. QED
      BY <1>1, <3>1, BorneStable, EventMatched DEF PushesTruthful, Truthful
  <2>3. QED
    BY <1>1, <2>1, <2>2, NoEventBorne
<1>3. ASSUME \A x \in Orders : /\ wire'[x] = wire[x] \/ wire'[x] = <<>>
                               /\ inbox'[x] = inbox[x] \/ inbox'[x] = NoEvent
      PROVE  PushesTruthful'
  BY <1>2, <1>3 DEF PushesTruthful, Truthful
<1>4. ASSUME NEW o \in Orders, NEW v \in VenueStates, v.state # "none",
             Becomes(o, v), UNCHANGED inbox
      PROVE  PushesTruthful'
  <2>1. ASSUME NEW x \in Orders, NEW i \in 1..Len(wire'[x])
        PROVE  BorneOut(wire'[x][i], venue'[x])
    <3>1. CASE wire'[x] = wire[x]
      BY <1>2, <2>1, <3>1
    <3>2. CASE wire'[x] # wire[x]
      <4>1. x = o /\ wire'[x] = Append(wire[x], Shown(v)) /\ venue'[x] = v
        BY <1>4, <3>2 DEF Becomes, TypeOK
      <4>2. wire[x] \in Seq(Events)
        BY DEF TypeOK
      <4>3. i \in 1..Len(wire[x]) \/ wire'[x][i] = Shown(v)
        BY <2>1, <4>1, <4>2
      <4>4. i \in 1..Len(wire[x]) => wire'[x][i] = wire[x][i]
        BY <4>1, <4>2
      <4>5. QED
        BY <1>2, <1>4, <4>1, <4>3, <4>4, ShownBorne
    <3>3. QED
      BY <3>1, <3>2
  <2>2. QED
    BY <1>2, <1>4, <2>1 DEF PushesTruthful, Truthful
<1>5. ASSUME NEW o \in Orders, Deliver(o) PROVE PushesTruthful'
  <2>1. /\ wire[o] \in Seq(Events) /\ wire[o] # <<>>
        /\ inbox' = [inbox EXCEPT ![o] = Head(wire[o])]
        /\ wire' = [wire EXCEPT ![o] = Tail(@)]
    BY <1>5 DEF Deliver, TypeOK
  <2>2. Head(wire[o]) = wire[o][1] /\ 1 \in 1..Len(wire[o])
    BY <2>1
  <2>3. \A i \in 1..Len(Tail(wire[o])) :
          Tail(wire[o])[i] = wire[o][i + 1] /\ i + 1 \in 1..Len(wire[o])
    BY <2>1
  <2>4. ASSUME NEW x \in Orders
        PROVE  /\ BorneOut(inbox'[x], venue'[x])
               /\ \A i \in 1..Len(wire'[x]) : BorneOut(wire'[x][i], venue'[x])
    <3>1. CASE x = o
      <4>1. inbox'[x] = wire[o][1] /\ wire'[x] = Tail(wire[o])
        BY <2>1, <2>2, <3>1 DEF TypeOK
      <4>2. QED
        BY <1>2, <2>2, <2>3, <3>1, <4>1
    <3>2. CASE x # o
      <4>1. inbox'[x] = inbox[x] /\ wire'[x] = wire[x]
        BY <2>1, <3>2 DEF TypeOK
      <4>2. QED
        BY <1>2, <4>1
    <3>3. QED
      BY <3>1, <3>2
  <2>5. QED
    BY <2>4 DEF PushesTruthful, Truthful
<1>6. CASE VenueNext
  <2> SUFFICES ASSUME NEW o \in Orders,
                      Register(o) \/ Index(o) \/ Fill(o) \/ VenueCancels(o)
               PROVE  PushesTruthful'
    BY <1>6 DEF VenueNext
  <2>1. CASE Register(o) \/ Fill(o) \/ VenueCancels(o)
    <3>1. PICK v : Becomes(o, v) /\ UNCHANGED inbox /\ v.state # "none"
      BY <2>1 DEF Register, Fill, VenueCancels, TypeOK, VenueStates
    <3>2. v = venue'[o]
      BY <3>1 DEF Becomes, TypeOK
    <3>3. QED
      BY <1>1, <1>4, <3>1, <3>2
  <2>2. CASE Index(o)
    BY <1>3, <2>2 DEF Index
  <2>3. QED
    BY <2>1, <2>2
<1>7. CASE CallNext
  <2> SUFFICES ASSUME NEW o \in Orders, ServeCancel(o) \/ RefuseCancel(o)
               PROVE  PushesTruthful'
    BY <1>7 DEF CallNext
  <2>1. CASE ServeCancel(o) /\ venue[o].state = "resting"
    <3> DEFINE v == [venue[o] EXCEPT !.state = "cancelled"]
    <3>1. Becomes(o, v) /\ UNCHANGED inbox /\ v.state # "none" /\ v \in VenueStates
      BY <1>1, <2>1 DEF ServeCancel, VenueStates, VenueOver
    <3> HIDE DEF v
    <3>2. QED
      BY <1>4, <3>1
  <2>2. CASE ServeCancel(o) /\ venue[o].state # "resting"
    BY <1>3, <2>2 DEF ServeCancel
  <2>3. CASE RefuseCancel(o)
    BY <1>3, <2>3 DEF RefuseCancel
  <2>4. QED
    BY <2>1, <2>2, <2>3
<1>8. CASE StreamNext \/ TimeNext
  BY <1>3, <1>5, <1>8 DEF StreamNext, Disconnect, Connect, TimeNext,
                          ComesDue, Ages
<1>9. CASE WorkerNext
  BY <1>3, <1>9 DEF WorkerNext, ReadOpenOrders, ReadOpenOrdersFails, Pause,
       FinishFetch, ReadOrder, Recheck, ReadOrderFails
<1>10. CASE TickNext
  BY <1>3, <1>10 DEF TickNext, DrainReconciliation, DrainUserStream,
       DrainStream, CancelDueOrders, CancelReturns, SubmitReconciliation,
       FinishPlacement, NothingToPlace, BeginPlacement
<1>11. CASE ExitNext
  BY <1>3, <1>11 DEF ExitNext, Interrupt, Fail, StopReconciliation, LastDrain,
       LastStreamDrain, DrainStream, ReconciliationRaises, StreamRaises, Raises,
       CancelTrackedOrders, SweepReturns, Crash, Restart
<1>12. CASE UNCHANGED vars
  BY <1>3, <1>12 DEF vars
<1>13. QED
  BY <1>6, <1>7, <1>8, <1>9, <1>10, <1>11, <1>12 DEF Next
----------------------------------------------------------------------------
(***************************************************************************)
(* The five ways a row changes; all else leaves the table alone.           *)
(***************************************************************************)
Drained == /\ updates # <<>>
           /\ row' = Absorbed(Head(updates))
           /\ fresh' = fresh \cup Adoptable(Head(updates))

Swept == \E S \in SUBSET TrackedOrders :
           row' = Marked(S, "cancel_requested") /\ fresh' = fresh

Answered == /\ row' = [o \in Orders |->
                         IF o \in call.gone
                         THEN [row[o] EXCEPT !.status = "terminal_unknown"]
                         ELSE IF o \in call.canceled
                              THEN [row[o] EXCEPT !.status = "cancelled"]
                              ELSE row[o]]
            /\ fresh' = fresh

TableKept == row' = row /\ (fresh' = fresh \/ \E o \in Orders : Ages(o))

TableStep ==
  \/ TableKept
  \/ /\ UNCHANGED <<venue, indexed>>
     /\ Drained \/ (row' = Streamed /\ fresh' = fresh) \/ Swept \/ Answered
        \/ FinishPlacement

\* Every step leaves the table alone or changes it in one of the five ways.
LEMMA TableSteps ==
  ASSUME [Next]_vars
  PROVE  TableStep
<1>1. CASE VenueNext
  BY <1>1 DEF TableStep, TableKept, VenueNext, Register, Index, Fill,
              VenueCancels
<1>2. CASE CallNext
  BY <1>2 DEF TableStep, TableKept, CallNext, ServeCancel, RefuseCancel
<1>3. CASE StreamNext
  BY <1>3 DEF TableStep, TableKept, StreamNext, Disconnect, Connect, Deliver
<1>4. CASE TimeNext
  BY <1>4 DEF TableStep, TableKept, TimeNext, ComesDue, Ages
<1>5. CASE WorkerNext
  BY <1>5 DEF TableStep, TableKept, WorkerNext, ReadOpenOrders,
       ReadOpenOrdersFails, Pause, FinishFetch, ReadOrder, Recheck,
       ReadOrderFails
<1>6. CASE DrainReconciliation \/ LastDrain
  BY <1>6 DEF TableStep, TableKept, Drained, DrainReconciliation, LastDrain,
              DrainOne
<1>7. CASE DrainUserStream \/ LastStreamDrain \/ StreamRaises
  BY <1>7 DEF TableStep, DrainUserStream, LastStreamDrain, DrainStream,
              StreamRaises
<1>8. CASE CancelDueOrders \/ CancelTrackedOrders
  <2>1. DueOrders \subseteq TrackedOrders
    BY DEF DueOrders, TrackedOrders, Tracked
  <2>2. QED
    BY <1>8, <2>1 DEF TableStep, TableKept, Swept, CancelDueOrders,
                      CancelTrackedOrders, StartCancel
<1>9. CASE CancelReturns \/ SweepReturns
  BY <1>9 DEF TableStep, TableKept, Answered, CancelReturns, SweepReturns,
              CallStep
<1>10. CASE FinishPlacement
  BY <1>10 DEF TableStep, FinishPlacement
<1>11. CASE \/ SubmitReconciliation \/ NothingToPlace
            \/ \E m \in Markets : BeginPlacement(m)
  BY <1>11 DEF TableStep, TableKept, SubmitReconciliation, NothingToPlace,
               BeginPlacement
<1>12. CASE \/ Interrupt \/ Fail \/ StopReconciliation \/ ReconciliationRaises
            \/ Crash \/ Restart
  BY <1>12 DEF TableStep, TableKept, Interrupt, Fail, StopReconciliation,
               ReconciliationRaises, Crash, Restart
<1>13. CASE UNCHANGED vars
  BY <1>13 DEF TableStep, TableKept, vars
<1>14. QED
  BY <1>1, <1>2, <1>3, <1>4, <1>5, <1>6, <1>7, <1>8, <1>9, <1>10, <1>11,
     <1>12, <1>13 DEF Next, TickNext, ExitNext

\* What the invariant says of one row, given the venue's word.
RowBorneOut(r, v, young) ==
  /\ r.status # "absent" => v.state # "none"
  /\ r.status \in VenueOver => v.state = r.status
  /\ r.status = "terminal_unknown" => v.state \in VenueOver \/ ~young
  /\ r.matched <= v.matched

\* RowsTruthful is a statement about each row by itself.
LEMMA RowsTruthfulByRow ==
  ASSUME TypeOK
  PROVE  RowsTruthful <=>
           \A o \in Orders :
             RowBorneOut(row[o], venue[o], o \in fresh)
BY DEF RowsTruthful, RowBorneOut, Known, Exists, IsOver

\* Applying a truthful report leaves a row the venue bears out.
LEMMA ReconciledBorneOut ==
  ASSUME LedgerInv, NEW o \in Orders, NEW r \in Reports, r.order = o,
         Truthful(r.order, r)
  PROVE  RowBorneOut(Reconciled(o, r), venue[o], o \in fresh)
<1>1. RowBorneOut(row[o], venue[o], o \in fresh)
  BY RowsTruthfulByRow DEF LedgerInv
<1>2. row[o] \in Rows /\ venue[o] \in VenueStates
  BY DEF LedgerInv, TypeOK
<1>3. /\ r.matched <= venue[o].matched
      /\ r.status \in VenueOver => venue[o].state = r.status
      /\ r.status \in ReportStatus /\ r.matched \in 0..Size
  BY DEF Truthful, BorneOut, Reports
<1>4. CASE Reconciled(o, r) = row[o]
  BY <1>1, <1>4
<1>5. CASE Reconciled(o, r) # row[o]
  <2>1. /\ row[o].status # "absent"
        /\ \/ r.status # "terminal_unknown"
           \/ row[o].status \in Terminal
           \/ o \notin fresh
        /\ Reconciled(o, r).status = IF row[o].status \in Terminal /\ r.status \notin Terminal
                                     THEN row[o].status ELSE r.status
        /\ Reconciled(o, r).matched = Larger(r.matched, row[o].matched)
    BY <1>5 DEF Reconciled
  <2>2. Larger(r.matched, row[o].matched) <= venue[o].matched
    BY <1>1, <1>2, <1>3 DEF Larger, RowBorneOut, Rows, VenueStates
  <2>3. QED
    BY <1>1, <1>2, <1>3, <2>1, <2>2 DEF RowBorneOut, Terminal, VenueOver,
       ReportStatus, Rows
<1>6. QED
  BY <1>4, <1>5

\* Every step keeps the rows borne out, and no row is ever deleted.
LEMMA RowsStep ==
  ASSUME LedgerInv, [Next]_vars
  PROVE  RowsTruthful' /\ Known \subseteq Known'
<1>0. TypeOK /\ VenueSane /\ TypeOK' /\ VenueSane'
  BY TypeStep DEF LedgerInv
<1>1. \A o \in Orders : /\ venue[o] \in VenueStates /\ venue'[o] \in VenueStates
                        /\ Grows(venue[o], venue'[o])
                        /\ row[o] \in Rows
                        /\ RowBorneOut(row[o], venue[o], o \in fresh)
  BY <1>0, VenueSteps, RowsTruthfulByRow DEF TypeOK, LedgerInv
<1>2. SUFFICES \A o \in Orders :
        /\ RowBorneOut(row'[o], venue'[o], o \in fresh')
        /\ row[o].status # "absent" => row'[o].status # "absent"
  <2>1. RowsTruthful' <=>
           \A o \in Orders :
             RowBorneOut(row'[o], venue'[o], o \in fresh')
    BY <1>0 DEF RowsTruthful, RowBorneOut, Known, Exists, IsOver
  <2>2. QED
    BY <2>1 DEF Known
<1> TAKE o \in Orders
<1>3. CASE TableKept
  <2>1. row' = row /\ fresh' \subseteq fresh
    BY <1>3 DEF TableKept, Ages
  <2>2. QED
    BY <1>1, <2>1 DEF RowBorneOut, Grows, Rows, VenueStates, VenueOver
<1>4. CASE UNCHANGED <<venue, indexed>> /\ Drained
  <2> DEFINE u == Head(updates)
  <2>1. u \in Rounds /\ RoundTruthful(u)
    BY <1>0, <1>4 DEF Drained, TypeOK, LedgerInv, ReportsTruthful
  <2> HIDE DEF u
  <2>2. row' = Absorbed(u) /\ fresh' = fresh \cup Adoptable(u)
    BY <1>4 DEF Drained, u
  <2>3. CASE o \in Adoptable(u)
    <3>1. row'[o] = [status |-> "live", matched |-> 0]
      BY <2>2, <2>3 DEF Absorbed
    <3>2. venue[o].state # "none"
      BY <2>1, <2>3 DEF Adoptable, RoundTruthful, Exists
    <3>3. QED
      BY <1>1, <1>4, <3>1, <3>2 DEF RowBorneOut, VenueOver, VenueStates
  <2>4. CASE o \notin Adoptable(u) /\ \E r \in u.found : r.order = o
    <3> DEFINE c == CHOOSE r \in u.found : r.order = o
    <3>1. c \in u.found /\ c.order = o
      BY <2>4
    <3> HIDE DEF c
    <3>2. c \in Reports /\ Truthful(c.order, c)
      BY <2>1, <3>1 DEF Rounds, RoundTruthful
    <3>3. RowBorneOut(Reconciled(o, c), venue[o], o \in fresh)
      BY <3>1, <3>2, ReconciledBorneOut
    <3>4. row'[o] = Reconciled(o, c)
      BY <2>2, <2>4 DEF Absorbed, c
    <3>5. Reconciled(o, c).status = "absent" => row[o].status = "absent"
      BY <1>1, <3>2 DEF Reconciled, Reports, ReportStatus, Terminal
    <3>6. o \in fresh' <=> o \in fresh
      BY <2>2, <2>4
    <3>7. QED
      BY <1>4, <3>3, <3>4, <3>5, <3>6 DEF RowBorneOut
  <2>5. CASE o \notin Adoptable(u) /\ ~\E r \in u.found : r.order = o
    <3>1. row'[o] = row[o]
      BY <2>2, <2>5 DEF Absorbed
    <3>2. o \in fresh' <=> o \in fresh
      BY <2>2, <2>5
    <3>3. QED
      BY <1>1, <1>4, <3>1, <3>2 DEF RowBorneOut
  <2>6. QED
    BY <2>3, <2>4, <2>5
<1>5. CASE UNCHANGED <<venue, indexed>> /\ row' = Streamed /\ fresh' = fresh
  <2>1. CASE inbox[o] = NoEvent \/ row[o].status = "absent"
    BY <1>1, <1>5, <2>1 DEF Streamed
  <2>2. CASE inbox[o] # NoEvent /\ row[o].status # "absent"
    <3>1. row'[o] = inbox[o] /\ inbox[o] \in Events
      BY <1>0, <1>5, <2>2 DEF Streamed, TypeOK
    <3>2. BorneOut(inbox[o], venue[o])
      BY DEF LedgerInv, PushesTruthful, Truthful
    <3>3. QED
      BY <1>1, <1>5, <2>2, <3>1, <3>2 DEF RowBorneOut, BorneOut, Events,
         Terminal, VenueOver
  <2>3. QED
    BY <2>1, <2>2
<1>6. CASE UNCHANGED <<venue, indexed>> /\ Swept
  <2>1. PICK S \in SUBSET TrackedOrders :
          row' = Marked(S, "cancel_requested") /\ fresh' = fresh
    BY <1>6 DEF Swept
  <2>2. CASE o \in S
    <3>1. row'[o] = [row[o] EXCEPT !.status = "cancel_requested"]
      BY <2>1, <2>2 DEF Marked
    <3>2. row[o].status # "absent"
      BY <2>2 DEF TrackedOrders, Tracked
    <3>3. QED
      BY <1>1, <1>6, <2>1, <3>1, <3>2 DEF RowBorneOut, VenueOver, Rows
  <2>3. CASE o \notin S
    BY <1>1, <1>6, <2>1, <2>3 DEF Marked
  <2>4. QED
    BY <2>2, <2>3
<1>7. CASE UNCHANGED <<venue, indexed>> /\ Answered
  <2>1. CASE o \in call.gone
    <3>1. venue[o].state \in VenueOver
      BY <2>1 DEF LedgerInv, CallTruthful, IsOver
    <3>2. row'[o].status = "terminal_unknown" /\ row'[o].matched = row[o].matched
      BY <1>1, <1>7, <2>1 DEF Answered, Rows
    <3>3. QED
      BY <1>1, <1>7, <3>1, <3>2 DEF RowBorneOut, VenueOver
  <2>2. CASE o \in call.canceled \ call.gone
    <3>1. venue[o].state = "cancelled"
      BY <2>2 DEF LedgerInv, CallTruthful
    <3>2. row'[o].status = "cancelled" /\ row'[o].matched = row[o].matched
      BY <1>1, <1>7, <2>2 DEF Answered, Rows
    <3>3. QED
      BY <1>1, <1>7, <3>1, <3>2 DEF RowBorneOut, VenueOver
  <2>3. CASE o \notin call.gone \cup call.canceled
    BY <1>1, <1>7, <2>3 DEF Answered
  <2>4. QED
    BY <2>1, <2>2, <2>3
<1>8. CASE UNCHANGED <<venue, indexed>> /\ FinishPlacement
  <2>1. \/ row'[o] = row[o] /\ (o \in fresh' => o \in fresh)
        \/ /\ venue[o].state # "none"
           /\ row'[o].matched = 0
           /\ row'[o].status \in RecordedAs(o)
    <3> DEFINE reported == {x \in Orders \ lost : /\ MarketOf[x] \in placing
                                                  /\ venue[x].state # "none"
                                                  /\ row[x] = NoRow}
    <3>1. PICK as \in [reported -> RowStatus] :
            /\ \A x \in reported : as[x] \in RecordedAs(x)
            /\ row' = [x \in Orders |-> IF x \in reported
                                    THEN [status |-> as[x], matched |-> 0]
                                    ELSE row[x]]
      BY <1>8 DEF FinishPlacement
    <3>2. fresh' = fresh \cup reported
      BY <1>8 DEF FinishPlacement
    <3>3. CASE o \in reported
      <4>1. row'[o] = [status |-> as[o], matched |-> 0]
        BY <3>1, <3>3
      <4>2. as[o] \in RecordedAs(o) /\ venue[o].state # "none"
        BY <3>1, <3>3
      <4>3. row'[o].matched = 0 /\ row'[o].status = as[o]
        BY <4>1
      <4>4. QED
        BY <4>2, <4>3
    <3>4. CASE o \notin reported
      BY <3>1, <3>2, <3>4
    <3>5. QED
      BY <3>3, <3>4
  <2>2. CASE row'[o] = row[o] /\ (o \in fresh' => o \in fresh)
    BY <1>1, <1>8, <2>2 DEF RowBorneOut
  <2>3. CASE /\ venue[o].state # "none"
             /\ row'[o].matched = 0
             /\ row'[o].status \in RecordedAs(o)
    <3>1. /\ row'[o].status \in {"live", "cancel_requested", "cancelled",
                                "terminal_unknown"}
          /\ row'[o].status = "cancelled" => venue[o].state = "cancelled"
          /\ row'[o].status = "terminal_unknown" => venue[o].state \in VenueOver
      BY <2>3 DEF RecordedAs, IsOver
    <3>2. QED
      BY <1>1, <1>8, <2>3, <3>1 DEF RowBorneOut, VenueStates, VenueOver
  <2>4. QED
    BY <2>1, <2>2, <2>3
<1>9. QED
  BY <1>3, <1>4, <1>5, <1>6, <1>7, <1>8, TableSteps DEF TableStep
----------------------------------------------------------------------------
(***************************************************************************)
(* The reports.  What was true of an order when it was reported stays      *)
(* true while the report waits: the venue only grows.                      *)
(***************************************************************************)
RoundStands(u, ven) ==
  /\ \A o \in u.open : ven[o].state # "none"
  /\ \A r \in u.found : BorneOut(r, ven[r.order])

\* The two formulations of a truthful round are one.
LEMMA RoundsStand ==
  ASSUME NEW u
  PROVE  RoundTruthful(u) <=> RoundStands(u, venue)
BY DEF RoundTruthful, RoundStands, Truthful, Exists

\* A round the worker holds or has put stays borne out over any step.
LEMMA RoundsKept ==
  ASSUME LedgerInv, [Next]_vars,
         NEW O \in SUBSET Orders, NEW F \in SUBSET Reports,
         \A o \in O : venue[o].state # "none",
         \A r \in F : BorneOut(r, venue[r.order])
  PROVE  /\ \A o \in O : venue'[o].state # "none"
         /\ \A r \in F : BorneOut(r, venue'[r.order])
<1>1. \A o \in Orders : /\ venue[o] \in VenueStates /\ venue'[o] \in VenueStates
                        /\ Grows(venue[o], venue'[o])
  BY VenueSteps, TypeStep DEF LedgerInv, TypeOK
<1>2. \A o \in O : venue'[o].state # "none"
  BY <1>1 DEF Grows
<1>3. ASSUME NEW r \in F PROVE BorneOut(r, venue'[r.order])
  BY <1>1, BorneStable, EventMatched
<1>4. QED
  BY <1>2, <1>3

\* Everything the worker owns, in the plain form used below.
WorkerStands(j, ups, ven, known) ==
  /\ RoundStands(j, ven)
  /\ j.todo \cup j.missing \subseteq known
  /\ \A i \in 1..Len(ups) : RoundStands(ups[i], ven)

\* What the venue answers about an order is true when it answers.
LEMMA AnswerStands ==
  ASSUME LedgerInv, NEW o \in Orders, NEW a \in Answers(o)
  PROVE  /\ a.status # "unknown" =>
              /\ Report(o, a) \in Reports
              /\ BorneOut(Report(o, a), venue[o])
<1>1. venue[o] \in VenueStates /\ (o \in indexed => venue[o].state # "none")
  BY DEF LedgerInv, TypeOK, VenueSane
<1>2. CASE a = Shown(venue[o]) /\ o \in indexed
  <2>1. a \in Events
    BY <1>1, <1>2, ShownIsEvent
  <2>2. BorneOut(Report(o, a), venue[o])
    BY <1>1, <1>2 DEF Report, Shown, BorneOut, VenueStates, VenueOver
  <2>3. a.status \in {"live"} \cup VenueOver
    BY <2>1 DEF Events
  <2>4. QED
    BY <2>1, <2>2, <2>3, ReportType DEF Report
<1>3. CASE a = [status |-> "unknown", matched |-> 0]
  BY <1>3
<1>4. QED
  BY <1>2, <1>3 DEF Answers

\* Each step of the worker, of the drain and of the submission keeps it.
LEMMA ReportsStep ==
  ASSUME LedgerInv, [Next]_vars
  PROVE  ReportsTruthful'
<1>0. /\ TypeOK /\ job \in Jobs /\ updates \in Seq(Rounds)
      /\ Known \subseteq Known' /\ Known \subseteq Orders
  BY RowsStep DEF LedgerInv, TypeOK, Known
<1>1. SUFFICES WorkerStands(job', updates', venue', Known')
  BY DEF ReportsTruthful, RoundTruthful, WorkerStands, RoundStands, Truthful,
         Exists
<1>2. WorkerStands(job, updates, venue, Known)
  BY RoundsStand DEF LedgerInv, ReportsTruthful, WorkerStands
<1>3. RoundStands(job, venue')
  <2>1. /\ job.open \in SUBSET Orders /\ job.found \in SUBSET Reports
        /\ job.found \subseteq job.found \cup UNION {updates[i].found : i \in DOMAIN updates}
    BY <1>0 DEF Jobs
  <2>2. QED
    BY <1>2, <2>1, RoundsKept DEF WorkerStands, RoundStands
<1>4. ASSUME NEW i \in 1..Len(updates)
      PROVE  RoundStands(updates[i], venue')
  <2>1. updates[i] \in Rounds /\ i \in DOMAIN updates
    BY <1>0
  <2>2. /\ updates[i].open \in SUBSET Orders /\ updates[i].found \in SUBSET Reports
        /\ updates[i].found \subseteq job.found \cup UNION {updates[k].found : k \in DOMAIN updates}
    BY <2>1 DEF Rounds
  <2>3. QED
    BY <1>2, <2>2, RoundsKept DEF WorkerStands, RoundStands
<1>5. CASE UNCHANGED <<job, updates>>
  BY <1>0, <1>2, <1>3, <1>4, <1>5 DEF WorkerStands
<1>6. RoundStands(IdleJob, venue') /\ IdleJob.todo = {} /\ IdleJob.missing = {}
  BY DEF IdleJob, RoundStands
<1>7. CASE ReadOpenOrders
  <2>1. /\ UNCHANGED <<venue, updates>>
        /\ job'.todo \subseteq job.todo /\ job'.missing = {}
        /\ job'.open = {o \in indexed : venue[o].state = "resting"}
        /\ job'.found = {Report(o, Shown(venue[o])) : o \in job.todo \cap job'.open}
    BY <1>7 DEF ReadOpenOrders
  <2>2. ASSUME NEW o \in job'.open
        PROVE  BorneOut(Report(o, Shown(venue[o])), venue[o])
    BY <1>0, <2>1 DEF Report, Shown, BorneOut, VenueOver, TypeOK,
                      VenueStates
  <2>3. \A r \in job'.found : BorneOut(r, venue[r.order])
    BY <2>1, <2>2 DEF Report
  <2>4. RoundStands(job', venue')
    BY <2>1, <2>3 DEF RoundStands
  <2>5. QED
    BY <1>0, <1>2, <1>4, <2>1, <2>4 DEF WorkerStands
<1>8. CASE ReadOpenOrdersFails
  BY <1>4, <1>6, <1>8 DEF ReadOpenOrdersFails, WorkerStands
<1>9. ASSUME NEW o \in Orders, ReadOrder(o)
      PROVE  WorkerStands(job', updates', venue', Known')
  <2>1. PICK a \in Answers(o) :
          job' = [job EXCEPT
                    !.todo = @ \ {o},
                    !.missing = IF a.status = "unknown" THEN @ \cup {o} ELSE @,
                    !.found = IF a.status = "unknown" THEN @
                              ELSE @ \cup {Report(o, a)}]
    BY <1>9 DEF ReadOrder
  <2>2. UNCHANGED <<venue, updates>> /\ o \in job.todo
    BY <1>9 DEF ReadOrder
  <2>3. /\ job'.todo \cup job'.missing \subseteq job.todo \cup job.missing
        /\ job'.open = job.open
        /\ \/ job'.found = job.found
           \/ a.status # "unknown" /\ job'.found = job.found \cup {Report(o, a)}
    BY <1>0, <2>1, <2>2 DEF Jobs
  <2>4. RoundStands(job', venue')
    <3>1. Report(o, a).order = o
      BY DEF Report
    <3>2. QED
      BY <1>3, <2>2, <2>3, <3>1, AnswerStands DEF RoundStands
  <2>5. QED
    BY <1>0, <1>2, <1>4, <2>2, <2>3, <2>4 DEF WorkerStands
<1>10. CASE Pause
  BY <1>0, <1>2, <1>3, <1>4, <1>10 DEF Pause, WorkerStands, RoundStands, Jobs
<1>11. ASSUME NEW o \in Orders, Recheck(o)
       PROVE  WorkerStands(job', updates', venue', Known')
  <2> DEFINE gone == Report(o, [status |-> "terminal_unknown", matched |-> 0])
  <2>1. PICK a \in Answers(o) :
          job' = [job EXCEPT
                    !.todo = @ \ {o},
                    !.found = @ \cup
                      {IF a.status = "unknown" THEN gone ELSE Report(o, a)}]
    BY <1>11 DEF Recheck
  <2>2. UNCHANGED <<venue, updates>> /\ o \in Known
    BY <1>2, <1>11 DEF Recheck, WorkerStands
  <2>3. BorneOut(gone, venue[o])
    <3>1. venue[o].state # "none" /\ venue[o].matched \in 0..Size
      BY <2>2 DEF LedgerInv, RowsTruthful, Exists, TypeOK, VenueStates, Known
    <3>2. QED
      BY <3>1 DEF Report, BorneOut, VenueOver
  <2>4. gone.order = o /\ Report(o, a).order = o
    BY DEF Report
  <2> HIDE DEF gone
  <2>5. /\ job'.todo \subseteq job.todo /\ job'.missing = job.missing
        /\ job'.open = job.open
        /\ \/ a.status = "unknown" /\ job'.found = job.found \cup {gone}
           \/ a.status # "unknown" /\ job'.found = job.found \cup {Report(o, a)}
    BY <1>0, <2>1 DEF Jobs
  <2>6. RoundStands(job', venue')
    BY <1>3, <2>2, <2>3, <2>4, <2>5, AnswerStands DEF RoundStands
  <2>7. QED
    BY <1>0, <1>2, <1>4, <2>2, <2>5, <2>6 DEF WorkerStands
<1>12. ASSUME NEW o \in Orders, ReadOrderFails(o)
       PROVE  WorkerStands(job', updates', venue', Known')
  <2>1. /\ job' = [job EXCEPT !.todo = @ \ {o}] /\ updates' = updates
    BY <1>12 DEF ReadOrderFails
  <2>2. QED
    BY <1>0, <1>2, <1>3, <1>4, <2>1 DEF WorkerStands, RoundStands, Jobs
<1>13. CASE FinishFetch
  <2> DEFINE put == [open |-> job.open, found |-> job.found]
  <2>1. updates' = Append(updates, put) /\ job' = IdleJob
    BY <1>13 DEF FinishFetch
  <2>2. put \in Rounds /\ RoundStands(put, venue')
    BY <1>0, <1>3 DEF Rounds, Jobs, RoundStands
  <2> HIDE DEF put
  <2>3. ASSUME NEW i \in 1..Len(updates')
        PROVE  RoundStands(updates'[i], venue')
    <3>1. \/ i \in 1..Len(updates) /\ updates'[i] = updates[i]
          \/ updates'[i] = put
      BY <1>0, <2>1, <2>2, <2>3
    <3>2. QED
      BY <1>4, <2>2, <3>1
  <2>4. QED
    BY <1>6, <2>1, <2>3 DEF WorkerStands
<1>14. CASE SubmitReconciliation
  <2>1. \/ job' = job
        \/ job' = [IdleJob EXCEPT !.phase = "list", !.todo = TrackedOrders]
    BY <1>14 DEF SubmitReconciliation
  <2>2. updates' = updates /\ TrackedOrders \subseteq Known
    BY <1>14 DEF SubmitReconciliation, TrackedOrders, Known, Tracked
  <2>3. CASE job' # job
    <3>1. /\ job'.todo = TrackedOrders /\ job'.missing = {}
          /\ job'.open = {} /\ job'.found = {}
      BY <2>1, <2>3 DEF IdleJob
    <3>2. QED
      BY <1>0, <1>4, <2>2, <3>1 DEF WorkerStands, RoundStands
  <2>4. QED
    BY <1>5, <2>2, <2>3
<1>15. CASE DrainReconciliation \/ LastDrain
  <2>1. CASE UNCHANGED updates
    BY <1>5, <1>15, <2>1 DEF DrainReconciliation, LastDrain
  <2>2. CASE updates # <<>> /\ updates' = Tail(updates)
    <3>1. ASSUME NEW i \in 1..Len(updates')
          PROVE  updates'[i] = updates[i + 1] /\ i + 1 \in 1..Len(updates)
      BY <1>0, <2>2
    <3>2. job' = job
      BY <1>15 DEF DrainReconciliation, LastDrain
    <3>3. QED
      BY <1>0, <1>2, <1>3, <1>4, <3>1, <3>2 DEF WorkerStands
  <2>3. QED
    BY <1>15, <2>1, <2>2 DEF DrainReconciliation, LastDrain, DrainOne
<1>16. CASE Crash \/ Restart
  <2>1. job' = IdleJob /\ updates' = <<>>
    BY <1>16 DEF Crash, Restart
  <2>2. QED
    BY <1>6, <2>1 DEF WorkerStands
<1>17. CASE VenueNext \/ StreamNext \/ CallNext \/ TimeNext \/ UNCHANGED vars
  BY <1>5, <1>17 DEF VenueNext, Register, Index, Fill, VenueCancels, StreamNext,
     Deliver, Disconnect, Connect, CallNext, ServeCancel, RefuseCancel, TimeNext,
     ComesDue, Ages, vars
<1>18. CASE WorkerNext
  BY <1>7, <1>8, <1>9, <1>10, <1>11, <1>12, <1>13, <1>18 DEF WorkerNext
<1>19. CASE TickNext
  BY <1>5, <1>14, <1>15, <1>19 DEF TickNext, DrainUserStream, CancelDueOrders,
     CancelReturns, FinishPlacement, NothingToPlace, BeginPlacement
<1>20. CASE ExitNext
  BY <1>5, <1>15, <1>16, <1>20 DEF ExitNext, Interrupt, Fail,
     StopReconciliation, LastStreamDrain, ReconciliationRaises, StreamRaises,
     CancelTrackedOrders, SweepReturns
<1>21. QED
  BY <1>17, <1>18, <1>19, <1>20 DEF Next

\* A cancel call is started for recorded orders, and what the venue then
\* answers about an order is final.
LEMMA CallStepTruthful ==
  ASSUME LedgerInv, [Next]_vars
  PROVE  CallTruthful'
<1>1. \A o \in Orders : Grows(venue[o], venue'[o])
  BY VenueSteps DEF LedgerInv
<1>2. /\ call \in Calls
      /\ \A o \in call.gone : venue[o].state \in VenueOver
      /\ \A o \in call.canceled : venue[o].state = "cancelled"
      /\ \A o \in call.pending : venue[o].state # "none"
  BY DEF LedgerInv, CallTruthful, IsOver, Exists, TypeOK
<1>3. SUFFICES /\ \A o \in call'.gone : venue'[o].state \in VenueOver
               /\ \A o \in call'.canceled : venue'[o].state = "cancelled"
               /\ \A o \in call'.pending : venue'[o].state # "none"
  BY DEF CallTruthful, IsOver, Exists
<1>4. CASE call' = call \/ call' = NoCall \/ call' = [call EXCEPT !.pending = {}]
  BY <1>1, <1>2, <1>4 DEF Calls, NoCall, Grows, VenueOver
<1>5. ASSUME NEW o \in Orders, ServeCancel(o)
      PROVE  /\ \A x \in call'.gone : venue'[x].state \in VenueOver
             /\ \A x \in call'.canceled : venue'[x].state = "cancelled"
             /\ \A x \in call'.pending : venue'[x].state # "none"
  <2>0. /\ o \in call.pending /\ venue[o].state # "none"
        /\ venue \in [Orders -> VenueStates] /\ venue[o] \in VenueStates
    BY <1>2, <1>5 DEF ServeCancel, LedgerInv, TypeOK
  <2>1. CASE venue[o].state = "resting"
    <3>1. /\ call' = [call EXCEPT !.pending = @ \ {o}, !.canceled = @ \cup {o}]
          /\ venue' = [venue EXCEPT ![o] = [venue[o] EXCEPT !.state = "cancelled"]]
      BY <1>5, <2>1 DEF ServeCancel, Becomes
    <3>2. /\ call'.pending = call.pending \ {o} /\ call'.gone = call.gone
          /\ call'.canceled = call.canceled \cup {o}
      BY <1>2, <3>1 DEF Calls
    <3>3. venue'[o].state = "cancelled"
      BY <2>0, <3>1 DEF VenueStates
    <3>4. QED
      BY <1>1, <1>2, <3>2, <3>3 DEF Grows, Calls, VenueOver
  <2>2. CASE venue[o].state # "resting"
    <3>1. /\ call' = [call EXCEPT !.pending = @ \ {o}, !.gone = @ \cup {o}]
          /\ venue' = venue
      BY <1>5, <2>2 DEF ServeCancel
    <3>2. /\ call'.pending = call.pending \ {o} /\ call'.canceled = call.canceled
          /\ call'.gone = call.gone \cup {o}
      BY <1>2, <3>1 DEF Calls
    <3>3. venue[o].state \in VenueOver
      BY <2>0, <2>2 DEF VenueStates
    <3>4. QED
      BY <1>2, <3>1, <3>2, <3>3
  <2>3. QED
    BY <2>1, <2>2
<1>6. ASSUME NEW o \in Orders, RefuseCancel(o)
      PROVE  /\ \A x \in call'.gone : venue'[x].state \in VenueOver
             /\ \A x \in call'.canceled : venue'[x].state = "cancelled"
             /\ \A x \in call'.pending : venue'[x].state # "none"
  BY <1>1, <1>2, <1>6 DEF RefuseCancel, Calls, Grows, VenueOver
<1>7. ASSUME NEW S \in SUBSET Known, NEW d, NEW a, StartCancel(S, d, a)
      PROVE  /\ \A x \in call'.gone : venue'[x].state \in VenueOver
             /\ \A x \in call'.canceled : venue'[x].state = "cancelled"
             /\ \A x \in call'.pending : venue'[x].state # "none"
  <2>1. call'.pending \subseteq Known /\ call'.gone = {} /\ call'.canceled = {}
    <3>1. call' = NoCall \/ call' = [NoCall EXCEPT !.pending = S, !.asked = S]
      BY <1>7 DEF StartCancel
    <3>2. QED
      <4>1. CASE call' = NoCall
        BY <4>1 DEF NoCall
      <4>2. CASE call' = [NoCall EXCEPT !.pending = S, !.asked = S]
        <5>1. /\ [NoCall EXCEPT !.pending = S, !.asked = S].pending = S
              /\ [NoCall EXCEPT !.pending = S, !.asked = S].gone = {}
              /\ [NoCall EXCEPT !.pending = S, !.asked = S].canceled = {}
          BY DEF NoCall
        <5>2. QED
          BY <4>2, <5>1
      <4>3. QED
        BY <3>1, <4>1, <4>2
  <2>2. \A x \in Known : x \in Orders /\ venue[x].state # "none"
    BY DEF LedgerInv, RowsTruthful, Exists, Known
  <2>3. QED
    BY <1>1, <2>1, <2>2 DEF Grows
<1>8. CASE CancelDueOrders \/ CancelTrackedOrders
  <2>1. DueOrders \in SUBSET Known /\ TrackedOrders \in SUBSET Known
    BY DEF DueOrders, TrackedOrders, Tracked, Known
  <2>2. QED
    BY <1>7, <1>8, <2>1 DEF CancelDueOrders, CancelTrackedOrders
<1>9. CASE VenueNext \/ StreamNext \/ WorkerNext \/ TimeNext \/ UNCHANGED vars
  BY <1>4, <1>9 DEF VenueNext, Register, Index, Fill, VenueCancels, StreamNext,
     Deliver, Disconnect, Connect, TimeNext, ComesDue, Ages, WorkerNext,
     ReadOpenOrders, ReadOpenOrdersFails, Pause, FinishFetch, ReadOrder,
     Recheck, ReadOrderFails, vars
<1>10. CASE CallNext
  BY <1>5, <1>6, <1>10 DEF CallNext
<1>11. CASE TickNext
  BY <1>4, <1>8, <1>11 DEF TickNext, DrainReconciliation, DrainUserStream,
     CancelReturns, SubmitReconciliation, FinishPlacement, NothingToPlace,
     BeginPlacement
<1>12. CASE ExitNext
  BY <1>4, <1>8, <1>12 DEF ExitNext, Interrupt, Fail, StopReconciliation,
     LastDrain, LastStreamDrain, ReconciliationRaises, StreamRaises, SweepReturns, Crash, Restart
<1>13. QED
  BY <1>9, <1>10, <1>11, <1>12 DEF Next

\* Before anything has happened there is nothing to be wrong about.
LEMMA InitLedger == Init => LedgerInv
<1> SUFFICES ASSUME Init PROVE LedgerInv
  OBVIOUS
<1>1. TypeOK
  BY TypeInit
<1>2. VenueSane
  BY LedgerAssumption DEF Init, VenueSane
<1>3. PushesTruthful
  BY DEF Init, PushesTruthful, Truthful, BorneOut, NoEvent, VenueOver
<1>4. ReportsTruthful
  BY DEF Init, ReportsTruthful, RoundTruthful, IdleJob
<1>5. CallTruthful
  BY DEF Init, CallTruthful, NoCall
<1>6. RowsTruthful
  BY LedgerAssumption DEF Init, RowsTruthful, Known, NoRow, VenueOver
<1>7. QED
  BY <1>1, <1>2, <1>3, <1>4, <1>5, <1>6 DEF LedgerInv

(***************************************************************************)
(* Whatever is said of an order anywhere - pushed, queued, reported,       *)
(* answered or recorded - is borne out by the venue, but for the one       *)
(* verdict that says nothing: "no such order".                             *)
(***************************************************************************)
THEOREM LedgerInvariant == Spec => []LedgerInv
<1>1. Init => LedgerInv
  BY InitLedger
<1>2. LedgerInv /\ [Next]_vars => LedgerInv'
  <2> SUFFICES ASSUME LedgerInv, [Next]_vars PROVE LedgerInv'
    OBVIOUS
  <2>1. TypeOK' /\ VenueSane'
    BY TypeStep, VenueSteps DEF LedgerInv
  <2>2. PushesTruthful'
    BY PushesStep DEF LedgerInv
  <2>3. ReportsTruthful'
    BY ReportsStep
  <2>4. CallTruthful'
    BY CallStepTruthful
  <2>5. RowsTruthful'
    BY RowsStep
  <2>6. QED
    BY <2>1, <2>2, <2>3, <2>4, <2>5 DEF LedgerInv
<1>3. QED
  BY <1>1, <1>2, PTL DEF Spec

(***************************************************************************)
(* For every number of orders, markets, crashes, restarts and lost         *)
(* messages, and however long a placement holds the loop: the row of an    *)
(* order that still rests is finished by nothing but a verdict "no such    *)
(* order" that was applied after the row's grace.                          *)
(***************************************************************************)
THEOREM OnlyStaleRetire == Spec => []OnlyStaleVerdictsRetire
<1>1. LedgerInv => OnlyStaleVerdictsRetire
  BY DEF LedgerInv, RowsTruthful, OnlyStaleVerdictsRetire, Terminal, VenueOver,
         IsOver
<1>2. QED
  BY <1>1, LedgerInvariant, PTL

(***************************************************************************)
(* The table never holds a fill or an end the venue did not make, whatever *)
(* order reports, pushes, cancel answers and adoptions are applied in.     *)
(***************************************************************************)
THEOREM RecordedFillsAreReal == Spec => []FillsAreReal
<1>1. LedgerInv => FillsAreReal
  BY DEF LedgerInv, RowsTruthful, FillsAreReal
<1>2. QED
  BY <1>1, LedgerInvariant, PTL

----------------------------------------------------------------------------
(***************************************************************************)
(* Ctrl+C.  From the sweep's call on, every recorded order that still      *)
(* rests is one the call asked for, or has a row a stale verdict finished. *)
(***************************************************************************)
AllAsked ==
  \A o \in Known :
    venue[o].state = "resting" =>
      o \in call.asked \/ row[o].status = "terminal_unknown"

StopInv ==
  main = "sweeping" \/ (main = "stopped" /\ exit = "interrupt") => AllAsked

\* The sweep asks for every tracked row; what it leaves out is over.
LEMMA SweepAsksAll ==
  ASSUME LedgerInv, CancelTrackedOrders
  PROVE  AllAsked'
<1>1. /\ StartCancel(TrackedOrders, "sweeping", "stopped")
      /\ venue' = venue
  BY DEF CancelTrackedOrders
<1>2. \A o \in Known :
        venue[o].state = "resting" =>
          o \in TrackedOrders \/ row[o].status = "terminal_unknown"
  BY DEF LedgerInv, TypeOK, RowsTruthful, Rows, RowStatus, Known, Terminal,
         TrackedOrders, VenueOver
<1>3. CASE TrackedOrders = {}
  BY <1>1, <1>2, <1>3 DEF StartCancel, AllAsked, Known
<1>4. CASE TrackedOrders # {}
  <2>1. call'.asked = TrackedOrders
    BY <1>1, <1>4 DEF StartCancel, NoCall
  <2>2. Known' = Known
    <3>1. row' = Marked(TrackedOrders, "cancel_requested")
      BY <1>1, <1>4 DEF StartCancel
    <3>2. ASSUME NEW o \in Orders
          PROVE  row'[o].status = "absent" <=> row[o].status = "absent"
      <4>1. row[o] \in Rows
        BY DEF LedgerInv, TypeOK
      <4>2. CASE o \in TrackedOrders
        BY <3>1, <4>1, <4>2 DEF Marked, Rows, TrackedOrders, Tracked
      <4>3. CASE o \notin TrackedOrders
        BY <3>1, <4>3 DEF Marked
      <4>4. QED
        BY <4>2, <4>3
    <3>3. QED
      BY <3>2 DEF Known
  <2>3. \A o \in Orders \ TrackedOrders : row'[o] = row[o]
    BY <1>1, <1>4 DEF StartCancel, Marked
  <2>4. QED
    BY <1>1, <1>2, <2>1, <2>2, <2>3 DEF AllAsked, Known
<1>5. QED
  BY <1>3, <1>4

\* What the answer adds to the table is over.
LEMMA SweepAnswered ==
  ASSUME LedgerInv, AllAsked, SweepReturns
  PROVE  AllAsked'
<1>1. call'.asked = call.asked /\ venue' = venue
  BY DEF SweepReturns, LedgerInv, TypeOK, Calls
<1>2. \A o \in Known' : \/ (o \in Known /\ row'[o] = row[o])
                         \/ o \in call.gone \cup call.canceled
  BY DEF SweepReturns, CallStep, Known
<1>3. \A o \in call.gone \cup call.canceled : venue[o].state # "resting"
  BY DEF LedgerInv, CallTruthful, IsOver, VenueOver
<1>4. QED
  BY <1>1, <1>2, <1>3 DEF AllAsked

\* The venue's steps do not bring a recorded order back to rest.
LEMMA AskedKept ==
  ASSUME LedgerInv, AllAsked, [Next]_vars, row' = row,
         call'.asked = call.asked
  PROVE  AllAsked'
<1>1. \A o \in Orders : Grows(venue[o], venue'[o]) /\ venue[o] \in VenueStates
  BY VenueSteps DEF LedgerInv, TypeOK
<1>2. ASSUME NEW o \in Known, venue'[o].state = "resting"
      PROVE  venue[o].state = "resting"
  <2>1. o \in Orders /\ venue[o].state # "none"
    BY <1>2 DEF LedgerInv, RowsTruthful, Exists, Known
  <2>2. QED
    BY <1>1, <1>2, <2>1 DEF Grows, VenueStates, VenueOver
<1>3. QED
  BY <1>2 DEF AllAsked, Known

\* Once the sweep has been sent, nothing but its answer or a restart changes
\* the table or the call.
LEMMA StopStep ==
  ASSUME LedgerInv, StopInv, [Next]_vars
  PROVE  StopInv'
<1>1. SUFFICES ASSUME main' = "sweeping" \/ (main' = "stopped" /\ exit' = "interrupt")
               PROVE  AllAsked'
  BY DEF StopInv
<1>2. CASE CancelTrackedOrders
  BY <1>2, SweepAsksAll
<1>3. CASE SweepReturns
  BY <1>3, SweepAnswered DEF StopInv, SweepReturns
<1>4. ASSUME main' = main, exit' = exit, row' = row, call'.asked = call.asked
      PROVE  AllAsked'
  BY <1>1, <1>4, AskedKept DEF StopInv, Known
<1>5. CASE CallNext
  <2>1. PICK o \in Orders : ServeCancel(o) \/ RefuseCancel(o)
    BY <1>5 DEF CallNext
  <2>2. main' = main /\ exit' = exit /\ row' = row
    BY <2>1 DEF ServeCancel, RefuseCancel
  <2>3. call'.asked = call.asked
    BY <2>1 DEF ServeCancel, RefuseCancel, LedgerInv, TypeOK, Calls
  <2>4. QED
    BY <1>4, <2>2, <2>3
<1>6. CASE VenueNext \/ StreamNext \/ WorkerNext \/ TimeNext \/ UNCHANGED vars
  BY <1>4, <1>6 DEF VenueNext, Register, Index, Fill, VenueCancels, StreamNext,
     Deliver, Disconnect, Connect, TimeNext, ComesDue, Ages, WorkerNext,
     ReadOpenOrders, ReadOpenOrdersFails, Pause, FinishFetch, ReadOrder,
     Recheck, ReadOrderFails, vars
<1>7. CASE TickNext
  <2>1. main \in {"drain", "stream", "cancel", "cancelling", "submit", "place",
                  "placing"}
    BY <1>7 DEF TickNext, DrainReconciliation, DrainUserStream, CancelDueOrders,
       CancelReturns, SubmitReconciliation, FinishPlacement, NothingToPlace,
       BeginPlacement
  <2>2. main' \notin {"sweeping", "stopped"}
    BY <1>7, <2>1 DEF TickNext, DrainReconciliation, DrainOne, DrainUserStream,
       DrainStream, CancelDueOrders, StartCancel, CancelReturns, CallStep,
       SubmitReconciliation, FinishPlacement, NothingToPlace, BeginPlacement
  <2>3. QED
    BY <1>1, <2>2
<1>8. CASE Interrupt \/ Fail \/ StopReconciliation \/ Restart
  BY <1>1, <1>8 DEF Interrupt, Fail, StopReconciliation, Restart
<1>9. CASE LastDrain
  BY <1>1, <1>9 DEF LastDrain, DrainOne
<1>10. CASE LastStreamDrain
  BY <1>1, <1>10 DEF LastStreamDrain, DrainStream
<1>11. CASE Crash \/ ReconciliationRaises \/ StreamRaises
  BY <1>1, <1>11 DEF Crash, ReconciliationRaises, StreamRaises, Raises
<1>12. QED
  BY <1>2, <1>3, <1>5, <1>6, <1>7, <1>8, <1>9, <1>10, <1>11 DEF Next, ExitNext

(***************************************************************************)
(* "Ctrl+C cancels all open orders recorded by this bot": a run that       *)
(* Ctrl+C took through its whole way out has named every recorded order    *)
(* still resting in the final cancel call, whatever was lost, restarted or *)
(* refused before - but for one whose row a stale verdict had finished.    *)
(***************************************************************************)
THEOREM StopAsks == Spec => []StopAsksForEveryOrder
<1>1. Init => StopInv
  BY DEF Init, StopInv
<1>2. LedgerInv /\ StopInv /\ [Next]_vars => StopInv'
  BY StopStep
<1>3. StopInv => StopAsksForEveryOrder
  BY DEF StopInv, AllAsked, StopAsksForEveryOrder
<1>4. QED
  BY <1>1, <1>2, <1>3, LedgerInvariant, PTL DEF Spec
============================================================================
