-------------------------- MODULE PlacementProofs --------------------------
(***************************************************************************)
(* Proofs about Placement, for any accounts, legs and bounds.              *)
(***************************************************************************)
EXTENDS Placement, TLAPS

USE DEF db, retryVars, signVars, tryVars, venueVars

\* What a member's part may come to is of the declared type.
LEMMA OutcomeTypes ==
  /\ NotTried \in Outcomes
  /\ Raised \in Outcomes
  /\ \A S \in SUBSET Orders, r \in BOOLEAN, g \in BOOLEAN :
       Result(S, r, g) \in Outcomes
  /\ \A u \in Outcomes, k \in {"raised", "ambiguous", "ready"} :
       [u EXCEPT !.kind = k] \in Outcomes
BY DEF NotTried, Raised, Result, Outcomes

\* What the engine reports of a member has registered.
LEMMA KnockResultTypes ==
  ASSUME TypeOK, NEW a \in Accounts
  PROVE  KnockResults(a) \subseteq Outcomes
BY DEF KnockResults, Outcomes, SignedOrders

\* A count below its bound stays within it when it grows by one.
LEMMA OneMore ==
  ASSUME NEW m \in Nat, NEW n \in 0..m, n < m PROVE n + 1 \in 0..m
OBVIOUS

\* The venue takes an order once: it is added to what it took before, whose
\* times stay.
LEMMA BookGrows ==
  ASSUME TypeOK, NEW o \in Orders, Register(o)
  PROVE  /\ stamp' \in [Orders -> Nat]
         /\ Booked' = Booked \cup {o}
         /\ \A p \in Booked : stamp'[p] = stamp[p]
<1>1. PICK t \in 1..(Cardinality(Booked) + 1) : stamp' = [stamp EXCEPT ![o] = t]
  BY DEF Register
<1>2. t \in Nat /\ t # 0
  OBVIOUS
<1>3. stamp \in [Orders -> Nat]
  BY DEF TypeOK
<1>4. o \notin Booked
  BY DEF Register
<1>5. /\ stamp' \in [Orders -> Nat]
      /\ \A p \in Orders : stamp'[p] = IF p = o THEN t ELSE stamp[p]
  BY <1>1, <1>2, <1>3
<1>6. QED
  BY <1>2, <1>4, <1>5 DEF Booked

\* The venue, the stream and the clock keep the types.
LEMMA TypeVenue == TypeOK /\ (VenueNext \/ ClockMoves \/ Activate) => TypeOK'
<1> SUFFICES ASSUME TypeOK, VenueNext \/ ClockMoves \/ Activate
             PROVE  TypeOK'
  OBVIOUS
<1>1. CASE DoorOpens BY <1>1 DEF DoorOpens, TypeOK, Booked
<1>2. ASSUME NEW o \in Orders, Register(o) PROVE TypeOK'
  <2>1. stamp' \in [Orders -> Nat] /\ Booked' = Booked \cup {o}
    BY <1>2, BookGrows
  <2>2. UNCHANGED <<market, rows, update, retry, pc, signatures, signed, before,
                    outcome, kept, status, sent, pushed, door, clock>>
        /\ resting' = resting \cup {o}
    BY <1>2 DEF Register
  <2> QED BY <2>1, <2>2 DEF TypeOK
<1>3. ASSUME NEW o \in Orders, SendsEnd(o) PROVE TypeOK'
  BY <1>3 DEF SendsEnd, TypeOK, Booked
<1>4. ASSUME NEW o \in Orders, Leave(o) PROVE TypeOK'
  BY <1>4 DEF Leave, TypeOK, Booked
<1>5. ASSUME NEW o \in Orders, Push(o) PROVE TypeOK'
  BY <1>5 DEF Push, TypeOK, Booked
<1>6. CASE ClockMoves BY <1>6 DEF ClockMoves, TypeOK, Booked
<1>7. CASE Activate BY <1>7 DEF Activate, TypeOK, Booked
<1> QED BY <1>1, <1>2, <1>3, <1>4, <1>5, <1>6, <1>7 DEF VenueNext

\* The main loop's own four variables are all that most of its steps change.
LEMMA TypeOfLoop ==
  ASSUME TypeOK,
         market' \in States, retry' \in BOOLEAN,
         update' \in {"none", "queued", "taken", "dropped"},
         pc' \in {"idle", "signing", "knocking", "settling", "choosing",
                 "cancelling", "recording"},
         UNCHANGED <<rows, signatures, signed, before, outcome, kept, status, sent,
                     stamp, resting, pushed, door, clock>>
  PROVE  TypeOK'
<1>1. Booked' = Booked BY DEF Booked
<1>2. market' \in States /\ {retry, door}' \subseteq BOOLEAN BY DEF TypeOK
<1> HIDE DEF States
<1>3. QED BY <1>1, <1>2 DEF TypeOK

\* So does considering the market.
LEMMA TypeConsider == TypeOK /\ ConsiderNext => TypeOK'
<1> SUFFICES ASSUME TypeOK, ConsiderNext PROVE TypeOK' OBVIOUS
<1>1. CASE TooLate
  <2>1. market' \in States
    BY <1>1 DEF TooLate, TypeOK, States
  <2>2. /\ retry' = FALSE /\ update' = "taken" /\ pc' = pc
        /\ UNCHANGED <<rows, signatures, signed, before, outcome, kept, status, sent,
                       stamp, resting, pushed, door, clock>>
    BY <1>1 DEF TooLate, Take
  <2>3. pc \in {"idle", "signing", "knocking", "settling", "choosing",
               "cancelling", "recording"}
    BY DEF TypeOK
  <2>4. QED
    BY <2>1, <2>2, <2>3, TypeOfLoop
<1>2. CASE NothingToDo BY <1>2 DEF NothingToDo, Take, TypeOK, Booked
<1>3. CASE OverLimit BY <1>3 DEF OverLimit, TypeOK, Booked
<1>4. CASE Skip
  <2>1. /\ market' = "skipped" /\ retry' = FALSE
        /\ update' = "taken" /\ pc' = "idle"
        /\ UNCHANGED <<rows, signatures, signed, before, outcome, kept, status, sent,
                       stamp, resting, pushed, door, clock>>
    BY <1>4 DEF Skip, Take
  <2>2. QED
    BY <2>1, TypeOfLoop DEF States
<1>5. CASE Begin
  <2>1. outcome' \in [Accounts -> Outcomes]
    BY <1>5, OutcomeTypes DEF Begin
  <2>2. /\ market' \in States /\ update' = "taken" /\ pc' = "signing"
        /\ kept' = Unkept /\ status' \in [Orders -> Statuses]
    BY <1>5 DEF Begin, Take, TypeOK, States, Statuses
  <2>3. UNCHANGED <<rows, retry, signatures, signed, before, sent, stamp,
                    resting, pushed, door, clock>>
    BY <1>5 DEF Begin
  <2> QED BY <2>1, <2>2, <2>3 DEF TypeOK, Unkept, Booked
<1> QED BY <1>1, <1>2, <1>3, <1>4, <1>5 DEF ConsiderNext

\* So do signing and the knock.
LEMMA TypeKnock == TypeOK /\ KnockNext => TypeOK'
<1> SUFFICES ASSUME TypeOK, KnockNext PROVE TypeOK' OBVIOUS
<1>1. CASE Sign
  <2>1. PICK answers \in [Accounts -> {"kept", "signed", "not ready", "raises"}] :
          /\ \A a \in Accounts : MayAnswer(a, answers[a])
          /\ outcome' = [a \in Accounts |-> SignStep(a, answers[a])]
          /\ signatures' = [a \in Accounts |->
                              IF answers[a] = "signed" THEN signatures[a] + 1
                              ELSE signatures[a]]
          /\ signed' = [a \in Accounts |->
                          IF answers[a] = "signed" THEN signatures[a] + 1
                          ELSE signed[a]]
    BY <1>1 DEF Sign
  <2>2. outcome' \in [Accounts -> Outcomes]
    <3>1. ASSUME NEW a \in Accounts PROVE SignStep(a, answers[a]) \in Outcomes
      <4>1. answers[a] \in {"kept", "signed", "not ready", "raises"} OBVIOUS
      <4>2. [NotTried EXCEPT !.kind = "ready"] \in Outcomes BY OutcomeTypes
      <4>3. Result({}, TRUE, FALSE) \in Outcomes BY OutcomeTypes
      <4>4. Raised \in Outcomes BY OutcomeTypes
      <4> QED BY <4>1, <4>2, <4>3, <4>4 DEF SignStep
    <3> QED BY <2>1, <3>1
  <2>3. /\ signatures' \in [Accounts -> 0..MaxSign]
        /\ signed' \in [Accounts -> 0..MaxSign]
    <3>1. ASSUME NEW a \in Accounts, answers[a] = "signed"
          PROVE  signatures[a] + 1 \in 0..MaxSign
      <4>1. signatures[a] < MaxSign BY <2>1, <3>1 DEF MayAnswer
      <4>2. signatures[a] \in 0..MaxSign BY DEF TypeOK
      <4>3. MaxSign \in Nat BY PlacementAssumption
      <4> QED BY <4>1, <4>2, <4>3, OneMore
    <3>2. \A a \in Accounts : signatures[a] \in 0..MaxSign
                             /\ signed[a] \in 0..MaxSign
      BY DEF TypeOK
    <3> QED BY <2>1, <3>1, <3>2
  <2>4. sent' \subseteq Orders
    <3>1. \A a, g : SignedOrders(a, g) \subseteq Orders BY DEF SignedOrders
    <3>2. sent \subseteq Orders BY DEF TypeOK
    <3>3. PICK ready :
            sent' = sent \cup UNION {SignedOrders(a, signed'[a]) : a \in ready}
      BY <1>1 DEF Sign
    <3>4. ASSUME NEW o \in sent', o \notin sent PROVE o \in Orders
      <4>1. PICK a \in ready : o \in SignedOrders(a, signed'[a])
        BY <3>3, <3>4
      <4> QED BY <4>1, <3>1
    <3> QED BY <3>2, <3>4
  <2>5. /\ pc' \in {"choosing", "knocking"}
        /\ UNCHANGED <<market, rows, update, retry, before, kept, status,
                       stamp, resting, pushed, door, clock>>
    BY <1>1 DEF Sign
  <2>6. Booked' = Booked BY <2>5 DEF Booked
  <2> QED BY <2>2, <2>3, <2>4, <2>5, <2>6 DEF TypeOK
<1>2. CASE PlaceRaises
  <2>1. /\ market' \in States /\ retry' \in BOOLEAN
        /\ update' = update /\ pc' = "idle"
        /\ UNCHANGED <<rows, signatures, signed, before, outcome, kept, status, sent,
                       stamp, resting, pushed, door, clock>>
    BY <1>2 DEF PlaceRaises, TypeOK, States
  <2>2. update \in {"none", "queued", "taken", "dropped"}
    BY DEF TypeOK
  <2>3. QED
    BY <2>1, <2>2, TypeOfLoop
<1>3. CASE KnockReturns
  <2>1. outcome' \in [Accounts -> Outcomes]
    <3>1. PICK results \in [Accounts -> UNION {KnockResults(a) : a \in Accounts}] :
            /\ \A a \in Accounts : results[a] \in KnockResults(a)
            /\ outcome' = [a \in Accounts |->
                             IF outcome[a].kind = "ready" THEN results[a]
                             ELSE outcome[a]]
      BY <1>3 DEF KnockReturns
    <3>2. \A a \in Accounts : results[a] \in Outcomes
      BY <3>1, KnockResultTypes
    <3> QED BY <3>1, <3>2 DEF TypeOK
  <2>2. /\ pc' = "settling"
        /\ UNCHANGED <<market, rows, update, retry, signatures, signed, before, kept,
                       status, sent, stamp, resting, pushed, door,
                       clock>>
    BY <1>3 DEF KnockReturns
  <2> QED BY <2>1, <2>2 DEF TypeOK, Booked
<1>4. CASE KnockRaises
  <2>1. outcome' \in [Accounts -> Outcomes]
    BY <1>4, OutcomeTypes DEF KnockRaises, TypeOK
  <2>2. /\ pc' = "settling"
        /\ UNCHANGED <<market, rows, update, retry, signatures, signed, before, kept,
                       status, sent, stamp, resting, pushed, door,
                       clock>>
    BY <1>4 DEF KnockRaises
  <2> QED BY <2>1, <2>2 DEF TypeOK, Booked
<1> QED BY <1>1, <1>2, <1>3, <1>4 DEF KnockNext

\* A cancel call takes orders off the book's rest, and puts none there.
LEMMA CancelsOnlyTake ==
  ASSUME NEW orders, NEW gone, resting \subseteq Booked,
         CancelRaises(orders) \/ CancelReturns(orders, gone)
  PROVE  resting' \subseteq resting
BY DEF CancelRaises, CancelReturns

\* Forgetting a pair keeps the signatures' type.
LEMMA ForgetKeepsType ==
  ASSUME TypeOK, NEW a \in Accounts, Forget(a) \/ UNCHANGED signed
  PROVE  signed' \in [Accounts -> 0..MaxSign]
<1>1. MaxSign \in Nat BY PlacementAssumption
<1>2. 0 \in 0..MaxSign BY <1>1
<1>3. signed \in [Accounts -> 0..MaxSign] BY DEF TypeOK
<1>4. CASE UNCHANGED signed BY <1>3, <1>4
<1>5. CASE Forget(a)
  <2>1. signed' = [signed EXCEPT ![a] = 0] BY <1>5 DEF Forget
  <2> QED BY <1>2, <1>3, <2>1
<1> QED BY <1>4, <1>5

\* What a settled member's part becomes, and that a cancel only takes.
LEMMA TypeSettling ==
  ASSUME TypeOK, NEW a \in Accounts,
         Settle(a) \/ Reconcile(a)
  PROVE  /\ outcome' \in [Accounts -> Outcomes]
         /\ signed' \in [Accounts -> 0..MaxSign]
         /\ resting' \subseteq resting
<1> DEFINE o == outcome[a]
<1>1. /\ outcome \in [Accounts -> Outcomes] /\ o \in Outcomes
      /\ resting \subseteq Booked
  BY DEF TypeOK
<1>2. /\ o.orders \in SUBSET Orders /\ o.gaveUp \in BOOLEAN
      /\ {} \in SUBSET Orders
  BY <1>1 DEF Outcomes
<1>3. CASE SettleWhole(a)
  <2>1. /\ outcome' = [outcome EXCEPT ![a] = Result(o.orders, FALSE, FALSE)]
        /\ Forget(a) /\ UNCHANGED resting
    BY <1>3 DEF SettleWhole
  <2>2. Result(o.orders, FALSE, FALSE) \in Outcomes BY <1>2, OutcomeTypes
  <2> HIDE DEF o
  <2> QED BY <1>1, <2>1, <2>2, ForgetKeepsType
<1>4. CASE SettlePart(a)
  <2>1. PICK gone : CancelRaises(o.orders) \/ CancelReturns(o.orders, gone)
    BY <1>4 DEF SettlePart
  <2>2. resting' \subseteq resting BY <1>1, <2>1, CancelsOnlyTake
  <2>3. Forget(a) \/ UNCHANGED signed BY <1>4 DEF SettlePart
  <2>4. PICK u \in Outcomes : outcome' = [outcome EXCEPT ![a] = u]
    <3>1. Result(o.orders, FALSE, FALSE) \in Outcomes BY <1>2, OutcomeTypes
    <3>2. [o EXCEPT !.kind = "raised"] \in Outcomes BY <1>1, OutcomeTypes
    <3>3. \/ outcome' = [outcome EXCEPT ![a] = Result(o.orders, FALSE, FALSE)]
          \/ outcome' = [outcome EXCEPT ![a] = [o EXCEPT !.kind = "raised"]]
      BY <1>4 DEF SettlePart
    <3> HIDE DEF o
    <3> QED BY <3>1, <3>2, <3>3
  <2> HIDE DEF o
  <2> QED BY <1>1, <1>4, <2>2, <2>3, <2>4, ForgetKeepsType
<1>5. CASE SettleNone(a)
  <2>1. (Forget(a) \/ UNCHANGED signed) /\ UNCHANGED resting
    BY <1>5 DEF SettleNone
  <2>2. PICK u \in Outcomes : outcome' = [outcome EXCEPT ![a] = u]
    <3>1. Result({}, FALSE, o.gaveUp) \in Outcomes BY <1>2, OutcomeTypes
    <3>2. /\ [o EXCEPT !.kind = "raised"] \in Outcomes
          /\ [o EXCEPT !.kind = "ambiguous"] \in Outcomes
      BY <1>1, OutcomeTypes
    <3>3. \/ outcome' = [outcome EXCEPT ![a] = Result({}, FALSE, o.gaveUp)]
          \/ outcome' = [outcome EXCEPT ![a] = [o EXCEPT !.kind = "raised"]]
          \/ outcome' = [outcome EXCEPT ![a] = [o EXCEPT !.kind = "ambiguous"]]
      BY <1>5 DEF SettleNone
    <3> HIDE DEF o
    <3> QED BY <3>1, <3>2, <3>3
  <2> HIDE DEF o
  <2> QED BY <1>1, <2>1, <2>2, ForgetKeepsType
<1>6. ASSUME NEW seen \in SUBSET {p \in resting : p.account = a},
             ReadBack(a, seen)
      PROVE  /\ outcome' \in [Accounts -> Outcomes]
             /\ Forget(a) \/ UNCHANGED signed
             /\ resting' \subseteq resting
  <2>1. Booked \subseteq Orders
    BY DEF Booked
  <2>2. seen \in SUBSET Orders BY <1>1, <2>1
  <2>3. /\ Result(seen, FALSE, FALSE) \in Outcomes
        /\ Result({}, TRUE, FALSE) \in Outcomes
        /\ Result({}, FALSE, FALSE) \in Outcomes
    BY <2>2, <1>2, OutcomeTypes
  <2>4. CASE UNCHANGED resting
    BY <1>1, <1>6, <2>3, <2>4 DEF ReadBack
  <2>5. ASSUME NEW gone, CancelRaises(seen) \/ CancelReturns(seen, gone)
        PROVE  resting' \subseteq resting
    BY <1>1, <2>5, CancelsOnlyTake
  <2> QED BY <1>1, <1>6, <2>3, <2>5 DEF ReadBack
<1>7. CASE Reconcile(a)
  <2>1. CASE ReadFails(a)
    <3>1. Result({}, TRUE, FALSE) \in Outcomes BY <1>2, OutcomeTypes
    <3> QED BY <1>1, <2>1, <3>1, ForgetKeepsType DEF ReadFails
  <2>2. CASE ~ReadFails(a)
    <3>1. PICK seen \in SUBSET {p \in resting : p.account = a} :
            ReadBack(a, seen)
      BY <1>7, <2>2 DEF Reconcile
    <3> QED BY <1>6, <3>1, ForgetKeepsType
  <2> QED BY <2>1, <2>2
<1> QED BY <1>3, <1>4, <1>5, <1>7 DEF Settle

\* Settling, choosing and cancelling keep the types.
LEMMA TypeSettle == TypeOK /\ SettleNext => TypeOK'
<1> SUFFICES ASSUME TypeOK, SettleNext PROVE TypeOK' OBVIOUS
<1>1. CASE Settled BY <1>1 DEF Settled, TypeOK, Booked
<1>2. CASE Choose
  <2>1. kept' \in [member : Accounts \cup {None}, by : {"none", "venue", "reply"}]
    BY <1>2 DEF Choose, Choice, Tickets, Unkept
  <2> QED BY <1>2, <2>1 DEF Choose, TypeOK, Booked
<1>3. CASE Cancelled BY <1>3 DEF Cancelled, TypeOK, Booked
<1>4. ASSUME NEW a \in Accounts, Settle(a) \/ Reconcile(a) PROVE TypeOK'
  <2>1. /\ outcome' \in [Accounts -> Outcomes]
        /\ signed' \in [Accounts -> 0..MaxSign]
        /\ resting' \subseteq resting
    BY <1>4, TypeSettling
  <2>2. UNCHANGED <<market, rows, update, retry, pc, signatures, before, kept,
                    status,
                    sent, stamp, pushed, door, clock>>
    BY <1>4 DEF Settle, Reconcile
  <2>3. Booked' = Booked BY <2>2 DEF Booked
  <2> QED BY <2>1, <2>2, <2>3 DEF TypeOK
<1>5. ASSUME NEW a \in Accounts, CancelLaggard(a) PROVE TypeOK'
  <2>1. PICK gone, over :
          /\ CancelRaises(outcome[a].orders)
               \/ CancelReturns(outcome[a].orders, gone)
          /\ status' = Answered(outcome[a].orders, gone, over)
    BY <1>5 DEF CancelLaggard
  <2>5. status' \in [Orders -> Statuses]
    <3>1. \A o \in Orders : status[o] \in Statuses
      BY DEF TypeOK
    <3>2. QED
      BY <2>1, <3>1 DEF Answered, Statuses
  <2>2. resting' \subseteq resting BY <2>1, CancelsOnlyTake DEF TypeOK
  <2>3. UNCHANGED <<market, rows, update, retry, pc, signatures, signed, before,
                    outcome, kept, sent, stamp, pushed, door, clock>>
    BY <1>5 DEF CancelLaggard
  <2>4. Booked' = Booked BY <2>3 DEF Booked
  <2> QED BY <2>2, <2>3, <2>4, <2>5 DEF TypeOK
<1> QED BY <1>1, <1>2, <1>3, <1>4, <1>5 DEF SettleNext

\* Writing the rows and the state keeps the types.
LEMMA TypeRecord == TypeOK /\ RecordNext => TypeOK'
<1> SUFFICES ASSUME TypeOK, RecordNext PROVE TypeOK' OBVIOUS
<1>1. CASE Activated
  <2>1. market' \in States /\ retry' = FALSE /\ pc' = "idle"
    BY <1>1 DEF Activated, Recorded, States
  <2>2. UNCHANGED <<rows, update, signatures, signed, before, outcome, kept, status,
                    sent, stamp, resting, pushed, door, clock>>
    BY <1>1 DEF Activated
  <2>3. update \in {"none", "queued", "taken", "dropped"}
    BY DEF TypeOK
  <2>4. QED
    BY <2>1, <2>2, <2>3, TypeOfLoop
<1>2. CASE Fails
  <2>1. market' \in States /\ retry' = FALSE /\ pc' = "idle"
    BY <1>2 DEF Fails, Recorded, States
  <2>2. UNCHANGED <<rows, update, signatures, signed, before, outcome, kept, status,
                    sent, stamp, resting, pushed, door, clock>>
    BY <1>2 DEF Fails
  <2>3. update \in {"none", "queued", "taken", "dropped"}
    BY DEF TypeOK
  <2>4. QED
    BY <2>1, <2>2, <2>3, TypeOfLoop
<1>3. CASE Requeue
  <2>1. market' \in States
    BY <1>3 DEF Requeue, TypeOK, States
  <2>2. /\ retry' = TRUE /\ update' = "queued" /\ pc' = "idle"
        /\ UNCHANGED <<rows, signatures, signed, before, outcome, kept, status, sent,
                       stamp, resting, pushed, door, clock>>
    BY <1>3 DEF Requeue, Recorded
  <2>3. QED
    BY <2>1, <2>2, TypeOfLoop
<1>4. ASSUME NEW o \in Orders, RecordOrder(o) PROVE TypeOK'
  <2>1. rows' \in [Orders -> Statuses]
    <3>1. status[o] \in Statuses /\ "open" \in Statuses
      BY DEF TypeOK, Statuses
    <3> QED BY <1>4, <3>1 DEF RecordOrder, TypeOK
  <2> QED BY <1>4, <2>1 DEF RecordOrder, TypeOK, Booked
<1> QED BY <1>1, <1>2, <1>3, <1>4 DEF RecordNext

\* So do adoption and a restart: every step keeps the types.
LEMMA TypeStep == TypeOK /\ [Next]_vars => TypeOK'
<1> SUFFICES ASSUME TypeOK, [Next]_vars PROVE TypeOK' OBVIOUS
<1>1. CASE UNCHANGED vars BY <1>1 DEF vars, TypeOK, Booked
<1>2. CASE LoopNext
  BY <1>2, TypeConsider, TypeKnock, TypeSettle, TypeRecord DEF LoopNext
<1>3. CASE VenueNext \/ ClockMoves \/ Activate BY <1>3, TypeVenue
<1>4. CASE Restart
  <2>1. /\ signed' \in [Accounts -> 0..MaxSign]
        /\ before' \in [Accounts -> 0..MaxSign]
        /\ outcome' \in [Accounts -> Outcomes]
        /\ status' \in [Orders -> Statuses]
    <3>1. 0 \in 0..MaxSign BY PlacementAssumption
    <3> QED BY <1>4, <3>1, OutcomeTypes DEF Restart, Statuses, TypeOK
  <2>2. /\ kept' = Unkept /\ pc' = "idle" /\ update' = "none"
        /\ retry' = FALSE
        /\ clock' \in {"early", "budget", "ended"}
        /\ UNCHANGED <<market, rows, signatures, sent, stamp, resting, pushed,
                      door>>
    BY <1>4 DEF Restart, TypeOK
  <2>3. Booked' = Booked BY <2>2 DEF Booked
  <2> QED BY <2>1, <2>2, <2>3 DEF TypeOK, Unkept
<1>5. ASSUME NEW o \in Orders, Adopt(o) PROVE TypeOK'
  BY <1>5 DEF Adopt, TypeOK, Statuses, Booked
<1> QED BY <1>1, <1>2, <1>3, <1>4, <1>5 DEF Next

\* The initial state is of the declared types.
LEMMA TypeInit == Init => TypeOK
<1> SUFFICES ASSUME Init PROVE TypeOK OBVIOUS
<1>1. 0 \in 0..MaxSign BY PlacementAssumption
<1>2. stamp \in [Orders -> Nat] /\ Booked = {} BY DEF Init, Booked
<1>3. outcome \in [Accounts -> Outcomes] BY OutcomeTypes DEF Init
<1>4. /\ signatures \in [Accounts -> 0..MaxSign]
      /\ signed \in [Accounts -> 0..MaxSign]
      /\ before \in [Accounts -> 0..MaxSign]
      /\ rows \in [Orders -> Statuses] /\ status \in [Orders -> Statuses]
  BY <1>1 DEF Init, Statuses
<1>5. /\ market \in States /\ kept \in [member : Accounts \cup {None},
                                         by : {"none", "venue", "reply"}]
      /\ update = "none" /\ pc = "idle" /\ clock = "early"
      /\ retry = FALSE /\ door = FALSE
      /\ sent = {} /\ resting = {} /\ pushed = {}
  BY DEF Init, States, Unkept
<1> QED BY <1>2, <1>3, <1>4, <1>5 DEF TypeOK

\* The state of an entry is always of the declared types (service.py:799-1286,
\* fleet.py, exchange.py).
THEOREM TypeCorrect == Spec => []TypeOK
<1> QED BY TypeInit, TypeStep, PTL DEF Spec

----------------------------------------------------------------------------
(***************************************************************************)
(* A market is decided once, crashes or not.                               *)
(***************************************************************************)
\* Every step keeps the retry and the state in agreement: a retry is left
\* only for a market put off, and a placement runs only for one taken up.
LEMMA RetryStep == RetryMatches /\ [Next]_vars => RetryMatches'
<1> SUFFICES ASSUME RetryMatches, [Next]_vars PROVE RetryMatches' OBVIOUS
<1>1. CASE UNCHANGED <<market, retry, pc>> BY <1>1 DEF RetryMatches
<1>2. CASE ConsiderNext
  BY <1>2 DEF ConsiderNext, TooLate, NothingToDo, OverLimit, Skip, Begin, Take,
              RetryMatches
<1>3. CASE KnockNext
  <2>1. \/ UNCHANGED <<market, retry>> /\ pc # "idle"
        \/ retry' = FALSE /\ pc' = "idle"
    BY <1>3 DEF KnockNext, Sign, PlaceRaises, KnockReturns, KnockRaises
  <2> QED BY <2>1 DEF RetryMatches
<1>4. CASE SettleNext
  BY <1>4 DEF SettleNext, Settled, Choose, Cancelled, Settle, Reconcile,
              CancelLaggard, RetryMatches
<1>5. CASE RecordNext
  BY <1>5 DEF RecordNext, Activated, Fails, Requeue, Recorded, RecordOrder,
              RetryMatches
<1>6. CASE Restart BY <1>6 DEF Restart, RetryMatches
<1>7. CASE VenueNext \/ Activate \/ ClockMoves \/ \E o \in Orders : Adopt(o)
  BY <1>1, <1>7 DEF VenueNext, DoorOpens, Register, SendsEnd, Leave, Push,
                    Activate, ClockMoves, Adopt
<1>8. CASE UNCHANGED vars BY <1>1, <1>8 DEF vars
<1> QED BY <1>2, <1>3, <1>4, <1>5, <1>6, <1>7, <1>8 DEF Next, LoopNext

\* A market that was decided, or that a killed process was placing for the
\* first time, is never placed again (database.py:175-188, service.py:809-874):
\* its state stays and nothing is signed for it.
THEOREM PlacedOnce == Spec => NeverPlacedTwice
<1> DEFINE Over == pc = "idle" /\ market \notin {"none", "placement_pending"}
           Still == market' = market /\ signatures' = signatures
<1>1. Init => RetryMatches BY DEF Init, RetryMatches
<1>2. RetryMatches /\ [Next]_vars => (Over => Still)
  <2> SUFFICES ASSUME RetryMatches, [Next]_vars, Over PROVE Still OBVIOUS
  <2>1. ~retry BY DEF RetryMatches
  <2>2. ~CanStart BY DEF CanStart
  <2>3. CASE ConsiderNext
    BY <2>1, <2>2, <2>3 DEF ConsiderNext, TooLate, NothingToDo, OverLimit,
                            Skip, Begin
  <2>4. ~(KnockNext \/ SettleNext)
    BY DEF KnockNext, Sign, PlaceRaises, KnockReturns, KnockRaises, SettleNext,
           Settled, Choose, Cancelled, Settle, Reconcile, CancelLaggard
  <2>5. ~RecordNext
    BY DEF RecordNext, Activated, Fails, Requeue, Recorded, RecordOrder
  <2>6. CASE \/ Restart \/ VenueNext \/ Activate \/ ClockMoves
             \/ \E o \in Orders : Adopt(o)
    BY <2>6 DEF Restart, VenueNext, DoorOpens, Register, SendsEnd, Leave, Push,
                Activate, ClockMoves, Adopt
  <2>7. CASE UNCHANGED vars BY <2>7 DEF vars
  <2> QED BY <2>3, <2>4, <2>5, <2>6, <2>7 DEF Next, LoopNext
<1> QED BY <1>1, <1>2, RetryStep, PTL DEF Spec, NeverPlacedTwice

----------------------------------------------------------------------------
(***************************************************************************)
(* In a process that is not killed, the entry keeps its plan.              *)
(***************************************************************************)
\* Outside a restart a market put off stays under retry.
LEMMA PutOffStep ==
  ASSUME RetryMatches, PutOffIsRetried, [Next]_vars, ~Restart
  PROVE  PutOffIsRetried'
<1>1. CASE UNCHANGED <<market, retry>> BY <1>1 DEF PutOffIsRetried
<1>2. CASE ConsiderNext
  BY <1>2 DEF ConsiderNext, TooLate, NothingToDo, OverLimit, Skip, Begin,
              PutOffIsRetried
<1>3. CASE KnockNext
  <2>1. UNCHANGED <<market, retry>> \/ market' = "error"
    BY <1>3 DEF KnockNext, Sign, PlaceRaises, KnockReturns, KnockRaises
  <2> QED BY <2>1 DEF PutOffIsRetried
<1>4. CASE SettleNext
  BY <1>1, <1>4 DEF SettleNext, Settled, Choose, Cancelled, Settle, Reconcile,
                    CancelLaggard
<1>5. CASE RecordNext
  BY <1>5 DEF RecordNext, Activated, Fails, Requeue, RecordOrder,
              PutOffIsRetried
<1>6. CASE VenueNext \/ Activate \/ ClockMoves \/ \E o \in Orders : Adopt(o)
  BY <1>1, <1>6 DEF VenueNext, DoorOpens, Register, SendsEnd, Leave, Push,
                    Activate, ClockMoves, Adopt
<1>7. CASE UNCHANGED vars BY <1>1, <1>7 DEF vars
<1> QED BY <1>2, <1>3, <1>4, <1>5, <1>6, <1>7 DEF Next, LoopNext

\* What signing does for one account: it signs only if it never has, and what
\* it sends is its first pair.
LEMMA SignOne ==
  ASSUME TypeOK, SignedOnce, PairIsKept, Sign, NEW a \in Accounts
  PROVE  /\ signatures'[a] <= 1 /\ signed'[a] <= signatures'[a]
         /\ signatures'[a] \in Nat /\ signed'[a] \in Nat
         /\ outcome'[a].kind = "ready" =>
              signed'[a] = 1 /\ signatures'[a] = 1
         /\ outcome'[a].kind = "result" => PairAtHand(a)'
         /\ outcome'[a].kind \notin {"knocked", "ambiguous"}
<1> DEFINE kind   == outcome'[a].kind
           same   == signatures'[a] = signatures[a] /\ signed'[a] = signed[a]
<1>1. \/ kind = "ready" /\ signed[a] # 0 /\ same
      \/ /\ kind = "ready" /\ signed[a] = 0
         /\ signatures'[a] = signatures[a] + 1 /\ signed'[a] = signatures[a] + 1
      \/ kind \in {"result", "raised"} /\ signed[a] = 0 /\ same
  <2>1. PICK answer \in {"kept", "signed", "not ready", "raises"} :
          /\ MayAnswer(a, answer)
          /\ outcome'[a] = SignStep(a, answer)
          /\ signatures'[a] = IF answer = "signed" THEN signatures[a] + 1
                             ELSE signatures[a]
          /\ signed'[a] = IF answer = "signed" THEN signatures[a] + 1
                         ELSE signed[a]
    BY DEF Sign
  <2>2. CASE answer = "kept"
    BY <2>1, <2>2 DEF MayAnswer, SignStep, NotTried
  <2>3. CASE answer = "signed"
    BY <2>1, <2>3 DEF MayAnswer, SignStep, NotTried
  <2>4. CASE answer \in {"not ready", "raises"}
    BY <2>1, <2>4 DEF MayAnswer, SignStep, NotTried, Raised, Result
  <2> QED BY <2>1, <2>2, <2>3, <2>4
<1>2. MaxSign \in Nat BY PlacementAssumption
<1>3. signatures[a] \in Nat /\ signed[a] \in Nat BY <1>2 DEF TypeOK
<1>4. signatures[a] <= 1 /\ signed[a] <= signatures[a] BY DEF SignedOnce
<1>5. signatures[a] = 0 \/ signed[a] = signatures[a]
  BY DEF Sign, PairIsKept, PairAtHand
<1>6. CASE kind = "ready" /\ signed[a] # 0 /\ same
  BY <1>3, <1>4, <1>5, <1>6
<1>7. CASE /\ kind = "ready" /\ signed[a] = 0
           /\ signatures'[a] = signatures[a] + 1
           /\ signed'[a] = signatures[a] + 1
  BY <1>3, <1>4, <1>5, <1>7
<1>8. CASE kind \in {"result", "raised"} /\ signed[a] = 0 /\ same
  BY <1>3, <1>4, <1>5, <1>8 DEF PairAtHand
<1> QED BY <1>1, <1>6, <1>7, <1>8

\* Outside a restart an account signs one pair, and the venue sees no other.
LEMMA SignedStep ==
  ASSUME EntryInv, [Next]_vars, ~Restart
  PROVE  SignedOnce'
<1> USE DEF EntryInv
<1>1. ASSUME NEW a \in Accounts
      PROVE  /\ signatures[a] \in Nat /\ signed[a] \in Nat
             /\ signatures[a] <= 1 /\ signed[a] <= signatures[a]
  <2>1. MaxSign \in Nat BY PlacementAssumption
  <2> QED BY <2>1 DEF TypeOK, SignedOnce
<1>2. CASE /\ UNCHANGED <<signatures, signed, before, sent, stamp>>
           /\ market' = market \/ market' # "none"
  BY <1>2 DEF SignedOnce, Booked
<1>3. CASE ConsiderNext
  BY <1>2, <1>3 DEF ConsiderNext, TooLate, NothingToDo, OverLimit, Skip, Begin
<1>4. CASE Sign
  <2>1. \A a \in Accounts : signatures'[a] <= 1 /\ signed'[a] <= signatures'[a]
    BY <1>4, SignOne
  <2>2. \A o \in sent' : o \in sent \/ o.gen = 1
    <3>1. sent' = sent \cup UNION {SignedOrders(a, signed'[a]) :
                     a \in {b \in Accounts : outcome'[b].kind = "ready"}}
      BY <1>4 DEF Sign
    <3>2. \A a \in Accounts : outcome'[a].kind = "ready" => signed'[a] = 1
      BY <1>4, SignOne
    <3> QED BY <3>1, <3>2 DEF SignedOrders
  <2>3. UNCHANGED <<market, stamp>> /\ market # "none"
    BY <1>4 DEF Sign, RetryMatches
  <2> QED BY <2>1, <2>2, <2>3 DEF SignedOnce, Booked
<1>5. CASE PlaceRaises \/ KnockReturns \/ KnockRaises
  BY <1>2, <1>5 DEF PlaceRaises, KnockReturns, KnockRaises
<1>6. CASE Settled \/ Choose \/ Cancelled
  BY <1>2, <1>6 DEF Settled, Choose, Cancelled
<1>7. ASSUME NEW a \in Accounts, CancelLaggard(a) PROVE SignedOnce'
  BY <1>2, <1>7 DEF CancelLaggard
<1>8. ASSUME NEW a \in Accounts, Settle(a) \/ Reconcile(a) PROVE SignedOnce'
  <2>1. UNCHANGED <<signatures, sent, stamp, market>>
    BY <1>8 DEF Settle, Reconcile
  <2>2. signed' = [signed EXCEPT ![a] = 0] \/ signed' = signed
    BY <1>8 DEF Settle, Reconcile, SettleWhole, SettlePart, SettleNone,
                ReadBack, ReadFails, Forget
  <2>3. \A b \in Accounts : signed'[b] = signed[b] \/ signed'[b] = 0
    <3>1. signed \in [Accounts -> 0..MaxSign] BY DEF TypeOK
    <3> QED BY <2>2, <3>1
  <2>4. \A b \in Accounts : signatures'[b] <= 1 /\ signed'[b] <= signatures'[b]
    BY <1>1, <2>1, <2>3
  <2> QED BY <2>1, <2>4 DEF SignedOnce, Booked
<1>9. CASE RecordNext
  BY <1>2, <1>9 DEF RecordNext, Activated, Fails, Requeue, RecordOrder
<1>10. ASSUME NEW o \in Orders, Register(o) PROVE SignedOnce'
  <2>1. Booked' = Booked \cup {o} BY <1>10, BookGrows
  <2>2. o \in sent /\ UNCHANGED <<sent, signatures, signed, before, market>>
    BY <1>10 DEF Register
  <2> QED BY <2>1, <2>2 DEF SignedOnce
<1>11. ASSUME NEW o \in Orders, SendsEnd(o) PROVE SignedOnce'
  BY <1>11 DEF SendsEnd, SignedOnce, Booked
<1>12. ASSUME NEW o \in Orders, Leave(o) \/ Push(o) \/ Adopt(o)
       PROVE  SignedOnce'
  BY <1>2, <1>12 DEF Leave, Push, Adopt
<1>13. CASE DoorOpens \/ Activate \/ ClockMoves
  BY <1>2, <1>13 DEF DoorOpens, Activate, ClockMoves
<1>14. CASE UNCHANGED vars BY <1>2, <1>14 DEF vars
<1> QED
  BY <1>3, <1>4, <1>5, <1>6, <1>7, <1>8, <1>9, <1>10, <1>11, <1>12, <1>13,
     <1>14
     DEF Next, LoopNext, KnockNext, SettleNext, VenueNext

\* Outside a restart the pair an account signed is at hand wherever the market
\* can be taken up again, and wherever its sends may still register.
LEMMA PairStep ==
  ASSUME EntryInv, [Next]_vars, ~Restart
  PROVE  PairIsKept'
<1> USE DEF EntryInv
<1>1. CASE UNCHANGED <<pc, market, signatures, signed, before, outcome>>
  BY <1>1 DEF PairIsKept, PairAtHand
<1>2. ASSUME pc' = "idle", UNCHANGED <<signatures, signed>>,
             market' \notin {"none", "placement_pending"}
      PROVE  PairIsKept'
  BY <1>2 DEF PairIsKept
<1>3. CASE TooLate \/ NothingToDo \/ OverLimit \/ Skip
  <2>1. UNCHANGED <<signatures, signed, before, outcome>> /\ pc' = "idle" /\ pc = "idle"
    BY <1>3 DEF TooLate, NothingToDo, OverLimit, Skip, Take, tryVars
  <2>2. market' = market \/ market' \in {"expired", "skipped"}
    BY <1>3 DEF TooLate, NothingToDo, OverLimit, Skip
  <2> QED BY <1>1, <1>2, <2>1, <2>2
<1>4. CASE Begin
  <2>1. /\ UNCHANGED <<signatures, signed>> /\ pc' = "signing" /\ pc = "idle"
        /\ market \in {"none", "placement_pending"}
    BY <1>4 DEF Begin, Take, CanStart
  <2> QED BY <2>1 DEF PairIsKept, PairAtHand
<1>5. CASE Sign
  <2>1. pc' \in {"choosing", "knocking"} BY <1>5 DEF Sign
  <2>2. \A a \in Accounts :
          /\ outcome'[a].kind = "ready" => signed'[a] = signatures'[a]
          /\ outcome'[a].kind = "result" => PairAtHand(a)'
          /\ outcome'[a].kind \notin {"knocked", "ambiguous"}
    <3> TAKE a \in Accounts
    <3> QED BY <1>5, SignOne
  <2> QED BY <2>1, <2>2 DEF PairIsKept
<1>6. CASE PlaceRaises
  BY <1>2, <1>6 DEF PlaceRaises
<1>7. CASE KnockReturns \/ KnockRaises
  <2>1. /\ pc = "knocking" /\ pc' = "settling"
        /\ UNCHANGED <<signatures, signed>>
    BY <1>7 DEF KnockReturns, KnockRaises
  <2>2. ASSUME NEW a \in Accounts
        PROVE  \/ outcome[a].kind = "ready"
                  /\ outcome'[a].kind \in {"knocked", "raised"}
               \/ outcome'[a] = outcome[a]
    <3>1. CASE KnockReturns
      <4>1. PICK results \in [Accounts -> UNION {KnockResults(b) : b \in Accounts}] :
              /\ \A b \in Accounts : results[b] \in KnockResults(b)
              /\ outcome' = [b \in Accounts |->
                               IF outcome[b].kind = "ready" THEN results[b]
                               ELSE outcome[b]]
        BY <3>1 DEF KnockReturns
      <4>2. results[a].kind = "knocked" BY <4>1 DEF KnockResults
      <4> QED BY <4>1, <4>2
    <3>2. CASE KnockRaises BY <3>2 DEF KnockRaises, Raised, NotTried
    <3> QED BY <1>7, <3>1, <3>2
  <2> QED BY <2>1, <2>2 DEF PairIsKept, PairAtHand
<1>8. CASE Settled \/ Choose \/ Cancelled
  BY <1>8 DEF Settled, Choose, Cancelled, PairIsKept, PairAtHand
<1>9. ASSUME NEW a \in Accounts, CancelLaggard(a) PROVE PairIsKept'
  BY <1>1, <1>9 DEF CancelLaggard
<1>10. ASSUME NEW a \in Accounts, Settle(a) \/ Reconcile(a) PROVE PairIsKept'
  <2>1. /\ pc = "settling" /\ UNCHANGED <<pc, signatures>>
        /\ outcome[a].kind \in {"knocked", "ambiguous"}
    BY <1>10 DEF Settle, Reconcile
  <2>2. signed[a] = signatures[a] BY <2>1 DEF PairIsKept
  <2>3. \A b \in Accounts : b # a => signed'[b] = signed[b]
                                     /\ outcome'[b] = outcome[b]
    <3>1. signed \in [Accounts -> 0..MaxSign] /\ outcome \in [Accounts -> Outcomes]
      BY DEF TypeOK
    <3> QED
      BY <1>10, <3>1 DEF Settle, Reconcile, SettleWhole, SettlePart, SettleNone,
                         ReadBack, ReadFails, Forget
  <2>4. \/ signed'[a] = signed[a]
        \/ outcome'[a].kind = "result" /\ ~outcome'[a].retryable
    <3>1. outcome \in [Accounts -> Outcomes] BY DEF TypeOK
    <3>2. \A S, g : /\ Result(S, FALSE, g).kind = "result"
                   /\ ~Result(S, FALSE, g).retryable
      BY DEF Result, NotTried
    <3>3. ASSUME NEW S, NEW g, outcome' = [outcome EXCEPT ![a] = Result(S, FALSE, g)]
          PROVE  outcome'[a].kind = "result" /\ ~outcome'[a].retryable
      BY <3>1, <3>2, <3>3
    <3>4. CASE SettleWhole(a) BY <3>3, <3>4 DEF SettleWhole
    <3>5. CASE SettlePart(a) BY <3>3, <3>5 DEF SettlePart
    <3>6. CASE SettleNone(a) BY <3>3, <3>6 DEF SettleNone
    <3>7. ASSUME NEW seen, ReadBack(a, seen)
          PROVE  \/ UNCHANGED signed
                 \/ outcome'[a].kind = "result" /\ ~outcome'[a].retryable
      BY <3>3, <3>7 DEF ReadBack
    <3>8. CASE ReadFails(a) BY <3>8 DEF ReadFails
    <3> QED
      BY <1>10, <3>4, <3>5, <3>6, <3>7, <3>8 DEF Settle, Reconcile
  <2> QED BY <2>1, <2>2, <2>3, <2>4 DEF PairIsKept, PairAtHand
<1>11. CASE Activated \/ Fails
  BY <1>2, <1>11 DEF Activated, Fails, Recorded
<1>12. CASE Requeue
  <2>1. /\ pc = "recording" /\ pc' = "idle" /\ UNCHANGED <<signatures, signed>>
    BY <1>12 DEF Requeue, Recorded
  <2>2. \A a \in Accounts : outcome[a].kind = "result" /\ outcome[a].retryable
    BY <1>12 DEF Requeue, Retryable, Empty
  <2> QED BY <2>1, <2>2 DEF PairIsKept, PairAtHand
<1>13. ASSUME NEW o \in Orders,
              RecordOrder(o) \/ Register(o) \/ SendsEnd(o) \/ Leave(o)
              \/ Push(o) \/ Adopt(o)
       PROVE  PairIsKept'
  BY <1>1, <1>13 DEF RecordOrder, Register, SendsEnd, Leave, Push, Adopt
<1>14. CASE DoorOpens \/ Activate \/ ClockMoves \/ UNCHANGED vars
  BY <1>1, <1>14 DEF DoorOpens, Activate, ClockMoves, vars
<1> QED
  BY <1>3, <1>4, <1>5, <1>6, <1>7, <1>8, <1>9, <1>10, <1>11, <1>12, <1>13,
     <1>14
     DEF Next, LoopNext, ConsiderNext, KnockNext, SettleNext, RecordNext,
         VenueNext

\* Together they are inductive in a process that is not killed.
LEMMA EntryStep == EntryInv /\ [Next]_vars /\ ~Restart => EntryInv'
BY TypeStep, SignedStep, PairStep, RetryStep, PutOffStep DEF EntryInv

\* They hold at first.
LEMMA EntryInit == Init => EntryInv
<1> SUFFICES ASSUME Init PROVE EntryInv OBVIOUS
<1>1. TypeOK BY TypeInit
<1>2. SignedOnce BY DEF Init, SignedOnce, Booked
<1>3. PairIsKept BY DEF Init, PairIsKept, PairAtHand
<1>4. RetryMatches /\ PutOffIsRetried
  BY DEF Init, RetryMatches, PutOffIsRetried
<1> QED BY <1>1, <1>2, <1>3, <1>4 DEF EntryInv

\* Every step of the entry is a step of the plan, or none.
LEMMA PlanStep ==
  ASSUME EntryInv, [Next]_vars, ~Restart
  PROVE  [Plan!PlanNext]_(Plan!planVars)
<1> USE DEF EntryInv, Plan!planVars
<1>1. CASE UNCHANGED <<market, stamp>> BY <1>1 DEF Booked
<1>2. ASSUME UNCHANGED stamp, market \in {"none", "placing", "placement_pending"},
             market' \in {"active", "skipped", "error", "expired"}
      PROVE  Plan!PlanNext
  BY <1>2 DEF Plan!PlanNext, Plan!Decide, Plan!Undecided, Plan!Decided, Booked
<1>3. CASE TooLate \/ NothingToDo \/ OverLimit \/ Skip
  <2>1. UNCHANGED stamp
    BY <1>3 DEF TooLate, NothingToDo, OverLimit, Skip
  <2>2. \/ UNCHANGED market
        \/ /\ market' \in {"expired", "skipped"}
           /\ market \in {"none", "placement_pending"}
    BY <1>3 DEF TooLate, NothingToDo, OverLimit, Skip, CanStart, RetryMatches
  <2> QED BY <1>1, <1>2, <2>1, <2>2
<1>4. CASE Begin
  <2>1. CASE retry BY <1>1, <1>4, <2>1 DEF Begin
  <2>2. CASE ~retry
    <3>1. market = "none" /\ market' = "placing" /\ UNCHANGED stamp
      BY <1>4, <2>2 DEF Begin, CanStart, PutOffIsRetried
    <3> QED BY <3>1 DEF Plan!PlanNext, Plan!TakeUp, Booked
  <2> QED BY <2>1, <2>2
<1>5. CASE Sign \/ KnockReturns \/ KnockRaises
  BY <1>1, <1>5 DEF Sign, KnockReturns, KnockRaises
<1>6. CASE PlaceRaises
  BY <1>2, <1>6 DEF PlaceRaises, RetryMatches
<1>7. CASE SettleNext
  BY <1>1, <1>7 DEF SettleNext, Settled, Choose, Cancelled, Settle, Reconcile,
                    CancelLaggard
<1>8. CASE Activated \/ Fails
  BY <1>2, <1>8 DEF Activated, Fails, Recorded, RetryMatches
<1>9. CASE Requeue
  <2>1. CASE retry BY <1>1, <1>9, <2>1 DEF Requeue
  <2>2. CASE ~retry
    <3>1. /\ market = "placing" /\ market' = "placement_pending"
          /\ UNCHANGED stamp
      BY <1>9, <2>2 DEF Requeue, Recorded, RetryMatches, PutOffIsRetried
    <3> QED BY <3>1 DEF Plan!PlanNext, Plan!PutOff, Booked
  <2> QED BY <2>1, <2>2
<1>10. ASSUME NEW o \in Orders, Register(o) PROVE Plan!PlanNext
  <2>1. Booked' = Booked \cup {o} /\ UNCHANGED market
    BY <1>10, BookGrows DEF Register
  <2>2. o \in sent /\ o \notin Booked BY <1>10 DEF Register
  <2>3. market # "none" BY <2>2 DEF SignedOnce
  <2>4. ASSUME NEW p \in Booked PROVE p.account # o.account \/ p.leg # o.leg
    <3>1. p.gen = 1 /\ o.gen = 1 BY <2>2 DEF SignedOnce
    <3>2. p \in Orders BY DEF Booked
    <3> QED BY <2>2, <3>1, <3>2 DEF Orders
  <2> QED BY <2>1, <2>3, <2>4 DEF Plan!PlanNext, Plan!RegisterOnce
<1>11. ASSUME NEW o \in Orders,
              RecordOrder(o) \/ SendsEnd(o) \/ Leave(o) \/ Push(o) \/ Adopt(o)
       PROVE  UNCHANGED <<market, stamp>>
  BY <1>11 DEF RecordOrder, SendsEnd, Leave, Push, Adopt
<1>12. CASE DoorOpens \/ Activate \/ ClockMoves \/ UNCHANGED vars
  BY <1>1, <1>12 DEF DoorOpens, Activate, ClockMoves, vars
<1> QED
  BY <1>1, <1>3, <1>4, <1>5, <1>6, <1>7, <1>8, <1>9, <1>10, <1>11, <1>12
     DEF Next, LoopNext, ConsiderNext, KnockNext, RecordNext, VenueNext

\* However often a market is put off, retried, read back and raced by late
\* registrations, a process that is not killed decides it once, and no account
\* gets a second order of a leg (exchange.py:281-311, 442-457, 602-675).
THEOREM EntryPlanImplemented ==
  ASSUME Crashes = FALSE
  PROVE  Spec => ImplementsEntryPlan
<1>1. ~Restart BY DEF Restart
<1>2. Init => Plan!PlanInit
  BY DEF Init, Plan!PlanInit, Booked
<1>3. EntryInv /\ [Next]_vars => EntryInv'
  BY <1>1, EntryStep
<1>4. EntryInv /\ [Next]_vars => [Plan!PlanNext]_(Plan!planVars)
  BY <1>1, PlanStep
<1> QED
  BY <1>2, <1>3, <1>4, EntryInit, PTL DEF Spec, ImplementsEntryPlan, Plan!PlanSpec

----------------------------------------------------------------------------
(***************************************************************************)
(* What the steps of a try make of a member's part of it.                  *)
(***************************************************************************)
\* After signing, an account is ready, to be tried again, or out of it.
LEMMA SignOutcomes ==
  ASSUME Sign, NEW a \in Accounts
  PROVE  /\ outcome'[a].orders = {}
         /\ outcome'[a].kind \in {"ready", "result", "raised"}
<1>1. PICK answers \in [Accounts -> {"kept", "signed", "not ready", "raises"}] :
        outcome' = [b \in Accounts |-> SignStep(b, answers[b])]
  BY DEF Sign
<1>2. outcome'[a] \in {[NotTried EXCEPT !.kind = "ready"],
                       Result({}, TRUE, FALSE), Raised}
  <2>1. answers[a] \in {"kept", "signed", "not ready", "raises"}
    OBVIOUS
  <2>2. QED
    BY <1>1, <2>1 DEF SignStep
<1>3. QED
  BY <1>2 DEF NotTried, Result, Raised

\* The knock makes something of what was ready, and of nothing else.
LEMMA KnockOutcomes ==
  ASSUME KnockReturns \/ KnockRaises, NEW a \in Accounts
  PROVE  \/ outcome[a].kind # "ready" /\ outcome'[a] = outcome[a]
         \/ /\ outcome[a].kind = "ready"
            /\ outcome'[a].kind = "knocked"
            /\ outcome'[a].orders \subseteq {o \in Booked : o.account = a}
         \/ /\ outcome[a].kind = "ready"
            /\ outcome'[a].kind = "raised" /\ outcome'[a].orders = {}
<1>1. CASE KnockReturns
  <2>1. PICK results \in [Accounts -> UNION {KnockResults(b) : b \in Accounts}] :
          /\ \A b \in Accounts : results[b] \in KnockResults(b)
          /\ outcome' = [b \in Accounts |->
                           IF outcome[b].kind = "ready" THEN results[b]
                           ELSE outcome[b]]
    BY <1>1 DEF KnockReturns
  <2>2. /\ results[a].kind = "knocked"
        /\ results[a].orders \subseteq {o \in Booked : o.account = a}
    BY <2>1 DEF KnockResults, SignedOrders
  <2>3. QED
    BY <2>1, <2>2
<1>2. CASE KnockRaises
  BY <1>2 DEF KnockRaises, Raised, NotTried
<1>3. QED
  BY <1>1, <1>2

\* Settling keeps a member's orders and leaves nothing to retry; it raises
\* over a lone side whose cancel failed, or over nothing at all.
LEMMA SettleOutcomes ==
  ASSUME TypeOK, NEW a \in Accounts, Settle(a)
  PROVE  /\ \A b \in Accounts \ {a} : outcome'[b] = outcome[b]
         /\ outcome[a].kind = "knocked"
         /\ outcome'[a].orders = outcome[a].orders
         /\ outcome'[a].kind \in {"result", "raised", "ambiguous"}
         /\ outcome'[a].kind = "result" => ~outcome'[a].retryable
         /\ outcome'[a].kind = "ambiguous" => ~Fleet /\ outcome[a].orders = {}
         /\ outcome'[a].kind = "raised" =>
              \/ outcome[a].orders = {}
              \/ CancelsFail /\ ~Whole(outcome[a].orders)
         /\ resting' \subseteq resting
<1>1. outcome \in [Accounts -> Outcomes]
  BY DEF TypeOK
<1>2. \A S, g : LET r == Result(S, FALSE, g)
                IN r.kind = "result" /\ ~r.retryable /\ r.orders = S
  BY DEF Result, NotTried
<1>3. ASSUME NEW g, outcome' = [outcome EXCEPT ![a] = Result(@.orders, FALSE, g)]
      PROVE  /\ \A b \in Accounts \ {a} : outcome'[b] = outcome[b]
             /\ outcome'[a].orders = outcome[a].orders
             /\ outcome'[a].kind = "result" /\ ~outcome'[a].retryable
  BY <1>1, <1>2, <1>3
<1>4. ASSUME NEW k, outcome' = [outcome EXCEPT ![a].kind = k]
      PROVE  /\ \A b \in Accounts \ {a} : outcome'[b] = outcome[b]
             /\ outcome'[a].orders = outcome[a].orders
             /\ outcome'[a].kind = k
  BY <1>1, <1>4 DEF Outcomes
<1>5. outcome[a].kind = "knocked"
  BY DEF Settle
<1>6. CASE SettleWhole(a)
  <2>1. outcome' = [outcome EXCEPT ![a] = Result(@.orders, FALSE, FALSE)]
        /\ resting' = resting
    BY <1>6 DEF SettleWhole
  <2>2. QED
    BY <1>3, <1>5, <2>1
<1>7. CASE SettlePart(a)
  <2>1. ~Whole(outcome[a].orders) /\ resting' \subseteq resting
    BY <1>7 DEF SettlePart, CancelReturns, CancelRaises
  <2>2. \/ outcome' = [outcome EXCEPT ![a] = Result(@.orders, FALSE, FALSE)]
        \/ CancelsFail /\ outcome' = [outcome EXCEPT ![a].kind = "raised"]
    BY <1>7 DEF SettlePart, CancelRaises
  <2>3. CASE outcome' = [outcome EXCEPT ![a] = Result(@.orders, FALSE, FALSE)]
    BY <1>3, <1>5, <2>1, <2>3
  <2>4. CASE CancelsFail /\ outcome' = [outcome EXCEPT ![a].kind = "raised"]
    <3>1. /\ \A b \in Accounts \ {a} : outcome'[b] = outcome[b]
          /\ outcome'[a].orders = outcome[a].orders
          /\ outcome'[a].kind = "raised"
      BY ONLY <1>4, <2>4
    <3>2. QED
      BY <1>5, <2>1, <2>4, <3>1
  <2>5. QED
    BY <2>2, <2>3, <2>4
<1>8. CASE SettleNone(a)
  <2>1. outcome[a].orders = {} /\ resting' = resting
    BY <1>8 DEF SettleNone
  <2>2. \/ Fleet /\ outcome' = [outcome EXCEPT ![a].kind = "raised"]
        \/ ~Fleet /\ outcome' = [outcome EXCEPT ![a].kind = "ambiguous"]
        \/ \E g : outcome' = [outcome EXCEPT ![a] = Result(@.orders, FALSE, g)]
    <3>1. CASE outcome[a].ambiguous
      <4>1. outcome' = [outcome EXCEPT ![a].kind =
                          IF Fleet THEN "raised" ELSE "ambiguous"]
        BY <1>8, <3>1 DEF SettleNone
      <4>2. CASE Fleet
        BY <4>1, <4>2
      <4>3. CASE ~Fleet
        BY <4>1, <4>3
      <4>4. QED
        BY <4>2, <4>3
    <3>2. CASE ~outcome[a].ambiguous
      <4>1. outcome' = [outcome EXCEPT ![a] = Result({}, FALSE, @.gaveUp)]
        BY <1>8, <3>2 DEF SettleNone
      <4>2. outcome' = [outcome EXCEPT ![a] = Result({}, FALSE, outcome[a].gaveUp)]
        BY <4>1
      <4>3. outcome' = [outcome EXCEPT
                          ![a] = Result(outcome[a].orders, FALSE, outcome[a].gaveUp)]
        BY <2>1, <4>2
      <4>4. QED
        BY <4>3
    <3>3. QED
      BY <3>1, <3>2
  <2>3. CASE Fleet /\ outcome' = [outcome EXCEPT ![a].kind = "raised"]
    <3>1. /\ \A b \in Accounts \ {a} : outcome'[b] = outcome[b]
          /\ outcome'[a].orders = outcome[a].orders
          /\ outcome'[a].kind = "raised"
      BY ONLY <1>4, <2>3
    <3>2. QED
      BY <1>5, <2>1, <3>1
  <2>4. CASE ~Fleet /\ outcome' = [outcome EXCEPT ![a].kind = "ambiguous"]
    <3>1. /\ \A b \in Accounts \ {a} : outcome'[b] = outcome[b]
          /\ outcome'[a].orders = outcome[a].orders
          /\ outcome'[a].kind = "ambiguous"
      BY ONLY <1>4, <2>4
    <3>2. QED
      BY <1>5, <2>1, <2>4, <3>1
  <2>5. CASE \E g : outcome' = [outcome EXCEPT ![a] = Result(@.orders, FALSE, g)]
    <3>1. PICK g : outcome' = [outcome EXCEPT ![a] = Result(@.orders, FALSE, g)]
      BY <2>5
    <3>2. /\ \A b \in Accounts \ {a} : outcome'[b] = outcome[b]
          /\ outcome'[a].orders = outcome[a].orders
          /\ outcome'[a].kind = "result" /\ ~outcome'[a].retryable
      BY ONLY <1>3, <3>1
    <3>3. QED
      BY <1>5, <2>1, <3>2
  <2>6. QED
    BY <2>2, <2>3, <2>4, <2>5
<1>9. QED
  BY <1>6, <1>7, <1>8 DEF Settle

\* Reading an ambiguous knock back leaves a result: the account's own orders
\* that rest, or none.
LEMMA ReconcileOutcomes ==
  ASSUME TypeOK, NEW a \in Accounts, Reconcile(a)
  PROVE  /\ \A b \in Accounts \ {a} : outcome'[b] = outcome[b]
         /\ outcome[a].kind = "ambiguous"
         /\ outcome'[a].kind = "result"
         /\ outcome'[a].orders \subseteq {o \in resting : o.account = a}
         /\ resting' \subseteq resting
<1>1. outcome \in [Accounts -> Outcomes]
  BY DEF TypeOK
<1>2. PICK seen \in SUBSET {o \in resting : o.account = a} :
        ReadBack(a, seen) \/ ReadFails(a)
  BY DEF Reconcile
<1>3. \E S \in {seen, {}}, t \in BOOLEAN :
        outcome' = [outcome EXCEPT ![a] = Result(S, t, FALSE)]
  BY <1>2 DEF ReadBack, ReadFails
<1>4. resting' \subseteq resting
  BY <1>2 DEF ReadBack, ReadFails, CancelReturns, CancelRaises
<1>5. PICK S \in {seen, {}}, t \in BOOLEAN :
        outcome' = [outcome EXCEPT ![a] = Result(S, t, FALSE)]
  BY <1>3
<1>6. /\ \A b \in Accounts \ {a} : outcome'[b] = outcome[b]
      /\ outcome'[a] = Result(S, t, FALSE)
  BY <1>1, <1>5
<1>7. outcome'[a].kind = "result" /\ outcome'[a].orders = S
  BY <1>6 DEF Result, NotTried
<1>8. outcome[a].kind = "ambiguous"
  BY DEF Reconcile
<1>9. S \subseteq {o \in resting : o.account = a}
  BY <1>5
<1>10. outcome'[a].orders \subseteq {o \in resting : o.account = a}
  BY <1>7, <1>9
<1>11. \A b \in Accounts \ {a} : outcome'[b] = outcome[b]
  BY <1>6
<1>12. QED
  BY <1>4, <1>7, <1>8, <1>10, <1>11

----------------------------------------------------------------------------
(***************************************************************************)
(* What a fleet may retry.  A try that may be repeated is one in which no  *)
(* member got as far as a send.                                            *)
(***************************************************************************)
Clean == \A o \in sent \cup Booked : o.gen <= before[o.account]

AllToRetry ==
  \A a \in Accounts : outcome[a].kind = "result" /\ outcome[a].retryable

CleanInv ==
  /\ pc = "idle" /\ market \in {"none", "placement_pending"} => Clean
  /\ pc = "signing" => Clean
  /\ pc \notin {"idle", "signing"} /\ AllToRetry => Clean
  /\ \A a \in Accounts : outcome[a].kind # "ambiguous"

\* No pair is kept, sent or registered that was not signed.
SignedBefore ==
  /\ \A a \in Accounts : signed[a] <= signatures[a]
  /\ \A o \in sent \cup Booked : o.gen <= signatures[o.account]

LEMMA SignedBeforeStep ==
  ASSUME TypeOK, SignedBefore, [Next]_vars
  PROVE  SignedBefore'
<1>1. \A a \in Accounts : signatures[a] \in Nat /\ signed[a] \in Nat
  BY PlacementAssumption DEF TypeOK
<1>2. ASSUME UNCHANGED <<signatures, stamp>>, sent' \subseteq sent,
             \A a \in Accounts : signed'[a] = signed[a] \/ signed'[a] = 0
      PROVE  SignedBefore'
  BY <1>1, <1>2 DEF SignedBefore, Booked
<1>3. CASE Sign
  <2>1. \A a \in Accounts :
          /\ signatures'[a] \in {signatures[a], signatures[a] + 1}
          /\ signed'[a] \in {signed[a], signatures'[a]}
    <3>1. PICK answers :
            /\ signatures' = [a \in Accounts |->
                                IF answers[a] = "signed" THEN signatures[a] + 1
                                ELSE signatures[a]]
            /\ signed' = [a \in Accounts |->
                            IF answers[a] = "signed" THEN signatures[a] + 1
                            ELSE signed[a]]
      BY <1>3 DEF Sign
    <3>2. QED
      BY <3>1
  <2>2. \A a \in Accounts :
          /\ signed'[a] <= signatures'[a]
          /\ signatures[a] <= signatures'[a]
          /\ signed'[a] \in Nat /\ signatures'[a] \in Nat
    <3>1. ASSUME NEW a \in Accounts
          PROVE  /\ signed'[a] <= signatures'[a]
                 /\ signatures[a] <= signatures'[a]
                 /\ signed'[a] \in Nat /\ signatures'[a] \in Nat
      <4>1. /\ signatures'[a] \in {signatures[a], signatures[a] + 1}
            /\ signed'[a] \in {signed[a], signatures'[a]}
        BY <2>1
      <4>2. signed[a] <= signatures[a]
        BY DEF SignedBefore
      <4>3. signatures[a] \in Nat /\ signed[a] \in Nat
        BY <1>1
      <4>4. QED
        BY ONLY <4>1, <4>2, <4>3
    <3>2. QED
      BY <3>1
  <2>3. \A o \in sent' : o \in sent \/
          \E a \in Accounts : o \in Orders /\ o.account = a /\ o.gen = signed'[a]
    <3>1. sent' = sent \cup UNION {SignedOrders(a, signed'[a]) :
                     a \in {b \in Accounts : outcome'[b].kind = "ready"}}
      BY <1>3 DEF Sign
    <3>2. QED
      BY <3>1 DEF SignedOrders
  <2>4. Booked' = Booked /\ sent \subseteq Orders /\ Booked \subseteq Orders
    BY <1>3 DEF Sign, Booked, TypeOK
  <2>5. ASSUME NEW o \in sent \cup Booked PROVE o.gen <= signatures'[o.account]
    <3>1. o \in Orders
      BY <2>4, <2>5
    <3>2. o.account \in Accounts /\ o.gen \in Nat
      BY <3>1, PlacementAssumption DEF Orders
    <3>3. o.gen <= signatures[o.account]
      BY <2>5 DEF SignedBefore
    <3>4. QED
      BY <1>1, <2>2, <3>2, <3>3
  <2>6. ASSUME NEW o \in (sent \cup Booked)' PROVE o.gen <= signatures'[o.account]
    <3>1. CASE o \in sent \cup Booked
      BY <2>5, <3>1
    <3>2. CASE o \notin sent \cup Booked
      <4>1. o \in sent'
        BY <2>4, <2>6, <3>2
      <4>2. PICK a \in Accounts : o.account = a /\ o.gen = signed'[a]
        BY <2>3, <3>2, <4>1
      <4>3. QED
        BY <2>2, <4>2
    <3>3. QED
      BY <3>1, <3>2
  <2>7. QED
    BY <2>2, <2>6 DEF SignedBefore
<1>4. ASSUME NEW o \in Orders, Register(o) PROVE SignedBefore'
  <2>1. Booked' = Booked \cup {o}
    BY <1>4, BookGrows
  <2>2. o \in sent /\ UNCHANGED <<sent, signatures, signed>>
    BY <1>4 DEF Register
  <2>3. (sent \cup Booked)' = sent \cup Booked
    BY <2>1, <2>2
  <2>4. QED
    BY <2>2, <2>3 DEF SignedBefore
<1>5. ASSUME NEW a \in Accounts, Settle(a) \/ Reconcile(a) PROVE SignedBefore'
  <2>1. UNCHANGED <<signatures, sent, stamp>>
    BY <1>5 DEF Settle, Reconcile
  <2>2. signed' = [signed EXCEPT ![a] = 0] \/ signed' = signed
    BY <1>5 DEF Settle, Reconcile, SettleWhole, SettlePart, SettleNone,
                ReadBack, ReadFails, Forget
  <2>3. signed \in [Accounts -> 0..MaxSign]
    BY DEF TypeOK
  <2>4. QED
    BY <1>2, <2>1, <2>2, <2>3
<1>6. CASE Restart
  BY <1>2, <1>6 DEF Restart
<1>7. ASSUME UNCHANGED <<signatures, signed, stamp>>, sent' \subseteq sent
      PROVE  SignedBefore'
  BY <1>2, <1>7
<1>8. CASE ConsiderNext \/ RecordNext \/ PlaceRaises \/ KnockReturns
           \/ KnockRaises \/ Settled \/ Choose \/ Cancelled
  BY <1>7, <1>8 DEF ConsiderNext, TooLate, NothingToDo, OverLimit, Skip, Begin,
     RecordNext, Activated, Fails, Requeue, RecordOrder, PlaceRaises,
     KnockReturns, KnockRaises, Settled, Choose, Cancelled
<1>9. ASSUME NEW a \in Accounts, CancelLaggard(a) PROVE SignedBefore'
  BY <1>7, <1>9 DEF CancelLaggard
<1>10. ASSUME NEW o \in Orders,
              SendsEnd(o) \/ Leave(o) \/ Push(o) \/ Adopt(o)
       PROVE  SignedBefore'
  BY <1>7, <1>10 DEF SendsEnd, Leave, Push, Adopt
<1>11. CASE DoorOpens \/ Activate \/ ClockMoves \/ UNCHANGED vars
  BY <1>7, <1>11 DEF DoorOpens, Activate, ClockMoves, vars
<1>12. QED
  BY <1>3, <1>4, <1>5, <1>6, <1>8, <1>9, <1>10, <1>11
  DEF Next, LoopNext, KnockNext, SettleNext, VenueNext

\* In a fleet it is inductive: what a killed process left counts as signed
\* before the next one started.
LEMMA CleanStep ==
  ASSUME Fleet, TypeOK, RetryMatches, SignedBefore, CleanInv, [Next]_vars
  PROVE  CleanInv'
<1>1. CASE UNCHANGED <<pc, market, outcome, sent, stamp, before>>
  BY <1>1 DEF CleanInv, Clean, AllToRetry, Booked
<1>2. ASSUME pc' = "idle", market' \notin {"none", "placement_pending"},
             UNCHANGED outcome
      PROVE  CleanInv'
  BY <1>2 DEF CleanInv
<1>3. CASE TooLate \/ Skip
  <2>1. /\ pc = "idle" /\ UNCHANGED <<pc, outcome, sent, stamp, before>>
        /\ market' = market \/ market' \in {"expired", "skipped"}
    BY <1>3 DEF TooLate, Skip, Take
  <2>2. QED
    BY <1>1, <1>2, <2>1
<1>4. CASE Begin
  BY <1>4 DEF Begin, Take, CanStart, CleanInv, Clean, NotTried, Booked
<1>5. CASE Sign
  <2>1. pc = "signing" /\ pc' \in {"choosing", "knocking"}
        /\ UNCHANGED <<stamp, before>>
    BY <1>5 DEF Sign
  <2>2. AllToRetry' => sent' = sent
    <3>1. sent' = sent \cup UNION {SignedOrders(a, signed'[a]) :
                     a \in {b \in Accounts : outcome'[b].kind = "ready"}}
      BY <1>5 DEF Sign
    <3>2. AllToRetry' => {b \in Accounts : outcome'[b].kind = "ready"} = {}
      BY DEF AllToRetry
    <3>3. QED
      BY <3>1, <3>2
  <2>3. \A a \in Accounts : outcome'[a].kind # "ambiguous"
    BY <1>5, SignOutcomes
  <2>4. QED
    BY <2>1, <2>2, <2>3 DEF CleanInv, Clean, Booked
<1>6. CASE PlaceRaises
  BY <1>2, <1>6 DEF PlaceRaises
<1>7. CASE KnockReturns \/ KnockRaises
  <2>1. pc = "knocking" /\ pc' = "settling" /\ UNCHANGED <<sent, stamp, before>>
    BY <1>7 DEF KnockReturns, KnockRaises
  <2>2. \A a \in Accounts :
          \/ outcome'[a] = outcome[a]
          \/ outcome'[a].kind \in {"knocked", "raised"}
    BY <1>7, KnockOutcomes
  <2>3. QED
    BY <2>1, <2>2 DEF CleanInv, Clean, AllToRetry, Booked
<1>8. ASSUME NEW a \in Accounts, Settle(a) PROVE CleanInv'
  <2>1. pc = "settling" /\ UNCHANGED <<pc, sent, stamp, before>>
    BY <1>8 DEF Settle
  <2>2. /\ \A b \in Accounts \ {a} : outcome'[b] = outcome[b]
        /\ outcome'[a].kind # "ambiguous"
        /\ outcome'[a].kind = "result" => ~outcome'[a].retryable
    BY <1>8, SettleOutcomes
  <2>3. QED
    BY <2>1, <2>2 DEF CleanInv, Clean, AllToRetry, Booked
<1>9. ASSUME NEW a \in Accounts, Reconcile(a) PROVE FALSE
  BY <1>9 DEF Reconcile, CleanInv
<1>10. CASE Settled \/ Choose \/ Cancelled
  BY <1>10 DEF Settled, Choose, Cancelled, CleanInv, Clean, AllToRetry,
              Booked
<1>11. CASE Activated \/ Fails
  BY <1>2, <1>11 DEF Activated, Fails, Recorded
<1>12. CASE Requeue
  <2>1. /\ pc = "recording" /\ pc' = "idle"
        /\ UNCHANGED <<outcome, sent, stamp, before>>
        /\ AllToRetry
    BY <1>12 DEF Requeue, Recorded, Retryable, Empty, AllToRetry
  <2>2. QED
    BY <2>1 DEF CleanInv, Clean, AllToRetry, Booked
<1>13. ASSUME NEW o \in Orders, Register(o) \/ SendsEnd(o) PROVE CleanInv'
  <2>1. UNCHANGED <<pc, market, outcome, before>> /\ o \in sent
    BY <1>13 DEF Register, SendsEnd
  <2>2. (sent \cup Booked)' \subseteq sent \cup Booked
    BY <1>13, BookGrows DEF Register, SendsEnd, Booked
  <2>3. Clean => Clean'
    BY <2>1, <2>2 DEF Clean
  <2>4. QED
    BY <2>1, <2>3 DEF CleanInv, AllToRetry
<1>14. CASE NothingToDo \/ OverLimit
  BY <1>1, <1>14 DEF NothingToDo, OverLimit
<1>15. ASSUME NEW a \in Accounts, CancelLaggard(a) PROVE CleanInv'
  BY <1>1, <1>15 DEF CancelLaggard
<1>16. ASSUME NEW o \in Orders,
              RecordOrder(o) \/ Leave(o) \/ Push(o) \/ Adopt(o)
       PROVE  CleanInv'
  BY <1>1, <1>16 DEF RecordOrder, Leave, Push, Adopt
<1>17. CASE DoorOpens \/ Activate \/ ClockMoves \/ UNCHANGED vars
  BY <1>1, <1>17 DEF DoorOpens, Activate, ClockMoves, vars
<1>18. CASE Restart
  <2>1. Clean'
    BY <1>18 DEF Restart, Clean, SignedBefore, Booked
  <2>2. \A a \in Accounts : outcome'[a].kind = "out"
    BY <1>18 DEF Restart, NotTried
  <2>3. QED
    BY <2>1, <2>2 DEF CleanInv
<1>19. QED
  BY <1>3, <1>4, <1>5, <1>6, <1>7, <1>8, <1>9, <1>10, <1>11, <1>12, <1>13,
     <1>14, <1>15, <1>16, <1>17, <1>18
  DEF Next, LoopNext, ConsiderNext, KnockNext, SettleNext, RecordNext,
      VenueNext

(***************************************************************************)
(* "Retry only when every member failed cleanly with nothing resting":     *)
(* between the tries of a fleet no order that this process signed has      *)
(* registered or is on its way, for any number of members, legs and        *)
(* restarts.                                                               *)
(***************************************************************************)
THEOREM RetriesAreClean == Spec => []RetryStartsClean
<1>1. CASE Fleet = FALSE
  <2>1. RetryStartsClean
    BY <1>1 DEF RetryStartsClean
  <2>2. QED
    BY <2>1, PTL
<1>2. CASE Fleet = TRUE
  <2>1. Init => RetryMatches /\ SignedBefore /\ CleanInv
    BY DEF Init, RetryMatches, SignedBefore, CleanInv, Clean, NotTried, Booked
  <2>2. TypeOK /\ RetryMatches /\ SignedBefore /\ CleanInv /\ [Next]_vars
          => (RetryMatches /\ SignedBefore /\ CleanInv)'
    BY <1>2, CleanStep, SignedBeforeStep, RetryStep
  <2>3. CleanInv => RetryStartsClean
    BY DEF CleanInv, Clean, RetryStartsClean
  <2>4. QED
    BY <2>1, <2>2, <2>3, TypeCorrect, PTL DEF Spec
<1>3. QED
  BY <1>1, <1>2, PlacementAssumption

----------------------------------------------------------------------------
(***************************************************************************)
(* Whose orders an outcome holds, and what no step takes back.             *)
(***************************************************************************)
OwnOrders ==
  \A a \in Accounts :
    \A o \in outcome[a].orders : o \in Booked /\ o.account = a

\* A member's orders stay, or become some of its own that have registered.
LEMMA OutcomeSteps ==
  ASSUME TypeOK, [Next]_vars, NEW a \in Accounts
  PROVE  \/ outcome'[a].orders = outcome[a].orders
         \/ outcome'[a].orders \subseteq {o \in Booked : o.account = a}
<1>1. CASE UNCHANGED outcome
  BY <1>1
<1>2. CASE Begin \/ Restart
  BY <1>2 DEF Begin, Restart, NotTried
<1>3. CASE Sign
  BY <1>3, SignOutcomes
<1>4. CASE KnockReturns \/ KnockRaises
  BY <1>4, KnockOutcomes
<1>5. ASSUME NEW b \in Accounts, Settle(b)
      PROVE  outcome'[a].orders = outcome[a].orders
  BY <1>5, SettleOutcomes
<1>6. ASSUME NEW b \in Accounts, Reconcile(b)
      PROVE  \/ outcome'[a].orders = outcome[a].orders
             \/ outcome'[a].orders \subseteq {o \in Booked : o.account = a}
  <2>1. CASE a = b
    BY <1>6, <2>1, ReconcileOutcomes DEF TypeOK
  <2>2. CASE a # b
    BY <1>6, <2>2, ReconcileOutcomes
  <2>3. QED
    BY <2>1, <2>2
<1>7. CASE VenueNext \/ Activate \/ ClockMoves \/ UNCHANGED vars
           \/ \E o \in Orders : Adopt(o)
  BY <1>1, <1>7 DEF VenueNext, DoorOpens, Register, SendsEnd, Leave, Push,
     Activate, ClockMoves, Adopt, vars
<1>8. CASE TooLate \/ NothingToDo \/ OverLimit \/ Skip \/ PlaceRaises
           \/ Settled \/ Choose \/ Cancelled \/ RecordNext
           \/ \E b \in Accounts : CancelLaggard(b)
  BY <1>1, <1>8 DEF TooLate, NothingToDo, OverLimit, Skip, PlaceRaises,
     Settled, Choose, Cancelled, CancelLaggard, RecordNext, Activated, Fails,
     Requeue, RecordOrder
<1>9. QED
  BY <1>2, <1>3, <1>4, <1>5, <1>6, <1>7, <1>8
  DEF Next, LoopNext, ConsiderNext, KnockNext, SettleNext

\* What has registered stays registered and, once gone, never rests again;
\* a row once written stays.
LEMMA VenueForward ==
  ASSUME TypeOK, [Next]_vars
  PROVE  /\ \/ UNCHANGED stamp
            \/ \E o \in Orders : Register(o)
         /\ Booked \subseteq Booked'
         /\ \A o \in Booked : o \in resting' => o \in resting
         /\ \A o \in Orders : rows[o] # "none" => rows'[o] # "none"
<1>1. ASSUME UNCHANGED stamp, resting' \subseteq resting,
             \A o \in Orders : rows[o] # "none" => rows'[o] # "none"
      PROVE  /\ Booked' = Booked
             /\ \A o \in Booked : o \in resting' => o \in resting
             /\ \A o \in Orders : rows[o] # "none" => rows'[o] # "none"
  BY <1>1 DEF Booked
<1>2. ASSUME NEW o \in Orders, Register(o)
      PROVE  /\ Booked \subseteq Booked'
             /\ \A x \in Booked : x \in resting' => x \in resting
             /\ \A x \in Orders : rows[x] # "none" => rows'[x] # "none"
  <2>1. Booked' = Booked \cup {o}
    BY <1>2, BookGrows
  <2>2. QED
    BY <1>2, <2>1 DEF Register
<1>3. ASSUME NEW o \in Orders, RecordOrder(o) \/ Adopt(o)
      PROVE  /\ UNCHANGED <<stamp, resting>>
             /\ \A x \in Orders : rows[x] # "none" => rows'[x] # "none"
  BY <1>3 DEF RecordOrder, Adopt, TypeOK
<1>4. ASSUME NEW o \in Orders, SendsEnd(o) \/ Leave(o) \/ Push(o)
      PROVE  UNCHANGED <<stamp, rows>> /\ resting' \subseteq resting
  BY <1>4 DEF SendsEnd, Leave, Push
<1>5. ASSUME NEW a \in Accounts, Settle(a) \/ Reconcile(a) \/ CancelLaggard(a)
      PROVE  UNCHANGED <<stamp, rows>> /\ resting' \subseteq resting
  BY <1>5, SettleOutcomes, ReconcileOutcomes
  DEF Settle, Reconcile, CancelLaggard, CancelRaises, CancelReturns
<1>6. CASE UNCHANGED <<stamp, rows, resting>>
  BY <1>1, <1>6
<1>7. CASE ConsiderNext \/ KnockNext \/ Settled \/ Choose \/ Cancelled
           \/ Activated \/ Fails \/ Requeue
  BY <1>6, <1>7 DEF ConsiderNext, TooLate, NothingToDo, OverLimit, Skip, Begin,
     KnockNext, Sign, PlaceRaises, KnockReturns, KnockRaises, Settled, Choose,
     Cancelled, Activated, Fails, Requeue
<1>8. CASE DoorOpens \/ Activate \/ ClockMoves \/ Restart \/ UNCHANGED vars
  BY <1>6, <1>8 DEF DoorOpens, Activate, ClockMoves, Restart, vars
<1>9. QED
  BY <1>1, <1>2, <1>3, <1>4, <1>5, <1>7, <1>8
  DEF Next, LoopNext, SettleNext, RecordNext, VenueNext

\* So a member's orders are its own, and have registered.
LEMMA OwnStep == TypeOK /\ OwnOrders /\ [Next]_vars => OwnOrders'
BY OutcomeSteps, VenueForward DEF OwnOrders

----------------------------------------------------------------------------
(***************************************************************************)
(* What was accepted is written down.  While a part is being settled its   *)
(* orders are still in its outcome; a part that is dropped holds none that *)
(* rests.                                                                  *)
(***************************************************************************)
WrittenInv ==
  /\ \A a \in Accounts :
       /\ outcome[a].kind \in {"out", "ready", "ambiguous"} =>
            outcome[a].orders = {}
       /\ outcome[a].kind = "raised" => outcome[a].orders \cap resting = {}
       /\ pc = "signing" => outcome[a].orders = {}
       /\ pc \in {"choosing", "cancelling", "recording"} =>
            outcome[a].kind # "knocked"
  /\ AcceptedIsWrittenDown

\* With one leg there is no lone side.
LEMMA OneLegIsWhole ==
  ASSUME TypeOK, NEW l, Legs = {l}, NEW a \in Accounts,
         outcome[a].orders # {}
  PROVE  Whole(outcome[a].orders)
<1>1. \A o \in outcome[a].orders : o.leg \in Legs
  BY DEF TypeOK, Outcomes, Orders
<1>2. QED
  BY <1>1 DEF Whole

\* Rows are written before the loop goes on, whatever way a try ends.
LEMMA WrittenStep ==
  ASSUME ~CancelsFail \/ \E l : Legs = {l},
         TypeOK, OwnOrders, WrittenInv, [Next]_vars
  PROVE  WrittenInv'
<1>1. ASSUME UNCHANGED <<pc, outcome>> PROVE WrittenInv'
  <2>1. ASSUME NEW a \in Accounts
        PROVE  outcome[a].orders \cap resting' \subseteq
                 outcome[a].orders \cap resting
    BY <2>1, VenueForward DEF OwnOrders
  <2>2. \A o \in Orders : rows[o] # "none" => rows'[o] # "none"
    BY VenueForward
  <2>3. \A a \in Accounts : outcome[a].orders \subseteq Orders
    BY DEF TypeOK, Outcomes
  <2>4. AcceptedIsWrittenDown'
    BY <1>1, <2>1, <2>2, <2>3 DEF WrittenInv, AcceptedIsWrittenDown
  <2>5. QED
    BY <1>1, <2>1, <2>4 DEF WrittenInv
<1>2. CASE Begin \/ Restart
  BY <1>2 DEF Begin, Restart, NotTried, WrittenInv, AcceptedIsWrittenDown
<1>3. CASE Sign
  <2>1. pc' \in {"choosing", "knocking"}
    BY <1>3 DEF Sign
  <2>2. \A a \in Accounts : /\ outcome'[a].orders = {}
                            /\ outcome'[a].kind \in {"ready", "result", "raised"}
    BY <1>3, SignOutcomes
  <2>3. QED
    BY <2>1, <2>2 DEF WrittenInv, AcceptedIsWrittenDown
<1>4. CASE PlaceRaises
  BY <1>4 DEF PlaceRaises, WrittenInv, AcceptedIsWrittenDown
<1>5. CASE KnockReturns \/ KnockRaises
  <2>1. pc' = "settling" /\ resting' = resting
    BY <1>5 DEF KnockReturns, KnockRaises
  <2>2. ASSUME NEW a \in Accounts
        PROVE  \/ outcome'[a] = outcome[a]
               \/ outcome'[a].kind = "knocked"
               \/ outcome'[a].kind = "raised" /\ outcome'[a].orders = {}
    BY <1>5, KnockOutcomes
  <2>3. QED
    BY <2>1, <2>2 DEF WrittenInv, AcceptedIsWrittenDown
<1>6. ASSUME NEW b \in Accounts, Settle(b) PROVE WrittenInv'
  <2>1. pc = "settling" /\ pc' = pc
    BY <1>6 DEF Settle
  <2>2. /\ \A a \in Accounts \ {b} : outcome'[a] = outcome[a]
        /\ outcome'[b].orders = outcome[b].orders
        /\ outcome'[b].kind \in {"result", "raised", "ambiguous"}
        /\ outcome'[b].kind = "ambiguous" => outcome[b].orders = {}
        /\ resting' \subseteq resting
    BY <1>6, SettleOutcomes
  <2>3. outcome'[b].kind = "raised" => outcome[b].orders = {}
    BY <1>6, SettleOutcomes, OneLegIsWhole
  <2>4. QED
    BY <2>1, <2>2, <2>3 DEF WrittenInv, AcceptedIsWrittenDown
<1>7. ASSUME NEW b \in Accounts, Reconcile(b) PROVE WrittenInv'
  <2>1. pc = "settling" /\ pc' = pc
    BY <1>7 DEF Reconcile
  <2>2. /\ \A a \in Accounts \ {b} : outcome'[a] = outcome[a]
        /\ outcome'[b].kind = "result"
        /\ resting' \subseteq resting
    BY <1>7, ReconcileOutcomes
  <2>3. QED
    BY <2>1, <2>2 DEF WrittenInv, AcceptedIsWrittenDown
<1>8. CASE Settled \/ Choose \/ Cancelled
  BY <1>8 DEF Settled, Choose, Cancelled, WrittenInv, AcceptedIsWrittenDown
<1>9. CASE Activated \/ Fails \/ Requeue
  <2>1. /\ pc = "recording" /\ pc' = "idle"
        /\ \A o \in ToRecord : rows[o] # "none"
        /\ UNCHANGED <<rows, outcome, resting>>
    BY <1>9 DEF Activated, Fails, Requeue, Recorded
  <2>2. ASSUME NEW a \in Accounts, NEW o \in outcome[a].orders \cap resting
        PROVE  rows[o] # "none"
    <3>1. outcome[a].kind = "result"
      BY <2>1, <2>2 DEF TypeOK, Outcomes, WrittenInv
    <3>2. o \in ToRecord
      BY <2>2, <3>1 DEF ToRecord, Recordable
    <3>3. QED
      BY <2>1, <3>2
  <2>3. QED
    BY <2>1, <2>2 DEF WrittenInv, AcceptedIsWrittenDown
<1>10. CASE VenueNext \/ Activate \/ ClockMoves \/ UNCHANGED vars
            \/ \E o \in Orders : Adopt(o) \/ RecordOrder(o)
  BY <1>1, <1>10 DEF VenueNext, DoorOpens, Register, SendsEnd, Leave, Push,
     Activate, ClockMoves, Adopt, RecordOrder, vars
<1>11. CASE TooLate \/ NothingToDo \/ OverLimit \/ Skip
            \/ \E a \in Accounts : CancelLaggard(a)
  BY <1>1, <1>11 DEF TooLate, NothingToDo, OverLimit, Skip, CancelLaggard
<1>12. QED
  BY <1>2, <1>3, <1>4, <1>5, <1>6, <1>7, <1>8, <1>9, <1>10, <1>11
  DEF Next, LoopNext, ConsiderNext, KnockNext, SettleNext, RecordNext

(***************************************************************************)
(* An order the engine reported accepted is in the table by the time the   *)
(* main loop goes on, or does not rest, for any number of members, crashes *)
(* and late registrations.  The one exception the code leaves is a lone    *)
(* side whose cancel raises, hence the assumption.                         *)
(***************************************************************************)
THEOREM AcceptedRecorded ==
  ASSUME CancelsFail => \E l : Legs = {l}
  PROVE  Spec => []AcceptedIsWrittenDown
<1>1. Init => OwnOrders /\ WrittenInv
  BY DEF Init, OwnOrders, WrittenInv, AcceptedIsWrittenDown, NotTried
<1>2. TypeOK /\ OwnOrders /\ WrittenInv /\ [Next]_vars
        => (OwnOrders /\ WrittenInv)'
  BY OwnStep, WrittenStep
<1>3. WrittenInv => AcceptedIsWrittenDown
  BY DEF WrittenInv
<1>4. QED
  BY <1>1, <1>2, <1>3, TypeCorrect, PTL DEF Spec

----------------------------------------------------------------------------
(***************************************************************************)
(* The ticket kept.                                                        *)
(***************************************************************************)
\* An order's time, once told, is kept.
LEMMA StampKept ==
  ASSUME TypeOK, [Next]_vars, NEW o \in Booked
  PROVE  stamp'[o] = stamp[o]
<1>1. ASSUME NEW x \in Orders, Register(x) PROVE stamp'[o] = stamp[o]
  BY <1>1, BookGrows
<1>2. QED
  BY <1>1, VenueForward

\* m has an order that registered no later than o.
Precedes(m, o) == \E p \in Booked : p.account = m /\ stamp[p] <= stamp[o]

TicketInv ==
  /\ \A o \in Orders : status[o] # "none" => o \in Booked
  /\ pc \in {"signing", "knocking", "settling", "choosing"} =>
       kept = Unkept /\ \A o \in Orders : status[o] = "none"
  /\ kept.by = "venue" /\ pc = "cancelling" =>
       \A c \in Accounts \ {kept.member} :
         Registered(c) =>
           \A o \in outcome[c].orders : Precedes(kept.member, o)
  /\ FirstTicketIsKept

\* What preceded an order still does.
LEMMA PrecedesKept ==
  ASSUME TypeOK, [Next]_vars, NEW m, NEW o \in Booked,
         Precedes(m, o)
  PROVE  Precedes(m, o)'
<1>1. PICK p \in Booked : p.account = m /\ stamp[p] <= stamp[o]
  BY DEF Precedes
<1>2. stamp'[p] = stamp[p] /\ stamp'[o] = stamp[o]
  BY StampKept
<1>3. p \in Booked'
  BY VenueForward
<1>4. QED
  BY <1>1, <1>2, <1>3 DEF Precedes

\* If the venue's times decide, the ticket kept precedes the others.
LEMMA FirstIsChosen ==
  ASSUME OwnOrders, NEW k \in Choice, k.by = "venue",
         NEW c \in Accounts, Registered(c),
         NEW o \in outcome[c].orders
  PROVE  Precedes(k.member, o)
<1>1. /\ k.member \in Tickets
      /\ \A b \in Tickets : NoLater(k.member, b)
  BY DEF Choice, Unkept
<1>2. c \in Tickets /\ k.member \in Accounts
  BY <1>1 DEF Tickets
<1>3. PICK p \in outcome[k.member].orders : stamp[p] <= stamp[o]
  BY <1>1, <1>2 DEF NoLater
<1>4. p \in Booked /\ p.account = k.member
  BY <1>2 DEF OwnOrders
<1>5. QED
  BY <1>3, <1>4 DEF Precedes

\* The kept ticket stays the first, as pushes, cancels and restarts come.
LEMMA TicketStep ==
  ASSUME TypeOK, OwnOrders, TicketInv, [Next]_vars
  PROVE  TicketInv'
<1>0. FirstTicketIsKept <=>
        (kept.by = "venue" =>
           \A o \in Booked : status[o] # "none" => Precedes(kept.member, o))
  BY DEF FirstTicketIsKept, Precedes
<1>1. FirstTicketIsKept' <=>
        (kept'.by = "venue" =>
           \A o \in Booked' : status'[o] # "none" => Precedes(kept.member, o)')
  BY DEF FirstTicketIsKept, Precedes
<1>2. Booked \subseteq Booked' /\ Booked \subseteq Orders /\ Booked' \subseteq Orders
  <2>1. Booked \subseteq Booked'
    BY VenueForward
  <2>2. QED
    BY <2>1 DEF Booked
<1>3. ASSUME UNCHANGED <<kept, status>>,
             \/ pc' = pc /\ UNCHANGED outcome
             \/ pc' \notin {"signing", "knocking", "settling", "choosing",
                            "cancelling"}
             \/ /\ pc \in {"signing", "knocking", "settling"}
                /\ pc' \in {"knocking", "settling", "choosing"}
      PROVE  TicketInv'
  <2>1. \A o \in Orders : status'[o] # "none" => o \in Booked'
    BY <1>2, <1>3 DEF TicketInv
  <2>2. pc' \in {"signing", "knocking", "settling", "choosing"} =>
          kept' = Unkept /\ \A o \in Orders : status'[o] = "none"
    BY <1>3 DEF TicketInv
  <2>3. ASSUME kept'.by = "venue", pc' = "cancelling",
               NEW c \in Accounts \ {kept'.member}, Registered(c)',
               NEW o \in outcome'[c].orders
        PROVE  Precedes(kept.member, o)'
    <3>1. pc' = pc /\ UNCHANGED outcome
      BY <1>3, <2>3
    <3>2. Precedes(kept.member, o) /\ o \in Booked
      BY <1>3, <2>3, <3>1 DEF TicketInv, Registered, OwnOrders
    <3>3. Precedes(kept.member, o)'
      <4> DEFINE m == kept.member
      <4>1. m' = m
        BY <1>3
      <4>2. PICK p \in Booked : p.account = m /\ stamp[p] <= stamp[o]
        BY <3>2 DEF Precedes
      <4>3. stamp'[p] = stamp[p] /\ stamp'[o] = stamp[o] /\ p \in Booked'
        BY <3>2, StampKept, <1>2
      <4>4. QED
        BY <4>1, <4>2, <4>3 DEF Precedes
    <3>4. QED
      BY <3>3
  <2>4. FirstTicketIsKept'
    <3>1. SUFFICES ASSUME kept'.by = "venue", NEW o \in Booked',
                          status'[o] # "none"
                   PROVE  Precedes(kept.member, o)'
      BY <1>1
    <3>2. o \in Booked /\ Precedes(kept.member, o)
      BY <1>0, <1>2, <1>3, <3>1 DEF TicketInv
    <3>3. PICK p \in Booked : p.account = kept.member /\ stamp[p] <= stamp[o]
      BY <3>2 DEF Precedes
    <3>4. stamp'[p] = stamp[p] /\ stamp'[o] = stamp[o] /\ p \in Booked'
      BY <3>2, StampKept, <1>2
    <3>5. QED
      BY <1>3, <3>3, <3>4 DEF Precedes
  <2>5. QED
    BY <2>1, <2>2, <2>3, <2>4 DEF TicketInv
<1>4. CASE Begin \/ Restart
  <2>1. kept' = Unkept /\ (\A o \in Orders : status'[o] = "none")
    BY <1>4 DEF Begin, Restart
  <2>2. kept'.by = "none"
    BY <2>1 DEF Unkept
  <2>3. QED
    BY <1>1, <2>1, <2>2 DEF TicketInv
<1>5. CASE Choose
  <2>1. /\ pc = "choosing" /\ pc' = "cancelling"
        /\ UNCHANGED <<outcome, status, stamp>>
        /\ kept' \in Choice \/ kept' = Unkept
    BY <1>5 DEF Choose
  <2>2. \A o \in Orders : status[o] = "none"
    BY <2>1 DEF TicketInv
  <2>3. ASSUME kept'.by = "venue", NEW c \in Accounts \ {kept'.member},
               Registered(c)', NEW o \in outcome'[c].orders
        PROVE  Precedes(kept.member, o)'
    <3>1. kept' \in Choice /\ Registered(c) /\ o \in outcome[c].orders
      BY <2>1, <2>3 DEF Unkept, Registered
    <3>2. ASSUME NEW k \in Choice, k.by = "venue"
          PROVE  Precedes(k.member, o)
      <4>1. c \in Accounts
        BY <2>3
      <4>2. QED
        BY <3>1, <3>2, <4>1, FirstIsChosen
    <3>3. Precedes(kept'.member, o)
      BY <2>3, <3>1, <3>2
    <3>4. PICK p \in Booked : p.account = kept'.member /\ stamp[p] <= stamp[o]
      BY <3>3 DEF Precedes
    <3>5. Booked' = Booked /\ UNCHANGED stamp
      BY <2>1 DEF Booked
    <3>6. QED
      BY <3>4, <3>5 DEF Precedes
  <2>4. FirstTicketIsKept'
    BY <1>1, <1>2, <2>1, <2>2
  <2>5. QED
    BY <2>1, <2>2, <2>3, <2>4, <1>2 DEF TicketInv
<1>6. ASSUME NEW a \in Accounts, CancelLaggard(a) PROVE TicketInv'
  <2>1. /\ pc = "cancelling" /\ pc' = pc /\ UNCHANGED <<outcome, kept, stamp>>
        /\ a # kept.member /\ Registered(a)
        /\ \A o \in Orders : o \notin outcome[a].orders => status'[o] = status[o]
    BY <1>6 DEF CancelLaggard, Laggard, Answered
  <2>2. \A o \in outcome[a].orders :
          /\ o \in Booked
          /\ kept.by = "venue" => Precedes(kept.member, o)
    BY <2>1 DEF OwnOrders, TicketInv
  <2>3. \A o \in Orders : status'[o] # "none" =>
          /\ o \in Booked
          /\ kept.by = "venue" => Precedes(kept.member, o)
    BY <1>0, <2>1, <2>2 DEF TicketInv
  <2>4. Booked' = Booked /\ \A o : Precedes(kept.member, o)' <=> Precedes(kept.member, o)
    BY <2>1 DEF Booked, Precedes
  <2>5. FirstTicketIsKept'
    BY <1>1, <1>2, <2>1, <2>3, <2>4
  <2>6. QED
    BY <2>1, <2>3, <2>4, <2>5 DEF TicketInv, Registered
<1>7. CASE Sign \/ KnockReturns \/ KnockRaises \/ Settled
  BY <1>3, <1>7 DEF Sign, KnockReturns, KnockRaises, Settled
<1>8. ASSUME NEW a \in Accounts, Settle(a) \/ Reconcile(a) PROVE TicketInv'
  BY <1>3, <1>8 DEF Settle, Reconcile
<1>9. CASE PlaceRaises \/ Cancelled \/ Activated \/ Fails \/ Requeue
  BY <1>3, <1>9 DEF PlaceRaises, Cancelled, Activated, Fails, Requeue, Recorded
<1>10. CASE VenueNext \/ Activate \/ ClockMoves \/ UNCHANGED vars
            \/ \E o \in Orders : Adopt(o) \/ RecordOrder(o)
  BY <1>3, <1>10 DEF VenueNext, DoorOpens, Register, SendsEnd, Leave, Push,
     Activate, ClockMoves, Adopt, RecordOrder, vars
<1>11. CASE TooLate \/ NothingToDo \/ OverLimit \/ Skip
  BY <1>3, <1>11 DEF TooLate, NothingToDo, OverLimit, Skip
<1>12. QED
  BY <1>4, <1>5, <1>6, <1>7, <1>8, <1>9, <1>10, <1>11
  DEF Next, LoopNext, ConsiderNext, KnockNext, SettleNext, RecordNext

(***************************************************************************)
(* No order the bot gave up, when the venue's times decided, was           *)
(* registered in an earlier millisecond than the ticket it kept: for any   *)
(* number of members and legs, whenever the pushes come and whatever the   *)
(* cancels answer, restarts included.                                      *)
(***************************************************************************)
THEOREM FirstTicketKept == Spec => []FirstTicketIsKept
<1>1. Init => OwnOrders /\ TicketInv
  BY DEF Init, OwnOrders, TicketInv, FirstTicketIsKept, NotTried, Unkept
<1>2. TypeOK /\ OwnOrders /\ TicketInv /\ [Next]_vars => (OwnOrders /\ TicketInv)'
  BY OwnStep, TicketStep
<1>3. TicketInv => FirstTicketIsKept
  BY DEF TicketInv
<1>4. QED
  BY <1>1, <1>2, <1>3, TypeCorrect, PTL DEF Spec
============================================================================
