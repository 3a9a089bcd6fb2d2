---------------------------- MODULE FulfilmentProofs ----------------------------
(***************************************************************************)
(* What the event handlers keep for any number of handlers, riders and     *)
(* faults: the tender of a collection is booked once, and a rider loses    *)
(* the task only through an event about that rider or about none.          *)
(***************************************************************************)
EXTENDS Fulfilment, SequenceTheorems, TLAPS

USE KindsAssumption, CasesAssumption, DeliveryBounds, NoRiderAssumption
    DEF KindsAssumption, CasesAssumption, DeliveryBounds, NoRiderAssumption

Progress == {"assigned", "accepted", "arrived", "picked_up", "delivered", "completed", "cancelled"}

\* The kinds of events a handler may be at each phase for.
KindsAt == [save     |-> TaskKinds \ {"unassigned"},
            release  |-> {"unassigned"},
            flag     |-> {"unassigned"},
            tender   |-> {"completed", "collected"},
            terminal |-> {"collected"},
            stamp    |-> Progress,
            judge    |-> PosKinds \cup {"cancelled"},
            read     |-> PosKinds \cup {"picked_up", "delivered", "completed"},
            move     |-> PosKinds \cup {"picked_up", "delivered", "completed"},
            claim    |-> PosKinds \cup {"picked_up", "delivered", "completed"}]

\* A pay-on-collection order is paid exactly from its end on.
PayFollows(o) ==
  o.pay = IF o.status \in {"delivered", "completed", "refunded"} THEN "paid" ELSE "cod_pending"

\* What a handler at phase p holds, when the assignment's row is there (tracked) and
\* the order has these terms.
HandlingOf(p, l, tracked, terms) ==
  /\ p \in Phases /\ l \in LocType
  /\ p # "idle" => l.event \in Events /\ l.event.kind \in KindsAt[p]
  /\ p = "release" => l.event.rider \in {NoRider, l.copy.rider}
  /\ p = "save" /\ l.copy.exists => tracked
  /\ p \in {"move", "claim"} => l.plan # <<>>
  /\ p = "claim" => MayMove(terms, l.seen, Head(l.plan)) /\ PayFollows(l.seen)

HandlersInv ==
  /\ phase \in [Handlers -> Phases] /\ loc \in [Handlers -> LocType]
  /\ \A h \in Handlers : HandlingOf(phase[h], loc[h], assignment.exists, Terms)

\* An event that waits has a delivery left.
DeliveriesInv ==
  /\ queue \subseteq Events
  /\ tries \in [Events -> 0..MaxDeliver]
  /\ \A e \in queue : tries[e] < MaxDeliver

\* Before its row is created the assignment has no rider.
AssignmentInv == assignment \in AssignmentType /\ (~assignment.exists => assignment.rider = NoRider)

\* What SettledOnce rests on: the settlement goes with the payment.
SettlementInv ==
  /\ order \in OrderType /\ PayFollows(order)
  /\ settled \in [Tenders -> Nat]
  /\ settled["cash"] + settled["mpesa"] <= IF order.pay = "paid" THEN 1 ELSE 0

WorldInv == given \in Cases /\ task \in TaskType /\ reports \in 0..MaxReports /\ faults \in 0..MaxFaults

FulfilmentInv == HandlersInv /\ DeliveriesInv /\ AssignmentInv /\ SettlementInv /\ WorldInv

-----------------------------------------------------------------------------
(* Going on *)

\* Nothing is held by an idle handler.
LEMMA IdleType ==
  NoLoc \in LocType /\ NewOrder \in OrderType /\ NoAssignment \in AssignmentType
<1>1. NewOrder \in OrderType
  BY DEF NewOrder, OrderType, Statuses, Tenders
<1>2. NoAssignment \in AssignmentType
  BY DEF NoAssignment, AssignmentType, AssignmentStatuses
<1>3. <<>> \in Seq(Statuses)
  OBVIOUS
<1> QED
  BY <1>1, <1>2, <1>3 DEF NoLoc, Started, LocType

\* A handler that comes to a phase with what the phase calls for keeps the invariant
\* of the handlers, when the assignment's row and the case stay.
LEMMA GotoInv ==
  ASSUME FulfilmentInv, NEW h \in Handlers, NEW next, NEW l, Goto(h, next, l),
         next = "idle" \/ HandlingOf(next, l, assignment'.exists, Terms), given' = given,
         assignment.exists => assignment'.exists
  PROVE  HandlersInv'
<1> DEFINE here == IF next = "idle" THEN NoLoc ELSE l
<1>1. next \in Phases /\ here \in LocType /\ HandlingOf(next, here, assignment'.exists, Terms)
  BY IdleType DEF HandlingOf, Phases
<1>2. phase' = [phase EXCEPT ![h] = next] /\ loc' = [loc EXCEPT ![h] = here]
  BY DEF Goto
<1> HIDE DEF here
<1>3. phase' \in [Handlers -> Phases] /\ loc' \in [Handlers -> LocType]
  BY <1>1, <1>2 DEF FulfilmentInv, HandlersInv
<1>4. ASSUME NEW g \in Handlers PROVE HandlingOf(phase'[g], loc'[g], assignment'.exists, Terms')
  <2>1. CASE g = h
    BY <1>1, <1>2, <2>1 DEF FulfilmentInv, HandlersInv, Terms
  <2>2. CASE g # h
    <3>1. phase'[g] = phase[g] /\ loc'[g] = loc[g] /\ HandlingOf(phase[g], loc[g], assignment.exists, Terms)
      BY <1>2, <2>2 DEF FulfilmentInv, HandlersInv
    <3> QED
      BY <3>1 DEF HandlingOf, Terms
  <2> QED
    BY <2>1, <2>2
<1> QED
  BY <1>3, <1>4 DEF HandlersInv

\* An event that comes again keeps a delivery left or is dropped.
LEMMA NegativeAckInv ==
  ASSUME FulfilmentInv, NEW h \in Handlers, NegativeAck(h), given' = given,
         assignment.exists => assignment'.exists
  PROVE  HandlersInv' /\ DeliveriesInv'
<1>1. HandlersInv'
  BY GotoInv DEF NegativeAck
<1>2. DeliveriesInv'
  <2> DEFINE e == loc[h].event
  <2>1. CASE e \in queue
    <3>1. /\ tries' = [tries EXCEPT ![e] = @ + 1]
          /\ queue' = IF tries[e] + 1 = MaxDeliver THEN queue \ {e} ELSE queue
      BY <2>1 DEF NegativeAck
    <3>2. e \in Events /\ tries[e] + 1 \in 0..MaxDeliver
      BY <2>1 DEF FulfilmentInv, DeliveriesInv
    <3> HIDE DEF e
    <3> QED
      BY <3>1, <3>2 DEF FulfilmentInv, DeliveriesInv
  <2>2. CASE e \notin queue
    BY <2>2 DEF NegativeAck, FulfilmentInv, DeliveriesInv
  <2> QED
    BY <2>1, <2>2
<1> QED
  BY <1>1, <1>2

\* A handler that returns, goes on, or loses its acknowledgement.
LEMMA ProceedInv ==
  ASSUME FulfilmentInv, NEW h \in Handlers, NEW next, NEW l, Proceed(h, next, l),
         next = "done" \/ HandlingOf(next, l, assignment'.exists, Terms), given' = given,
         assignment.exists => assignment'.exists
  PROVE  HandlersInv' /\ DeliveriesInv' /\ faults' \in 0..MaxFaults
<1>1. faults' \in 0..MaxFaults
  BY DEF Proceed, Fault, FulfilmentInv, WorldInv
<1>2. CASE next # "done" /\ Goto(h, next, l) /\ UNCHANGED <<queue, tries>>
  BY <1>1, <1>2, GotoInv DEF FulfilmentInv, DeliveriesInv
<1>3. CASE queue' = queue \ {loc[h].event} /\ Goto(h, "idle", NoLoc) /\ UNCHANGED tries
  BY <1>1, <1>3, GotoInv DEF FulfilmentInv, DeliveriesInv
<1>4. CASE NegativeAck(h)
  BY <1>1, <1>4, NegativeAckInv
<1> QED
  BY <1>2, <1>3, <1>4 DEF Proceed

\* After a write a handler goes on to a phase that fits its event, whatever the write
\* did to the assignment.
LEMMA AfterInv ==
  ASSUME FulfilmentInv, NEW h \in Handlers, NEW tracked,
         phase[h] \in {"save", "tender", "terminal", "stamp", "flag"}
  PROVE  LET next == After(phase[h], loc[h].event.kind)
         IN  next = "done" \/ HandlingOf(next, loc[h], tracked, Terms)
<1> DEFINE k == loc[h].event.kind
           next == After(phase[h], k)
<1>1. HandlingOf(phase[h], loc[h], assignment.exists, Terms)
  BY DEF FulfilmentInv, HandlersInv
<1>2. loc[h] \in LocType /\ loc[h].event \in Events /\ k \in KindsAt[phase[h]]
  BY <1>1 DEF HandlingOf
<1>3. CASE phase[h] = "save"
  <2>1. next \in {"done", "tender", "judge", "stamp"} /\ (next # "done" => k \in KindsAt[next])
    BY <1>2, <1>3 DEF After, KindsAt, TaskKinds, PosKinds, Progress
  <2> QED
    BY <1>2, <2>1 DEF HandlingOf, Phases
<1>4. CASE phase[h] # "save"
  <2>1. next \in {"done", "terminal", "read", "stamp"} /\ (next # "done" => k \in KindsAt[next])
    BY <1>2, <1>4 DEF After, KindsAt, TaskKinds, PosKinds, Progress
  <2> QED
    BY <1>2, <2>1 DEF HandlingOf, Phases
<1> QED
  BY <1>3, <1>4

\* An error, a crash or a tolerated error keeps everything.
LEMMA StepFailsInv == ASSUME FulfilmentInv, NEW h \in Handlers, StepFails(h) PROVE FulfilmentInv'
<1> USE DEF FulfilmentInv
<1>1. UNCHANGED <<given, order, assignment, world, settled>> /\ faults' \in 0..MaxFaults
  BY DEF StepFails, Fault, WorldInv
<1>2. SettlementInv' /\ WorldInv' /\ AssignmentInv'
  BY <1>1 DEF SettlementInv, WorldInv, AssignmentInv, world, PayFollows
<1>3. CASE NegativeAck(h)
  BY <1>1, <1>2, <1>3, NegativeAckInv
<1>4. CASE queue' = queue \ {loc[h].event} /\ Goto(h, "idle", NoLoc) /\ UNCHANGED tries
  <2>1. HandlersInv'
    BY <1>1, <1>4, GotoInv
  <2> QED
    BY <1>2, <1>4, <2>1 DEF DeliveriesInv
<1>5. CASE (\E next \in Tolerated(h) \ {"done"} : Goto(h, next, loc[h])) /\ UNCHANGED <<queue, tries>>
  <2>1. PICK next \in Tolerated(h) \ {"done"} : Goto(h, next, loc[h])
    BY <1>5
  <2>2. next = After(phase[h], loc[h].event.kind) /\ phase[h] \in {"save", "tender", "stamp"}
    BY <2>1 DEF Tolerated
  <2>3. HandlingOf(next, loc[h], assignment'.exists, Terms)
    BY <2>1, <2>2, AfterInv
  <2>4. HandlersInv'
    BY <1>1, <2>1, <2>3, GotoInv
  <2> QED
    BY <1>2, <1>5, <2>4 DEF DeliveriesInv
<1> QED
  BY <1>3, <1>4, <1>5 DEF StepFails

-----------------------------------------------------------------------------
(* The steps of a handler *)

\* A delivery starts with what its event calls for.
LEMMA FirstStepInv ==
  ASSUME FulfilmentInv, NEW e \in queue, e.kind \in TaskKinds,
         NEW found \in {assignment, NoAssignment}, FirstStep(e, found) # "done"
  PROVE  HandlingOf(FirstStep(e, found), Started(e, found),
                    assignment.exists, Terms)
<1> DEFINE first == FirstStep(e, found)
<1>1. e \in Events /\ found \in AssignmentType
  <2>1. e \in Events
    BY DEF FulfilmentInv, DeliveriesInv
  <2>2. assignment \in AssignmentType
    BY DEF FulfilmentInv, AssignmentInv
  <2> QED
    BY <2>1, <2>2, IdleType
<1>2. Started(e, found) \in LocType
  BY <1>1, IdleType DEF Started, LocType
<1>3. /\ first \in {"save", "release", "flag", "tender", "judge", "stamp"}
      /\ e.kind \in KindsAt[first]
  BY DEF FirstStep, After, KindsAt, TaskKinds, PosKinds, Progress
<1>4. first = "release" => e.rider \in {NoRider, found.rider}
  BY DEF FirstStep, Releasable, After, TaskKinds
<1>5. found.exists => assignment.exists
  BY DEF NoAssignment
<1> QED
  BY <1>1, <1>2, <1>3, <1>4, <1>5 DEF HandlingOf, Phases, Started

\* A consumer that takes an event keeps everything.
LEMMA DeliverInv == ASSUME FulfilmentInv, NEW h \in Handlers, Deliver(h) PROVE FulfilmentInv'
<1> USE DEF FulfilmentInv
<1>1. UNCHANGED <<given, order, assignment, world, tries, settled>>
  BY DEF Deliver
<1>2. SettlementInv' /\ AssignmentInv'
  BY <1>1 DEF SettlementInv, AssignmentInv, PayFollows
<1>3. PICK e \in queue :
        \/ /\ e.kind \in PosKinds
           /\ Goto(h, "judge", Started(e, NoAssignment))
           /\ UNCHANGED <<queue, faults>>
        \/ /\ e.kind \in TaskKinds
           /\ \E found \in {assignment, NoAssignment} :
                /\ UNCHANGED faults \/ Fault
                /\ IF FirstStep(e, found) = "done"
                   THEN queue' = queue \ {e} /\ UNCHANGED <<phase, loc>>
                   ELSE /\ Goto(h, FirstStep(e, found), Started(e, found))
                        /\ UNCHANGED queue
  BY DEF Deliver
<1>4. WorldInv'
  BY <1>1, <1>3 DEF WorldInv, world, Fault
<1>5. queue' \subseteq queue
  BY <1>3
<1>6. DeliveriesInv'
  BY <1>1, <1>5 DEF DeliveriesInv
<1>7. HandlersInv'
  <2>1. CASE e.kind \in PosKinds /\ Goto(h, "judge", Started(e, NoAssignment))
    <3>1. Started(e, NoAssignment) \in LocType /\ Started(e, NoAssignment).event = e /\ e \in Events
      BY IdleType DEF Started, LocType, DeliveriesInv
    <3>2. HandlingOf("judge", Started(e, NoAssignment), assignment'.exists, Terms)
      BY <2>1, <3>1 DEF HandlingOf, KindsAt, Phases
    <3> QED
      BY <1>1, <2>1, <3>2, GotoInv
  <2>2. CASE UNCHANGED <<phase, loc>>
    BY <1>1, <2>2 DEF HandlersInv, Terms
  <2>3. ASSUME e.kind \in TaskKinds, NEW found \in {assignment, NoAssignment},
               FirstStep(e, found) # "done",
               Goto(h, FirstStep(e, found), Started(e, found))
        PROVE  HandlersInv'
    BY <1>1, <2>3, FirstStepInv, GotoInv
  <2> QED
    BY <1>3, <2>1, <2>2, <2>3
<1> QED
  BY <1>2, <1>4, <1>6, <1>7

\* Saving the assignment never removes its row, or puts a rider where there is none.
LEMMA SaveAssignmentInv ==
  ASSUME FulfilmentInv, NEW h \in Handlers, SaveAssignment(h) PROVE FulfilmentInv'
<1> USE DEF FulfilmentInv
<1> DEFINE e == loc[h].event
           creates == e.kind = "created" \/ ~loc[h].copy.exists
<1>1. /\ phase[h] = "save" /\ HandlingOf("save", loc[h], assignment.exists, Terms)
      /\ UNCHANGED <<given, order, world, settled>>
  BY DEF SaveAssignment, HandlersInv
<1>2. /\ e \in Events /\ e.kind \in TaskKinds \ {"unassigned"} /\ loc[h].copy \in AssignmentType
      /\ loc[h].copy.exists => assignment.exists
      /\ e.rider \in Riders \cup {NoRider}
  BY <1>1 DEF HandlingOf, KindsAt, LocType, Events
<1>3. StatusFor[e.kind] \in AssignmentStatuses
  BY <1>2 DEF StatusFor, TaskKinds, AssignmentStatuses
<1>4. UpdatedAssignment(h) \in AssignmentType /\ UpdatedAssignment(h).exists = assignment.exists
  <2> DEFINE rider == IF e.rider # NoRider /\ e.kind # "failed" THEN e.rider ELSE loc[h].copy.rider
             keep == IF rider # NoRider THEN rider ELSE assignment.rider
  <2>1. keep \in Riders \cup {NoRider}
    BY <1>2 DEF AssignmentInv, AssignmentType
  <2>2. UpdatedAssignment(h) = [assignment EXCEPT !.status = StatusFor[e.kind], !.rider = keep]
    BY DEF UpdatedAssignment
  <2> HIDE DEF keep, e
  <2> QED
    BY <1>3, <2>1, <2>2 DEF AssignmentInv, AssignmentType
<1>5. AssignmentInv' /\ (assignment.exists => assignment'.exists)
  <2>1. CASE ~creates
    BY <1>2, <1>4, <2>1 DEF SaveAssignment, AssignmentInv
  <2>2. CASE creates /\ assignment.exists
    BY <2>2 DEF SaveAssignment, AssignmentInv
  <2>3. CASE creates /\ ~assignment.exists
    BY <1>2, <1>3, <2>3 DEF SaveAssignment, AssignmentInv, AssignmentType
  <2> QED
    BY <2>1, <2>2, <2>3
<1>6. After(phase[h], e.kind) = "done"
      \/ HandlingOf(After(phase[h], e.kind), loc[h], assignment'.exists, Terms)
  BY <1>1, AfterInv
<1>7. \/ NegativeAck(h) /\ UNCHANGED faults
      \/ Proceed(h, After(phase[h], e.kind), loc[h])
  BY <1>1 DEF SaveAssignment
<1>8. HandlersInv' /\ DeliveriesInv' /\ faults' \in 0..MaxFaults
  BY <1>1, <1>5, <1>6, <1>7, NegativeAckInv, ProceedInv DEF WorldInv
<1> QED
  BY <1>1, <1>5, <1>8 DEF SettlementInv, PayFollows, WorldInv, world

\* Releasing the rider leaves the row, and the rider the flag step will name.
LEMMA ReleaseRiderInv ==
  ASSUME FulfilmentInv, NEW h \in Handlers, ReleaseRider(h) PROVE FulfilmentInv'
<1> USE DEF FulfilmentInv
<1>1. /\ phase[h] = "release" /\ HandlingOf("release", loc[h], assignment.exists, Terms)
      /\ UNCHANGED <<given, order, world, queue, tries, settled, faults>>
      /\ Goto(h, "flag", loc[h])
  BY DEF ReleaseRider, HandlersInv
<1>2. AssignmentInv' /\ assignment'.exists = assignment.exists
  <2>1. CASE ReleaseClaim(h)
    <3>1. assignment' = [assignment EXCEPT !.status = "pending", !.rider = NoRider]
      BY <2>1 DEF ReleaseRider
    <3>2. /\ assignment' \in AssignmentType
          /\ assignment'.exists = assignment.exists /\ assignment'.rider = NoRider
      BY <3>1 DEF AssignmentInv, AssignmentType, AssignmentStatuses
    <3> QED
      BY <3>2 DEF AssignmentInv
  <2>2. CASE ~ReleaseClaim(h)
    BY <2>2 DEF ReleaseRider, AssignmentInv
  <2> QED
    BY <2>1, <2>2
<1>3. HandlingOf("flag", loc[h], assignment'.exists, Terms)
  BY <1>1 DEF HandlingOf, KindsAt, Phases
<1>4. HandlersInv'
  BY <1>1, <1>2, <1>3, GotoInv
<1> QED
  BY <1>1, <1>2, <1>4 DEF DeliveriesInv, SettlementInv, PayFollows, WorldInv, world

\* What is written to the metadata is well formed, and leaves status and payment.
LEMMA MetadataInv ==
  ASSUME FulfilmentInv, NEW h \in Handlers,
         RecordTender(h) \/ RecordTerminal(h) \/ StampDeliveryState(h) \/ FlagNeedsRider(h)
  PROVE  FulfilmentInv'
<1> USE DEF FulfilmentInv
<1>1. /\ HandlingOf(phase[h], loc[h], assignment.exists, Terms)
      /\ UNCHANGED <<given, assignment, world, settled>>
      /\ phase[h] \in {"tender", "terminal", "stamp", "flag"}
  BY DEF HandlersInv, RecordTender, RecordTerminal, StampDeliveryState, FlagNeedsRider
<1>2. order \in OrderType /\ PayFollows(order)
  BY DEF SettlementInv
<1>3. order' \in OrderType /\ order'.status = order.status /\ order'.pay = order.pay
  <2>1. CASE RecordTender(h)
    <3>1. given.tender \in Tenders
      BY DEF WorldInv, CaseType
    <3> QED
      BY <1>2, <2>1, <3>1 DEF RecordTender, OrderType
  <2>2. CASE RecordTerminal(h)
    <3> DEFINE rung == order.atPos \/ given.terminal
    <3>1. rung \in BOOLEAN
      OBVIOUS
    <3>2. order' = [order EXCEPT !.atPos = rung]
      BY <2>2 DEF RecordTerminal
    <3> HIDE DEF rung
    <3> QED
      BY <1>2, <3>1, <3>2 DEF OrderType
  <2>3. CASE StampDeliveryState(h)
    <3> DEFINE e == loc[h].event
               rider == IF e.rider # NoRider THEN e.rider ELSE order.rider
    <3>1. e \in Events /\ e.kind \in Progress
      BY <1>1, <2>3 DEF StampDeliveryState, HandlingOf, KindsAt
    <3>2. rider \in Riders \cup {NoRider} /\ StateFor[e.kind] \in
            {"rider_assigned", "rider_accepted", "arrived_pickup", "picked_up", "delivered", "needs_rider"}
      BY <1>2, <3>1 DEF Events, OrderType, StateFor, Progress
    <3>3. order' = [order EXCEPT !.state = StateFor[e.kind], !.rider = rider]
      BY <2>3 DEF StampDeliveryState
    <3> HIDE DEF rider, e
    <3> QED
      BY <1>2, <3>2, <3>3 DEF OrderType
  <2>4. CASE FlagNeedsRider(h)
    <3>1. [order EXCEPT !.state = "needs_rider", !.rider = NoRider] \in OrderType
      BY <1>2 DEF OrderType
    <3> QED
      BY <1>2, <2>4, <3>1 DEF FlagNeedsRider, OrderType
  <2> QED
    BY <2>1, <2>2, <2>3, <2>4
<1>4. SettlementInv'
  BY <1>1, <1>2, <1>3 DEF SettlementInv, PayFollows
<1>5. After(phase[h], loc[h].event.kind) = "done"
      \/ HandlingOf(After(phase[h], loc[h].event.kind), loc[h], assignment'.exists, Terms)
  BY <1>1, AfterInv
<1>6. HandlersInv' /\ DeliveriesInv' /\ faults' \in 0..MaxFaults
  <2>1. CASE RecordTender(h)
    <3>1. After("tender", loc[h].event.kind) # "done" /\ phase[h] = "tender"
      BY <2>1 DEF RecordTender, After
    <3> QED
      BY <1>1, <1>5, <2>1, <3>1, GotoInv DEF RecordTender, DeliveriesInv, WorldInv
  <2>2. CASE RecordTerminal(h)
    <3>1. After("terminal", loc[h].event.kind) = "read" /\ phase[h] = "terminal"
      BY <2>2 DEF RecordTerminal, After
    <3> QED
      BY <1>1, <1>5, <2>2, <3>1, GotoInv DEF RecordTerminal, DeliveriesInv, WorldInv
  <2>3. CASE StampDeliveryState(h)
    BY <1>1, <1>5, <2>3, ProceedInv DEF StampDeliveryState
  <2>4. CASE FlagNeedsRider(h)
    BY <1>1, <2>4, ProceedInv DEF FlagNeedsRider
  <2> QED
    BY <2>1, <2>2, <2>3, <2>4
<1> QED
  BY <1>1, <1>4, <1>6 DEF AssignmentInv, WorldInv, world

-----------------------------------------------------------------------------
(* The order's status *)

\* Every plan is a list of statuses.
LEMMA PlansType ==
  ASSUME NEW kind \in PosKinds \cup {"picked_up", "delivered", "completed"},
         NEW status \in Statuses, NEW plan \in Plans(kind, status)
  PROVE  plan \in Seq(Statuses)
<1>1. CASE kind \in {"picked_up", "delivered", "completed"}
  <2> DEFINE out == <<"out_for_delivery">>
             gone == <<"delivered">>
             both == <<"out_for_delivery", "delivered">>
  <2>1. <<>> \in Seq(Statuses) /\ out \in Seq(Statuses) /\ gone \in Seq(Statuses) /\ both \in Seq(Statuses)
    BY DEF Statuses
  <2>2. DropOffPath(status) = both \/ DropOffPath(status) = gone \/ DropOffPath(status) = <<>>
    BY DEF DropOffPath
  <2> HIDE DEF out, gone, both
  <2>3. CASE kind = "picked_up"
    <3>1. Plans("picked_up", status) = {IF status = "ready" THEN out ELSE <<>>}
      BY DEF Plans, PosKinds, out
    <3> QED
      BY <2>1, <2>3, <3>1
  <2>4. CASE kind \in {"delivered", "completed"}
    <3>1. Plans("delivered", status) = {DropOffPath(status)} /\ Plans("completed", status) = {DropOffPath(status)}
      BY DEF Plans, PosKinds
    <3> QED
      BY <2>1, <2>2, <2>4, <3>1
  <2> QED
    BY <1>1, <2>3, <2>4
<1>2. CASE kind \in PosKinds
  <2>1. plan \in IF status = Target[kind] THEN {<<>>} ELSE {<<s>> : s \in StepsToward(status, Target[kind])}
    BY <1>2 DEF Plans, PosKinds
  <2>2. StepsToward(status, Target[kind]) \subseteq Statuses
    <3>1. \A i \in 1..6 : HappyPath[i + 1] \in Statuses
      BY DEF HappyPath, Statuses
    <3> QED
      BY <3>1 DEF StepsToward, Statuses
  <2>3. CASE plan = <<>>
    BY <2>3
  <2>4. CASE \E s \in StepsToward(status, Target[kind]) : plan = <<s>>
    <3>1. PICK s \in Statuses : plan = <<s>>
      BY <2>2, <2>4
    <3> QED
      BY <3>1
  <2> QED
    BY <2>1, <2>3, <2>4
<1> QED
  BY <1>1, <1>2

\* What JudgeOrder and ReadOrder leave alone is enough for all but the handlers.
LEMMA LeftAlone ==
  ASSUME FulfilmentInv, UNCHANGED <<given, order, assignment, world, settled>>,
         HandlersInv', DeliveriesInv', faults' \in 0..MaxFaults
  PROVE  FulfilmentInv'
BY DEF FulfilmentInv, SettlementInv, PayFollows, AssignmentInv, WorldInv, world

\* The first look at the order goes on to a phase that fits the event.
LEMMA JudgeOrderInv == ASSUME FulfilmentInv, NEW h \in Handlers, JudgeOrder(h) PROVE FulfilmentInv'
<1>1. HandlingOf("judge", loc[h], assignment.exists, Terms) /\ assignment' = assignment /\ given' = given
  BY DEF JudgeOrder, FulfilmentInv, HandlersInv
<1>2. loc[h].event.kind \in PosKinds \cup {"cancelled"} /\ loc[h].event \in Events /\ loc[h] \in LocType
  BY <1>1 DEF HandlingOf, KindsAt
<1>3. PICK next : /\ Proceed(h, next, loc[h])
                  /\ next \in {"done", "read", "tender", "stamp"}
                  /\ next = "read" => loc[h].event.kind \in PosKinds
                  /\ next = "tender" => loc[h].event.kind = "collected"
                  /\ next = "stamp" => loc[h].event.kind = "cancelled"
  BY <1>2 DEF JudgeOrder, PosKinds
<1>4. next = "done" \/ HandlingOf(next, loc[h], assignment'.exists, Terms)
  BY <1>2, <1>3 DEF HandlingOf, KindsAt, Phases, Progress
<1> QED
  BY <1>1, <1>3, <1>4, ProceedInv, LeftAlone DEF JudgeOrder

\* A handler that goes on to move the order has a status to move it to.
LEMMA ReadOrderInv == ASSUME FulfilmentInv, NEW h \in Handlers, ReadOrder(h) PROVE FulfilmentInv'
<1> DEFINE k == loc[h].event.kind
<1>1. HandlingOf("read", loc[h], assignment.exists, Terms) /\ assignment' = assignment /\ given' = given
  BY DEF ReadOrder, FulfilmentInv, HandlersInv
<1>2. /\ k \in PosKinds \cup {"picked_up", "delivered", "completed"}
      /\ loc[h].event \in Events /\ loc[h] \in LocType
  BY <1>1 DEF HandlingOf, KindsAt
<1>3. CASE NegativeAck(h) /\ UNCHANGED faults
  BY <1>1, <1>3, NegativeAckInv, LeftAlone DEF ReadOrder, FulfilmentInv, WorldInv
<1>4. ASSUME NEW plan \in Plans(k, order.status),
             Proceed(h, IF plan = <<>> THEN "done" ELSE "move", [loc[h] EXCEPT !.plan = plan])
      PROVE  FulfilmentInv'
  <2> DEFINE l == [loc[h] EXCEPT !.plan = plan]
  <2>1. plan \in Seq(Statuses)
    BY <1>2, <1>4, PlansType DEF FulfilmentInv, SettlementInv, OrderType
  <2>2. l \in LocType /\ l.event = loc[h].event /\ l.plan = plan
    BY <1>2, <2>1 DEF LocType
  <2>3. plan # <<>> => HandlingOf("move", l, assignment'.exists, Terms)
    BY <1>2, <2>2 DEF HandlingOf, KindsAt, Phases
  <2> HIDE DEF l
  <2>4. CASE plan = <<>>
    BY <1>1, <1>4, <2>4, ProceedInv, LeftAlone DEF ReadOrder
  <2>5. CASE plan # <<>>
    <3>1. Proceed(h, "move", l)
      BY <1>4, <2>5 DEF l
    <3> QED
      BY <1>1, <2>3, <2>5, <3>1, ProceedInv, LeftAlone DEF ReadOrder
  <2> QED
    BY <2>4, <2>5
<1> QED
  BY <1>3, <1>4 DEF ReadOrder

\* The order a claim is decided on allows the move.
LEMMA MoveOrderInv == ASSUME FulfilmentInv, NEW h \in Handlers, MoveOrder(h) PROVE FulfilmentInv'
<1>1. /\ HandlingOf("move", loc[h], assignment.exists, Terms)
      /\ UNCHANGED <<given, order, assignment, world, settled, faults>>
  BY DEF MoveOrder, FulfilmentInv, HandlersInv
<1>2. faults' \in 0..MaxFaults
  BY <1>1 DEF FulfilmentInv, WorldInv
<1>3. CASE NegativeAck(h)
  BY <1>1, <1>2, <1>3, NegativeAckInv, LeftAlone
<1>4. CASE /\ MayMove(Terms, order, Head(loc[h].plan))
           /\ Goto(h, "claim", [loc[h] EXCEPT !.seen = order])
           /\ UNCHANGED <<queue, tries>>
  <2> DEFINE l == [loc[h] EXCEPT !.seen = order]
  <2>1. order \in OrderType /\ PayFollows(order)
    BY DEF FulfilmentInv, SettlementInv
  <2>2. l \in LocType /\ l.event = loc[h].event /\ l.plan = loc[h].plan /\ l.seen = order
    BY <1>1, <2>1 DEF HandlingOf, LocType
  <2>3. HandlingOf("claim", l, assignment'.exists, Terms)
    BY <1>1, <1>4, <2>1, <2>2 DEF HandlingOf, KindsAt, Phases
  <2>4. HandlersInv'
    BY <1>1, <1>4, <2>3, GotoInv
  <2> QED
    BY <1>1, <1>2, <1>4, <2>4, LeftAlone DEF FulfilmentInv, DeliveriesInv
<1> QED
  BY <1>3, <1>4 DEF MoveOrder

\* A move pays a pay-on-collection order exactly when it ends it.
LEMMA MovePays ==
  ASSUME NEW o \in OrderType, PayFollows(o), NEW to, MayMove(Terms, o, to)
  PROVE  /\ to \in Statuses
         /\ (IF MarkPaid(Terms, o, to) THEN "paid" ELSE o.pay) =
              IF to \in {"delivered", "completed", "refunded"} THEN "paid" ELSE "cod_pending"
         /\ MarkPaid(Terms, o, to) => o.pay = "cod_pending"
<1>1. Terms.method = "cod"
  BY DEF Terms
<1>2. <<o.status, to>> \in Edges
  BY DEF MayMove, CanTransition
<1>3. o.pay \in {"cod_pending", "paid"}
  BY DEF OrderType
<1> QED
  BY <1>1, <1>2, <1>3 DEF MarkPaid, PayFollows, Edges, Statuses

\* A status write decided on the status it finds books at most one tender, with the
\* payment; o is the order it was decided on.
LEMMA StatusWriteInv ==
  ASSUME FulfilmentInv, NEW o \in OrderType, PayFollows(o), o.status = order.status,
         NEW to, MayMove(Terms, o, to), NEW booked \in SUBSET {o.tender},
         booked # {} => MarkPaid(Terms, o, to),
         order' = [order EXCEPT !.status = to, !.pay = IF MarkPaid(Terms, o, to) THEN "paid" ELSE o.pay],
         settled' = [t \in Tenders |-> settled[t] + (IF t \in booked THEN 1 ELSE 0)]
  PROVE  SettlementInv'
<1> DEFINE pay == IF MarkPaid(Terms, o, to) THEN "paid" ELSE o.pay
<1>1. /\ order \in OrderType /\ PayFollows(order) /\ settled \in [Tenders -> Nat]
      /\ settled["cash"] + settled["mpesa"] <= IF order.pay = "paid" THEN 1 ELSE 0
  BY DEF FulfilmentInv, SettlementInv
<1>2. /\ to \in Statuses /\ pay = IF to \in {"delivered", "completed", "refunded"} THEN "paid" ELSE "cod_pending"
      /\ MarkPaid(Terms, o, to) => o.pay = "cod_pending"
  BY MovePays
<1>3. o.pay = order.pay
  BY <1>1 DEF PayFollows
<1>4. pay = "paid" \/ (pay = order.pay /\ ~MarkPaid(Terms, o, to))
  BY <1>3
<1>5. order' = [order EXCEPT !.status = to, !.pay = pay]
  OBVIOUS
<1> HIDE DEF pay
<1>6. order' \in OrderType /\ order'.status = to /\ order'.pay = pay
  BY <1>1, <1>2, <1>5 DEF OrderType
<1>7. PayFollows(order')
  BY <1>2, <1>6 DEF PayFollows
<1>8. settled["cash"] \in Nat /\ settled["mpesa"] \in Nat /\ settled' \in [Tenders -> Nat]
  BY <1>1 DEF Tenders
<1>9. settled'["cash"] + settled'["mpesa"] <= IF order'.pay = "paid" THEN 1 ELSE 0
  <2>1. CASE booked = {}
    <3>1. settled'["cash"] = settled["cash"] /\ settled'["mpesa"] = settled["mpesa"]
      BY <1>8, <2>1 DEF Tenders
    <3> QED
      BY <1>1, <1>4, <1>6, <1>8, <3>1
  <2>2. CASE booked # {}
    <3>1. order.pay = "cod_pending" /\ pay = "paid" /\ booked = {o.tender}
      BY <1>2, <1>3, <1>4, <2>2
    <3>2. settled["cash"] = 0 /\ settled["mpesa"] = 0
      BY <1>1, <1>8, <3>1
    <3>3. o.tender \in Tenders
      BY DEF OrderType
    <3>4. settled'["cash"] + settled'["mpesa"] <= 1
      BY <3>1, <3>2, <3>3 DEF Tenders
    <3> QED
      BY <1>6, <3>1, <3>4
  <2> QED
    BY <2>1, <2>2
<1> QED
  BY <1>6, <1>7, <1>8, <1>9 DEF SettlementInv

\* The write of UpdateOrderStatus, won or lost.
LEMMA ClaimOrderInv == ASSUME FulfilmentInv, NEW h \in Handlers, ClaimOrder(h) PROVE FulfilmentInv'
<1> DEFINE l == loc[h]
           to == Head(l.plan)
           rest == [l EXCEPT !.plan = Tail(@), !.seen = NewOrder]
           settles == IF OrderClaim(h) /\ MarkPaid(Terms, l.seen, to) /\ ~l.seen.atPos
                      THEN {l.seen.tender} ELSE {}
           next == IF rest.plan # <<>> THEN "move"
                   ELSE IF l.event.kind \in PosKinds THEN "read" ELSE "done"
<1>1. HandlingOf("claim", l, assignment.exists, Terms) /\ UNCHANGED <<given, assignment, world>>
  BY DEF ClaimOrder, FulfilmentInv, HandlersInv
<1>2. /\ l \in LocType /\ l.event \in Events
      /\ l.event.kind \in PosKinds \cup {"picked_up", "delivered", "completed"}
      /\ l.plan \in Seq(Statuses) /\ l.plan # <<>> /\ l.seen \in OrderType
      /\ MayMove(Terms, l.seen, to) /\ PayFollows(l.seen)
  BY <1>1 DEF HandlingOf, KindsAt, LocType
<1>3. SettlementInv'
  <2>1. settled' = [t \in Tenders |-> settled[t] + (IF t \in settles THEN 1 ELSE 0)]
    BY DEF ClaimOrder
  <2>2. CASE OrderClaim(h)
    <3>1. order' = [order EXCEPT !.status = to, !.pay = IF MarkPaid(Terms, l.seen, to) THEN "paid" ELSE l.seen.pay]
      BY <2>2 DEF ClaimOrder
    <3>2. settles \in SUBSET {l.seen.tender} /\ (settles # {} => MarkPaid(Terms, l.seen, to))
      OBVIOUS
    <3>3. l.seen.status = order.status
      BY <2>2 DEF OrderClaim
    <3> HIDE DEF settles, to, l
    <3> QED
      BY <1>2, <2>1, <3>1, <3>2, <3>3, StatusWriteInv
  <2>3. CASE ~OrderClaim(h)
    <3>1. order' = order /\ settles = {}
      BY <2>3 DEF ClaimOrder
    <3> HIDE DEF settles
    <3>2. settled' = settled
      BY <2>1, <3>1 DEF FulfilmentInv, SettlementInv, Tenders
    <3> QED
      BY <3>1, <3>2 DEF FulfilmentInv, SettlementInv, PayFollows
  <2> QED
    BY <2>2, <2>3
<1>4. rest \in LocType /\ rest.event = l.event
  <2> DEFINE more == Tail(l.plan)
  <2>1. more \in Seq(Statuses)
    BY <1>2
  <2>2. rest = [l EXCEPT !.plan = more, !.seen = NewOrder]
    OBVIOUS
  <2> HIDE DEF more, rest
  <2> QED
    BY <1>2, <2>1, <2>2, IdleType DEF LocType
<1>5. Proceed(h, next, rest)
  BY DEF ClaimOrder
<1> HIDE DEF rest
<1>6. next = "done" \/ HandlingOf(next, rest, assignment'.exists, Terms)
  BY <1>2, <1>4 DEF HandlingOf, KindsAt, Phases
<1> HIDE DEF next
<1>7. HandlersInv' /\ DeliveriesInv' /\ faults' \in 0..MaxFaults
  BY <1>1, <1>5, <1>6, ProceedInv
<1> QED
  BY <1>1, <1>3, <1>7 DEF FulfilmentInv, AssignmentInv, WorldInv, world

-----------------------------------------------------------------------------
(* The dashboard, logistics and the outlet's POS *)

\* What the others do leaves every handler where it was.
LEMMA HandlersLeft ==
  ASSUME FulfilmentInv, UNCHANGED <<given, assignment, phase, loc>>
  PROVE  HandlersInv' /\ AssignmentInv'
BY DEF FulfilmentInv, HandlersInv, AssignmentInv, Terms

\* A status call settles like the handlers' moves.
LEMMA StaffCallsInv == ASSUME FulfilmentInv, StaffCalls PROVE FulfilmentInv'
<1>1. UNCHANGED <<given, assignment, task, queue, tries, phase, loc, faults>> /\ reports' \in 0..MaxReports
  BY DEF StaffCalls, FulfilmentInv, WorldInv
<1>2. PICK to \in Statuses :
        LET paid == MarkPaid(Terms, order, to)
            settles == IF paid /\ ~order.atPos THEN {order.tender} ELSE {}
        IN /\ MayMove(Terms, order, to)
           /\ order' = [order EXCEPT !.status = to, !.pay = IF paid THEN "paid" ELSE @]
           /\ settled' = [t \in Tenders |-> settled[t] + (IF t \in settles THEN 1 ELSE 0)]
  BY DEF StaffCalls
<1> DEFINE settles == IF MarkPaid(Terms, order, to) /\ ~order.atPos THEN {order.tender} ELSE {}
<1>3. settles \in SUBSET {order.tender} /\ (settles # {} => MarkPaid(Terms, order, to))
  OBVIOUS
<1>4. /\ MayMove(Terms, order, to)
      /\ order' = [order EXCEPT !.status = to, !.pay = IF MarkPaid(Terms, order, to) THEN "paid" ELSE order.pay]
      /\ settled' = [t \in Tenders |-> settled[t] + (IF t \in settles THEN 1 ELSE 0)]
  BY <1>2
<1>5. order \in OrderType /\ PayFollows(order)
  BY DEF FulfilmentInv, SettlementInv
<1> HIDE DEF settles
<1>6. SettlementInv'
  BY <1>3, <1>4, <1>5, StatusWriteInv
<1> QED
  BY <1>1, <1>6, HandlersLeft DEF FulfilmentInv, DeliveriesInv, WorldInv

\* A published event has all its deliveries.
LEMMA PublishInv ==
  ASSUME FulfilmentInv, NEW kind \in TaskKinds \cup PosKinds, NEW r \in Riders \cup {NoRider},
         kind \in {"created"} \cup PosKinds => r = NoRider, Publish(kind, r)
  PROVE  DeliveriesInv' /\ reports' \in 0..MaxReports
<1> DEFINE e == [kind |-> kind, rider |-> r]
<1>1. e \in Events
  BY DEF Publish, Events, TaskKinds, PosKinds
<1>2. queue' = queue \cup {e} /\ tries' = [tries EXCEPT ![e] = 0] /\ reports' = reports + 1 /\ reports < MaxReports
  BY DEF Publish
<1> HIDE DEF e
<1> QED
  BY <1>1, <1>2 DEF FulfilmentInv, DeliveriesInv, WorldInv

\* Logistics reports on its task.
LEMMA TaskReportsInv == ASSUME FulfilmentInv, TaskReports PROVE FulfilmentInv'
<1>1. UNCHANGED <<given, order, assignment, phase, loc, settled>>
  BY DEF TaskReports
<1>2. PICK kind \in TaskKinds, r \in Riders \cup {NoRider} :
        /\ kind = "created" => r = NoRider
        /\ \/ Publish(kind, r) /\ UNCHANGED faults
           \/ Fault /\ UNCHANGED <<reports, queue, tries>>
        /\ task' = [stage |-> TaskEdge[kind].to,
                    rider |-> IF TaskEdge[kind].to = "open" THEN NoRider ELSE r]
  BY DEF TaskReports, TaskEdge, TaskKinds, FulfilmentInv, WorldInv, TaskType
<1>3. TaskEdge[kind].to \in {"open", "assigned", "collected", "dropped", "closed"}
  BY DEF TaskEdge, TaskKinds
<1>4. task' \in TaskType
  BY <1>2, <1>3 DEF TaskType
<1>5. DeliveriesInv' /\ reports' \in 0..MaxReports /\ faults' \in 0..MaxFaults
  <2>1. CASE Publish(kind, r) /\ UNCHANGED faults
    <3>1. kind \in {"created"} \cup PosKinds => r = NoRider
      BY <1>2 DEF TaskKinds, PosKinds
    <3> QED
      BY <2>1, <3>1, PublishInv DEF FulfilmentInv, WorldInv
  <2>2. CASE Fault /\ UNCHANGED <<reports, queue, tries>>
    BY <2>2 DEF FulfilmentInv, WorldInv, Fault, DeliveriesInv
  <2> QED
    BY <1>2, <2>1, <2>2
<1> QED
  BY <1>1, <1>4, <1>5, HandlersLeft DEF FulfilmentInv, SettlementInv, PayFollows, WorldInv

\* The outlet's POS reports on the order.
LEMMA PosReportsInv == ASSUME FulfilmentInv, PosReports PROVE FulfilmentInv'
<1>1. UNCHANGED <<given, order, assignment, task, phase, loc, settled, faults>>
  BY DEF PosReports
<1>2. DeliveriesInv' /\ reports' \in 0..MaxReports
  BY PublishInv DEF PosReports
<1> QED
  BY <1>1, <1>2, HandlersLeft DEF FulfilmentInv, SettlementInv, PayFollows, WorldInv

-----------------------------------------------------------------------------
(* The theorems *)

\* Every case an order is taken over in is a good start.
LEMMA FulfilmentInitial == ASSUME Init PROVE FulfilmentInv
<1> DEFINE r == given.carrier
           stands == [NewOrder EXCEPT !.status = given.from]
<1>1. given \in Cases /\ given.from \in {"confirmed", "preparing", "ready"} /\ r \in Riders \cup {NoRider}
  BY DEF Init, CaseType
<1>2. stands \in OrderType /\ stands.status = given.from /\ stands.pay = "cod_pending"
  BY <1>1, IdleType DEF OrderType, NewOrder, Statuses
<1> HIDE DEF stands
<1>3. /\ order \in OrderType /\ order.status = given.from /\ order.pay = "cod_pending"
      /\ AssignmentInv /\ task \in TaskType
  <2>1. CASE r = NoRider
    <3>1. order = stands /\ assignment = NoAssignment /\ task = [stage |-> "none", rider |-> NoRider]
      BY <2>1 DEF Init, stands
    <3> QED
      BY <1>2, <3>1, IdleType DEF AssignmentInv, NoAssignment, TaskType
  <2>2. CASE r # NoRider
    <3>1. /\ order = [stands EXCEPT !.state = "rider_assigned", !.rider = r]
          /\ assignment = [exists |-> TRUE, status |-> "assigned", rider |-> r]
          /\ task = [stage |-> "assigned", rider |-> r]
      BY <2>2 DEF Init, stands
    <3>2. order \in OrderType /\ order.status = given.from /\ order.pay = "cod_pending"
      BY <1>1, <1>2, <3>1 DEF OrderType
    <3> QED
      BY <1>1, <3>1, <3>2 DEF AssignmentInv, AssignmentType, AssignmentStatuses, TaskType
  <2> QED
    BY <2>1, <2>2
<1>4. SettlementInv
  BY <1>1, <1>3 DEF Init, SettlementInv, PayFollows, Tenders
<1>5. HandlersInv
  BY IdleType DEF Init, HandlersInv, HandlingOf, Phases
<1>6. DeliveriesInv
  BY DEF Init, DeliveriesInv
<1> QED
  BY <1>1, <1>3, <1>4, <1>5, <1>6 DEF Init, FulfilmentInv, WorldInv

\* Every step keeps the invariant.
LEMMA FulfilmentStep == ASSUME FulfilmentInv, [Next]_vars PROVE FulfilmentInv'
<1>1. ASSUME NEW h \in Handlers, Deliver(h) PROVE FulfilmentInv'
  BY <1>1, DeliverInv
<1>2. ASSUME NEW h \in Handlers, Handle(h) PROVE FulfilmentInv'
  BY <1>2, SaveAssignmentInv, ReleaseRiderInv, MetadataInv, JudgeOrderInv, ReadOrderInv,
     MoveOrderInv, ClaimOrderInv, StepFailsInv DEF Handle
<1>3. CASE StaffCalls
  BY <1>3, StaffCallsInv
<1>4. CASE TaskReports
  BY <1>4, TaskReportsInv
<1>5. CASE PosReports
  BY <1>5, PosReportsInv
<1>6. CASE UNCHANGED vars
  BY <1>6, HandlersLeft
     DEF vars, world, FulfilmentInv, DeliveriesInv, SettlementInv, PayFollows, WorldInv
<1> QED
  BY <1>1, <1>2, <1>3, <1>4, <1>5, <1>6 DEF Next

\* The invariant holds of every order, however its events interleave.
THEOREM FulfilmentInvariant == Spec => []FulfilmentInv
<1> QED
  BY FulfilmentInitial, FulfilmentStep, PTL DEF Spec

\* Rows, deliveries and handlers are always well formed.
THEOREM FulfilmentTypes == Spec => []TypeOK
<1>1. FulfilmentInv => TypeOK
  BY DEF FulfilmentInv, HandlersInv, DeliveriesInv, AssignmentInv, SettlementInv, WorldInv, TypeOK
<1> QED
  BY <1>1, FulfilmentInvariant, PTL

\* The money taken at the door or the counter is booked in treasury once, however
\* many handlers report the drop-off and however often they are repeated: only the
\* write that moves the order to its end books it, and the end is reached once.
THEOREM AlwaysSettledOnce == Spec => []SettledOnce
<1>1. FulfilmentInv => SettledOnce
  BY DEF FulfilmentInv, SettlementInv, SettledOnce, Tenders
<1> QED
  BY <1>1, FulfilmentInvariant, PTL

-----------------------------------------------------------------------------
(* What a step may not do *)

\* A rider loses the task only through an event that names that rider or nobody,
\* however handlers interleave: saving the assignment never empties the column, and a
\* release writes only over the rider of the copy it was decided on.
THEOREM AlwaysReleasedByOwnEvent == Spec => ReleasedByOwnEvent
<1> DEFINE Kept(r) ==
      assignment.rider = r /\ assignment'.rider = NoRider =>
        \E h \in Handlers : phase[h] = "release" /\ loc[h].event.rider \in {r, NoRider}
<1>1. ASSUME FulfilmentInv, [Next]_vars, NEW r \in Riders, assignment.rider = r,
             assignment'.rider = NoRider
      PROVE  \E h \in Handlers : phase[h] = "release" /\ loc[h].event.rider \in {r, NoRider}
  <2>1. assignment' # assignment /\ assignment.exists
    BY <1>1 DEF FulfilmentInv, AssignmentInv
  <2>2. ~StaffCalls /\ ~TaskReports /\ ~PosReports /\ ~UNCHANGED vars
    BY <2>1 DEF StaffCalls, TaskReports, PosReports, vars
  <2>3. PICK g \in Handlers : Deliver(g) \/ Handle(g)
    BY <1>1, <2>2 DEF Next
  <2>4. SaveAssignment(g) \/ ReleaseRider(g)
    BY <2>1, <2>3
       DEF Deliver, Handle, RecordTender, RecordTerminal, StampDeliveryState, FlagNeedsRider,
           JudgeOrder, ReadOrder, MoveOrder, ClaimOrder, StepFails
  <2>5. CASE SaveAssignment(g)
    <3> DEFINE e == loc[g].event
               rider == IF e.rider # NoRider /\ e.kind # "failed" THEN e.rider ELSE loc[g].copy.rider
               keep == IF rider # NoRider THEN rider ELSE assignment.rider
    <3>1. assignment' = UpdatedAssignment(g)
      BY <2>1, <2>5 DEF SaveAssignment
    <3>2. assignment' = [assignment EXCEPT !.status = StatusFor[e.kind], !.rider = keep]
      BY <3>1 DEF UpdatedAssignment
    <3>3. keep # NoRider
      BY <1>1
    <3>4. assignment \in AssignmentType
      BY <1>1 DEF FulfilmentInv, AssignmentInv
    <3> HIDE DEF keep, e
    <3> QED
      BY <1>1, <3>2, <3>3, <3>4 DEF AssignmentType
  <2>6. CASE ReleaseRider(g)
    <3>1. phase[g] = "release" /\ ReleaseClaim(g)
      BY <2>1, <2>6 DEF ReleaseRider
    <3>2. loc[g].event.rider \in {NoRider, loc[g].copy.rider}
      BY <1>1, <3>1 DEF FulfilmentInv, HandlersInv, HandlingOf
    <3> QED
      BY <1>1, <3>1, <3>2 DEF ReleaseClaim
  <2> QED
    BY <2>4, <2>5, <2>6
<1>2. FulfilmentInv /\ [Next]_vars => [\A r \in Riders : Kept(r)]_vars
  BY <1>1
<1> QED
  BY <1>2, FulfilmentInvariant, PTL DEF Spec, ReleasedByOwnEvent

=============================================================================
