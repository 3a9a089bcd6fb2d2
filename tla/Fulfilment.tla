------------------------------- MODULE Fulfilment -------------------------------
(***************************************************************************)
(* One accepted pay-on-collection order from the kitchen to the customer:  *)
(* the events of the outlet's POS and of logistics about it, handled by    *)
(* goroutines that interleave, and the delivery assignment kept for its    *)
(* logistics task.                                                         *)
(*                                                                         *)
(* Every event subject has a consumer of its own, so events are handled in *)
(* any order.  An event whose handler returns an error, or dies, is        *)
(* delivered again, MaxDeliver times at most.                              *)
(***************************************************************************)
EXTENDS OrderStates, Naturals, Sequences

CONSTANTS
  Handlers,    \* goroutines an event can be handled on
  Riders,      \* riders of the logistics service
  NoRider,
  Kinds,       \* the kinds of events that are published
  Cases,       \* how the order may be handed over and paid, a subset of CaseType
  MaxDeliver,  \* the consumers' limit on deliveries of one event
  MaxReports,  \* bound: events published and staff calls
  MaxFaults    \* bound: database errors, crashes, lost acknowledgements and reports

TaskKinds == {"created", "assigned", "accepted", "arrived", "unassigned",
              "picked_up", "delivered", "completed", "cancelled", "failed"}
PosKinds == {"kds_ready", "preparing", "collected"}

\* staff: not an event but a status call from the dashboard.
ASSUME KindsAssumption == Kinds \subseteq TaskKinds \cup PosKinds \cup {"staff"}

Tenders == {"cash", "mpesa"}

\* from: where the kitchen has the order; terminal: rung up at the outlet's POS
\* terminal; carrier: the rider who already has the task, if any.
CaseType == [fulfil : {"delivery", "pickup"}, from : {"confirmed", "preparing", "ready"},
             tender : Tenders, terminal : BOOLEAN, carrier : Riders \cup {NoRider}]

ASSUME CasesAssumption == Cases \subseteq CaseType
ASSUME DeliveryBounds == MaxDeliver \in Nat \ {0} /\ {MaxReports, MaxFaults} \subseteq Nat
ASSUME NoRiderAssumption == NoRider \notin Riders

VARIABLES
  given,       \* the case: how the order is handed over, and paid at that moment
  order,       \* the order's row and its delivery metadata
  assignment,  \* the row of order_assignments for the task
  task,        \* logistics: how far its task has come, and who carries it
  queue,       \* events published and not acknowledged
  tries,       \* failed deliveries of each event
  phase,       \* where each handler is
  loc,         \* what each handler holds
  settled,     \* history: settlements owed to treasury, per tender
  reports,     \* events and staff calls so far
  faults       \* faults so far

world == <<task, reports>>
vars == <<given, order, assignment, world, queue, tries, phase, loc, settled, faults>>

Events ==
  {e \in [kind : Kinds, rider : Riders \cup {NoRider}] :
     e.kind \in {"created", "staff"} \cup PosKinds => e.rider = NoRider}

NoEvent == [kind |-> "created", rider |-> NoRider]

\* state, rider: delivery_status and rider_id of the metadata; tender: the
\* recorded collection method; atPos: paid at the POS terminal.
OrderType == [status : Statuses, pay : {"cod_pending", "paid"}, tender : Tenders,
              atPos : BOOLEAN, rider : Riders \cup {NoRider},
              state : {"none", "rider_assigned", "rider_accepted", "arrived_pickup",
                       "picked_up", "delivered", "needs_rider"}]

AssignmentStatuses == {"pending", "assigned", "accepted", "arrived_pickup",
                       "picked_up", "completed", "cancelled", "failed"}

AssignmentType == [exists : BOOLEAN, status : AssignmentStatuses,
                   rider : Riders \cup {NoRider}]

NoAssignment == [exists |-> FALSE, status |-> "pending", rider |-> NoRider]

TaskType == [stage : {"none", "open", "assigned", "collected", "dropped", "closed"},
             rider : Riders \cup {NoRider}]

\* save, release: the assignment; tender, terminal, stamp, flag: the
\* metadata; judge, read: the order; move, claim: UpdateOrderStatus.
Phases == {"idle", "save", "release", "tender", "terminal", "stamp", "flag",
           "judge", "read", "move", "claim"}

\* copy: the assignment as read; plan: statuses to move the order to; seen: the
\* order as UpdateOrderStatus read it.
LocType == [event : Events \cup {NoEvent}, copy : AssignmentType, plan : Seq(Statuses), seen : OrderType]

NewOrder == [status |-> "confirmed", pay |-> "cod_pending", tender |-> "cash",
             atPos |-> FALSE, rider |-> NoRider, state |-> "none"]

Started(e, found) == [event |-> e, copy |-> found, plan |-> <<>>, seen |-> NewOrder]

NoLoc == Started(NoEvent, NoAssignment)

TypeOK ==
  /\ given \in Cases
  /\ order \in OrderType
  /\ assignment \in AssignmentType
  /\ task \in TaskType
  /\ queue \subseteq Events
  /\ tries \in [Events -> 0..MaxDeliver]
  /\ phase \in [Handlers -> Phases]
  /\ loc \in [Handlers -> LocType]
  /\ settled \in [Tenders -> Nat]
  /\ reports \in 0..MaxReports
  /\ faults \in 0..MaxFaults

Init ==
  /\ given \in Cases
  /\ LET r == given.carrier
         stands == [NewOrder EXCEPT !.status = given.from]
     IN IF r = NoRider
        THEN /\ order = stands
             /\ assignment = NoAssignment
             /\ task = [stage |-> "none", rider |-> NoRider]
        ELSE /\ order = [stands EXCEPT !.state = "rider_assigned", !.rider = r]
             /\ assignment = [exists |-> TRUE, status |-> "assigned", rider |-> r]
             /\ task = [stage |-> "assigned", rider |-> r]
  /\ queue = {}
  /\ tries = [e \in Events |-> 0]
  /\ phase = [h \in Handlers |-> "idle"]
  /\ loc = [h \in Handlers |-> NoLoc]
  /\ settled = [t \in Tenders |-> 0]
  /\ reports = 0
  /\ faults = 0

-----------------------------------------------------------------------------
(* Deliveries *)

Terms == [fulfil |-> given.fulfil, method |-> "cod", held |-> FALSE, points |-> FALSE,
          auto |-> FALSE]

Finished(status) == status \in {"delivered", "completed", "cancelled", "refunded"}

Goto(h, next, l) ==
  /\ phase' = [phase EXCEPT ![h] = next]
  /\ loc' = [loc EXCEPT ![h] = IF next = "idle" THEN NoLoc ELSE l]

Fault == faults < MaxFaults /\ faults' = faults + 1

\* Mutant: an event is acknowledged whatever its handler returned.
NegativeAck_Acked(h) ==
  /\ queue' = queue \ {loc[h].event}
  /\ Goto(h, "idle", NoLoc)
  /\ UNCHANGED tries

\* The handler returned an error or died: the event comes again until it has used
\* its deliveries up.
NegativeAck(h) ==
  LET e == loc[h].event
  IN /\ Goto(h, "idle", NoLoc)
     /\ IF e \in queue
        THEN /\ tries' = [tries EXCEPT ![e] = @ + 1]
             /\ queue' = IF tries[e] + 1 = MaxDeliver THEN queue \ {e} ELSE queue
        ELSE UNCHANGED <<queue, tries>>

\* The handler goes on, or returns ("done"); its acknowledgement may be lost, and
\* the event handled again.
Proceed(h, next, l) ==
  \/ /\ next # "done"
     /\ Goto(h, next, l)
     /\ UNCHANGED <<queue, tries, faults>>
  \/ /\ next = "done"
     /\ queue' = queue \ {loc[h].event}
     /\ Goto(h, "idle", NoLoc)
     /\ UNCHANGED <<tries, faults>>
  \/ /\ next = "done"
     /\ Fault
     /\ NegativeAck(h)

\* Where a handler goes on after the named write, made or not.
After(written, kind) ==
  CASE written = "save" /\ kind \in {"created", "failed"} -> "done"
    [] written = "save" /\ kind = "completed"             -> "tender"
    [] written = "save" /\ kind = "cancelled"             -> "judge"
    [] written = "tender" /\ kind = "collected"           -> "terminal"
    [] written = "terminal"                               -> "read"
    [] written = "stamp" /\ kind \in {"picked_up", "delivered", "completed"} -> "read"
    [] written \in {"stamp", "flag"}                      -> "done"
    [] OTHER                                              -> "stamp"

\* Where an error that is only logged, or taken for a missing row, leads to.
Tolerated(h) ==
  LET k == loc[h].event.kind
  IN IF phase[h] \in {"tender", "stamp"} \/ (phase[h] = "save" /\ k # "created")
     THEN {After(phase[h], k)} ELSE {}

\* Any other error ends the handler, as does a crash.
StepFails(h) ==
  /\ phase[h] # "idle"
  /\ Fault
  /\ \/ NegativeAck(h)
     \/ /\ "done" \in Tolerated(h)
        /\ queue' = queue \ {loc[h].event}
        /\ Goto(h, "idle", NoLoc)
        /\ UNCHANGED tries
     \/ /\ \E next \in Tolerated(h) \ {"done"} : Goto(h, next, loc[h])
        /\ UNCHANGED <<queue, tries>>
  /\ UNCHANGED <<given, order, assignment, world, settled>>

-----------------------------------------------------------------------------
(* The delivery assignment *)

\* riderReleasable: still held by the rider the event names, and not collected.
Releasable(a, rider) ==
  /\ a.exists
  /\ a.rider # NoRider
  /\ rider \in {NoRider, a.rider}
  /\ a.status \in {"pending", "assigned", "accepted", "arrived_pickup"}

\* Mutant: a task given back with nobody to release, as in a redelivery after the
\* release, leaves the order alone.
FirstStep_DoneIfReleased(e, found) ==
  CASE e.kind = "created" ->
         IF found.exists /\ found.status \notin {"cancelled", "failed"} THEN "done" ELSE "save"
    [] e.kind = "unassigned" -> IF Releasable(found, e.rider) THEN "release" ELSE "done"
    [] e.kind = "assigned"   -> "save"
    [] OTHER                 -> IF found.exists THEN "save" ELSE After("save", e.kind)

\* What a task event's handler does with the assignment it finds.
FirstStep(e, found) ==
  CASE e.kind = "created" ->
         IF found.exists /\ found.status \notin {"cancelled", "failed"} THEN "done" ELSE "save"
    [] e.kind = "unassigned" -> IF Releasable(found, e.rider) THEN "release" ELSE "flag"
    [] e.kind = "assigned"   -> "save"
    [] OTHER                 -> IF found.exists THEN "save" ELSE After("save", e.kind)

\* A consumer takes an event; a task event's handler first looks for the
\* assignment.  An error there reads as a missing row, but for task.unassigned.
Deliver(h) ==
  /\ phase[h] = "idle"
  /\ \E e \in queue :
       \/ /\ e.kind \in PosKinds
          /\ Goto(h, "judge", Started(e, NoAssignment))
          /\ UNCHANGED <<queue, faults>>
       \/ /\ e.kind \in TaskKinds
          /\ \E found \in {assignment, NoAssignment} :
               /\ \/ found = assignment /\ UNCHANGED faults
                  \/ found = NoAssignment /\ e.kind # "unassigned" /\ Fault
               /\ IF FirstStep(e, found) = "done"
                  THEN queue' = queue \ {e} /\ UNCHANGED <<phase, loc>>
                  ELSE /\ Goto(h, FirstStep(e, found), Started(e, found))
                       /\ UNCHANGED queue
  /\ UNCHANGED <<given, order, assignment, world, tries, settled>>

StatusFor == [created |-> "pending", assigned |-> "assigned", accepted |-> "accepted",
              arrived |-> "arrived_pickup", picked_up |-> "picked_up",
              delivered |-> "completed", completed |-> "completed",
              cancelled |-> "cancelled", failed |-> "failed"]

\* Mutant: the status of the event is written as it comes.
UpdatedAssignment_Raw(h) == [assignment EXCEPT !.status = loc[h].event.kind]

\* UpdateAssignment: the status, and the rider of the copy unless it is empty.
UpdatedAssignment(h) ==
  LET e == loc[h].event
      rider == IF e.rider # NoRider /\ e.kind # "failed" THEN e.rider ELSE loc[h].copy.rider
  IN [assignment EXCEPT !.status = StatusFor[e.kind],
                        !.rider = IF rider # NoRider THEN rider ELSE @]

\* A row created since it was looked for makes the insert fail: task.created then
\* comes again, task.assigned only logs it.
SaveAssignment(h) ==
  LET e == loc[h].event
      creates == e.kind = "created" \/ ~loc[h].copy.exists
  IN /\ phase[h] = "save"
     /\ assignment' =
          IF ~creates THEN UpdatedAssignment(h)
          ELSE IF assignment.exists THEN assignment
               ELSE [exists |-> TRUE, status |-> StatusFor[e.kind], rider |-> e.rider]
     /\ IF e.kind = "created" /\ assignment.exists
        THEN NegativeAck(h) /\ UNCHANGED faults
        ELSE Proceed(h, After("save", e.kind), loc[h])
     /\ UNCHANGED <<given, order, world, settled>>

\* Mutant: the release does not check who holds the assignment now.
ReleaseClaim_Unguarded(h) == TRUE

\* ReleaseAssignmentRider: only while the rider read still holds it.
ReleaseClaim(h) == assignment.rider = loc[h].copy.rider

ReleaseRider(h) ==
  /\ phase[h] = "release"
  /\ assignment' = IF ReleaseClaim(h)
                   THEN [assignment EXCEPT !.status = "pending", !.rider = NoRider]
                   ELSE assignment
  /\ Goto(h, "flag", loc[h])
  /\ UNCHANGED <<given, order, world, queue, tries, settled, faults>>
-----------------------------------------------------------------------------
(* The order's metadata *)

\* RecordCODCollection.
RecordTender(h) ==
  /\ phase[h] = "tender"
  /\ order' = [order EXCEPT !.tender = given.tender]
  /\ Goto(h, After("tender", loc[h].event.kind), loc[h])
  /\ UNCHANGED <<given, assignment, world, queue, tries, settled, faults>>

RecordTerminal(h) ==
  /\ phase[h] = "terminal"
  /\ order' = [order EXCEPT !.atPos = @ \/ given.terminal]
  /\ Goto(h, "read", loc[h])
  /\ UNCHANGED <<given, assignment, world, queue, tries, settled, faults>>

StateFor == [assigned |-> "rider_assigned", accepted |-> "rider_accepted",
             arrived |-> "arrived_pickup", picked_up |-> "picked_up",
             delivered |-> "delivered", completed |-> "delivered",
             cancelled |-> "needs_rider"]

\* stampDeliveryState: progress and, when the event names one, the rider.
StampDeliveryState(h) ==
  LET e == loc[h].event
  IN /\ phase[h] = "stamp"
     /\ order' = [order EXCEPT !.state = StateFor[e.kind],
                               !.rider = IF e.rider # NoRider THEN e.rider ELSE @]
     /\ Proceed(h, After("stamp", e.kind), loc[h])
     /\ UNCHANGED <<given, assignment, world, settled>>

\* unassignedOrderPatch, judged on the row it is written over.
Flaggable(o, rider) ==
  /\ o.status # "out_for_delivery" /\ ~Finished(o.status)
  /\ o.rider \in {rider, NoRider} \/ rider = NoRider
  /\ ~(o.rider = NoRider /\ o.state = "needs_rider")

FlagNeedsRider(h) ==
  /\ phase[h] = "flag"
  /\ order' = IF Flaggable(order, loc[h].event.rider)
              THEN [order EXCEPT !.state = "needs_rider", !.rider = NoRider] ELSE order
  /\ Proceed(h, "done", loc[h])
  /\ UNCHANGED <<given, assignment, world, settled>>

-----------------------------------------------------------------------------
(* The order's status *)

\* The first look of the POS handlers, and of task.cancelled, at the order.
JudgeOrder(h) ==
  LET s == order.status
      next ==
        CASE loc[h].event.kind = "kds_ready" ->
               IF s \in {"ready", "out_for_delivery"} \/ Finished(s) THEN "done" ELSE "read"
          [] loc[h].event.kind = "preparing" ->
               IF s = "confirmed" THEN "read" ELSE "done"
          [] loc[h].event.kind = "collected" ->
               IF s \in {"completed", "cancelled", "refunded"} \/ given.fulfil = "delivery"
               THEN "done" ELSE "tender"
          [] loc[h].event.kind = "cancelled" ->
               IF Finished(s) THEN "done" ELSE "stamp"
  IN /\ phase[h] = "judge"
     /\ Proceed(h, next, loc[h])
     /\ UNCHANGED <<given, order, assignment, world, settled>>

HappyPath == <<"pending", "confirmed", "preparing", "ready", "out_for_delivery",
               "delivered", "completed">>

\* Mutant: pickup orders are walked through the delivery statuses.
StepsToward_Linear(from, target) ==
  {HappyPath[i + 1] : i \in {j \in 1..6 : /\ HappyPath[j] = from
                                          /\ \E k \in (j + 1)..7 : HappyPath[k] = target}}

\* nextStatusToward: at most one status; none when there is no path.
StepsToward(from, target) ==
  IF from = "ready" /\ target = "completed" THEN {"completed"}
  ELSE {HappyPath[i + 1] : i \in {j \in 1..6 : /\ HappyPath[j] = from
                                               /\ \E k \in (j + 1)..7 : HappyPath[k] = target}}

Target == [kds_ready |-> "ready", preparing |-> "preparing", collected |-> "completed"]

\* Mutant: a drop-off closes only an order already out for delivery.
DropOffPath_OnRoad(status) ==
  IF status = "out_for_delivery" THEN <<"delivered">> ELSE <<>>

\* advanceToDelivered.
DropOffPath(status) ==
  CASE status = "ready"            -> <<"out_for_delivery", "delivered">>
    [] status = "out_for_delivery" -> <<"delivered">>
    [] OTHER                       -> <<>>

\* The plans a handler may follow from the status it reads; none is an error.
\* advanceOrderTo makes six hops at most; the way to any target has fewer.
Plans(kind, status) ==
  CASE kind = "picked_up" -> {IF status = "ready" THEN <<"out_for_delivery">> ELSE <<>>}
    [] kind \in {"delivered", "completed"} -> {DropOffPath(status)}
    [] kind \in PosKinds -> IF status = Target[kind] THEN {<<>>}
                            ELSE {<<s>> : s \in StepsToward(status, Target[kind])}

ReadOrder(h) ==
  LET plans == Plans(loc[h].event.kind, order.status)
  IN /\ phase[h] = "read"
     /\ \/ /\ plans = {}
           /\ NegativeAck(h)
           /\ UNCHANGED faults
        \/ \E plan \in plans :
             Proceed(h, IF plan = <<>> THEN "done" ELSE "move", [loc[h] EXCEPT !.plan = plan])
     /\ UNCHANGED <<given, order, assignment, world, settled>>

\* UpdateOrderStatus reads the order and validates the transition.
MoveOrder(h) ==
  /\ phase[h] = "move"
  /\ IF MayMove(Terms, order, Head(loc[h].plan))
     THEN /\ Goto(h, "claim", [loc[h] EXCEPT !.seen = order])
          /\ UNCHANGED <<queue, tries>>
     ELSE NegativeAck(h)
  /\ UNCHANGED <<given, order, assignment, world, settled, faults>>

\* Mutant: the status write does not check the status it was decided on.
OrderClaim_Unguarded(h) == TRUE

OrderClaim(h) == order.status = loc[h].seen.status

\* The write, and the settlement with the tender of the copy; a lost race is no
\* error and the handler goes on.
ClaimOrder(h) ==
  LET l == loc[h]
      to == Head(l.plan)
      rest == [l EXCEPT !.plan = Tail(@), !.seen = NewOrder]
      paid == MarkPaid(Terms, l.seen, to)
      settles == IF OrderClaim(h) /\ paid /\ ~l.seen.atPos THEN {l.seen.tender} ELSE {}
  IN /\ phase[h] = "claim"
     /\ order' = IF OrderClaim(h)
                 THEN [order EXCEPT !.status = to, !.pay = IF paid THEN "paid" ELSE l.seen.pay]
                 ELSE order
     /\ settled' = [t \in Tenders |-> settled[t] + (IF t \in settles THEN 1 ELSE 0)]
     /\ Proceed(h, IF rest.plan # <<>> THEN "move"
                   ELSE IF l.event.kind \in PosKinds THEN "read" ELSE "done", rest)
     /\ UNCHANGED <<given, assignment, world>>

\* A status call of the dashboard, its read and its write taken together: it has
\* no effect when the status changes in between.
StaffCalls ==
  /\ "staff" \in Kinds
  /\ reports < MaxReports
  /\ reports' = reports + 1
  /\ \E to \in Statuses :
       LET paid == MarkPaid(Terms, order, to)
           settles == IF paid /\ ~order.atPos THEN {order.tender} ELSE {}
       IN /\ MayMove(Terms, order, to)
          /\ order' = [order EXCEPT !.status = to, !.pay = IF paid THEN "paid" ELSE @]
          /\ settled' = [t \in Tenders |-> settled[t] + (IF t \in settles THEN 1 ELSE 0)]
  /\ UNCHANGED <<given, assignment, task, queue, tries, phase, loc, faults>>

-----------------------------------------------------------------------------
(* Logistics and the outlet's POS, as the events they send show them *)

Publish(kind, rider) ==
  LET e == [kind |-> kind, rider |-> rider]
  IN /\ reports < MaxReports
     /\ kind \in Kinds
     /\ reports' = reports + 1
     /\ queue' = queue \cup {e}
     /\ tries' = [tries EXCEPT ![e] = 0]

\* The stages a task's report is sent in, and the stage it leads to.  A report may
\* be lost before it is published, which is a fault.
TaskEdge ==
  [created    |-> [from |-> {"none"}, to |-> "open"],
   assigned   |-> [from |-> {"open"}, to |-> "assigned"],
   accepted   |-> [from |-> {"assigned"}, to |-> "assigned"],
   arrived    |-> [from |-> {"assigned"}, to |-> "assigned"],
   unassigned |-> [from |-> {"assigned"}, to |-> "open"],
   picked_up  |-> [from |-> {"assigned"}, to |-> "collected"],
   delivered  |-> [from |-> {"collected"}, to |-> "dropped"],
   completed  |-> [from |-> {"collected", "dropped"}, to |-> "dropped"],
   cancelled  |-> [from |-> {"open", "assigned", "collected"}, to |-> "closed"],
   failed     |-> [from |-> {"collected"}, to |-> "closed"]]

TaskReports ==
  /\ given.fulfil = "delivery"
  /\ reports < MaxReports
  /\ \E kind \in TaskKinds :
       LET edge == TaskEdge[kind]
           riders == IF edge.from = {"none"} THEN {NoRider}
                     ELSE IF kind = "assigned" THEN Riders ELSE {task.rider}
       IN /\ task.stage \in edge.from
          /\ \E r \in riders :
               /\ \/ Publish(kind, r) /\ UNCHANGED faults
                  \/ Fault /\ UNCHANGED <<reports, queue, tries>>
               /\ task' = [stage |-> edge.to,
                           rider |-> IF edge.to = "open" THEN NoRider ELSE r]
  /\ UNCHANGED <<given, order, assignment, phase, loc, settled>>

PosReports ==
  /\ \E kind \in PosKinds : Publish(kind, NoRider)
  /\ UNCHANGED <<given, order, assignment, task, phase, loc, settled, faults>>

-----------------------------------------------------------------------------

Handle(h) ==
  \/ SaveAssignment(h) \/ ReleaseRider(h)
  \/ RecordTender(h) \/ RecordTerminal(h) \/ StampDeliveryState(h) \/ FlagNeedsRider(h)
  \/ JudgeOrder(h) \/ ReadOrder(h) \/ MoveOrder(h) \/ ClaimOrder(h)
  \/ StepFails(h)

Next ==
  \/ \E h \in Handlers : Deliver(h) \/ Handle(h)
  \/ StaffCalls
  \/ TaskReports
  \/ PosReports

Spec == Init /\ [][Next]_vars

\* Consumers keep fetching, and a handler keeps running; nobody has to report.
FairSpec == Spec /\ \A h \in Handlers : WF_vars(Deliver(h) \/ Handle(h))

-----------------------------------------------------------------------------
(* Properties *)

\* Cash or M-Pesa taken at the door or the counter is booked in treasury once,
\* although the drop-off is reported twice (task.delivered and task.completed),
\* the counter reports it too, and any of them may be redelivered.
SettledOnce == settled["cash"] + settled["mpesa"] <= 1

\* A rider loses the task only through an event that names that rider or nobody,
\* although the release is decided on an older copy: a report about one rider never
\* takes the task from another, in whatever order the two are handled.  (A report about
\* the same rider may: the release compares riders, not assignments, so an older
\* task.unassigned undoes a newer task.assigned of the rider it names.)
ReleasedByOwnEvent ==
  [][\A r \in Riders :
       assignment.rider = r /\ assignment'.rider = NoRider =>
         \E h \in Handlers : phase[h] = "release" /\ loc[h].event.rider \in {r, NoRider}]_vars

\* "the tracker and the outlet stop showing a rider who is no longer coming": when a
\* rider gives the task back, the order stops showing that rider, unless it leaves the
\* kitchen with the food, through failed accesses, lost releases and redeliveries.
GivenBackNotShown ==
  \A r \in Riders :
    (order.rider = r /\ [kind |-> "unassigned", rider |-> r] \in queue)
    ~> (order.rider # r \/ order.status \notin {"pending", "confirmed", "preparing", "ready"})

OnTheWay == order.status \in {"ready", "out_for_delivery"}

Waiting(kind) == \E e \in queue : /\ e.kind = kind
                                  /\ \A h \in Handlers : loc[h].event # e \/ phase[h] = "idle"

\* A drop-off reported for an order that has left the kitchen ends the order,
\* through races with the pickup, the second report and staff, and redeliveries.
DropOffCloses ==
  (Waiting("delivered") /\ OnTheWay) ~> Finished(order.status)

\* An order handed over at the counter ends, wherever the kitchen had left it.
CollectionCloses ==
  (Waiting("collected") /\ given.fulfil = "pickup") ~> Finished(order.status)

\* A task that logistics created is tracked here, although the two events that
\* may create its row race for it and may fail.
TaskTracked == Waiting("created") ~> assignment.exists

\* "The delivered transition settles treasury with that tender": money the rider
\* took by M-Pesa is not booked as cash.
SettledAsCollected ==
  given.fulfil = "delivery" /\ given.tender = "mpesa" => settled["cash"] = 0

=============================================================================
