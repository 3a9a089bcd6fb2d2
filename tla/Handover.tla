-------------------------------- MODULE Handover --------------------------------
(***************************************************************************)
(* Accepting orders and handing them to the outlet's kitchen, at once or,  *)
(* for a scheduled order, when its preparation window opens.               *)
(*                                                                         *)
(* At work are the checkout request of each order, which accepts it and    *)
(* then saves it once more; calls of staff, customers and the payment      *)
(* consumers; and the replicas' order schedulers, of which the first in    *)
(* each period makes a pass over the orders that are due.                  *)
(***************************************************************************)
EXTENDS OrderStates, Naturals, FiniteSets

CONSTANTS
  Orders,     \* orders just placed; each also names its checkout request
  Callers,    \* goroutines status and payment calls run on
  Replicas,   \* schedulers
  Cases,      \* the terms the orders may be placed on, a subset of CaseType
  Batch,      \* orders a scheduler pass takes at most
  MaxTime,    \* bound: the clock
  MaxCalls,   \* bound: status and payment calls
  MaxFaults   \* bound: database errors, refused publications and crashes

Workers == Orders \cup Callers \cup Replicas

\* slot: when the preparation window opens, 0 for an order for now; bare: the
\* order was placed without metadata; placing: its checkout is still under way.
CaseType ==
  [Orders -> [terms : TermsType, slot : 0..MaxTime, bare : BOOLEAN, placing : BOOLEAN]]

ASSUME CasesAssumption == Cases \subseteq CaseType
ASSUME HandoverBounds == Batch \in Nat \ {0} /\ {MaxTime, MaxCalls, MaxFaults} \subseteq Nat
ASSUME WorkersAssumption ==
  /\ Orders # {} /\ Orders \cap (Callers \cup Replicas) = {}
  /\ Callers \cap Replicas = {}

VARIABLES
  given,     \* the case
  now,       \* the clock, shifted by the preparation time
  row,       \* the orders' rows
  own,       \* the order as its checkout request holds it in memory
  phase,     \* where each worker is
  loc,       \* the order a worker works on, its copy of the row, the status it writes
  batch,     \* orders a scheduler's pass has still to hand over
  claimed,   \* a scheduler has made this period's pass
  accepted,  \* history: orders some write took into confirmed
  told,      \* history: how often the outlet was told to prepare each order
  refused,   \* history: orders whose publication failed once
  calls,     \* calls so far
  faults     \* faults so far

history == <<accepted, told, refused>>
vars == <<given, now, row, own, phase, loc, batch, claimed, history, calls, faults>>

\* handed: the outlet_handoff_at stamp.
CopyType == [status : Statuses, pay : PayStatuses, handed : BOOLEAN]

\* accept .. deposit: the checkout; claim: UpdateOrderStatus; pay:
\* UpdatePaymentStatus; publish, stamp: handOffToOutlet.
Phases == {"idle", "accept", "offer", "link", "deposit", "claim", "pay", "publish", "stamp"}

LocType == [order : Orders, copy : CopyType, to : Statuses]

TypeOK ==
  /\ given \in Cases
  /\ now \in 0..MaxTime
  /\ row \in [Orders -> CopyType]
  /\ own \in [Orders -> [status : Statuses, bare : BOOLEAN]]
  /\ phase \in [Workers -> Phases]
  /\ loc \in [Workers -> LocType]
  /\ batch \in [Replicas -> SUBSET Orders]
  /\ claimed \in BOOLEAN
  /\ accepted \subseteq Orders
  /\ told \in [Orders -> Nat]
  /\ refused \subseteq Orders
  /\ calls \in 0..MaxCalls
  /\ faults \in 0..MaxFaults

Terms(o) == given[o].terms

PlacedPay(o) == IF Terms(o).method = "cod" THEN "cod_pending" ELSE "pending"

Placed(o) == [status |-> "pending", pay |-> PlacedPay(o), handed |-> FALSE]

At(o, copy, to) == [order |-> o, copy |-> copy, to |-> to]

\* What a worker's loc is set to when it holds nothing.
Nothing(w) == At(IF w \in Orders THEN w ELSE CHOOSE o \in Orders : TRUE,
                 [status |-> "pending", pay |-> "pending", handed |-> FALSE], "pending")

Init ==
  /\ given \in Cases
  /\ now = 0
  /\ row = [o \in Orders |-> Placed(o)]
  /\ own = [o \in Orders |-> [status |-> "pending", bare |-> given[o].bare]]
  /\ phase = [w \in Workers |-> IF w \in Orders /\ given[w].placing THEN "accept" ELSE "idle"]
  /\ loc = [w \in Workers |-> Nothing(w)]
  /\ batch = [r \in Replicas |-> {}]
  /\ claimed = FALSE
  /\ accepted = {}
  /\ told = [o \in Orders |-> 0]
  /\ refused = {}
  /\ calls = 0
  /\ faults = 0

-----------------------------------------------------------------------------
(* Steps of the workers *)

Fault == faults < MaxFaults /\ faults' = faults + 1

Goto(w, next, l) ==
  /\ phase' = [phase EXCEPT ![w] = next]
  /\ loc' = [loc EXCEPT ![w] = l]

\* The call is over: the checkout goes on, any other worker is done.
Return(w) == Goto(w, IF w \in Orders THEN "link" ELSE "idle", Nothing(w))

Working(w, at) == phase[w] = at /\ UNCHANGED <<given, now, batch, claimed, calls>>

\* Mutant: the write takes the metadata of the copy along.
ClaimWritten_Whole(w) == [loc[w].copy EXCEPT !.status = loc[w].to]

\* UpdateOrderStatusAtomic: the new status, and payment_status as read.
ClaimWritten(w) ==
  [row[loc[w].order] EXCEPT !.status = loc[w].to, !.pay = loc[w].copy.pay]

Accepts(w) == loc[w].copy.status = "pending" /\ loc[w].to = "confirmed"

\* The write of UpdateOrderStatus or CancelOrder.  An acceptance then hands the
\* order over; a call that lost the race takes the order as it is now.
Claim(w) ==
  LET o == loc[w].order
      won == row[o].status = loc[w].copy.status
  IN /\ Working(w, "claim")
     /\ row' = IF won THEN [row EXCEPT ![o] = ClaimWritten(w)] ELSE row
     /\ own' = IF w \in Orders THEN [own EXCEPT ![w].status = row'[o].status] ELSE own
     /\ accepted' = IF won /\ Accepts(w) THEN accepted \cup {o} ELSE accepted
     /\ IF won /\ Accepts(w) THEN Goto(w, "publish", loc[w]) ELSE Return(w)
     /\ UNCHANGED <<told, refused, faults>>

\* A checkout that cannot accept its order offers it to the outlet instead.
ClaimFails(w) ==
  /\ Working(w, "claim")
  /\ Fault
  /\ Goto(w, IF w \in Orders THEN "offer" ELSE "idle", Nothing(w))
  /\ UNCHANGED <<row, own, history>>

\* UpdatePaymentStatusAtomic: only payment_status is checked, and status is
\* written as read or confirmed.
PayWrite(w) ==
  LET o == loc[w].order
      copy == loc[w].copy
      accepts == AcceptsOnPayment(Terms(o), copy)
  IN /\ Working(w, "pay")
     /\ IF row[o].pay # copy.pay
        THEN Return(w) /\ UNCHANGED <<row, accepted>>
        ELSE /\ row' = [row EXCEPT ![o] = [status |-> IF accepts THEN "confirmed" ELSE copy.status,
                                          pay |-> "paid", handed |-> @.handed]]
             /\ accepted' = IF accepts THEN accepted \cup {o} ELSE accepted
             /\ IF accepts THEN Goto(w, "publish", loc[w]) ELSE Return(w)
     /\ UNCHANGED <<own, told, refused, faults>>

\* Mutant: orders are prepared whenever they are accepted.
WindowOpen_Always(o) == TRUE

WindowOpen(o) == given[o].slot <= now

\* Mutant: an order held back is stamped like one handed over.
HandOver_StampHeld(w) ==
  LET o == loc[w].order
  IN /\ Working(w, "publish")
     /\ Goto(w, "stamp", loc[w])
     /\ told' = IF WindowOpen(o) THEN [told EXCEPT ![o] = @ + 1] ELSE told
     /\ UNCHANGED <<row, own, accepted, refused, faults>>

\* handOffToOutlet: a scheduled order is held until its window opens; whether the
\* event could be published is only logged.
HandOver(w) ==
  LET o == loc[w].order
  IN /\ Working(w, "publish")
     /\ \/ /\ ~WindowOpen(o)
           /\ Return(w)
           /\ UNCHANGED <<told, refused, faults>>
        \/ /\ WindowOpen(o)
           /\ Goto(w, "stamp", loc[w])
           /\ \/ told' = [told EXCEPT ![o] = @ + 1] /\ UNCHANGED <<refused, faults>>
              \/ refused' = refused \cup {o} /\ Fault /\ UNCHANGED told
     /\ UNCHANGED <<row, own, accepted>>

StampHandoff(w) ==
  /\ Working(w, "stamp")
  /\ Return(w)
  /\ \/ row' = [row EXCEPT ![loc[w].order].handed = TRUE] /\ UNCHANGED faults
     \/ Fault /\ UNCHANGED row
  /\ UNCHANGED <<own, history>>

\* The process dies.
Crash(w) ==
  /\ phase[w] # "idle" \/ (w \in Replicas /\ batch[w] # {})
  /\ Fault
  /\ Goto(w, "idle", Nothing(w))
  /\ batch' = IF w \in Replicas THEN [batch EXCEPT ![w] = {}] ELSE batch
  /\ UNCHANGED <<given, now, row, own, claimed, history, calls>>

-----------------------------------------------------------------------------
(* The end of a checkout *)

\* acceptOrOffer: an order paid later is confirmed at once where the tenant
\* accepts automatically, and offered to the outlet otherwise.
AcceptOrOffer(o) ==
  LET confirms == Goto(o, "claim", At(o, row[o], "confirmed")) /\ UNCHANGED faults
      offers == Goto(o, "offer", Nothing(o))
  IN /\ Working(o, "accept")
     /\ CASE ~OfflinePayment(Terms(o)) -> Return(o) /\ UNCHANGED faults
          [] OfflinePayment(Terms(o)) /\ Terms(o).auto ->
               IF MayMove(Terms(o), row[o], "confirmed")
               THEN confirms \/ (offers /\ Fault)
               ELSE offers /\ UNCHANGED faults
          [] OTHER -> offers /\ UNCHANGED faults
     /\ UNCHANGED <<row, own, history>>

\* offerToOutlet stamps the order in memory too, which gives it metadata.
OfferToOutlet(o) ==
  /\ Working(o, "offer")
  /\ Return(o)
  /\ own' = [own EXCEPT ![o].bare = FALSE]
  /\ UNCHANGED <<row, history, faults>>

\* Mutant: the payment method is saved as the payment status.
SavedOrder_Method(o, bare) ==
  [status |-> own[o].status, pay |-> Terms(o).method, handed |-> bare /\ row[o].handed]

\* UpdateOrder: the order as the checkout holds it, metadata only if it has any.
\* The acceptance stamped a copy of its own, so the hand-off is not among it.
SavedOrder(o, bare) ==
  [status |-> own[o].status, pay |-> PlacedPay(o), handed |-> bare /\ row[o].handed]

\* BuildCheckoutResult saves the order when it links the customer's contact, and
\* again when it takes a deposit, which it notes in the metadata.
SaveOrder(o) ==
  \/ /\ Working(o, "link")
     /\ Goto(o, "deposit", Nothing(o))
     /\ row' \in {row, [row EXCEPT ![o] = SavedOrder(o, own[o].bare)]}
     /\ UNCHANGED <<own, history, faults>>
  \/ /\ Working(o, "deposit")
     /\ Goto(o, "idle", Nothing(o))
     /\ row' \in {row, [row EXCEPT ![o] = SavedOrder(o, FALSE)]}
     /\ UNCHANGED <<own, history, faults>>

-----------------------------------------------------------------------------
(* Calls of staff, customers and the payment consumers *)

\* Statuses past preparing are left out: no acceptance or hand-off tells them apart.
BeginCall(c, o, next, to) ==
  /\ phase[c] = "idle"
  /\ calls < MaxCalls
  /\ calls' = calls + 1
  /\ Goto(c, next, At(o, row[o], to))
  /\ UNCHANGED <<given, now, row, own, batch, claimed, history, faults>>

BeginMove(c, o, to) ==
  /\ MayMove(Terms(o), row[o], to)
  /\ BeginCall(c, o, "claim", to)

\* An online payment has its intent from the end of the checkout; a payment to
\* the till is verified by staff.
BeginPay(c, o) ==
  /\ \/ Terms(o).method = "online" /\ phase[o] = "idle"
     \/ Terms(o).method = "manual"
  /\ row[o].pay # "paid"
  /\ BeginCall(c, o, "pay", "confirmed")

-----------------------------------------------------------------------------
(* The order schedulers *)

\* Mutant: orders already handed over stay in the list.
Listed_Again ==
  {o \in Orders : row[o].status = "confirmed" /\ given[o].slot > 0 /\ WindowOpen(o)}

\* Mutant: any order not cancelled is listed, and the kitchen sees to the rest.
Listed_AnyStatus ==
  {o \in Orders : given[o].slot > 0 /\ WindowOpen(o) /\ ~row[o].handed}

\* ListScheduledOrdersDue.
Listed == {o \in Orders : /\ row[o].status = "confirmed"
                          /\ given[o].slot > 0 /\ WindowOpen(o)
                          /\ ~row[o].handed}

\* The first of them, by the time they are scheduled for, up to the limit.
Batches ==
  {S \in SUBSET Listed :
     /\ Cardinality(S) <= Batch /\ (Cardinality(S) = Batch \/ S = Listed)
     /\ \A o \in S, p \in Listed \ S : given[o].slot <= given[p].slot}

\* alreadyHandedOff is judged on the rows as listed; a failed query ends the pass.
StartPass(r) ==
  /\ phase[r] = "idle"
  /\ batch[r] = {}
  /\ ~claimed
  /\ claimed' = TRUE
  /\ \/ /\ \E S \in Batches : batch' = [batch EXCEPT ![r] = {o \in S : ~row[o].handed}]
        /\ UNCHANGED faults
     \/ Fault /\ UNCHANGED batch
  /\ UNCHANGED <<given, now, row, own, phase, loc, history, calls>>

HandNext(r) ==
  /\ phase[r] = "idle"
  /\ \E o \in batch[r] :
       /\ \A p \in batch[r] : given[o].slot <= given[p].slot
       /\ batch' = [batch EXCEPT ![r] = @ \ {o}]
       /\ Goto(r, "publish", At(o, [Placed(o) EXCEPT !.status = "confirmed"], "confirmed"))
  /\ UNCHANGED <<given, now, row, own, claimed, history, calls, faults>>

NewPeriod ==
  /\ claimed
  /\ claimed' = FALSE
  /\ UNCHANGED <<given, now, row, own, phase, loc, batch, history, calls, faults>>

Tick ==
  /\ now < MaxTime
  /\ now' = now + 1
  /\ UNCHANGED <<given, row, own, phase, loc, batch, claimed, history, calls, faults>>

-----------------------------------------------------------------------------
Step(w) ==
  \/ Claim(w)
  \/ ClaimFails(w)
  \/ PayWrite(w)
  \/ HandOver(w)
  \/ StampHandoff(w)
  \/ w \in Orders /\ (AcceptOrOffer(w) \/ OfferToOutlet(w) \/ SaveOrder(w))
  \/ w \in Replicas /\ HandNext(w)

Next ==
  \/ \E w \in Workers : Step(w) \/ Crash(w)
  \/ \E c \in Callers, o \in Orders :
       \/ \E to \in {"confirmed", "preparing", "cancelled"} : BeginMove(c, o, to)
       \/ BeginPay(c, o)
  \/ \E r \in Replicas : StartPass(r)
  \/ NewPeriod
  \/ Tick

Spec == Init /\ [][Next]_vars

\* Goroutines run; the ticker of every replica fires each minute, and the first
\* of them claims the period.
FairSpec ==
  /\ Spec
  /\ \A w \in Workers : WF_vars(Step(w))
  /\ WF_vars(\E r \in Replicas : StartPass(r))
  /\ WF_vars(NewPeriod)

-----------------------------------------------------------------------------
(* Properties *)

\* An order stamped as handed over was published to the outlet, whatever dies
\* in between; the one way out is a publication that fails, which
\* handOffToOutlet does not see.
StampIsTold == \A o \in Orders : row[o].handed => told[o] > 0 \/ o \in refused

\* The outlet is told to prepare an order only once it is accepted and its
\* window open, by the acceptance as well as by the scheduler.
ToldWhenDue == \A o \in Orders : told[o] > 0 => o \in accepted /\ given[o].slot <= now

\* The stamp that keeps the scheduler from repeating a hand-over survives every
\* call that was decided on a copy read before it; only the checkout of the order
\* itself, which saves it whole, may still drop it.
StampKept ==
  [][\A o \in Orders : row[o].handed /\ phase[o] = "idle" => row'[o].handed]_vars

\* The workers that still see an order as not cancelled.
Touching(o) ==
  {w \in Workers : phase[w] # "idle" /\ loc[w].order = o /\ loc[w].copy.status # "cancelled"}
    \cup {r \in Replicas : o \in batch[r]}

\* A cancellation nobody overlaps is final: no payment, status call or scheduler
\* pass that begins after it revives the order or hands it over.
CancelledIsFinal ==
  [][\A o \in Orders :
       row[o].status = "cancelled" /\ Touching(o) = {}
       => row'[o].status = "cancelled" /\ Touching(o)' = {} /\ told'[o] = told[o]]_vars

\* A scheduled order whose window opens is told to the outlet, or moved on, though
\* acceptances, passes and stamps may die and earlier orders fill the batches.
\* Publications that fail are not repeated.
DueReachesKitchen ==
  \A o \in Orders :
    (row[o].status = "confirmed" /\ given[o].slot > 0 /\ WindowOpen(o))
      ~> (told[o] > 0 \/ o \in refused \/ row[o].status # "confirmed")

=============================================================================
