---------------------------- MODULE OrderLifecycle ----------------------------
(***************************************************************************)
(* One order row in the database and the service calls in flight on it.    *)
(*                                                                         *)
(* A call reads the whole order, decides in memory, writes it back, and    *)
(* only then runs the effects it owes other services.  Each of these is a  *)
(* step of its own, so calls of staff, customers, the POS and logistics    *)
(* event consumers, the treasury consumer and the payment poller interleave*)
(* between them.  A write is either a compare-and-set on one column, which *)
(* also overwrites the other columns with what the call read, or           *)
(* unconditional.                                                          *)
(***************************************************************************)
EXTENDS OrderStates, Naturals

CONSTANTS
  Workers,   \* goroutines a call can run on
  Calls,     \* the kinds of calls made, a subset of AllCalls
  TermsSet,  \* the terms an order may be placed on
  MaxCalls   \* bound: calls made on the order, status advances not counted

StatusCalls == {"advance", "cancel", "customer_cancel"}
AllCalls == StatusCalls \cup {"pay", "verify", "refund", "rate", "delete"}

ASSUME CallsAssumption == Calls \subseteq AllCalls
ASSUME TermsAssumption == TermsSet \subseteq TermsType
ASSUME MaxCallsAssumption == MaxCalls \in Nat

VARIABLES
  terms,     \* the order's terms
  row,       \* the order's row
  phase,     \* where each worker is in its call
  call,      \* the call each worker makes
  snap,      \* the row as each worker's call read it
  todo,      \* effects each worker has won and not run yet
  captured,  \* the customer's money has been received
  granted,   \* history: how often each effect was owed
  begun      \* calls made so far, status advances not counted

callVars == <<phase, call, snap, todo>>
vars == <<terms, row, phase, call, snap, todo, captured, granted, begun>>

Phases == {"idle", "cancelling", "verifying", "refunding", "saving", "effects"}

\* record: payment_status refunded is written after treasury accepted a refund.
Work == Effects \cup {"record"}

CallType == [kind : AllCalls, to : Statuses]

\* What an idle worker's call and copy of the row are set to: it holds neither.
NoCall == [kind |-> "advance", to |-> "pending"]
NoRow == [status |-> "pending", pay |-> "pending", delivered |-> FALSE,
          completed |-> FALSE, offered |-> FALSE, handed |-> FALSE,
          rated |-> FALSE, exists |-> FALSE]

TypeOK ==
  /\ terms \in TermsType
  /\ row \in RowType
  /\ phase \in [Workers -> Phases]
  /\ call \in [Workers -> CallType]
  /\ snap \in [Workers -> RowType]
  /\ todo \in [Workers -> SUBSET Work]
  /\ captured \in BOOLEAN
  /\ granted \in [Effects -> Nat]
  /\ begun \in 0..MaxCalls

-----------------------------------------------------------------------------
(* A pay-later order may already have been offered to the outlet.          *)

Init ==
  /\ terms \in TermsSet
  /\ \E offered \in BOOLEAN :
       /\ offered => OfflinePayment(terms)
       /\ row = [status |-> "pending",
                 pay |-> IF terms.method = "cod" THEN "cod_pending" ELSE "pending",
                 delivered |-> FALSE, completed |-> FALSE, offered |-> offered,
                 handed |-> FALSE, rated |-> FALSE, exists |-> TRUE]
  /\ phase = [w \in Workers |-> "idle"]
  /\ call = [w \in Workers |-> NoCall]
  /\ snap = [w \in Workers |-> NoRow]
  /\ todo = [w \in Workers |-> {}]
  /\ captured = FALSE
  /\ granted = [e \in Effects |-> 0]
  /\ begun = 0

-----------------------------------------------------------------------------
(* Steps every call is made of *)

\* The call's first read; kinds that are refused on what they read do nothing.
Start(w, kind, to, next) ==
  /\ kind \in Calls
  /\ phase[w] = "idle"
  /\ row.exists
  /\ begun' = begun + (IF kind = "advance" THEN 0 ELSE 1)
  /\ begun' <= MaxCalls
  /\ call' = [call EXCEPT ![w] = [kind |-> kind, to |-> to]]
  /\ snap' = [snap EXCEPT ![w] = row]
  /\ phase' = [phase EXCEPT ![w] = next]

\* The call has these effects left to run, and returns when there are none.
Left(w, effects) ==
  /\ todo' = [todo EXCEPT ![w] = effects]
  /\ snap' = [snap EXCEPT ![w] = NoRow]
  /\ IF effects = {}
     THEN /\ phase' = [phase EXCEPT ![w] = "idle"]
          /\ call' = [call EXCEPT ![w] = NoCall]
     ELSE /\ phase' = [phase EXCEPT ![w] = "effects"]
          /\ UNCHANGED call

Finish(w) == Left(w, {}) /\ UNCHANGED granted

\* The call's write decided it owes these effects.
Owe(w, owed) ==
  /\ Left(w, owed)
  /\ granted' = [e \in Effects |-> granted[e] + (IF e \in owed THEN 1 ELSE 0)]

-----------------------------------------------------------------------------
(* UpdateOrderStatus and CancelOrder *)

BeginAdvance(w, to) ==
  /\ to # "cancelled"
  /\ MayMove(terms, row, to)
  /\ Start(w, "advance", to, "saving")
  /\ UNCHANGED <<terms, row, todo, captured, granted>>

\* A rejection through the status endpoint, a customer's request and any other
\* caller's all end in CancelOrder, which reads the order again.
BeginCancel(w, kind) ==
  /\ kind = "advance" => CanTransition(row.status, "cancelled")
  /\ kind = "customer_cancel" => CustomerMayCancel(row.status)
  /\ Start(w, kind, "cancelled", "cancelling")
  /\ UNCHANGED <<terms, row, todo, captured, granted>>

ReadForCancel(w) ==
  /\ phase[w] = "cancelling"
  /\ IF row.exists /\ CanTransition(row.status, "cancelled")
     THEN /\ snap' = [snap EXCEPT ![w] = row]
          /\ phase' = [phase EXCEPT ![w] = "saving"]
          /\ UNCHANGED <<call, todo, granted>>
     ELSE Finish(w)
  /\ UNCHANGED <<terms, row, captured, begun>>

\* Mutant: the status write does not check the status it was decided on.
StatusClaim_Unguarded(w) == row.exists

\* The compare-and-set of UpdateOrderStatusAtomic.
StatusClaim(w) == row.exists /\ row.status = snap[w].status

\* Mutant: a completed order gets no timestamp.
StatusWritten_Unstamped(w) ==
  LET s == snap[w]
      to == call[w].to
  IN [row EXCEPT !.status = to,
                 !.pay = IF MarkPaid(terms, s, to) THEN "paid" ELSE s.pay,
                 !.delivered = @ \/ s.delivered \/ to = "delivered",
                 !.completed = @ \/ s.completed]

\* The row after it: payment_status goes back to what the call read.
StatusWritten(w) ==
  LET s == snap[w]
      to == call[w].to
  IN [row EXCEPT !.status = to,
                 !.pay = IF MarkPaid(terms, s, to) THEN "paid" ELSE s.pay,
                 !.delivered = @ \/ s.delivered \/ to = "delivered",
                 !.completed = @ \/ s.completed \/ to = "completed"]

SaveStatus(w) ==
  /\ phase[w] = "saving"
  /\ call[w].kind \in StatusCalls
  /\ \/ /\ StatusClaim(w)
        /\ row' = StatusWritten(w)
        /\ \E paidAtPos \in BOOLEAN :
             Owe(w, MoveEffects(terms, snap[w], call[w].to, paidAtPos))
     \/ /\ ~StatusClaim(w)
        /\ Finish(w)
        /\ UNCHANGED row
  /\ UNCHANGED <<terms, captured, begun>>

-----------------------------------------------------------------------------
(* UpdatePaymentStatus(paid): the treasury consumer, the poller, a retry or *)
(* the wallet (pay), or staff who matched a manual M-Pesa payment (verify). *)

BeginPay(w) ==
  /\ captured
  /\ row.pay # "paid"
  /\ Start(w, "pay", "confirmed", "saving")
  /\ UNCHANGED <<terms, row, todo, captured, granted>>

BeginVerify(w) ==
  /\ terms.method = "manual"
  /\ captured
  /\ row.pay # "paid"
  /\ Start(w, "verify", "confirmed", "verifying")
  /\ UNCHANGED <<terms, row, todo, captured, granted>>

\* VerifyManualPayment settles the tender even when another call marked it paid.
ReadForVerify(w) ==
  /\ phase[w] = "verifying"
  /\ \/ /\ ~row.exists
        /\ Finish(w)
     \/ /\ row.exists /\ row.pay = "paid"
        /\ Owe(w, {"settle"})
     \/ /\ row.exists /\ row.pay # "paid"
        /\ snap' = [snap EXCEPT ![w] = row]
        /\ phase' = [phase EXCEPT ![w] = "saving"]
        /\ UNCHANGED <<call, todo, granted>>
  /\ UNCHANGED <<terms, row, captured, begun>>

\* The compare-and-set of UpdatePaymentStatusAtomic.
PaymentClaim(w) == row.exists /\ row.pay = snap[w].pay

\* Mutant: a payment taken by the outlet is written as cod_collected.
PaymentWritten_Collected(w) ==
  [row EXCEPT !.pay = IF call[w].kind = "verify" THEN "cod_collected" ELSE "paid",
              !.status = IF AcceptsOnPayment(terms, snap[w])
                         THEN "confirmed" ELSE snap[w].status]

\* The row after it: status goes back to what the call read.
PaymentWritten(w) ==
  [row EXCEPT !.pay = "paid",
              !.status = IF AcceptsOnPayment(terms, snap[w])
                         THEN "confirmed" ELSE snap[w].status]

SavePayment(w) ==
  LET settle == IF call[w].kind = "verify" THEN {"settle"} ELSE {}
  IN /\ phase[w] = "saving"
     /\ call[w].kind \in {"pay", "verify"}
     /\ \/ /\ PaymentClaim(w)
           /\ row' = PaymentWritten(w)
           /\ Owe(w, PayEffects(terms, snap[w]) \cup settle)
        \/ /\ row.exists /\ ~PaymentClaim(w)
           /\ Owe(w, settle)
           /\ UNCHANGED row
        \/ /\ ~row.exists
           /\ Finish(w)
           /\ UNCHANGED row
     /\ UNCHANGED <<terms, captured, begun>>

-----------------------------------------------------------------------------
(* The calls that save the whole order without a guard *)

\* UpdateOrder: every column as the caller's copy has it; empty ones are kept.
WholeSave(s, status, pay, rated) ==
  [row EXCEPT !.status = status, !.pay = pay,
              !.delivered = @ \/ s.delivered, !.completed = @ \/ s.completed,
              !.offered = s.offered, !.handed = s.handed, !.rated = @ \/ rated]

BeginRefund(w) ==
  /\ Refundable(row)
  /\ CanTransition(row.status, "refunded")
  /\ Start(w, "refund", "refunded", "refunding")
  /\ UNCHANGED <<terms, row, todo, captured, granted>>

\* RefundOrder asks treasury (when it knows the intent) and releases the stock
\* before it writes; a treasury error ends the call.
AskRefund(w) ==
  /\ phase[w] = "refunding"
  /\ \/ Finish(w)
     \/ \E asked \in SUBSET {"refund"} :
          LET ran == asked \cup (IF terms.held THEN {"release"} ELSE {})
          IN /\ granted' = [e \in Effects |-> granted[e] + (IF e \in ran THEN 1 ELSE 0)]
             /\ phase' = [phase EXCEPT ![w] = "saving"]
             /\ UNCHANGED <<call, snap, todo>>
  /\ UNCHANGED <<terms, row, captured, begun>>

SaveRefund(w) ==
  /\ phase[w] = "saving"
  /\ call[w].kind = "refund"
  /\ row' = IF row.exists THEN WholeSave(snap[w], "refunded", "refunded", snap[w].rated)
                          ELSE row
  /\ Finish(w)
  /\ UNCHANGED <<terms, captured, begun>>

BeginRate(w) ==
  /\ Ratable(row)
  /\ Start(w, "rate", row.status, "saving")
  /\ UNCHANGED <<terms, row, todo, captured, granted>>

SaveRating(w) ==
  /\ phase[w] = "saving"
  /\ call[w].kind = "rate"
  /\ row' = IF row.exists THEN WholeSave(snap[w], snap[w].status, snap[w].pay, TRUE)
                          ELSE row
  /\ IF row.exists THEN Owe(w, {"rating"}) ELSE Finish(w)
  /\ UNCHANGED <<terms, captured, begun>>

\* DeleteOrder frees the stock of a pending order and then deletes the row,
\* whatever became of it since it was read.
BeginDelete(w) ==
  LET ran == IF terms.held /\ row.status = "pending" THEN {"release"} ELSE {}
  IN /\ Deletable(row)
     /\ Start(w, "delete", row.status, "saving")
     /\ granted' = [e \in Effects |-> granted[e] + (IF e \in ran THEN 1 ELSE 0)]
     /\ UNCHANGED <<terms, row, todo, captured>>

DeleteRow(w) ==
  /\ phase[w] = "saving"
  /\ call[w].kind = "delete"
  /\ row' = [row EXCEPT !.exists = FALSE]
  /\ Finish(w)
  /\ UNCHANGED <<terms, captured, begun>>

-----------------------------------------------------------------------------
(* Running the effects a call has won, in the order the code starts them   *)

\* The effects the call starts on a goroutine and does not wait for.
Detached == {"settle", "release", "rating"}

\* A verified till payment is settled last, a collected tender first.
Position(w, e) ==
  CASE e = "settle"    -> IF call[w].kind = "verify" THEN 9 ELSE 1
    [] e = "finalize"  -> 2
    [] e = "refund"    -> 3
    [] e = "record"    -> 4
    [] e = "release"   -> 5
    [] e = "points"    -> 6
    [] e = "confirmed" -> 7
    [] e \in {"handoff", "offer", "rating"} -> 8

IsNext(w, e) ==
  /\ e \in todo[w]
  /\ \A d \in todo[w] \ Detached : Position(w, e) <= Position(w, d)

RanEffect(w, e, more) ==
  /\ Left(w, (todo[w] \ {e}) \cup more)
  /\ UNCHANGED <<terms, captured, granted, begun>>

\* Publishing to the outlet then stamps the order's metadata; a stamp that
\* cannot be written is only logged.
RunEffect(w) ==
  \E e \in Effects \ {"refund"}, stamped \in BOOLEAN :
    /\ phase[w] = "effects"
    /\ IsNext(w, e)
    /\ stamped => row.exists /\ e \in {"handoff", "offer"}
    /\ row' = [row EXCEPT !.handed = @ \/ (stamped /\ e = "handoff"),
                          !.offered = @ \/ (stamped /\ e = "offer")]
    /\ RanEffect(w, e, {})

\* Treasury takes the refund, or it fails or there is no intent to refund.
RunRefund(w) ==
  /\ phase[w] = "effects"
  /\ IsNext(w, "refund")
  /\ \E accepted \in SUBSET {"record"} : RanEffect(w, "refund", accepted)
  /\ UNCHANGED row

\* recordRefundOutcome: a payment write, guarded by payment_status = paid, that
\* writes status cancelled again.
RecordRefund(w) ==
  /\ phase[w] = "effects"
  /\ IsNext(w, "record")
  /\ row' = IF row.exists /\ row.pay = "paid"
            THEN [row EXCEPT !.pay = "refunded", !.status = "cancelled"]
            ELSE row
  /\ RanEffect(w, "record", {})

-----------------------------------------------------------------------------
(* The environment *)

\* The customer's gateway, wallet or till payment goes through, however late.
CustomerPays ==
  /\ ~captured
  /\ captured' = TRUE
  /\ UNCHANGED <<terms, row, phase, call, snap, todo, granted, begun>>

\* The process dies, or the request's context ends, between two steps.
Crash(w) ==
  /\ phase[w] # "idle"
  /\ Finish(w)
  /\ UNCHANGED <<terms, row, captured, begun>>

Worker(w) ==
  \/ \E to \in Statuses : BeginAdvance(w, to)
  \/ \E kind \in StatusCalls : BeginCancel(w, kind)
  \/ ReadForCancel(w)
  \/ SaveStatus(w)
  \/ BeginPay(w)
  \/ BeginVerify(w)
  \/ ReadForVerify(w)
  \/ SavePayment(w)
  \/ BeginRefund(w)
  \/ AskRefund(w)
  \/ SaveRefund(w)
  \/ BeginRate(w)
  \/ SaveRating(w)
  \/ BeginDelete(w)
  \/ DeleteRow(w)
  \/ RunEffect(w)
  \/ RunRefund(w)
  \/ RecordRefund(w)
  \/ Crash(w)

Next == CustomerPays \/ \E w \in Workers : Worker(w)

Spec == Init /\ [][Next]_vars

-----------------------------------------------------------------------------
(* Properties of every mix of calls *)

\* Food is never prepared for an online order nobody has paid for: neither the
\* outlet hears of it nor its status passes pending (readyForAcceptance and the
\* acceptance in UpdatePaymentStatus, against stale writes of both columns).
NoUnpaidKitchen ==
  terms.method = "online"
    /\ (granted["handoff"] > 0 \/ row.status \notin {"pending", "cancelled"})
  => captured

\* Treasury is never asked to give back money that never arrived
\* (planTransition's refund, RefundOrder).
RefundNeedsMoney ==
  terms.method = "online" /\ granted["refund"] > 0 => captured

\* Once loyalty points and stock have been finalized, the row says so to every
\* later read, whatever writes it: planTransition relies on the two timestamps.
FinalizedIsStamped ==
  granted["finalize"] > 0 => row.delivered \/ row.completed

\* No mix of calls takes a delivery order past the drop-off, or a pickup order
\* through one (validateFulfilmentTransition judges a copy that may be stale).
DropOffIsKept ==
  /\ row.completed /\ terms.fulfil = "delivery" => row.delivered
  /\ row.delivered => terms.fulfil = "delivery"

\* A status call that wins its write moves the row as it is now, not as it was
\* read, along the status machine (UpdateOrderStatusAtomic's condition).
StatusCallsFollowMachine ==
  [][\A w \in Workers :
       call[w].kind \in StatusCalls /\ phase[w] = "saving" /\ row' # row
         /\ phase'[w] # "saving"
       => /\ CanTransition(row.status, row'.status)
          /\ FulfilmentAllows(terms, row.status, row'.status)]_vars

-----------------------------------------------------------------------------
(* Properties of status calls alone: staff, customers and redelivered events *)

\* Racing and redelivered status calls never make an effect owed twice.
EffectsOwedOnce == \A e \in Effects : granted[e] <= 1

\* The order's stock is consumed or released, never both.
StockLeavesOnce == ~(granted["finalize"] > 0 /\ granted["release"] > 0)

Promise == INSTANCE OrderPromise WITH status <- row.status,
                                      ended <- row.delivered \/ row.completed,
                                      owed <- granted

\* The calls together implement the abstract order: its status machine, and the
\* effects each edge owes.
KeepsPromise == Promise!Spec

-----------------------------------------------------------------------------
(* What the source says of the program and racing calls refute *)

\* "a late payment landing on a cancelled/timed-out/refunded order must NOT
\* trigger fulfillment": UpdatePaymentStatus judges the copy it read.
LatePaymentNotFulfilled ==
  [][row.status \in {"cancelled", "refunded"}
     => granted'["handoff"] = granted["handoff"]]_vars

\* "A prepaid order the outlet rejects must give the customer's money back":
\* CancelOrder judges the copy it read and writes payment_status back.
PaidCancelOwesRefund ==
  [][row.pay = "paid" /\ terms.method = "online"
       /\ row.status # "cancelled" /\ row'.status = "cancelled"
     => granted'["refund"] > granted["refund"]]_vars

=============================================================================
