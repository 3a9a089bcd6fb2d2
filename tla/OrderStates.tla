------------------------------ MODULE OrderStates ------------------------------
(***************************************************************************)
(* The vocabulary of an order and the pure rules the ordering service      *)
(* decides with: the status machine, the fulfilment rule, who may accept   *)
(* or delete an order, and the one-time effects a status change owes.      *)
(*                                                                         *)
(* An order is split into its terms (columns written once, when the order  *)
(* is placed) and its row (columns later calls overwrite).                 *)
(***************************************************************************)

Statuses == {"pending", "confirmed", "preparing", "ready", "out_for_delivery",
             "delivered", "completed", "cancelled", "refunded"}

\* The payment statuses some call of the service writes.  The schema also lists
\* authorized, failed, partially_refunded and cod_collected; nothing writes them.
PayStatuses == {"pending", "cod_pending", "paid", "refunded"}

\* How the customer pays: through a gateway, cash at the door or counter, or
\* M-Pesa sent to the outlet's own till and checked by hand.
Methods == {"online", "cod", "manual"}

\* points: loyalty points were redeemed; held: stock is reserved; auto: the
\* tenant accepts orders automatically.
TermsType == [fulfil : {"delivery", "pickup"}, method : Methods, held : BOOLEAN,
              points : BOOLEAN, auto : BOOLEAN]

\* delivered and completed: the two timestamps that say the order has ended;
\* offered and handed: the outlet_offered_at and outlet_handoff_at stamps.
RowType == [status : Statuses, pay : PayStatuses, delivered : BOOLEAN,
            completed : BOOLEAN, offered : BOOLEAN, handed : BOOLEAN,
            rated : BOOLEAN, exists : BOOLEAN]

-----------------------------------------------------------------------------
(* The status machine *)

Edges == {<<"pending", "confirmed">>, <<"pending", "cancelled">>,
          <<"confirmed", "preparing">>, <<"confirmed", "cancelled">>,
          <<"preparing", "ready">>, <<"preparing", "cancelled">>,
          <<"ready", "out_for_delivery">>, <<"ready", "completed">>,
          <<"ready", "cancelled">>,
          <<"out_for_delivery", "delivered">>, <<"out_for_delivery", "cancelled">>,
          <<"delivered", "completed">>, <<"delivered", "refunded">>,
          <<"completed", "refunded">>}

CanTransition(from, to) == <<from, to>> \in Edges

\* Mutant: a delivery order may be completed straight from ready.
FulfilmentAllows_Skip(t, from, to) ==
  to \in {"out_for_delivery", "delivered"} => t.fulfil = "delivery"

\* A pickup order is never handed to a rider; a delivery order cannot skip the
\* drop-off.
FulfilmentAllows(t, from, to) ==
  /\ to \in {"out_for_delivery", "delivered"} => t.fulfil = "delivery"
  /\ from = "ready" /\ to = "completed" => t.fulfil # "delivery"

OfflinePayment(t) == t.method \in {"cod", "manual"}

\* Mutant: anybody's order may be accepted.
ReadyForAcceptance_Always(t, r) == TRUE

ReadyForAcceptance(t, r) == r.pay = "paid" \/ OfflinePayment(t)

\* Everything UpdateOrderStatus checks on the order it read.
MayMove(t, r, to) ==
  /\ CanTransition(r.status, to)
  /\ FulfilmentAllows(t, r.status, to)
  /\ r.status = "pending" /\ to = "confirmed" => ReadyForAcceptance(t, r)

CustomerMayCancel(status) == status \in {"pending", "confirmed"}

Refundable(r) ==
  /\ r.status \in {"delivered", "completed"}
  /\ r.pay # "refunded"

Ratable(r) == r.status \in {"delivered", "completed"} /\ ~r.rated

Deletable(r) ==
  \/ r.status \in {"cancelled", "refunded", "completed", "delivered"}
  \/ r.status = "pending" /\ ~r.handed /\ ~r.offered

-----------------------------------------------------------------------------
(* The one-time effects a call owes other services once its write has won.  *)

\* settle: book the offline tender in treasury; finalize: award points and
\* consume the stock; refund: ask treasury for the money back; release: free the
\* stock; points: give redeemed points back; confirmed: publish
\* order.payment_confirmed; handoff: publish order.confirmed to the outlet;
\* offer: publish order.awaiting_acceptance to the outlet; rating: add the stars
\* to the outlet's aggregate.
Effects == {"settle", "finalize", "refund", "release", "points", "confirmed",
            "handoff", "offer", "rating"}

\* Mutant: an order that was delivered is finalized again when completed.
FinalizeOwed_EachEnd(r, to) == to \in {"delivered", "completed"}

FinalizeOwed(r, to) ==
  to \in {"delivered", "completed"} /\ ~r.delivered /\ ~r.completed

\* A pay-on-collection order is marked paid when it ends.
MarkPaid(t, r, to) ==
  to \in {"delivered", "completed"} /\ t.method = "cod" /\ r.pay # "paid"

\* Mutant: every cancelled online order is refunded, paid or not.
RefundOwed_Unpaid(t, r, to) == to = "cancelled" /\ t.method # "cod"

RefundOwed(t, r, to) == to = "cancelled" /\ r.pay = "paid" /\ t.method # "cod"

\* What moving the order as read (r) to status `to` owes; paidAtPos says the
\* counter already rang the order through the POS terminal.
MoveEffects(t, r, to, paidAtPos) ==
  {e \in Effects :
     \/ e = "settle" /\ MarkPaid(t, r, to) /\ ~paidAtPos
     \/ e = "finalize" /\ FinalizeOwed(r, to)
     \/ e = "handoff" /\ r.status = "pending" /\ to = "confirmed"
     \/ e = "refund" /\ RefundOwed(t, r, to)
     \/ e = "release" /\ to = "cancelled" /\ t.held
     \/ e = "points" /\ to = "cancelled" /\ t.points}

\* Automatic acceptance confirms the order in the same write that marks it paid.
AcceptsOnPayment(t, r) == r.status = "pending" /\ t.auto

\* What the transition into paid owes, judged on the order as read.
PayEffects(t, r) ==
  {e \in Effects :
     \/ e = "confirmed" /\ r.status \notin {"cancelled", "refunded"}
     \/ e = "handoff" /\ AcceptsOnPayment(t, r)
     \/ e = "offer" /\ r.status = "pending" /\ ~t.auto /\ ~r.offered}

=============================================================================
