------------------------------ MODULE MCFulfilment ------------------------------
(***************************************************************************)
(* Values for Fulfilment's constants: which reports are published.         *)
(***************************************************************************)
EXTENDS Fulfilment

AllKinds == TaskKinds \cup PosKinds \cup {"staff"}

\* The reports that decide how the order is paid.
PaidKinds == {"picked_up", "delivered", "completed", "collected"}

CONSTANTS r1

\* A confirmed order without a rider, a ready one with a rider on his way, and the
\* two ways to pay for a collection.
DoorAndCounter ==
  {[fulfil |-> "delivery", from |-> "confirmed", tender |-> "mpesa", terminal |-> FALSE,
    carrier |-> NoRider],
   [fulfil |-> "delivery", from |-> "ready", tender |-> "mpesa", terminal |-> FALSE,
    carrier |-> r1]}
  \cup {[fulfil |-> "pickup", from |-> "confirmed", tender |-> "mpesa", terminal |-> t,
         carrier |-> NoRider] : t \in BOOLEAN}

=============================================================================
