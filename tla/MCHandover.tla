------------------------------- MODULE MCHandover -------------------------------
(***************************************************************************)
(* Values for Handover's constants.                                        *)
(***************************************************************************)
EXTENDS Handover, TLC

CONSTANTS o1, o2, c1, r1

Order(method, auto, slot, bare, placing) ==
  [terms |-> [fulfil |-> "pickup", method |-> method, held |-> FALSE, points |-> FALSE,
              auto |-> auto],
   slot |-> slot, bare |-> bare, placing |-> placing]

Both(first, second) == (o1 :> first @@ o2 :> second)

\* Cash orders, one accepted by its checkout and one by staff; and a prepaid order
\* beside one paid to the till.
TwoOrders ==
  {Both(Order("cod", TRUE, 1, TRUE, TRUE), Order("cod", FALSE, 1, FALSE, FALSE)),
   Both(Order("online", TRUE, 1, TRUE, TRUE), Order("manual", TRUE, 0, FALSE, FALSE))}

=============================================================================
