--------------------------------- MODULE MCOrder ---------------------------------
(***************************************************************************)
(* Instances of OrderLifecycle for TLC.                                    *)
(***************************************************************************)
EXTENDS OrderLifecycle, TLC

CONSTANTS w1, w2, w3

Symmetry == Permutations(Workers)

Terms(fulfil, method, held, points, auto) ==
  [fulfil |-> fulfil, method |-> method, held |-> held, points |-> points,
   auto |-> auto]

\* One order per payment method, on either acceptance policy.
MixedTerms ==
  {Terms("delivery", "online", FALSE, FALSE, TRUE),
   Terms("pickup", "online", TRUE, FALSE, FALSE),
   Terms("delivery", "cod", FALSE, FALSE, FALSE),
   Terms("pickup", "manual", TRUE, TRUE, FALSE)}

\* Orders whose effects include everything a status call can owe.
HeldTerms ==
  {Terms("delivery", "cod", TRUE, TRUE, FALSE),
   Terms("pickup", "manual", TRUE, TRUE, TRUE)}

\* A prepaid order on either acceptance policy.
PrepaidAuto == {Terms("pickup", "online", FALSE, FALSE, TRUE)}
PrepaidManual == {Terms("pickup", "online", FALSE, FALSE, FALSE)}
=============================================================================
