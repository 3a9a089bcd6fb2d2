------------------------------- MODULE MCPayment -------------------------------
(* PaymentRetry on small instances. *)
EXTENDS PaymentRetry
CONSTANTS c1, c2, k1, p1, s1

\* The callers are interchangeable; used by the safety run only.
Symmetry == Permutations(Callers)
=============================================================================
