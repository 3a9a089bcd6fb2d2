------------------------------ MODULE NumberSource ------------------------------
(***************************************************************************)
(* What a tenant expects of document numbers: every number handed out is   *)
(* larger than all the numbers before it.  Numbers may be skipped.         *)
(***************************************************************************)
EXTENDS Naturals, Sequences

VARIABLE issued  \* the numbers handed out, in order

Init == issued = <<>>

HandOut(number) ==
  /\ number \in Nat
  /\ \A i \in DOMAIN issued : issued[i] < number
  /\ issued' = Append(issued, number)

Next == issued' # <<>> /\ HandOut(issued'[Len(issued')])

Spec == Init /\ [][Next]_issued

=============================================================================
