------------------------------ MODULE OrderPromise ------------------------------
(***************************************************************************)
(* What the order service promises the rest of the platform about one      *)
(* order while only status calls are made on it: the order walks the       *)
(* status machine one edge at a time, and each edge owes other services    *)
(* exactly the effects that belong to it, once.                            *)
(***************************************************************************)
EXTENDS OrderStates, Naturals

VARIABLES
  terms,   \* the order's terms
  status,  \* its status
  ended,   \* it has reached the end of its fulfilment
  owed     \* how often each effect has been owed

vars == <<terms, status, ended, owed>>

Init ==
  /\ terms \in TermsType
  /\ status = "pending"
  /\ ended = FALSE
  /\ owed = [e \in Effects |-> 0]

\* The effects that belong to the edge into `to`; the tender of a cash order is
\* settled unless the counter's terminal has booked it.
Belongs(to, settled) ==
  {e \in Effects :
     \/ e = "settle" /\ to \in {"delivered", "completed"} /\ ~ended
        /\ terms.method = "cod" /\ settled
     \/ e = "finalize" /\ to \in {"delivered", "completed"} /\ ~ended
     \/ e = "handoff" /\ to = "confirmed"
     \/ e = "release" /\ to = "cancelled" /\ terms.held
     \/ e = "points" /\ to = "cancelled" /\ terms.points}

Move(to) ==
  /\ CanTransition(status, to)
  /\ FulfilmentAllows(terms, status, to)
  /\ status' = to
  /\ ended' = (ended \/ to \in {"delivered", "completed"})
  /\ \E settled \in BOOLEAN :
       owed' = [e \in Effects |->
                  owed[e] + (IF e \in Belongs(to, settled) THEN 1 ELSE 0)]
  /\ UNCHANGED terms

Next == \E to \in Statuses : Move(to)

Spec == Init /\ [][Next]_vars

=============================================================================
