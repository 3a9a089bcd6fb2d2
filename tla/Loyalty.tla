--------------------------------- MODULE Loyalty ---------------------------------
(***************************************************************************)
(* One customer's loyalty account under concurrent calls of the loyalty    *)
(* service: each reads the account, adds to or deducts from it, and then   *)
(* books a transaction; a call that earns may also save a new tier.        *)
(***************************************************************************)
EXTENDS Integers, FiniteSets

CONSTANTS
  Tellers,    \* callers of the loyalty service
  Orders,     \* orders points are moved for
  NoOrder,
  Opening,    \* the points the customer starts with
  MaxPoints,  \* bound: points moved by one call
  TierMarks   \* lifetime points at which the next tier begins

ASSUME NoOrderAssumption == NoOrder \notin Orders
ASSUME PointsAssumption == Opening \in Nat /\ MaxPoints \in Nat /\ TierMarks \subseteq Nat

VARIABLES
  account,    \* the account's row
  call,       \* each caller's call: its kind, points and order, and the copy it read
  booked,     \* history: what the transactions booked add up to
  deducted,   \* history: orders whose points were deducted
  givenBack,  \* history: orders whose points a cancellation gave back
  tierSaves   \* history: tier changes saved

loyaltyVars == <<account, call, booked, deducted, givenBack, tierSaves>>

AccountType == [balance : Int, lifetime : Nat, tier : Nat]

\* refund: the points a cancelled order gives back are earned again; give: a bonus,
\* or an adjustment up; take: an adjustment down.
Ops == {"earn", "refund", "give", "redeem", "take"}

CallType == [step : {"idle", "read", "move", "tier", "book", "ended"}, op : Ops,
             points : 0..MaxPoints, order : Orders \cup {NoOrder}, copy : AccountType]

TierOf(lifetime) == Cardinality({mark \in TierMarks : mark <= lifetime})

NewAccount == [balance |-> Opening, lifetime |-> Opening, tier |-> TierOf(Opening)]

NoCall == [step |-> "idle", op |-> "earn", points |-> 0, order |-> NoOrder, copy |-> NewAccount]

LoyaltyTypeOK ==
  /\ account \in AccountType
  /\ call \in [Tellers -> CallType]
  /\ booked \in Int
  /\ deducted \subseteq Orders
  /\ givenBack \subseteq Orders
  /\ tierSaves \in Nat

LoyaltyInit ==
  /\ account = NewAccount
  /\ call = [t \in Tellers |-> NoCall]
  /\ booked = 0
  /\ deducted = {}
  /\ givenBack = {}
  /\ tierSaves = 0

\* EarnPoints (also for a cancelled order), AddBonusPoints, AdjustPoints up and
\* down, RedeemPoints.
BeginCall(t, op, points, order) ==
  /\ call[t].step = "idle"
  /\ call' = [call EXCEPT ![t] = [step |-> "read", op |-> op, points |-> points,
                                  order |-> order, copy |-> NewAccount]]
  /\ UNCHANGED <<account, booked, deducted, givenBack, tierSaves>>

Takes(op) == op \in {"redeem", "take"}

\* A call that takes points is refused on the balance it reads.
ReadAccount(t) ==
  LET refused == Takes(call[t].op) /\ account.balance < call[t].points
  IN /\ call[t].step = "read"
     /\ call' = [call EXCEPT ![t] = [@ EXCEPT !.step = IF refused THEN "ended" ELSE "move", !.copy = account]]
     /\ UNCHANGED <<account, booked, deducted, givenBack, tierSaves>>

Change(c) == IF Takes(c.op) THEN -c.points ELSE c.points

Earned(c) == IF Takes(c.op) THEN 0 ELSE c.points

\* Mutant: the new balance is computed from the copy.
Moved_FromCopy(c) ==
  [account EXCEPT !.balance = c.copy.balance + Change(c), !.lifetime = @ + Earned(c)]

\* AddLoyaltyPoints and DeductLoyaltyPoints add to the row in the database.
Moved(c) == [account EXCEPT !.balance = @ + Change(c), !.lifetime = @ + Earned(c)]

NewTier(c) == TierOf(c.copy.lifetime + c.points)

MovePoints(t) ==
  LET c == call[t]
  IN /\ c.step = "move"
     /\ account' = Moved(c)
     /\ call' = [call EXCEPT ![t].step =
          IF c.op \in {"earn", "refund"} /\ NewTier(c) # c.copy.tier THEN "tier" ELSE "book"]
     /\ deducted' = IF c.op = "redeem" THEN deducted \cup ({c.order} \ {NoOrder}) ELSE deducted
     /\ givenBack' = IF c.op = "refund" THEN givenBack \cup {c.order} ELSE givenBack
     /\ UNCHANGED <<booked, tierSaves>>

\* UpdateLoyaltyAccount writes the balance of the copy as well.
SaveTier(t) ==
  LET c == call[t]
  IN /\ c.step = "tier"
     /\ account' = [c.copy EXCEPT !.tier = NewTier(c)]
     /\ call' = [call EXCEPT ![t].step = "book"]
     /\ tierSaves' = tierSaves + 1
     /\ UNCHANGED <<booked, deducted, givenBack>>

Book(t) ==
  /\ call[t].step = "book"
  /\ booked' = booked + Change(call[t])
  /\ call' = [call EXCEPT ![t].step = "ended"]
  /\ UNCHANGED <<account, deducted, givenBack, tierSaves>>

LoyaltyStep(t) == ReadAccount(t) \/ MovePoints(t) \/ SaveTier(t) \/ Book(t)

EndCall(t) ==
  /\ call[t].step = "ended"
  /\ call' = [call EXCEPT ![t] = NoCall]
  /\ UNCHANGED <<account, booked, deducted, givenBack, tierSaves>>

-----------------------------------------------------------------------------

\* The balance is what the booked transactions add up to once no call is between
\* the two writes, however calls interleave, as long as no tier change has written
\* a copy of the account back.
LedgerAgrees ==
  (tierSaves = 0 /\ \A t \in Tellers : call[t].step \notin {"tier", "book"})
    => account.balance = Opening + booked

=============================================================================
