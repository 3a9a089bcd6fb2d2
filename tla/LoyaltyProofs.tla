------------------------------ MODULE LoyaltyProofs ------------------------------
(***************************************************************************)
(* What every call of the loyalty service keeps, for any number of callers *)
(* and orders.                                                             *)
(***************************************************************************)
EXTENDS Loyalty, FiniteSetTheorems, TLAPS

\* What a call says of itself does not change: a cancellation names its order, and
\* points are deducted only for the order the call names.
RefundsNamed == \A t \in Tellers : call[t].op = "refund" => call[t].order \in Orders

LoyaltyInv == LoyaltyTypeOK /\ RefundsNamed

USE NoOrderAssumption, PointsAssumption DEF NoOrderAssumption, PointsAssumption

\* The next tier of an account is a natural number: only finitely many marks lie
\* below its lifetime points.
LEMMA TierType == ASSUME NEW lifetime \in Nat PROVE TierOf(lifetime) \in Nat
<1> DEFINE below == {mark \in TierMarks : mark <= lifetime}
<1>1. below \subseteq Nat /\ \A mark \in below : mark <= lifetime
  OBVIOUS
<1>2. IsFiniteSet(below)
  <2> HIDE DEF below
  <2> QED
    BY <1>1, FS_BoundedSetOfNaturals
<1> QED
  BY <1>2, FS_CardinalityType DEF TierOf

\* A new account and idle callers are well formed.
LEMMA LoyaltyInitial == LoyaltyInit => LoyaltyInv
<1>1. NewAccount \in AccountType /\ NoCall \in CallType
  BY TierType DEF NewAccount, NoCall, AccountType, CallType, Ops
<1> QED
  BY <1>1 DEF LoyaltyInit, LoyaltyInv, LoyaltyTypeOK, RefundsNamed, NoCall, NewAccount, AccountType

\* Beginning a call keeps the types when what is asked for is well formed.
LEMMA BeginCallInv ==
  ASSUME LoyaltyInv, NEW t \in Tellers, NEW op \in Ops, NEW points \in 0..MaxPoints,
         NEW o \in Orders \cup {NoOrder}, op = "refund" => o \in Orders,
         BeginCall(t, op, points, o)
  PROVE  LoyaltyInv'
<1>1. NewAccount \in AccountType
  BY TierType DEF NewAccount, AccountType
<1>2. [step |-> "read", op |-> op, points |-> points, order |-> o, copy |-> NewAccount] \in CallType
  BY <1>1 DEF CallType
<1> QED
  BY <1>2 DEF BeginCall, LoyaltyInv, LoyaltyTypeOK, RefundsNamed

\* Every step of a call keeps the types.
LEMMA LoyaltyStepInv ==
  ASSUME LoyaltyInv, NEW t \in Tellers, LoyaltyStep(t) \/ EndCall(t)
  PROVE  LoyaltyInv'
<1> USE DEF LoyaltyInv, LoyaltyTypeOK, RefundsNamed
<1>1. CASE ReadAccount(t)
  <2>1. PICK step \in {"ended", "move"} : call' = [call EXCEPT ![t] = [@ EXCEPT !.step = step, !.copy = account]]
    BY <1>1 DEF ReadAccount
  <2>2. \A u \in Tellers : /\ call'[u].op = call[u].op
                           /\ call'[u].order = call[u].order
    BY <2>1 DEF CallType
  <2>3. [call[t] EXCEPT !.step = step, !.copy = account] \in CallType
    BY DEF CallType
  <2>4. call' = [call EXCEPT ![t] = [call[t] EXCEPT !.step = step, !.copy = account]]
    BY <2>1
  <2>5. call' \in [Tellers -> CallType]
    BY <2>3, <2>4
  <2> QED
    BY <1>1, <2>2, <2>5 DEF ReadAccount
<1>2. CASE MovePoints(t)
  <2> DEFINE c == call[t]
  <2>1. c \in CallType /\ Moved(c) \in AccountType
    <3>1. c \in CallType /\ Earned(c) \in Nat /\ Change(c) \in Int
      BY DEF CallType, Change, Earned
    <3>2. account.balance + Change(c) \in Int /\ account.lifetime + Earned(c) \in Nat
      BY <3>1 DEF AccountType
    <3> QED
      BY <3>1, <3>2 DEF AccountType, Moved
  <2>2. call' \in [Tellers -> CallType] /\ RefundsNamed'
    BY <1>2 DEF MovePoints, CallType
  <2>3. c.order \in Orders \cup {NoOrder} /\ (c.op = "refund" => c.order \in Orders)
    BY <2>1 DEF CallType
  <2> QED
    BY <1>2, <2>1, <2>2, <2>3 DEF MovePoints
<1>3. CASE SaveTier(t)
  <2> DEFINE c == call[t]
  <2>1. c \in CallType /\ c.copy \in AccountType /\ c.points \in Nat
    BY DEF CallType
  <2>2. NewTier(c) \in Nat
    BY <2>1, TierType DEF NewTier, AccountType
  <2>3. call' \in [Tellers -> CallType] /\ RefundsNamed'
    BY <1>3 DEF SaveTier, CallType
  <2> QED
    BY <1>3, <2>1, <2>2, <2>3 DEF SaveTier, AccountType
<1>4. CASE Book(t)
  <2>1. Change(call[t]) \in Int
    BY DEF Change, CallType
  <2> QED
    BY <1>4, <2>1 DEF Book, CallType
<1>5. CASE EndCall(t)
  <2>1. NewAccount \in AccountType
    BY TierType DEF NewAccount, AccountType
  <2>2. NoCall \in CallType /\ NoCall.op = "earn"
    BY <2>1 DEF NoCall, CallType, Ops
  <2> QED
    BY <1>5, <2>2 DEF EndCall
<1> QED
  BY <1>1, <1>2, <1>3, <1>4, <1>5 DEF LoyaltyStep

\* All that callers may do: a cancellation names its order.
LoyaltyNext ==
  \E t \in Tellers :
    \/ \E op \in Ops, points \in 0..MaxPoints, o \in Orders \cup {NoOrder} :
         (op = "refund" => o \in Orders) /\ BeginCall(t, op, points, o)
    \/ LoyaltyStep(t) \/ EndCall(t)

\* Whatever the callers do, calls stay well formed.
LEMMA LoyaltyNextInv == LoyaltyInv /\ [LoyaltyNext]_loyaltyVars => LoyaltyInv'
<1>1. LoyaltyInv /\ UNCHANGED loyaltyVars => LoyaltyInv'
  BY DEF LoyaltyInv, LoyaltyTypeOK, RefundsNamed, loyaltyVars
<1>2. ASSUME LoyaltyInv, LoyaltyNext PROVE LoyaltyInv'
  BY <1>2, BeginCallInv, LoyaltyStepInv DEF LoyaltyNext
<1> QED
  BY <1>1, <1>2

-----------------------------------------------------------------------------
(* The ledger *)

\* Calls that have moved points and not booked them yet.
Unbooked == {t \in Tellers : call[t].step \in {"tier", "book"}}

Side(op) == IF Takes(op) THEN "taken" ELSE "given"

\* Their points, one by one: those taken from the account, or those given to it.
Units(side) ==
  {u \in Unbooked \X (1..MaxPoints) : Side(call[u[1]].op) = side /\ u[2] <= call[u[1]].points}

\* As long as no copy is written back, the balance is what has been booked and
\* what is still to be booked.
LedgerInv ==
  /\ IsFiniteSet(Units("taken")) /\ IsFiniteSet(Units("given"))
  /\ tierSaves = 0 =>
       account.balance = Opening + booked + Cardinality(Units("given")) - Cardinality(Units("taken"))

\* The points of one call are as many as it says.
LEMMA UnitsOfCall ==
  ASSUME NEW t, NEW n \in Nat
  PROVE  IsFiniteSet({t} \X (1..n)) /\ Cardinality({t} \X (1..n)) = n
<1>1. IsFiniteSet({t}) /\ Cardinality({t}) = 1
  BY FS_Singleton
<1>2. IsFiniteSet(1..n) /\ Cardinality(1..n) = n
  BY FS_Interval
<1>3. Cardinality({t} \X (1..n)) = Cardinality({t}) * Cardinality(1..n) /\ IsFiniteSet({t} \X (1..n))
  BY <1>1, <1>2, FS_Product
<1> QED
  BY <1>1, <1>2, <1>3

\* A set that gains the points of a call it had none of grows by that many.
LEMMA UnitsGained ==
  ASSUME NEW S, NEW T, NEW t, NEW n \in Nat, IsFiniteSet(S),
         T = S \cup ({t} \X (1..n)), \A u \in S : u[1] # t
  PROVE  IsFiniteSet(T) /\ Cardinality(T) = Cardinality(S) + n
<1> DEFINE own == {t} \X (1..n)
<1>1. IsFiniteSet(own) /\ Cardinality(own) = n
  BY UnitsOfCall
<1>2. S \cap own = {}
  OBVIOUS
<1>3. Cardinality({}) = 0
  BY FS_EmptySet
<1>4. Cardinality(S) \in Nat
  BY FS_CardinalityType
<1>5. T = S \cup own
  OBVIOUS
<1> HIDE DEF own
<1>6. IsFiniteSet(S \cup own) /\ Cardinality(S \cup own) = Cardinality(S) + Cardinality(own) - Cardinality(S \cap own)
  BY <1>1, FS_Union
<1>7. Cardinality(S \cap own) = 0
  BY <1>2, <1>3
<1>8. Cardinality(S \cup own) = Cardinality(S) + n
  BY <1>1, <1>4, <1>6, <1>7
<1> QED
  BY <1>5, <1>6, <1>8, Zenon

\* A step that leaves every unbooked call unbooked, and adds none, leaves the points
\* to be booked alone.
LEMMA UnitsKept ==
  ASSUME LoyaltyInv, NEW t \in Tellers,
         \A u \in Tellers \ {t} : call'[u] = call[u],
         \/ /\ call[t].step \notin {"tier", "book"}
            /\ call'[t].step \notin {"tier", "book"}
         \/ /\ call[t].step \in {"tier", "book"} /\ call'[t].step \in {"tier", "book"}
            /\ call'[t].op = call[t].op /\ call'[t].points = call[t].points,
         NEW side \in {"taken", "given"}
  PROVE  Units(side)' = Units(side)
BY DEF Units, Unbooked, Side, Takes

\* Points move between the account and the ledger of one call.
LEMMA LedgerMove ==
  ASSUME LoyaltyInv, LedgerInv, NEW t \in Tellers, MovePoints(t)
  PROVE  LedgerInv'
<1> DEFINE c == call[t]
           own == {t} \X (1..c.points)
<1>0. PICK to \in {"taken", "given"} : to = Side(c.op)
  BY DEF Side
<1>1. /\ c \in CallType /\ c.points \in 0..MaxPoints /\ c.points \in Nat
      /\ account.balance \in Int /\ account \in AccountType /\ booked \in Int
  BY PointsAssumption DEF LoyaltyInv, LoyaltyTypeOK, CallType, AccountType, PointsAssumption
<1>2. /\ c.step = "move"
      /\ c' = [c EXCEPT !.step = call'[t].step] /\ call'[t].step \in {"tier", "book"}
      /\ \A u \in Tellers \ {t} : call'[u] = call[u]
  BY DEF MovePoints, LoyaltyInv, LoyaltyTypeOK
<1>3. c'.op = c.op /\ c'.points = c.points
  BY <1>1, <1>2 DEF CallType
<1>4. Units(to)' = Units(to) \cup own /\ \A u \in Units(to) : u[1] # t
  BY <1>0, <1>1, <1>2, <1>3 DEF Units, Unbooked, Side, Takes
<1>5. \A side \in {"taken", "given"} \ {to} : Units(side)' = Units(side)
  BY <1>0, <1>1, <1>2, <1>3 DEF Units, Unbooked, Side, Takes
<1>6. IsFiniteSet(Units(to)') /\ Cardinality(Units(to)') = Cardinality(Units(to)) + c.points
  <2> DEFINE n == c.points
             S == Units(to)
             T == Units(to)'
  <2>1. n \in Nat /\ IsFiniteSet(S)
    BY <1>1 DEF LedgerInv
  <2>2. T = S \cup ({t} \X (1..n)) /\ \A u \in S : u[1] # t
    BY <1>4
  <2> HIDE DEF n, S, T
  <2>3. IsFiniteSet(T)
    BY <2>1, <2>2, UnitsOfCall, FS_Union
  <2>4. Cardinality(T) = Cardinality(S) + n
    BY <2>1, <2>2, UnitsGained
  <2> QED
    BY <2>3, <2>4 DEF n, S, T
<1>7. account'.balance = account.balance + Change(c) /\ UNCHANGED <<booked, tierSaves>>
  BY <1>1 DEF MovePoints, Moved, AccountType
<1>8. Cardinality(Units("taken")) \in Nat /\ Cardinality(Units("given")) \in Nat
  BY FS_CardinalityType DEF LedgerInv
<1> QED
  BY <1>0, <1>1, <1>5, <1>6, <1>7, <1>8 DEF LedgerInv, Change, Side

\* A booking takes the points of its call off what is still to be booked.
LEMMA LedgerBook ==
  ASSUME LoyaltyInv, LedgerInv, NEW t \in Tellers, Book(t)
  PROVE  LedgerInv'
<1> DEFINE c == call[t]
           own == {t} \X (1..c.points)
<1>0. PICK to \in {"taken", "given"} : to = Side(c.op)
  BY DEF Side
<1>1. /\ c \in CallType /\ c.points \in 0..MaxPoints /\ c.points \in Nat
      /\ account.balance \in Int /\ booked \in Int
  BY PointsAssumption DEF LoyaltyInv, LoyaltyTypeOK, CallType, AccountType, PointsAssumption
<1>2. c.step = "book" /\ call'[t].step = "ended" /\ \A u \in Tellers \ {t} : call'[u] = call[u]
  BY <1>1 DEF Book, LoyaltyInv, LoyaltyTypeOK, CallType
<1>3. Units(to) = Units(to)' \cup own /\ \A u \in Units(to)' : u[1] # t
  BY <1>0, <1>1, <1>2 DEF Units, Unbooked, Side, Takes
<1>4. \A side \in {"taken", "given"} \ {to} : Units(side)' = Units(side)
  BY <1>0, <1>1, <1>2 DEF Units, Unbooked, Side, Takes
<1>5. IsFiniteSet(Units(to)')
  BY <1>1, <1>3, FS_Subset DEF LedgerInv
<1>6. Cardinality(Units(to)) = Cardinality(Units(to)') + c.points
  <2> DEFINE n == c.points
             S == Units(to)'
             T == Units(to)
  <2>1. n \in Nat /\ IsFiniteSet(S)
    BY <1>1, <1>5
  <2>2. T = S \cup ({t} \X (1..n)) /\ \A u \in S : u[1] # t
    BY <1>3
  <2> HIDE DEF n, S, T
  <2>3. Cardinality(T) = Cardinality(S) + n
    BY <2>1, <2>2, UnitsGained
  <2> QED
    BY <2>3 DEF n, S, T
<1>7. booked' = booked + Change(c) /\ UNCHANGED <<account, tierSaves>>
  BY DEF Book
<1>8. /\ Cardinality(Units("taken")) \in Nat /\ Cardinality(Units("given")) \in Nat
      /\ Cardinality(Units(to)') \in Nat
  BY <1>5, FS_CardinalityType DEF LedgerInv
<1> QED
  BY <1>0, <1>1, <1>4, <1>5, <1>6, <1>7, <1>8 DEF LedgerInv, Change, Side

\* At first nothing is to be booked.
LEMMA LedgerInitial == LoyaltyInit => LedgerInv
<1> SUFFICES ASSUME LoyaltyInit PROVE LedgerInv
  OBVIOUS
<1>1. Units("taken") = {} /\ Units("given") = {}
  BY DEF LoyaltyInit, Units, Unbooked, NoCall
<1>2. account.balance = Opening /\ booked = 0
  BY DEF LoyaltyInit, NewAccount
<1>3. IsFiniteSet({}) /\ Cardinality({}) = 0
  BY FS_EmptySet
<1> QED
  BY <1>1, <1>2, <1>3, PointsAssumption DEF LedgerInv, PointsAssumption

\* The ledger keeps up when calls begin, step and end; a tier change that is saved
\* ends its promise.
LEMMA LedgerStep ==
  ASSUME LoyaltyInv, LedgerInv, NEW t \in Tellers,
         \/ \E op, points, o : BeginCall(t, op, points, o)
         \/ LoyaltyStep(t) \/ EndCall(t)
  PROVE  LedgerInv'
<1> USE DEF LoyaltyInv, LoyaltyTypeOK
<1>1. ASSUME UNCHANGED <<account, booked>>, tierSaves' = tierSaves,
             \A side \in {"taken", "given"} : Units(side)' = Units(side)
      PROVE  LedgerInv'
  BY <1>1 DEF LedgerInv
<1>2. ASSUME NEW op, NEW points, NEW o, BeginCall(t, op, points, o) PROVE LedgerInv'
  BY <1>1, <1>2, UnitsKept DEF BeginCall
<1>3. CASE ReadAccount(t)
  <2>1. /\ call[t].step = "read" /\ call'[t].step \in {"ended", "move"}
        /\ \A u \in Tellers \ {t} : call'[u] = call[u]
    BY <1>3 DEF ReadAccount, CallType
  <2> QED
    BY <1>1, <1>3, <2>1, UnitsKept DEF ReadAccount
<1>4. CASE MovePoints(t)
  BY <1>4, LedgerMove
<1>5. CASE SaveTier(t)
  <2>1. /\ call[t].step = "tier" /\ call'[t].step = "book"
        /\ call'[t].op = call[t].op /\ call'[t].points = call[t].points
        /\ \A u \in Tellers \ {t} : call'[u] = call[u]
    BY <1>5 DEF SaveTier, CallType
  <2>2. Units("taken")' = Units("taken") /\ Units("given")' = Units("given")
    BY <2>1, UnitsKept
  <2>3. tierSaves' # 0
    BY <1>5 DEF SaveTier
  <2> QED
    BY <2>2, <2>3 DEF LedgerInv
<1>6. CASE Book(t)
  BY <1>6, LedgerBook
<1>7. CASE EndCall(t)
  <2>1. /\ call[t].step = "ended" /\ call'[t].step = "idle"
        /\ \A u \in Tellers \ {t} : call'[u] = call[u]
    BY <1>7 DEF EndCall, NoCall
  <2> QED
    BY <1>1, <1>7, <2>1, UnitsKept DEF EndCall
<1> QED
  BY <1>2, <1>3, <1>4, <1>5, <1>6, <1>7 DEF LoyaltyStep

\* Whatever the callers do, the ledger keeps up.
LEMMA LedgerNextInv == LoyaltyInv /\ LedgerInv /\ [LoyaltyNext]_loyaltyVars => LedgerInv'
<1>1. LedgerInv /\ UNCHANGED loyaltyVars => LedgerInv'
  BY DEF LedgerInv, Units, Unbooked, loyaltyVars
<1>2. ASSUME LoyaltyInv, LedgerInv, LoyaltyNext PROVE LedgerInv'
  BY <1>2, LedgerStep DEF LoyaltyNext
<1> QED
  BY <1>1, <1>2

\* When no call is between its two writes, nothing is left to be booked.
LEMMA LedgerSettled == LoyaltyInv /\ LedgerInv => LedgerAgrees
<1> SUFFICES ASSUME LoyaltyInv, LedgerInv, tierSaves = 0, \A t \in Tellers : call[t].step \notin {"tier", "book"}
             PROVE  account.balance = Opening + booked
  BY DEF LedgerAgrees
<1>1. Units("taken") = {} /\ Units("given") = {}
  BY DEF Units, Unbooked
<1>2. Cardinality({}) = 0
  BY FS_EmptySet
<1>3. account.balance \in Int /\ booked \in Int
  BY DEF LoyaltyInv, LoyaltyTypeOK, AccountType
<1> QED
  BY <1>1, <1>2, <1>3, PointsAssumption DEF LedgerInv, PointsAssumption

=============================================================================
