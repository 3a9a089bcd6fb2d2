----------------------------- MODULE CheckoutProofs -----------------------------
(***************************************************************************)
(* What checkout keeps for any number of requests, keys, carts, desks and  *)
(* faults: order numbers are minted once and grow, the stock of a standing *)
(* order stays reserved, a repeated request acts once, the points add up,  *)
(* and without faults no reservation is left behind.                       *)
(***************************************************************************)
EXTENDS Checkout, DocumentSequenceProofs, LoyaltyProofs

-----------------------------------------------------------------------------
(* The order numbers: a checkout drives the counter only through GenerateNumber *)

\* Every checkout step is a step of the counter or leaves it alone.
LEMMA CheckoutStepsCounter == [Next]_vars => [SequenceNext]_sequenceVars
<1> SUFFICES ASSUME [Next]_vars PROVE SequenceNext \/ UNCHANGED sequenceVars
  OBVIOUS
<1>1. ASSUME NEW r \in Requests, Numbering(r) PROVE SequenceNext
  BY <1>1 DEF Numbering, SequenceNext, Requests
<1>2. ASSUME NEW r \in Requests, TakeNumber(r) PROVE SequenceNext
  BY <1>2 DEF TakeNumber, SequenceNext, Requests
<1>3. ASSUME NEW r \in Requests, Serve(r) PROVE SequenceNext \/ UNCHANGED sequenceVars
  BY <1>1, <1>2, <1>3 DEF Serve, Start, LookUpKey, Judge, ReserveStock, InsertOrder,
     RecordRedemption, CountUsage, RedeemPoints, CloseCart
<1>4. ASSUME NEW r \in Requests, Crash(r) PROVE UNCHANGED sequenceVars
  BY <1>4 DEF Crash
<1>5. ASSUME NEW d \in Desks, CancelOrder(d) \/ MoveByHand(d) \/ DeskWorks(d)
      PROVE  UNCHANGED sequenceVars
  BY <1>5 DEF CancelOrder, MoveByHand, DeskWorks
<1>6. Release \/ Outage => UNCHANGED sequenceVars
  BY DEF Release, Outage
<1> QED
  BY <1>3, <1>4, <1>5, <1>6 DEF Next, vars

\* A checkout behaviour is a behaviour of the counter.
LEMMA CheckoutIsSequence == Spec => SequenceSpec
<1>1. Init => SequenceInit
  BY DEF Init
<1> QED
  BY <1>1, CheckoutStepsCounter, PTL DEF Spec, SequenceSpec

\* No two orders are numbered alike by the counter, on whatever paths they are placed.
THEOREM CheckoutMintsOnce == Spec => []MintedOnce
BY CheckoutIsSequence, MintedOnceAlways, PTL

\* The numbers checkouts mint grow, through clashes, outages and crashes.
THEOREM CheckoutNumbersGrow == Spec => NumberPromise
BY CheckoutIsSequence, NumbersGrow, PTL

-----------------------------------------------------------------------------
(* The way of a request *)

USE FormsAssumption, KeysAssumption, CheckoutBounds, RequestsAssumption
    DEF FormsAssumption, KeysAssumption, CheckoutBounds, RequestsAssumption, Requests

Early == {"key", "cart", "promo", "points", "number", "stock", "policy", "insert"}
Late == {"redemption", "usage", "redeem", "close"}

\* Of the steps that are left, one comes first; no path has more than eleven.
LEMMA FirstLeft ==
  ASSUME NEW S \in SUBSET (1..11), S # {}
  PROVE  \E i \in S : \A j \in S : i <= j
<1> SUFFICES ASSUME \A i \in S : \E j \in S : j < i PROVE FALSE
  OBVIOUS
<1>1. \A i \in S : i > 3
  OBVIOUS
<1>2. \A i \in S : i > 6
  BY <1>1
<1>3. \A i \in S : i > 9
  BY <1>2
<1>4. PICK i \in S : TRUE
  OBVIOUS
<1> QED
  BY <1>3, <1>4

\* The next step of a request is one of its path's.  The row comes before every step
\* that redeems something, and after it the request never comes back to a step
\* before it; a usage is counted only after its redemption.
LEMMA StepFollows ==
  ASSUME NEW r \in Requests, form[r].path \in {"cart", "items", "guest"}
  PROVE  /\ Following(r) \in Early \cup Late \cup {"done"}
         /\ phase[r] \in {"idle"} \cup (Early \ {"insert"}) => Following(r) \in Early \cup {"done"}
         /\ phase[r] \in Late \cup {"insert"} => Following(r) \in Late \cup {"done"}
         /\ phase[r] \in Late => Following(r) # "redemption"
         /\ phase[r] # "redemption" => Following(r) # "usage"
<1> DEFINE steps == Route[form[r].path]
           left == {i \in DOMAIN steps : /\ Asked(form[r], steps[i])
                                         /\ phase[r] = "idle" \/ \E j \in 1..(i - 1) : steps[j] = phase[r]}
           first == CHOOSE i \in left : \A j \in left : i <= j
<1>1. /\ DOMAIN steps \subseteq 1..11
      /\ \A i \in left : steps[i] \in Early \cup Late
      /\ phase[r] \in Late \cup {"insert"} => \A i \in left : steps[i] \in Late
      /\ phase[r] \in Late => \A i \in left : steps[i] # "redemption"
  <2>1. CASE form[r].path = "cart"
    BY <2>1 DEF Route, Early, Late
  <2>2. CASE form[r].path = "items"
    BY <2>2 DEF Route, Early, Late
  <2>3. CASE form[r].path = "guest"
    BY <2>3 DEF Route, Early, Late
  <2> QED
    BY <2>1, <2>2, <2>3
<1>2. left # {} => first \in left /\ \A j \in left : first <= j
  <2>1. left \in SUBSET (1..11)
    BY <1>1
  <2> HIDE DEF left
  <2> QED
    BY <2>1, FirstLeft
<1>3. ASSUME phase[r] \in {"idle"} \cup (Early \ {"insert"}), left # {}
      PROVE  steps[first] \in Early
  <2>1. \E k \in left : \A i \in left : i <= k => steps[i] \in Early
    <3>1. CASE form[r].path = "cart"
      <4>1. 7 \in left
        BY <1>3, <3>1 DEF Route, Early, Asked
      <4> QED
        BY <3>1, <4>1 DEF Route, Early
    <3>2. CASE form[r].path = "items"
      <4>1. 5 \in left
        BY <1>3, <3>2 DEF Route, Early, Asked
      <4> QED
        BY <3>2, <4>1 DEF Route, Early
    <3>3. CASE form[r].path = "guest"
      <4>1. 5 \in left
        BY <1>3, <3>3 DEF Route, Early, Asked
      <4> QED
        BY <3>3, <4>1 DEF Route, Early
    <3> QED
      BY <3>1, <3>2, <3>3
  <2> HIDE DEF left, first, steps
  <2> QED
    BY <1>2, <1>3, <2>1
<1>4. ASSUME phase[r] # "redemption", left # {}
      PROVE  steps[first] # "usage"
  <2>1. \A i \in left : steps[i] = "usage" => \E k \in left : k < i
    <3>1. CASE form[r].path = "cart"
      <4>1. \A i \in left : steps[i] = "usage" => i = 9 /\ Asked(form[r], "usage")
        BY <3>1 DEF Route
      <4>2. Asked(form[r], "usage") => Asked(form[r], "redemption")
        BY DEF Asked
      <4>3. 9 \in left => \E j \in 1..7 : steps[j] = phase[r] \/ phase[r] = "idle"
        BY <1>4, <3>1 DEF Route
      <4>4. 9 \in left => 8 \in left
        BY <3>1, <4>1, <4>2, <4>3 DEF Route
      <4> QED
        BY <4>1, <4>4
    <3>2. CASE form[r].path # "cart"
      BY <3>2 DEF Route
    <3> QED
      BY <3>1, <3>2
  <2>2. first \in DOMAIN steps /\ \A k \in left : k \in 1..11
    BY <1>1, <1>2, <1>4
  <2> HIDE DEF left, first, steps
  <2> QED
    BY <1>1, <1>2, <1>4, <2>1, <2>2
<1>5. Following(r) = IF left = {} THEN "done" ELSE steps[first]
  BY DEF Following
<1> HIDE DEF left, first, steps
<1> QED
  BY <1>1, <1>2, <1>3, <1>4, <1>5 DEF Early, Late

-----------------------------------------------------------------------------
(* Types *)

\* A finite set of naturals has a largest one: the legacy number of the day is one.
LEMMA LargestOf ==
  ASSUME NEW S, IsFiniteSet(S), S \subseteq Nat, S # {}
  PROVE  \E n \in S : \A k \in S : k <= n
<1> DEFINE Bad == {U \in SUBSET S : U # {} /\ \A n \in U : \E k \in U : k > n}
<1> SUFFICES ASSUME S \in Bad PROVE FALSE
  OBVIOUS
<1>1. IsWellFoundedOn(StrictSubsetOrdering(S), SUBSET S)
  BY FS_StrictSubsetOrderingWellFounded, FS_FiniteSubsetsOfFinite
<1>2. PICK U \in Bad : \A V \in Bad : ~ (<<V, U>> \in StrictSubsetOrdering(S))
  <2>1. Bad \subseteq SUBSET S /\ Bad # {}
    OBVIOUS
  <2> HIDE DEF Bad
  <2> QED
    BY <1>1, <2>1, WFMin
<1>3. PICK x \in U : TRUE
  OBVIOUS
<1>4. U \ {x} \notin Bad
  <2>1. U \in SUBSET S /\ U \ {x} \in SUBSET S /\ U \ {x} # U
    BY <1>2, <1>3
  <2>2. <<U \ {x}, U>> \in StrictSubsetOrdering(S)
    BY <2>1, Zenon DEF StrictSubsetOrdering
  <2> HIDE DEF Bad
  <2> QED
    BY <1>2, <2>2
<1>5. CASE U \ {x} = {}
  BY <1>3, <1>5
<1>6. CASE U \ {x} # {}
  <2>1. PICK n \in U \ {x} : \A k \in U \ {x} : k <= n
    BY <1>4, <1>6
  <2> QED
    BY <2>1, <1>3
<1> QED
  BY <1>5, <1>6

\* The number the fallback makes is the first one or follows the largest in use.
LEMMA LegacyNext ==
  ASSUME order \in [Requests -> OrderType]
  PROVE  \E n \in Nat \ {0} :
           /\ LegacyNumber = [legacy |-> TRUE, n |-> n]
           /\ \A o \in Placed : order[o].number.legacy => order[o].number.n < n
           /\ n = 1 \/ \E o \in Placed : order[o].number.legacy /\ n = order[o].number.n + 1
<1> DEFINE old == {x \in Placed : order[x].number.legacy}
           used == {order[o].number.n : o \in old}
<1>1. used \subseteq Nat
  BY DEF Placed, OrderType, Number
<1>2. IsFiniteSet(used)
  <2>1. IsFiniteSet(old)
    BY RequestsAssumption, FS_Subset DEF Placed, Requests
  <2> DEFINE numbers == [o \in old |-> order[o].number.n]
  <2>2. numbers \in Surjection(old, used)
    BY DEF Surjection
  <2> HIDE DEF old, used, numbers
  <2> QED
    BY <2>1, <2>2, FS_Surjection
<1>3. /\ \A o \in Placed : order[o].number.legacy => order[o].number.n \in used
      /\ \A n \in used : \E o \in Placed : order[o].number.legacy /\ order[o].number.n = n
  OBVIOUS
<1>4. LegacyNumber = [legacy |-> TRUE, n |-> IF used = {} THEN 1 ELSE 1 + CHOOSE n \in used : \A k \in used : k <= n]
  BY DEF LegacyNumber
<1> HIDE DEF used
<1>5. CASE used = {}
  <2>1. LegacyNumber = [legacy |-> TRUE, n |-> 1]
    BY <1>4, <1>5
  <2>2. \A o \in Placed : ~order[o].number.legacy
    BY <1>3, <1>5
  <2>3. 1 \in Nat \ {0}
    OBVIOUS
  <2> QED
    BY <2>1, <2>2, <2>3, Zenon
<1>6. CASE used # {}
  <2> DEFINE top == CHOOSE n \in used : \A k \in used : k <= n
  <2>1. top \in used /\ \A k \in used : k <= top
    BY <1>1, <1>2, <1>6, LargestOf
  <2>2. LegacyNumber = [legacy |-> TRUE, n |-> 1 + top]
    BY <1>4, <1>6
  <2> HIDE DEF top
  <2>3. top \in Nat /\ 1 + top \in Nat \ {0}
    BY <1>1, <2>1
  <2>4. \A o \in Placed : order[o].number.legacy => order[o].number.n < 1 + top
    <3> SUFFICES ASSUME NEW o \in Placed, order[o].number.legacy PROVE order[o].number.n < 1 + top
      OBVIOUS
    <3>1. order[o].number.n \in Nat /\ order[o].number.n <= top
      BY <1>1, <1>3, <2>1
    <3> QED
      BY <2>3, <3>1
  <2>5. PICK o \in Placed : order[o].number.legacy /\ order[o].number.n = top
    BY <1>3, <2>1
  <2>6. 1 + top = order[o].number.n + 1
    BY <2>3, <2>5
  <2> QED
    BY <2>2, <2>3, <2>4, <2>5, <2>6
<1> QED
  BY <1>5, <1>6

\* The number the fallback makes is well formed.
LEMMA LegacyType == ASSUME order \in [Requests -> OrderType] PROVE LegacyNumber \in Number
<1> PICK n \in Nat : LegacyNumber = [legacy |-> TRUE, n |-> n]
  BY LegacyNext
<1> QED
  BY DEF Number

\* The rows, the requests and the inventory, without the counter and the account.
RowTypes ==
  /\ form \in Forms
  /\ phase \in [Requests -> Phases]
  /\ loc \in [Requests -> [number : Number, hold : Holds \cup {NoHold}, clashes : 0..MaxTries]]
  /\ order \in [Requests -> OrderType]
  /\ cart \in [Carts -> {"active", "checked_out"}]
  /\ reserved \subseteq Holds /\ freed \subseteq reserved
  /\ releasing \subseteq Holds
  /\ usage \in Nat
  /\ redemptions \subseteq Requests
  /\ desk \in 0..MaxDesk
  /\ outage \in BOOLEAN
  /\ faults \in 0..MaxFaults

\* A request has failed no insert before its first number, and while it is inserting
\* it has a try left.
ClashesLeft ==
  \A r \in Requests :
    /\ phase[r] \in {"idle"} \cup (Early \ {"number", "insert"}) => loc[r].clashes = 0
    /\ phase[r] = "insert" => loc[r].clashes < MaxTries

\* What a request or an order has, and what is being released, the inventory has
\* reserved.
HoldsReserved ==
  /\ \A r \in Requests : {loc[r].hold, order[r].hold} \subseteq reserved \cup {NoHold}
  /\ releasing \subseteq reserved

OwnInv == RowTypes /\ ClashesLeft /\ HoldsReserved

CheckoutInv == SequenceInv /\ LoyaltyInv /\ OwnInv

\* What a request asks for is well formed, and its reservation has a key.
LEMMA Formed ==
  ASSUME RowTypes, NEW r \in Requests
  PROVE  /\ form[r] \in FormType
         /\ form[r].path \in {"cart", "items", "guest"}
         /\ form[r].path = "cart" => form[r].cart # NoCart
         /\ form[r].path # "cart" => form[r].key = NoKey /\ form[r].points = 0
         /\ HoldOf(r) \in Holds
<1>1. form[r] \in FormType
  BY DEF RowTypes
<1> QED
  BY <1>1 DEF RowTypes, FormType, HoldOf, Holds

\* A request that goes on comes to a step of its path.
LEMMA ProceedType ==
  ASSUME RowTypes, NEW r \in Requests, Proceed(r)
  PROVE  phase' \in [Requests -> Phases]
BY Formed, StepFollows DEF RowTypes, Proceed, Early, Late, Phases

\* A refused request releases nothing but its reservation.
LEMMA RefuseType ==
  ASSUME RowTypes, HoldsReserved, NEW r \in Requests, Refuse(r)
  PROVE  /\ phase' \in [Requests -> Phases]
         /\ releasing' \subseteq Holds /\ releasing' \subseteq reserved
         /\ cart' \in [Carts -> {"active", "checked_out"}]
<1>1. FreedOnRefusal(r) \subseteq Holds \cap reserved
  BY DEF FreedOnRefusal, RowTypes, HoldsReserved
<1>2. phase' \in [Requests -> Phases]
  BY DEF Refuse, RowTypes, Phases
<1>3. cart' \in [Carts -> {"active", "checked_out"}]
  BY DEF Refuse, RowTypes
<1> QED
  BY <1>1, <1>2, <1>3 DEF Refuse, RowTypes, HoldsReserved

\* A fault is counted within its bound.
LEMMA FaultType == ASSUME faults \in 0..MaxFaults, Fault PROVE faults' \in 0..MaxFaults
BY DEF Fault

\* In the initial states nothing is numbered, reserved or placed.
LEMMA CheckoutInitial == Init => CheckoutInv
<1> SUFFICES ASSUME Init PROVE CheckoutInv
  OBVIOUS
<1>1. SequenceInv /\ LoyaltyInv
  BY SequenceInitial, LoyaltyInitial DEF Init
<1>2. OwnInv
  <2>1. NoNumber \in Number /\ NoRow \in OrderType /\ 0 \in 0..MaxTries /\ 0 < MaxTries
    BY MaxTriesAssumption DEF MaxTriesAssumption, NoNumber, Number, NoRow, OrderType
  <2>2. loc \in [Requests -> [number : Number, hold : Holds \cup {NoHold}, clashes : 0..MaxTries]]
    BY <2>1 DEF Init
  <2>3. RowTypes
    <3>1. {0} \subseteq 0..MaxDesk /\ {0} \subseteq 0..MaxFaults
      OBVIOUS
    <3>2. order \in [Requests -> OrderType] /\ phase \in [Requests -> Phases]
      BY <2>1 DEF Init, Phases
    <3> QED
      BY <2>2, <3>1, <3>2 DEF Init, RowTypes
  <2>4. ClashesLeft /\ HoldsReserved
    BY <2>1 DEF Init, ClashesLeft, HoldsReserved, NoRow
  <2> QED
    BY <2>3, <2>4 DEF OwnInv
<1> QED
  BY <1>1, <1>2 DEF CheckoutInv

\* The account is moved only through calls of the loyalty service.
LEMMA CheckoutStepsLoyalty == ASSUME CheckoutInv, [Next]_vars PROVE [LoyaltyNext]_loyaltyVars
<1> USE DEF CheckoutInv, OwnInv
<1>1. ASSUME NEW r \in Requests, RedeemPoints(r) PROVE LoyaltyNext
  <2>1. form[r].points \in 0..MaxPoints /\ r \in Orders \cup {NoOrder} /\ r \in Tellers
    BY Formed DEF FormType
  <2>2. BeginCall(r, "redeem", form[r].points, r) \/ LoyaltyStep(r) \/ EndCall(r)
    BY <1>1 DEF RedeemPoints
  <2> QED
    BY <2>1, <2>2 DEF LoyaltyNext, Ops
<1>2. ASSUME NEW d \in Desks, CancelOrder(d) PROVE LoyaltyNext \/ UNCHANGED loyaltyVars
  <2>1. PICK o \in Placed : \/ BeginCall(d, "refund", form[o].points, o)
                            \/ UNCHANGED loyaltyVars
    BY <1>2 DEF CancelOrder
  <2>2. form[o].points \in 0..MaxPoints /\ o \in Orders /\ d \in Tellers
    BY Formed DEF FormType, Placed, Desks
  <2> QED
    BY <2>1, <2>2 DEF LoyaltyNext, Ops
<1>3. ASSUME NEW d \in Desks, MoveByHand(d) PROVE LoyaltyNext
  <2>1. PICK op \in {"earn", "give", "take"} : BeginCall(d, op, 1, NoOrder)
    BY <1>3 DEF MoveByHand
  <2>2. 1 \in 0..MaxPoints /\ d \in Tellers
    BY <1>3, Formed, PointsAssumption DEF MoveByHand, FormType, Desks
  <2> QED
    BY <2>1, <2>2 DEF LoyaltyNext, Ops
<1>4. ASSUME NEW d \in Desks, DeskWorks(d) PROVE LoyaltyNext
  BY <1>4 DEF DeskWorks, Desks, LoyaltyNext
<1>5. ASSUME NEW r \in Requests, Serve(r) \/ Crash(r), ~RedeemPoints(r) PROVE UNCHANGED loyaltyVars
  BY <1>5 DEF Serve, Start, LookUpKey, Judge, Numbering, TakeNumber, ReserveStock, InsertOrder,
     RecordRedemption, CountUsage, CloseCart, Crash
<1>6. Release \/ Outage => UNCHANGED loyaltyVars
  BY DEF Release, Outage
<1> QED
  BY <1>1, <1>2, <1>3, <1>4, <1>5, <1>6 DEF Next, vars

\* Every step of a request keeps the types, and holds only what the inventory has
\* reserved.
LEMMA ServeOwn ==
  ASSUME CheckoutInv, NEW r \in Requests, Serve(r)
  PROVE  RowTypes' /\ HoldsReserved'
<1> USE DEF CheckoutInv, OwnInv, rows, promo, stock
<1>1. CASE Start(r)
  BY <1>1, ProceedType DEF Start, RowTypes, HoldsReserved
<1>2. CASE LookUpKey(r)
  <2>1. phase' \in [Requests -> Phases]
    BY <1>2, ProceedType DEF LookUpKey, RowTypes, Phases
  <2>2. faults' \in 0..MaxFaults
    BY <1>2, FaultType DEF LookUpKey, RowTypes
  <2> QED
    BY <1>2, <2>1, <2>2 DEF LookUpKey, RowTypes, HoldsReserved
<1>3. CASE Judge(r)
  <2>1. (Proceed(r) /\ UNCHANGED <<cart, releasing>>) \/ Refuse(r)
    BY <1>3 DEF Judge
  <2>2. /\ phase' \in [Requests -> Phases]
        /\ releasing' \subseteq Holds /\ releasing' \subseteq reserved
        /\ cart' \in [Carts -> {"active", "checked_out"}]
    BY <2>1, ProceedType, RefuseType DEF RowTypes, HoldsReserved
  <2>3. UNCHANGED <<form, loc, rows, reserved, freed, faults>>
    BY <1>3 DEF Judge
  <2> QED
    BY <2>2, <2>3 DEF RowTypes, HoldsReserved
<1>4. CASE Numbering(r)
  BY <1>4 DEF Numbering, RowTypes, HoldsReserved
<1>5. CASE TakeNumber(r)
  <2>1. CASE Refuse(r) /\ UNCHANGED loc
    BY <1>5, <2>1, RefuseType DEF TakeNumber, RowTypes, HoldsReserved
  <2>2. CASE /\ \E number \in Number : loc' = [loc EXCEPT ![r].number = number]
             /\ \/ Refuse(r)
                \/ /\ phase' = [phase EXCEPT ![r] = "insert"] \/ Proceed(r)
                   /\ UNCHANGED <<cart, releasing>>
    <3>1. /\ phase' \in [Requests -> Phases]
          /\ releasing' \subseteq Holds /\ releasing' \subseteq reserved
          /\ cart' \in [Carts -> {"active", "checked_out"}]
      BY <2>2, ProceedType, RefuseType DEF RowTypes, HoldsReserved, Phases
    <3>2. PICK number \in Number : loc' = [loc EXCEPT ![r].number = number]
      BY <2>2
    <3>3. /\ loc' \in [Requests -> [number : Number, hold : Holds \cup {NoHold}, clashes : 0..MaxTries]]
          /\ \A q \in Requests : loc'[q].hold = loc[q].hold
      BY <3>2 DEF RowTypes
    <3> QED
      BY <1>5, <2>2, <3>1, <3>3 DEF TakeNumber, RowTypes, HoldsReserved
  <2>3. LegacyNumber \in Number /\ [legacy |-> FALSE, n |-> mint[r].seen] \in Number
    BY LegacyType DEF RowTypes, Number, SequenceInv, SequenceTypeOK, MintType
  <2> QED
    BY <1>5, <2>1, <2>2, <2>3 DEF TakeNumber
<1>6. CASE ReserveStock(r)
  <2> DEFINE id == HoldOf(r)
  <2>1. id \in Holds
    BY Formed
  <2>2. CASE Refuse(r) /\ UNCHANGED <<reserved, loc, faults>>
    BY <1>6, <2>2, RefuseType DEF ReserveStock, RowTypes, HoldsReserved
  <2>3. CASE /\ reserved' = reserved \cup {id} /\ loc' = [loc EXCEPT ![r].hold = id] /\ Proceed(r)
             /\ UNCHANGED <<cart, releasing, faults>>
    <3>1. /\ loc' \in [Requests -> [number : Number, hold : Holds \cup {NoHold}, clashes : 0..MaxTries]]
          /\ \A q \in Requests : loc'[q].hold \in {loc[q].hold, id}
      BY <2>1, <2>3 DEF RowTypes
    <3> QED
      BY <1>6, <2>1, <2>3, <3>1, ProceedType
         DEF ReserveStock, Refuse, RowTypes, HoldsReserved
  <2>4. CASE /\ Fault /\ reserved' \in {reserved, reserved \cup {id}} /\ Proceed(r)
             /\ UNCHANGED <<cart, releasing, loc>>
    BY <1>6, <2>1, <2>4, ProceedType, FaultType DEF ReserveStock, RowTypes, HoldsReserved
  <2> QED
    BY <1>6, <2>2, <2>3, <2>4 DEF ReserveStock
<1>7. CASE InsertOrder(r)
  <2>1. CASE Refuse(r) /\ UNCHANGED <<loc, order>> /\ (Fault \/ UNCHANGED faults)
    BY <1>7, <2>1, RefuseType, FaultType DEF InsertOrder, RowTypes, HoldsReserved
  <2>2. CASE /\ order' = [order EXCEPT ![r] = [placed |-> TRUE, cancelled |-> FALSE,
                                               number |-> loc[r].number, hold |-> loc[r].hold]]
             /\ Proceed(r)
             /\ UNCHANGED <<loc, cart, releasing, faults>>
    <3>2. /\ order' \in [Requests -> OrderType]
          /\ \A q \in Requests : order'[q].hold \in {order[q].hold, loc[r].hold}
      BY <2>2 DEF RowTypes, OrderType
    <3> QED
      BY <1>7, <2>2, <3>2, ProceedType DEF InsertOrder, RowTypes, HoldsReserved
  <2>3. CASE /\ loc' = [loc EXCEPT ![r].clashes = @ + 1]
             /\ phase' = [phase EXCEPT ![r] = "number"]
             /\ UNCHANGED <<order, cart, releasing, faults>>
    <3>1. loc[r].clashes + 1 \in 0..MaxTries
      BY <1>7, MaxTriesAssumption DEF InsertOrder, ClashesLeft, RowTypes, MaxTriesAssumption
    <3>2. /\ loc' \in [Requests -> [number : Number, hold : Holds \cup {NoHold}, clashes : 0..MaxTries]]
          /\ \A q \in Requests : loc'[q].hold = loc[q].hold
      BY <2>3, <3>1 DEF RowTypes
    <3>3. phase' \in [Requests -> Phases]
      BY <2>3 DEF RowTypes, Phases
    <3> QED
      BY <1>7, <2>3, <3>2, <3>3 DEF InsertOrder, RowTypes, HoldsReserved
  <2> QED
    BY <1>7, <2>1, <2>2, <2>3 DEF InsertOrder
<1>8. CASE RecordRedemption(r)
  <2>1. phase' \in [Requests -> Phases]
    BY <1>8, ProceedType DEF RecordRedemption, RowTypes, Phases
  <2>2. faults' \in 0..MaxFaults /\ redemptions' \subseteq Requests
    BY <1>8, FaultType DEF RecordRedemption, RowTypes
  <2> QED
    BY <1>8, <2>1, <2>2 DEF RecordRedemption, RowTypes, HoldsReserved
<1>9. CASE CountUsage(r)
  <2>1. faults' \in 0..MaxFaults /\ usage' \in Nat
    BY <1>9, FaultType DEF CountUsage, RowTypes
  <2> QED
    BY <1>9, <2>1, ProceedType DEF CountUsage, RowTypes, HoldsReserved
<1>10. CASE RedeemPoints(r)
  <2>1. phase' \in [Requests -> Phases]
    BY <1>10, ProceedType DEF RedeemPoints, RowTypes
  <2> QED
    BY <1>10, <2>1 DEF RedeemPoints, RowTypes, HoldsReserved
<1>11. CASE CloseCart(r)
  <2>1. cart' \in [Carts -> {"active", "checked_out"}]
    BY <1>11 DEF CloseCart, RowTypes
  <2> QED
    BY <1>11, <2>1, ProceedType DEF CloseCart, RowTypes, HoldsReserved
<1> QED
  BY <1>1, <1>2, <1>3, <1>4, <1>5, <1>6, <1>7, <1>8, <1>9, <1>10, <1>11 DEF Serve

\* A request that goes on from a step before the insert has failed no insert.
LEMMA ProceedClashes ==
  ASSUME RowTypes, ClashesLeft, NEW r \in Requests, Proceed(r),
         \A q \in Requests : loc'[q].clashes = loc[q].clashes,
         phase[r] \in {"insert"} \cup Late \/ loc[r].clashes = 0
  PROVE  ClashesLeft'
<1>1. \A q \in Requests \ {r} : phase'[q] = phase[q]
  BY DEF Proceed, RowTypes
<1>2. phase'[r] \in Early => loc[r].clashes = 0
  <2>1. phase[r] \in {"insert"} \cup Late => Following(r) \notin Early
    BY Formed, StepFollows DEF Early, Late
  <2> QED
    BY <2>1 DEF Proceed, RowTypes
<1>3. phase'[r] # "idle" /\ MaxTries > 0
  <2>1. Following(r) # "idle"
    BY Formed, StepFollows DEF Early, Late
  <2> QED
    BY <2>1, MaxTriesAssumption DEF Proceed, RowTypes, MaxTriesAssumption
<1> QED
  BY <1>1, <1>2, <1>3 DEF ClashesLeft, Early

\* A request that stops, or comes to a step named outright, needs a try only for
\* the insert.
LEMMA StopClashes ==
  ASSUME RowTypes, ClashesLeft, NEW r \in Requests, NEW to, phase' = [phase EXCEPT ![r] = to],
         \A q \in Requests \ {r} : loc'[q].clashes = loc[q].clashes,
         \/ to \notin {"idle"} \cup (Early \ {"number"})
         \/ to = "insert" /\ loc'[r].clashes < MaxTries
  PROVE  ClashesLeft'
<1>1. \A q \in Requests \ {r} : phase'[q] = phase[q]
  BY DEF RowTypes
<1>2. phase'[r] = to
  BY DEF RowTypes
<1> QED
  BY <1>1, <1>2 DEF ClashesLeft, Early

\* A request takes another number only while it has a try left.
LEMMA ServeClashes ==
  ASSUME CheckoutInv, NEW r \in Requests, Serve(r)
  PROVE  ClashesLeft'
<1> USE DEF CheckoutInv, OwnInv
<1>1. ASSUME UNCHANGED <<phase, loc>> PROVE ClashesLeft'
  BY <1>1 DEF ClashesLeft
<1>2. CASE Start(r) \/ LookUpKey(r) \/ Judge(r)
  <2>1. phase[r] \in {"idle"} \cup (Early \ {"number", "insert"}) /\ UNCHANGED loc
    BY <1>2 DEF Start, LookUpKey, Judge, Early
  <2>2. Proceed(r) \/ phase' = [phase EXCEPT ![r] = "refused"] \/ phase' = [phase EXCEPT ![r] = "done"]
    BY <1>2 DEF Start, LookUpKey, Judge, Refuse
  <2>3. loc[r].clashes = 0
    BY <2>1 DEF ClashesLeft
  <2> QED
    BY <2>1, <2>2, <2>3, ProceedClashes, StopClashes DEF Early
<1>3. CASE Numbering(r)
  BY <1>1, <1>3 DEF Numbering
<1>4. CASE TakeNumber(r)
  <2>1. \A q \in Requests : loc'[q].clashes = loc[q].clashes
    <3>1. UNCHANGED loc \/ \E number : loc' = [loc EXCEPT ![r].number = number]
      BY <1>4 DEF TakeNumber
    <3> QED
      BY <3>1 DEF RowTypes
  <2>2. \/ phase' = [phase EXCEPT ![r] = "refused"]
        \/ phase' = [phase EXCEPT ![r] = "insert"] /\ loc[r].clashes # MaxTries
        \/ Proceed(r) /\ loc[r].clashes = 0
    BY <1>4 DEF TakeNumber, Refuse, RowTypes
  <2>3. loc[r].clashes \in 0..MaxTries
    BY DEF RowTypes
  <2>4. loc[r].clashes # MaxTries => loc'[r].clashes < MaxTries
    BY <2>1, <2>3, MaxTriesAssumption DEF MaxTriesAssumption
  <2> QED
    BY <2>1, <2>2, <2>4, ProceedClashes, StopClashes DEF Early
<1>5. CASE ReserveStock(r)
  <2>1. phase[r] = "stock" /\ (Proceed(r) \/ phase' = [phase EXCEPT ![r] = "refused"])
    BY <1>5 DEF ReserveStock, Refuse
  <2>2. \A q \in Requests : loc'[q].clashes = loc[q].clashes
    BY <1>5 DEF ReserveStock, RowTypes
  <2>3. loc[r].clashes = 0
    BY <2>1 DEF ClashesLeft, Early
  <2> QED
    BY <2>1, <2>2, <2>3, ProceedClashes, StopClashes DEF Early
<1>6. CASE InsertOrder(r)
  <2>1. \/ phase[r] = "insert" /\ Proceed(r) /\ UNCHANGED loc
        \/ phase' = [phase EXCEPT ![r] = "refused"] /\ UNCHANGED loc
        \/ phase' = [phase EXCEPT ![r] = "number"] /\ loc' = [loc EXCEPT ![r].clashes = @ + 1]
    BY <1>6 DEF InsertOrder, Refuse
  <2>2. \A q \in Requests \ {r} : loc'[q].clashes = loc[q].clashes
    BY <2>1 DEF RowTypes
  <2> QED
    BY <2>1, <2>2, ProceedClashes, StopClashes DEF Early
<1>7. CASE RecordRedemption(r) \/ CountUsage(r) \/ RedeemPoints(r) \/ CloseCart(r)
  <2>1. phase[r] \in Late /\ UNCHANGED loc
    BY <1>7 DEF RecordRedemption, CountUsage, RedeemPoints, CloseCart, Late
  <2>2. \/ Proceed(r) \/ UNCHANGED phase
        \/ phase' = [phase EXCEPT ![r] = "redeem"] \/ phase' = [phase EXCEPT ![r] = "close"]
    BY <1>7 DEF RecordRedemption, CountUsage, RedeemPoints, CloseCart
  <2> QED
    BY <1>1, <2>1, <2>2, ProceedClashes, StopClashes DEF Early
<1> QED
  BY <1>2, <1>3, <1>4, <1>5, <1>6, <1>7 DEF Serve

\* So do crashes, releases, outages and the desks.
LEMMA OthersOwn ==
  ASSUME CheckoutInv,
         \/ \E r \in Requests : Crash(r)
         \/ \E d \in Desks : CancelOrder(d) \/ MoveByHand(d) \/ DeskWorks(d)
         \/ Release
         \/ Outage
  PROVE  OwnInv'
<1> USE DEF CheckoutInv, OwnInv, rows, promo, stock
<1>1. ASSUME NEW r \in Requests, Crash(r) PROVE OwnInv'
  <2>1. phase' \in [Requests -> Phases]
    BY <1>1 DEF Crash, RowTypes, Phases
  <2>2. ClashesLeft'
    BY <1>1, StopClashes DEF Crash, Early
  <2> QED
    BY <1>1, <2>1, <2>2, FaultType DEF Crash, RowTypes, HoldsReserved
<1>2. ASSUME NEW d \in Desks, CancelOrder(d) PROVE OwnInv'
  <2>1. PICK o \in Requests : /\ order' = [order EXCEPT ![o].cancelled = TRUE]
                              /\ releasing' = releasing \cup ({order[o].hold} \ {NoHold})
    BY <1>2 DEF CancelOrder, Placed
  <2>2. /\ order' \in [Requests -> OrderType]
        /\ \A q \in Requests : order'[q].hold = order[q].hold
    <3>1. order[o] \in OrderType /\ order \in [Requests -> OrderType]
      BY DEF RowTypes
    <3>2. /\ [order[o] EXCEPT !.cancelled = TRUE] \in OrderType
          /\ [order[o] EXCEPT !.cancelled = TRUE].hold = order[o].hold
      BY <3>1 DEF OrderType
    <3> HIDE DEF OwnInv
    <3> QED
      BY <2>1, <3>1, <3>2
  <2>3. {order[o].hold} \ {NoHold} \subseteq reserved
    BY DEF HoldsReserved
  <2>4. desk' \in 0..MaxDesk
    BY <1>2 DEF CancelOrder, RowTypes
  <2> QED
    BY <1>2, <2>1, <2>2, <2>3, <2>4 DEF CancelOrder, RowTypes, ClashesLeft, HoldsReserved
<1>3. ASSUME NEW d \in Desks, MoveByHand(d) \/ DeskWorks(d) PROVE OwnInv'
  <2>1. desk' \in 0..MaxDesk
    BY <1>3 DEF MoveByHand, DeskWorks, RowTypes
  <2> QED
    BY <1>3, <2>1 DEF MoveByHand, DeskWorks, RowTypes, ClashesLeft, HoldsReserved
<1>4. CASE Release
  <2>1. releasing' \subseteq releasing /\ freed' \subseteq freed \cup releasing /\ faults' \in 0..MaxFaults
    BY <1>4, FaultType DEF Release, RowTypes
  <2> QED
    BY <1>4, <2>1 DEF Release, RowTypes, ClashesLeft, HoldsReserved
<1>5. CASE Outage
  <2>1. faults' \in 0..MaxFaults /\ outage' \in BOOLEAN
    BY <1>5, FaultType DEF Outage, RowTypes
  <2> QED
    BY <1>5, <2>1 DEF Outage, RowTypes, ClashesLeft, HoldsReserved
<1> QED
  BY <1>1, <1>2, <1>3, <1>4, <1>5

\* Every step keeps the whole invariant.
LEMMA CheckoutInvStep == CheckoutInv /\ [Next]_vars => CheckoutInv'
<1> SUFFICES ASSUME CheckoutInv, [Next]_vars PROVE CheckoutInv'
  OBVIOUS
<1>1. SequenceInv' /\ LoyaltyInv'
  <2>1. SequenceInv /\ [SequenceNext]_sequenceVars
    BY CheckoutStepsCounter DEF CheckoutInv
  <2>2. LoyaltyInv /\ [LoyaltyNext]_loyaltyVars
    BY CheckoutStepsLoyalty DEF CheckoutInv
  <2> QED
    BY <2>1, <2>2, SequenceInvStep, LoyaltyNextInv
<1>2. ASSUME UNCHANGED vars PROVE OwnInv'
  <2>1. OwnInv
    BY DEF CheckoutInv
  <2> QED
    BY <1>2, <2>1 DEF OwnInv, RowTypes, ClashesLeft, HoldsReserved, vars, promo, stock, Requests
<1>3. ASSUME Next PROVE OwnInv'
  BY <1>3, ServeOwn, ServeClashes, OthersOwn DEF Next, OwnInv
<1> QED
  BY <1>1, <1>2, <1>3 DEF CheckoutInv

\* The counter, the account and each request stay well formed and in step.
LEMMA CheckoutInvariant == Spec => []CheckoutInv
BY CheckoutInitial, CheckoutInvStep, PTL DEF Spec

\* Checkout's state is always well formed.
THEOREM CheckoutTypes == Spec => []TypeOK
<1>1. CheckoutInv => TypeOK
  BY DEF CheckoutInv, SequenceInv, LoyaltyInv, OwnInv, RowTypes, TypeOK
<1> QED
  BY <1>1, CheckoutInvariant, PTL

-----------------------------------------------------------------------------
(* The ledger *)

\* Points taken at checkout, given back by a cancellation and moved by hand all stay
\* in the ledger: once no call is between its two writes, the balance is what the
\* booked transactions add up to.
THEOREM LedgerAlwaysAgrees == Spec => []LedgerAgrees
<1>1. Init => LedgerInv
  BY LedgerInitial DEF Init
<1>2. CheckoutInv /\ LedgerInv /\ [Next]_vars => LedgerInv'
  BY CheckoutStepsLoyalty, LedgerNextInv DEF CheckoutInv
<1>3. CheckoutInv /\ LedgerInv => LedgerAgrees
  BY LedgerSettled DEF CheckoutInv
<1> QED
  BY <1>1, <1>2, <1>3, CheckoutInvariant, PTL DEF Spec

-----------------------------------------------------------------------------
(* What a step does to one request and its order *)

Kept(q) == order'[q] = order[q] /\ phase'[q] = phase[q]

CancelledNow(q) ==
  order[q].placed /\ order'[q] = [order[q] EXCEPT !.cancelled = TRUE] /\ phase'[q] = phase[q]

PlacedNow(q) ==
  /\ phase[q] = "insert" /\ ~KeyTaken(q)
  /\ order'[q] = [placed |-> TRUE, cancelled |-> FALSE, number |-> loc[q].number, hold |-> loc[q].hold]
  /\ phase'[q] \in (Late \ {"usage"}) \cup {"done"}
  /\ \A s \in Requests \ {q} : Kept(s)

GoesOn(q) ==
  /\ order'[q] = order[q]
  /\ \/ phase[q] # "refused" /\ phase'[q] \in {"done", "refused", "dead"}
     \/ phase[q] \in {"idle"} \cup Early /\ phase'[q] \in Early
     \/ phase[q] \in Late /\ phase'[q] \in Late \ {"redemption", "usage"}
     \/ phase[q] = "redemption" /\ phase'[q] = "usage"

Steps(q) == Kept(q) \/ CancelledNow(q) \/ PlacedNow(q) \/ GoesOn(q)

\* A request that goes on from a step other than the insert.
LEMMA ProceedSteps ==
  ASSUME RowTypes, NEW r \in Requests, Proceed(r), UNCHANGED order,
         phase[r] \in {"idle"} \cup (Early \ {"insert"}) \cup Late
  PROVE  \A q \in Requests : Steps(q)
<1>1. GoesOn(r)
  BY Formed, StepFollows DEF Proceed, RowTypes, GoesOn, Early, Late
<1>2. \A q \in Requests \ {r} : Kept(q)
  BY DEF Proceed, RowTypes, Kept
<1> QED
  BY <1>1, <1>2 DEF Steps

\* A request that is refused, dies, or comes to a step named outright.
LEMMA StopSteps ==
  ASSUME RowTypes, NEW r \in Requests, NEW to, UNCHANGED order,
         phase' = [phase EXCEPT ![r] = to],
         \/ phase[r] # "refused" /\ to \in {"done", "refused", "dead"}
         \/ phase[r] \in Early /\ to \in Early
         \/ phase[r] \in Late /\ to \in Late \ {"redemption", "usage"}
  PROVE  \A q \in Requests : Steps(q)
<1>1. GoesOn(r)
  BY DEF RowTypes, GoesOn
<1>2. \A q \in Requests \ {r} : Kept(q)
  BY DEF RowTypes, Kept
<1> QED
  BY <1>1, <1>2 DEF Steps

\* Of the steps of a request, only its insert places its order.
LEMMA ServeSteps ==
  ASSUME CheckoutInv, NEW r \in Requests, Serve(r)
  PROVE  \A q \in Requests : Steps(q)
<1> USE DEF CheckoutInv, OwnInv, rows
<1>1. CASE Start(r)
  BY <1>1, ProceedSteps DEF Start
<1>2. CASE LookUpKey(r)
  <2>1. phase[r] = "key" /\ UNCHANGED order
    BY <1>2 DEF LookUpKey
  <2> QED
    BY <1>2, <2>1, ProceedSteps, StopSteps DEF LookUpKey, Early
<1>3. CASE Judge(r)
  <2>1. /\ phase[r] \in Early \ {"insert"} /\ phase[r] # "refused" /\ UNCHANGED order
        /\ Proceed(r) \/ phase' = [phase EXCEPT ![r] = "refused"]
    BY <1>3 DEF Judge, Early, Refuse
  <2> QED
    BY <2>1, ProceedSteps, StopSteps
<1>4. CASE Numbering(r)
  BY <1>4 DEF Numbering, Steps, Kept
<1>5. CASE TakeNumber(r)
  <2>1. /\ phase[r] = "number" /\ UNCHANGED order
        /\ Proceed(r) \/ phase' = [phase EXCEPT ![r] = "refused"] \/ phase' = [phase EXCEPT ![r] = "insert"]
    BY <1>5 DEF TakeNumber, Refuse
  <2> QED
    BY <2>1, ProceedSteps, StopSteps DEF Early
<1>6. CASE ReserveStock(r)
  <2>1. /\ phase[r] = "stock" /\ UNCHANGED order
        /\ Proceed(r) \/ phase' = [phase EXCEPT ![r] = "refused"]
    BY <1>6 DEF ReserveStock, Refuse
  <2> QED
    BY <2>1, ProceedSteps, StopSteps DEF Early
<1>7. CASE InsertOrder(r)
  <2>1. phase[r] = "insert"
    BY <1>7 DEF InsertOrder
  <2>2. CASE /\ ~KeyTaken(r)
             /\ order' = [order EXCEPT ![r] = [placed |-> TRUE, cancelled |-> FALSE,
                                               number |-> loc[r].number, hold |-> loc[r].hold]]
             /\ Proceed(r)
    <3>1. \A q \in Requests \ {r} : Kept(q)
      BY <2>2 DEF Proceed, RowTypes, Kept
    <3>2. phase'[r] \in (Late \ {"usage"}) \cup {"done"}
      BY <2>1, <2>2, Formed, StepFollows DEF Proceed, RowTypes
    <3>3. PlacedNow(r)
      BY <2>1, <2>2, <3>1, <3>2 DEF PlacedNow, RowTypes
    <3> QED
      BY <3>1, <3>3 DEF Steps
  <2>3. CASE UNCHANGED order /\ phase' = [phase EXCEPT ![r] = "number"]
    BY <2>1, <2>3, StopSteps DEF Early
  <2>4. CASE UNCHANGED order /\ phase' = [phase EXCEPT ![r] = "refused"]
    BY <2>1, <2>4, StopSteps
  <2> QED
    BY <1>7, <2>2, <2>3, <2>4 DEF InsertOrder, Refuse
<1>8. CASE RecordRedemption(r)
  <2>1. /\ phase[r] = "redemption" /\ UNCHANGED order
        /\ \/ Proceed(r)
           \/ phase' = [phase EXCEPT ![r] = "redeem"]
           \/ phase' = [phase EXCEPT ![r] = "close"]
    BY <1>8 DEF RecordRedemption
  <2> QED
    BY <2>1, ProceedSteps, StopSteps DEF Late
<1>9. CASE CountUsage(r)
  <2>1. phase[r] = "usage" /\ UNCHANGED order /\ Proceed(r)
    BY <1>9 DEF CountUsage
  <2> QED
    BY <2>1, ProceedSteps DEF Late
<1>10. CASE RedeemPoints(r)
  <2>1. phase[r] = "redeem" /\ UNCHANGED order /\ (UNCHANGED phase \/ Proceed(r))
    BY <1>10 DEF RedeemPoints
  <2>2. UNCHANGED phase => \A q \in Requests : Steps(q)
    BY <2>1 DEF Steps, Kept
  <2> QED
    BY <2>1, <2>2, ProceedSteps DEF Late
<1>11. CASE CloseCart(r)
  <2>1. phase[r] = "close" /\ UNCHANGED order /\ Proceed(r)
    BY <1>11 DEF CloseCart
  <2> QED
    BY <2>1, ProceedSteps DEF Late
<1> QED
  BY <1>1, <1>2, <1>3, <1>4, <1>5, <1>6, <1>7, <1>8, <1>9, <1>10, <1>11 DEF Serve

\* No step changes what a request asks for, takes an order back, or goes on with a
\* refused request.
LEMMA RequestSteps ==
  ASSUME CheckoutInv, [Next]_vars
  PROVE  form' = form /\ \A q \in Requests : Steps(q)
<1>1. form' = form
  <2>1. ASSUME NEW r \in Requests, Serve(r) \/ Crash(r) PROVE form' = form
    BY <2>1 DEF Serve, Start, LookUpKey, Judge, Numbering, TakeNumber, ReserveStock,
       InsertOrder, RecordRedemption, CountUsage, RedeemPoints, CloseCart, Crash
  <2>2. ASSUME NEW d \in Desks, CancelOrder(d) \/ MoveByHand(d) \/ DeskWorks(d) PROVE form' = form
    BY <2>2 DEF CancelOrder, MoveByHand, DeskWorks
  <2>3. Release \/ Outage \/ UNCHANGED vars => form' = form
    BY DEF Release, Outage, vars
  <2> QED
    BY <2>1, <2>2, <2>3 DEF Next
<1>2. ASSUME UNCHANGED <<order, phase>> PROVE \A q \in Requests : Steps(q)
  BY <1>2 DEF Steps, Kept
<1>3. ASSUME NEW r \in Requests, Crash(r) PROVE \A q \in Requests : Steps(q)
  <2>1. phase[r] # "refused" /\ phase' = [phase EXCEPT ![r] = "dead"] /\ UNCHANGED order
    BY <1>3 DEF Crash, rows
  <2> QED
    BY <2>1, StopSteps DEF CheckoutInv, OwnInv
<1>4. ASSUME NEW d \in Desks, CancelOrder(d) PROVE \A q \in Requests : Steps(q)
  <2>1. PICK o \in Requests : /\ order[o].placed /\ order' = [order EXCEPT ![o].cancelled = TRUE]
                              /\ UNCHANGED phase
    BY <1>4 DEF CancelOrder, Placed
  <2>2. CancelledNow(o) /\ \A q \in Requests \ {o} : Kept(q)
    BY <2>1 DEF CancelledNow, Kept, CheckoutInv, OwnInv, RowTypes
  <2> QED
    BY <2>2 DEF Steps
<1>5. ASSUME NEW d \in Desks, MoveByHand(d) \/ DeskWorks(d) PROVE UNCHANGED <<order, phase>>
  BY <1>5 DEF MoveByHand, DeskWorks, rows
<1>6. Release \/ Outage => UNCHANGED <<order, phase>>
  BY DEF Release, Outage, rows
<1>7. UNCHANGED vars => UNCHANGED <<order, phase>>
  BY DEF vars
<1> QED
  BY <1>1, <1>2, <1>3, <1>4, <1>5, <1>6, <1>7, ServeSteps DEF Next

-----------------------------------------------------------------------------
(* Reservations and repetitions *)

\* No request is placed before its insert, and each that redeems has been placed.
PlacedByInsert ==
  \A r \in Requests : /\ phase[r] \in {"idle"} \cup Early => ~order[r].placed
                      /\ phase[r] \in Late => order[r].placed

\* A request and its order hold no reservation but the one of the request's key.
HoldsNamed ==
  \A r \in Requests : {loc[r].hold, order[r].hold} \subseteq {HoldOf(r), NoHold}

\* One key places one order.
KeysUnique ==
  \A r, s \in Requests :
    order[r].placed /\ order[s].placed /\ form[r].key = form[s].key /\ form[r].key # NoKey => r = s

Gone(r) ==
  \/ order[r].placed /\ order[r].cancelled
  \/ ~order[r].placed /\ phase[r] = "refused" /\ form[r].path # "cart"

\* Whatever is released was held by a cancelled order, or by a refused request of a
\* path whose requests have a reservation of their own.
ReleasedForGone ==
  \A h \in releasing \cup freed : \E r \in Requests : HoldOf(r) = h /\ Gone(r)

StockInv == PlacedByInsert /\ HoldsNamed /\ KeysUnique /\ ReleasedForGone

\* No reservation is released before one is made.
LEMMA StockInitial == Init => StockInv
BY DEF Init, StockInv, PlacedByInsert, HoldsNamed, KeysUnique, ReleasedForGone, NoRow, Early, Late

\* Only the insert places an order.
LEMMA PlacedByInsertStep ==
  ASSUME CheckoutInv, PlacedByInsert, [Next]_vars PROVE PlacedByInsert'
<1> SUFFICES ASSUME NEW r \in Requests
             PROVE  /\ phase'[r] \in {"idle"} \cup Early => ~order'[r].placed
                    /\ phase'[r] \in Late => order'[r].placed
  BY DEF PlacedByInsert
<1>1. CASE Kept(r)
  BY <1>1 DEF Kept, PlacedByInsert
<1>2. CASE CancelledNow(r)
  <2>1. order[r] \in OrderType
    BY DEF CheckoutInv, OwnInv, RowTypes
  <2> QED
    BY <1>2, <2>1 DEF CancelledNow, PlacedByInsert, OrderType
<1>3. CASE PlacedNow(r)
  BY <1>3 DEF PlacedNow, Early, Late
<1>4. CASE GoesOn(r)
  BY <1>4 DEF GoesOn, PlacedByInsert, Early, Late
<1> QED
  BY <1>1, <1>2, <1>3, <1>4, RequestSteps DEF Steps

\* The unique index keeps a key to one order.
LEMMA KeysUniqueStep ==
  ASSUME CheckoutInv, KeysUnique, [Next]_vars PROVE KeysUnique'
<1>1. form' = form /\ \A q \in Requests : Steps(q)
  BY RequestSteps
<1>2. \A q \in Requests : order'[q].placed => order[q].placed \/ PlacedNow(q)
  <2>1. \A q \in Requests : order[q] \in OrderType
    BY DEF CheckoutInv, OwnInv, RowTypes
  <2> QED
    BY <1>1, <2>1 DEF Steps, Kept, CancelledNow, GoesOn, OrderType
<1>3. ASSUME NEW r \in Requests, NEW s \in Requests, order'[s].placed, PlacedNow(r),
             form[r].key = form[s].key, form[r].key # NoKey
      PROVE  r = s
  <2> SUFFICES ASSUME r # s PROVE FALSE
    OBVIOUS
  <2>1. order[s].placed
    BY <1>3 DEF PlacedNow, Kept
  <2> QED
    BY <1>3, <2>1 DEF PlacedNow, KeyTaken, Placed
<1> QED
  BY <1>1, <1>2, <1>3 DEF KeysUnique

\* A gone request stays gone.
LEMMA GoneStays ==
  ASSUME CheckoutInv, PlacedByInsert, [Next]_vars, NEW r \in Requests, Gone(r)
  PROVE  Gone(r)'
<1>1. form' = form /\ Steps(r)
  BY RequestSteps
<1>2. order[r] \in OrderType
  BY DEF CheckoutInv, OwnInv, RowTypes
<1>3. CASE PlacedNow(r)
  BY <1>3, <1>1 DEF PlacedNow, Gone, PlacedByInsert, Early
<1> QED
  BY <1>1, <1>2, <1>3 DEF Steps, Kept, CancelledNow, GoesOn, Gone, OrderType, Early, Late

\* A request comes to hold nothing but the reservation of its key.
LEMMA HoldsNamedStep ==
  ASSUME CheckoutInv, HoldsNamed, [Next]_vars PROVE HoldsNamed'
<1> USE DEF CheckoutInv, OwnInv, rows
<1>1. form' = form /\ \A q \in Requests : Steps(q)
  BY RequestSteps
<1>2. \A q \in Requests : loc'[q].hold \in {loc[q].hold, HoldOf(q)}
  <2>1. ASSUME UNCHANGED loc PROVE \A q \in Requests : loc'[q].hold \in {loc[q].hold, HoldOf(q)}
    BY <2>1
  <2>2. ASSUME NEW r \in Requests, TakeNumber(r)
        PROVE  \A q \in Requests : loc'[q].hold \in {loc[q].hold, HoldOf(q)}
    <3>1. UNCHANGED loc \/ \E number : loc' = [loc EXCEPT ![r].number = number]
      BY <2>2 DEF TakeNumber
    <3> QED
      BY <3>1 DEF RowTypes
  <2>3. ASSUME NEW r \in Requests, ReserveStock(r)
        PROVE  \A q \in Requests : loc'[q].hold \in {loc[q].hold, HoldOf(q)}
    BY <2>3 DEF ReserveStock, RowTypes
  <2>4. ASSUME NEW r \in Requests, InsertOrder(r)
        PROVE  \A q \in Requests : loc'[q].hold \in {loc[q].hold, HoldOf(q)}
    <3>1. UNCHANGED loc \/ loc' = [loc EXCEPT ![r].clashes = @ + 1]
      BY <2>4 DEF InsertOrder
    <3> QED
      BY <3>1 DEF RowTypes
  <2>5. ASSUME NEW r \in Requests, Serve(r) \/ Crash(r),
               ~TakeNumber(r), ~ReserveStock(r), ~InsertOrder(r)
        PROVE  UNCHANGED loc
    BY <2>5 DEF Serve, Start, LookUpKey, Judge, Numbering, RecordRedemption, CountUsage,
       RedeemPoints, CloseCart, Crash
  <2>6. ASSUME NEW d \in Desks, CancelOrder(d) \/ MoveByHand(d) \/ DeskWorks(d) PROVE UNCHANGED loc
    BY <2>6 DEF CancelOrder, MoveByHand, DeskWorks
  <2>7. Release \/ Outage \/ UNCHANGED vars => UNCHANGED loc
    BY DEF Release, Outage, vars
  <2> QED
    BY <2>1, <2>2, <2>3, <2>4, <2>5, <2>6, <2>7 DEF Next
<1>3. \A q \in Requests : order'[q].hold \in {order[q].hold, loc[q].hold}
  <2> SUFFICES ASSUME NEW q \in Requests PROVE order'[q].hold \in {order[q].hold, loc[q].hold}
    OBVIOUS
  <2>1. order[q] \in OrderType
    BY DEF RowTypes
  <2>2. CASE PlacedNow(q)
    BY <2>2 DEF PlacedNow
  <2>3. CASE CancelledNow(q)
    BY <2>1, <2>3 DEF CancelledNow, OrderType
  <2>4. CASE Kept(q) \/ GoesOn(q)
    BY <2>4 DEF Kept, GoesOn
  <2> QED
    BY <1>1, <2>2, <2>3, <2>4 DEF Steps
<1> QED
  BY <1>1, <1>2, <1>3 DEF HoldsNamed, HoldOf

\* A refusal releases the reservation of the refused request alone, and only on the
\* paths whose requests have a reservation of their own.
LEMMA RefuseReleases ==
  ASSUME CheckoutInv, StockInv, NEW r \in Requests, Refuse(r), UNCHANGED <<form, order, freed>>,
         phase[r] \in Early, NEW h \in releasing' \cup freed'
  PROVE  h \in releasing \cup freed \/ (HoldOf(r) = h /\ Gone(r)')
<1> SUFFICES ASSUME h \notin releasing \cup freed PROVE HoldOf(r) = h /\ Gone(r)'
  OBVIOUS
<1>1. h \in FreedOnRefusal(r)
  BY DEF Refuse
<1>2. h = loc[r].hold /\ h # NoHold /\ form[r].path # "cart"
  BY <1>1 DEF FreedOnRefusal
<1>3. phase'[r] = "refused"
  BY DEF Refuse, CheckoutInv, OwnInv, RowTypes
<1> QED
  BY <1>2, <1>3 DEF StockInv, HoldsNamed, PlacedByInsert, Gone

\* Every release has its gone request.
LEMMA ReleasedForGoneStep ==
  ASSUME CheckoutInv, StockInv, [Next]_vars PROVE ReleasedForGone'
<1> SUFFICES ASSUME NEW h \in releasing' \cup freed'
             PROVE  \E r \in Requests : HoldOf(r) = h /\ Gone(r)'
  BY RequestSteps DEF ReleasedForGone, HoldOf
<1>1. CASE h \in releasing \cup freed
  BY <1>1, GoneStays DEF StockInv, ReleasedForGone
<1>2. ASSUME NEW r \in Requests, Refuse(r), UNCHANGED <<form, order, freed>>, phase[r] \in Early
      PROVE  \E q \in Requests : HoldOf(q) = h /\ Gone(q)'
  BY <1>1, <1>2, RefuseReleases
<1>3. ASSUME NEW r \in Requests, Serve(r) \/ Crash(r)
      PROVE  \/ h \in releasing \cup freed
             \/ Refuse(r) /\ UNCHANGED <<form, order, freed>> /\ phase[r] \in Early
  BY <1>3 DEF Serve, Start, LookUpKey, Judge, Numbering, TakeNumber, ReserveStock, InsertOrder,
     RecordRedemption, CountUsage, RedeemPoints, CloseCart, Crash, rows, stock, Early
<1>4. ASSUME NEW d \in Desks, CancelOrder(d), h \notin releasing \cup freed
      PROVE  \E r \in Requests : HoldOf(r) = h /\ Gone(r)'
  <2>1. PICK o \in Requests : /\ order[o].placed /\ order' = [order EXCEPT ![o].cancelled = TRUE]
                              /\ h = order[o].hold /\ h # NoHold
    BY <1>4 DEF CancelOrder, Placed
  <2>2. order'[o].placed /\ order'[o].cancelled
    BY <2>1 DEF CheckoutInv, OwnInv, RowTypes, OrderType
  <2> QED
    BY <2>1, <2>2 DEF StockInv, HoldsNamed, Gone
<1>5. ASSUME NEW d \in Desks, MoveByHand(d) \/ DeskWorks(d) PROVE h \in releasing \cup freed
  BY <1>5 DEF MoveByHand, DeskWorks, stock
<1>6. Release \/ Outage \/ UNCHANGED vars => h \in releasing \cup freed
  BY DEF Release, Outage, vars, stock
<1> QED
  BY <1>1, <1>2, <1>3, <1>4, <1>5, <1>6 DEF Next

\* Every step keeps reservations and orders in step with each other.
LEMMA StockInvStep == CheckoutInv /\ StockInv /\ [Next]_vars => StockInv'
BY PlacedByInsertStep, KeysUniqueStep, HoldsNamedStep, ReleasedForGoneStep DEF StockInv

\* The stock of an order that stands stays reserved, whoever cancels, fails or
\* repeats a request with the same key.
THEOREM StockOfOrdersAlwaysHeld == Spec => []StockOfOrdersHeld
<1>1. CheckoutInv /\ StockInv => StockOfOrdersHeld
  <2> SUFFICES ASSUME CheckoutInv, StockInv, NEW r \in Requests, Live(r), order[r].hold # NoHold
               PROVE  order[r].hold \in reserved \ freed
    BY DEF StockOfOrdersHeld
  <2>1. order[r].hold \in reserved /\ order[r].hold = HoldOf(r)
    BY DEF CheckoutInv, OwnInv, HoldsReserved, StockInv, HoldsNamed
  <2>2. ASSUME order[r].hold \in freed PROVE FALSE
    <3>1. PICK q \in Requests : HoldOf(q) = HoldOf(r) /\ Gone(q)
      BY <2>1, <2>2 DEF StockInv, ReleasedForGone
    <3>2. form[q] \in FormType /\ form[r] \in FormType
      BY Formed DEF CheckoutInv, OwnInv
    <3>3. q # r
      BY <3>1 DEF Gone, Live
    <3>4. form[q].key = form[r].key /\ form[q].key # NoKey
      BY <3>1, <3>2, <3>3 DEF HoldOf, FormType
    <3>5. form[q].path = "cart"
      BY <3>4, Formed DEF CheckoutInv, OwnInv
    <3>6. order[q].placed
      BY <3>1, <3>5 DEF Gone
    <3> QED
      BY <3>3, <3>4, <3>6 DEF StockInv, KeysUnique, Live
  <2> QED
    BY <2>1, <2>2
<1> QED
  BY <1>1, StockInitial, StockInvStep, CheckoutInvariant, PTL DEF Spec

-----------------------------------------------------------------------------
(* Redemptions *)

\* What has been redeemed was redeemed for a placed order, in the order of the path.
RedeemedInv ==
  /\ redemptions \cup deducted \subseteq Placed
  /\ \A t \in Tellers : call[t].op = "redeem" => call[t].order \in Placed

\* A call of the loyalty service keeps to its kind and order.
LEMMA CallsKeep ==
  ASSUME LoyaltyInv, NEW t \in Tellers, LoyaltyStep(t) \/ EndCall(t)
  PROVE  /\ \A u \in Tellers : call'[u].op = "redeem" =>
              call[u].op = "redeem" /\ call'[u].order = call[u].order
         /\ deducted' \subseteq deducted \cup (IF call[t].op = "redeem" THEN {call[t].order} ELSE {})
<1> USE DEF LoyaltyInv, LoyaltyTypeOK
<1>1. CASE ReadAccount(t)
  <2>1. PICK step \in {"ended", "move"} : call' = [call EXCEPT ![t] = [@ EXCEPT !.step = step, !.copy = account]]
    BY <1>1 DEF ReadAccount
  <2>2. \A u \in Tellers : call'[u].op = call[u].op /\ call'[u].order = call[u].order
    BY <2>1 DEF CallType
  <2> QED
    BY <1>1, <2>2 DEF ReadAccount
<1>2. CASE MovePoints(t)
  <2>1. PICK step \in {"tier", "book"} : call' = [call EXCEPT ![t].step = step]
    BY <1>2 DEF MovePoints
  <2>2. \A u \in Tellers : call'[u].op = call[u].op /\ call'[u].order = call[u].order
    BY <2>1 DEF CallType
  <2>3. deducted' \subseteq deducted \cup (IF call[t].op = "redeem" THEN {call[t].order} ELSE {})
    BY <1>2 DEF MovePoints
  <2> QED
    BY <2>2, <2>3
<1>3. CASE SaveTier(t) \/ Book(t)
  <2>1. PICK step \in {"ended", "book"} : call' = [call EXCEPT ![t].step = step]
    BY <1>3 DEF SaveTier, Book
  <2>2. \A u \in Tellers : call'[u].op = call[u].op /\ call'[u].order = call[u].order
    BY <2>1 DEF CallType
  <2> QED
    BY <1>3, <2>2 DEF SaveTier, Book
<1>4. CASE EndCall(t)
  <2>1. \A u \in Tellers : call'[u] = call[u] \/ call'[u].op = "earn"
    BY <1>4 DEF EndCall, NoCall
  <2> QED
    BY <1>4, <2>1 DEF EndCall
<1> QED
  BY <1>1, <1>2, <1>3, <1>4 DEF LoyaltyStep

\* Nothing is redeemed before an order is placed.
LEMMA RedeemedStep ==
  ASSUME CheckoutInv, PlacedByInsert, RedeemedInv, [Next]_vars
  PROVE  RedeemedInv'
<1> USE DEF RedeemedInv, rows, promo
<1>1. Placed \subseteq Placed'
  <2>1. ASSUME NEW q \in Requests, order[q].placed PROVE order'[q].placed
    <3>1. order[q] \in OrderType
      BY DEF CheckoutInv, OwnInv, RowTypes
    <3>2. CASE CancelledNow(q)
      BY <2>1, <3>1, <3>2 DEF CancelledNow, OrderType
    <3>3. CASE PlacedNow(q)
      BY <3>3 DEF PlacedNow
    <3>4. CASE Kept(q) \/ GoesOn(q)
      BY <2>1, <3>4 DEF Kept, GoesOn
    <3> QED
      BY <3>2, <3>3, <3>4, RequestSteps DEF Steps
  <2> QED
    BY <2>1 DEF Placed
<1>2. CASE UNCHANGED <<redemptions, loyaltyVars>>
  BY <1>1, <1>2 DEF loyaltyVars
<1>3. ASSUME NEW t \in Tellers, LoyaltyStep(t) \/ EndCall(t), UNCHANGED redemptions
      PROVE  RedeemedInv'
  BY <1>1, <1>3, CallsKeep DEF CheckoutInv
<1>4. ASSUME NEW t \in Tellers, NEW op, NEW points, NEW o, BeginCall(t, op, points, o),
             op = "redeem" => o \in Placed, UNCHANGED redemptions
      PROVE  RedeemedInv'
  BY <1>1, <1>4 DEF BeginCall, CheckoutInv, LoyaltyInv, LoyaltyTypeOK
<1>5. ASSUME NEW r \in Requests, RecordRedemption(r) PROVE RedeemedInv'
  <2>1. r \in Placed
    BY <1>5 DEF RecordRedemption, PlacedByInsert, Late, Placed
  <2> QED
    BY <1>1, <1>5, <2>1 DEF RecordRedemption, loyaltyVars
<1>6. ASSUME NEW r \in Requests, RedeemPoints(r) PROVE RedeemedInv'
  <2>1. r \in Placed /\ r \in Tellers
    BY <1>6 DEF RedeemPoints, PlacedByInsert, Late, Placed
  <2> QED
    BY <1>3, <1>4, <1>6, <2>1 DEF RedeemPoints
<1>7. ASSUME NEW r \in Requests, Serve(r) \/ Crash(r), ~RecordRedemption(r), ~RedeemPoints(r)
      PROVE  UNCHANGED <<redemptions, loyaltyVars>>
  BY <1>7 DEF Serve, Start, LookUpKey, Judge, Numbering, TakeNumber, ReserveStock, InsertOrder,
     CountUsage, CloseCart, Crash
<1>8. ASSUME NEW d \in Desks, CancelOrder(d) \/ MoveByHand(d) \/ DeskWorks(d) PROVE RedeemedInv'
  <2>1. UNCHANGED redemptions /\ d \in Tellers
    BY <1>8 DEF CancelOrder, MoveByHand, DeskWorks, Desks
  <2>2. CASE CancelOrder(d)
    BY <2>1, <2>2, <1>2, <1>4 DEF CancelOrder
  <2>3. CASE MoveByHand(d)
    BY <2>1, <2>3, <1>4 DEF MoveByHand
  <2>4. CASE DeskWorks(d)
    BY <2>1, <2>4, <1>3 DEF DeskWorks
  <2> QED
    BY <1>8, <2>2, <2>3, <2>4
<1>9. Release \/ Outage \/ UNCHANGED vars => UNCHANGED <<redemptions, loyaltyVars>>
  BY DEF Release, Outage, vars
<1> QED
  BY <1>2, <1>5, <1>6, <1>7, <1>8, <1>9 DEF Next

\* However often a request is repeated, its key places one order, redeems one promo
\* code and takes points once.
THEOREM RetryAlwaysActsOnce == Spec => []RetryActsOnce
<1>1. Init => RedeemedInv
  BY DEF Init, LoyaltyInit, NoCall, RedeemedInv
<1>2. StockInv /\ RedeemedInv => RetryActsOnce
  BY DEF StockInv, KeysUnique, RedeemedInv, RetryActsOnce, Placed
<1>3. CheckoutInv /\ StockInv /\ RedeemedInv /\ [Next]_vars => RedeemedInv'
  BY RedeemedStep DEF StockInv
<1> QED
  BY <1>1, <1>2, <1>3, StockInitial, StockInvStep, CheckoutInvariant, PTL DEF Spec

Counted == {q \in redemptions : phase[q] # "usage"}

\* A redemption is recorded once, and before it is counted.
UsageInv ==
  /\ usage <= Cardinality(Counted)
  /\ \A q \in Requests : phase[q] \in {"idle", "redemption"} \cup Early => q \notin redemptions
  /\ \A q \in Requests : phase[q] = "usage" => q \in redemptions

\* A step of a request leaves the phases of the others alone, and only
\* RecordRedemption leads out of its own phase.
LEMMA OthersWait ==
  ASSUME CheckoutInv, NEW r \in Requests, Serve(r), NEW q \in Requests
  PROVE  /\ q # r => phase'[q] = phase[q]
         /\ phase[r] = "redemption" => RecordRedemption(r)
         /\ phase[r] = "usage" => CountUsage(r)
<1>1. UNCHANGED phase \/ \E to : phase' = [phase EXCEPT ![r] = to]
  BY DEF Serve, Start, LookUpKey, Judge, Numbering, TakeNumber, ReserveStock, InsertOrder,
     RecordRedemption, CountUsage, RedeemPoints, CloseCart, Proceed, Refuse
<1>2. q # r => phase'[q] = phase[q]
  BY <1>1 DEF CheckoutInv, OwnInv, RowTypes
<1>3. /\ phase[r] = "redemption" => RecordRedemption(r)
      /\ phase[r] = "usage" => CountUsage(r)
  BY DEF Serve, Start, LookUpKey, Judge, Numbering, TakeNumber, ReserveStock, InsertOrder,
     RecordRedemption, CountUsage, RedeemPoints, CloseCart
<1> QED
  BY <1>2, <1>3

\* The sets that are counted are finite.
LEMMA CountedFinite ==
  ASSUME NEW S \in SUBSET Requests, NEW T \in SUBSET S
  PROVE  /\ IsFiniteSet(S) /\ Cardinality(S) \in Nat /\ Cardinality(T) \in Nat
         /\ Cardinality(T) <= Cardinality(S)
<1>1. IsFiniteSet(S) /\ IsFiniteSet(T)
  BY FS_Subset
<1> QED
  BY <1>1, FS_Subset, FS_CardinalityType

\* Redemptions are recorded once and counted after that.
LEMMA UsageInvStep ==
  ASSUME CheckoutInv, UsageInv, [Next]_vars
  PROVE  UsageInv'
<1> USE DEF rows, promo
<1>1. Counted \subseteq Requests /\ usage \in Nat /\ redemptions \subseteq Requests
  BY DEF Counted, CheckoutInv, OwnInv, RowTypes
<1>2. ASSUME NEW r \in Requests, RecordRedemption(r) PROVE UsageInv'
  <2>1. r \notin redemptions /\ UNCHANGED usage /\ redemptions' \subseteq redemptions \cup {r}
    BY <1>2 DEF RecordRedemption, UsageInv
  <2>2. \A q \in Requests : q # r => phase'[q] = phase[q]
    BY <1>2, OthersWait DEF Serve
  <2>3. phase'[r] = "usage" => redemptions' = redemptions \cup {r}
    BY <1>2 DEF RecordRedemption, CheckoutInv, OwnInv, RowTypes
  <2>4. phase'[r] \notin {"idle", "redemption"} \cup Early
    <3>1. phase[r] = "redemption" /\ form[r].path \in {"cart", "items", "guest"}
      BY <1>2, Formed DEF RecordRedemption, CheckoutInv, OwnInv
    <3>2. Following(r) \in (Late \ {"redemption"}) \cup {"done"}
      BY <3>1, StepFollows DEF Late
    <3> QED
      BY <1>2, <3>2 DEF RecordRedemption, Proceed, CheckoutInv, OwnInv, RowTypes, Early, Late
  <2>5. redemptions \subseteq redemptions' /\ Counted \subseteq Counted' /\ Counted' \subseteq Requests
    BY <1>1, <1>2, <2>1, <2>2 DEF Counted, RecordRedemption
  <2>6. Cardinality(Counted) <= Cardinality(Counted')
        /\ Cardinality(Counted) \in Nat /\ Cardinality(Counted') \in Nat
    BY <2>5, CountedFinite
  <2>7. usage' <= Cardinality(Counted')
    BY <1>1, <2>1, <2>6 DEF UsageInv
  <2> QED
    BY <2>1, <2>2, <2>3, <2>4, <2>5, <2>7 DEF UsageInv
<1>3. ASSUME NEW r \in Requests, CountUsage(r) PROVE UsageInv'
  <2>1. /\ phase[r] = "usage" /\ r \in redemptions /\ r \notin Counted
        /\ UNCHANGED redemptions /\ usage' \in {usage, usage + 1}
    BY <1>3 DEF CountUsage, UsageInv, Counted
  <2>2. \A q \in Requests : q # r => phase'[q] = phase[q]
    BY <1>3, OthersWait DEF Serve
  <2>3. phase'[r] \in (Late \ {"redemption", "usage"}) \cup {"done"}
    <3>1. form[r].path \in {"cart", "items", "guest"}
      BY Formed DEF CheckoutInv, OwnInv
    <3> QED
      BY <1>3, <2>1, <3>1, StepFollows DEF CountUsage, Proceed, CheckoutInv, OwnInv, RowTypes, Late
  <2>4. Counted' = Counted \cup {r}
    BY <1>1, <2>1, <2>2, <2>3 DEF Counted, Late
  <2>5. Cardinality(Counted') = Cardinality(Counted) + 1 /\ Cardinality(Counted) \in Nat
    <3>1. IsFiniteSet(Counted)
      BY <1>1, CountedFinite
    <3> QED
      BY <2>1, <2>4, <3>1, FS_AddElement, FS_CardinalityType
  <2>6. usage' <= Cardinality(Counted')
    BY <1>1, <2>1, <2>5 DEF UsageInv
  <2> QED
    BY <2>1, <2>2, <2>3, <2>6 DEF UsageInv, Early, Late
<1>4. ASSUME UNCHANGED promo,
             \A q \in Requests : phase[q] \in {"redemption", "usage"} =>
                                   phase'[q] = phase[q] \/ phase'[q] = "dead"
      PROVE  UsageInv'
  <2>1. \A q \in Requests : Steps(q)
    BY RequestSteps
  <2>2. \A q \in Requests : phase'[q] = "usage" => phase[q] = "usage"
    BY <1>4, <2>1 DEF Steps, Kept, CancelledNow, PlacedNow, GoesOn, Early, Late
  <2>3. \A q \in Requests : phase'[q] \in {"idle", "redemption"} \cup Early =>
                              phase[q] \in {"idle", "redemption"} \cup Early
    BY <1>4, <2>1 DEF Steps, Kept, CancelledNow, PlacedNow, GoesOn, Early, Late
  <2>4. Counted \subseteq Counted' /\ Counted' \subseteq Requests
    BY <1>1, <1>4, <2>2 DEF Counted
  <2>5. Cardinality(Counted) <= Cardinality(Counted')
        /\ Cardinality(Counted) \in Nat /\ Cardinality(Counted') \in Nat
    BY <2>4, CountedFinite
  <2>6. usage' <= Cardinality(Counted')
    BY <1>1, <1>4, <2>5 DEF UsageInv
  <2>7. \A q \in Requests : phase'[q] = "usage" => q \in redemptions'
    BY <1>4, <2>2 DEF UsageInv
  <2> QED
    BY <1>4, <2>3, <2>6, <2>7 DEF UsageInv
<1>5. ASSUME NEW r \in Requests, Serve(r), ~RecordRedemption(r), ~CountUsage(r) PROVE UsageInv'
  <2>1. UNCHANGED promo
    BY <1>5 DEF Serve, Start, LookUpKey, Judge, Numbering, TakeNumber, ReserveStock, InsertOrder,
       RedeemPoints, CloseCart
  <2> QED
    BY <1>4, <1>5, <2>1, OthersWait
<1>6. ASSUME NEW r \in Requests, Crash(r) PROVE UsageInv'
  <2>1. \A q \in Requests : phase'[q] = phase[q] \/ phase'[q] = "dead"
    BY <1>6 DEF Crash, CheckoutInv, OwnInv, RowTypes
  <2> QED
    BY <1>4, <1>6, <2>1 DEF Crash
<1>7. ASSUME NEW d \in Desks, CancelOrder(d) \/ MoveByHand(d) \/ DeskWorks(d)
      PROVE  UNCHANGED <<promo, phase>>
  BY <1>7 DEF CancelOrder, MoveByHand, DeskWorks
<1>8. Release \/ Outage \/ UNCHANGED vars => UNCHANGED <<promo, phase>>
  BY DEF Release, Outage, vars
<1>9. UNCHANGED <<promo, phase>> => UsageInv'
  BY <1>4
<1> QED
  BY <1>2, <1>3, <1>5, <1>6, <1>7, <1>8, <1>9 DEF Next

\* The usage count never runs ahead of the redemptions, wherever a checkout dies.
THEOREM UsageAlwaysBacked == Spec => []UsageBacked
<1>1. Init => UsageInv
  <2>1. Init => usage = 0 /\ Counted = {} /\ redemptions = {} /\ \A q \in Requests : phase[q] = "idle"
    BY DEF Init, Counted
  <2> QED
    BY <2>1, FS_EmptySet DEF UsageInv
<1>2. CheckoutInv /\ UsageInv => UsageBacked
  <2> SUFFICES ASSUME CheckoutInv, UsageInv PROVE usage <= Cardinality(redemptions)
    BY DEF UsageBacked
  <2>1. Counted \subseteq redemptions /\ redemptions \subseteq Requests /\ usage \in Nat
    BY DEF Counted, CheckoutInv, OwnInv, RowTypes
  <2>2. Cardinality(Counted) <= Cardinality(redemptions)
        /\ Cardinality(Counted) \in Nat /\ Cardinality(redemptions) \in Nat
    BY <2>1, CountedFinite
  <2> QED
    BY <2>1, <2>2 DEF UsageInv
<1>3. CheckoutInv /\ UsageInv /\ [Next]_vars => UsageInv'
  BY UsageInvStep
<1> QED
  BY <1>1, <1>2, <1>3, CheckoutInvariant, PTL DEF Spec

-----------------------------------------------------------------------------
(* Reservations that nobody has *)

Before == {"idle", "key", "cart", "promo", "points"}

StepsOf(r) == {Route[form[r].path][i] : i \in DOMAIN Route[form[r].path]}

\* The steps of its path that a request has ahead of it and asks for.
Ahead(r) ==
  {i \in DOMAIN Route[form[r].path] :
     /\ Asked(form[r], Route[form[r].path][i])
     /\ phase[r] = "idle" \/ \E j \in 1..(i - 1) : Route[form[r].path][j] = phase[r]}

\* A request comes to the first of them.
LEMMA FollowsAhead ==
  ASSUME NEW r \in Requests, form[r].path \in {"cart", "items", "guest"},
         NEW k \in Ahead(r), NEW m \in 1..11, \A i \in Ahead(r) : i >= m
  PROVE  \E i \in m..k : Following(r) = Route[form[r].path][i]
<1> DEFINE left == Ahead(r)
           steps == Route[form[r].path]
           first == CHOOSE i \in left : \A j \in left : i <= j
<1>1. left \in SUBSET (1..11) /\ left # {}
  BY DEF Route, Ahead
<1>2. Following(r) = steps[first]
  BY <1>1 DEF Following, Ahead
<1> HIDE DEF left, steps
<1>3. first \in left /\ \A j \in left : first <= j
  BY <1>1, FirstLeft
<1> HIDE DEF first
<1>4. first \in 1..11 /\ first >= m /\ first <= k /\ k \in 1..11
  BY <1>1, <1>3 DEF left
<1> QED
  BY <1>2, <1>4 DEF steps

\* A request that has yet to insert its row goes on along its path, where the insert
\* is still to come; on the cart path the number comes first, then the reservation.
LEMMA RowAhead ==
  ASSUME NEW r \in Requests, form[r].path \in {"cart", "items", "guest"},
         phase[r] = "idle" \/ phase[r] \in (StepsOf(r) \cap Early) \ {"insert"}
  PROVE  /\ Following(r) \in StepsOf(r) \cap Early
         /\ form[r].path = "cart" =>
              /\ phase[r] \in Before => Following(r) \in (Before \ {"idle"}) \cup {"number"}
              /\ phase[r] = "number" => Following(r) = "stock"
              /\ phase[r] = "stock" => Following(r) = "insert"
<1> DEFINE steps == Route[form[r].path]
           left == Ahead(r)
<1>1. ASSUME NEW k \in left, NEW m \in 1..11, \A i \in left : i >= m
      PROVE  \E i \in m..k : Following(r) = steps[i]
  BY <1>1, FollowsAhead
<1>2. \A i \in left : i >= 1
  BY DEF Ahead, Route
<1>3. CASE form[r].path = "cart"
  <2>1. /\ phase[r] \in Before => 5 \in left
        /\ phase[r] = "number" => 6 \in left /\ \A i \in left : i >= 6
        /\ phase[r] = "stock" => 7 \in left /\ \A i \in left : i >= 7
    BY <1>3 DEF Ahead, Route, Asked, Before
  <2>2. phase[r] \in Before \cup {"number", "stock"}
    BY <1>3 DEF Route, StepsOf, Before, Early
  <2>3. phase[r] \in Before => \E i \in 1..5 : Following(r) = steps[i]
    BY <1>1, <1>2, <2>1
  <2>4. /\ phase[r] = "number" => Following(r) = steps[6]
        /\ phase[r] = "stock" => Following(r) = steps[7]
    <3>1. ASSUME phase[r] = "number" PROVE \E i \in 6..6 : Following(r) = steps[i]
      BY <1>1, <2>1, <3>1
    <3>2. ASSUME phase[r] = "stock" PROVE \E i \in 7..7 : Following(r) = steps[i]
      BY <1>1, <2>1, <3>2
    <3> HIDE DEF steps
    <3> QED
      BY <3>1, <3>2
  <2> HIDE DEF left
  <2> QED
    BY <1>3, <2>2, <2>3, <2>4 DEF Route, StepsOf, Early, Before
<1>4. CASE form[r].path = "items"
  <2>1. 5 \in left
    BY <1>4 DEF Ahead, Route, StepsOf, Early, Asked
  <2>2. \E i \in 1..5 : Following(r) = steps[i]
    BY <1>1, <1>2, <2>1
  <2> HIDE DEF left
  <2> QED
    BY <1>4, <2>2 DEF Route, StepsOf, Early
<1>5. CASE form[r].path = "guest"
  <2>1. 5 \in left
    BY <1>5 DEF Ahead, Route, StepsOf, Early, Asked
  <2>2. \E i \in 1..5 : Following(r) = steps[i]
    BY <1>1, <1>2, <2>1
  <2> HIDE DEF left
  <2> QED
    BY <1>5, <2>2 DEF Route, StepsOf, Early
<1> QED
  BY <1>3, <1>4, <1>5

\* A request stays on its path.  On the cart path it has no reservation before the
\* number, and unless there was a fault it has one when it inserts its row, and so
\* has its order.
HoldsAt(r) ==
  /\ phase[r] \in Early => phase[r] \in StepsOf(r)
  /\ form[r].path = "cart" =>
       /\ phase[r] \in Before => loc[r].hold = NoHold
       /\ faults = 0 =>
            /\ phase[r] = "insert" \/ (phase[r] = "number" /\ loc[r].clashes > 0) => loc[r].hold = HoldOf(r)
            /\ order[r].placed => order[r].hold = HoldOf(r)

HoldInv == \A r \in Requests : HoldsAt(r)

\* Faults are never forgotten.
LEMMA FaultsCount ==
  ASSUME CheckoutInv, [Next]_vars, faults' = 0
  PROVE  faults = 0 /\ ~Fault
<1>1. faults \in Nat
  BY DEF CheckoutInv, OwnInv, RowTypes
<1>2. ~Fault
  BY <1>1 DEF Fault
<1>3. ASSUME NEW r \in Requests, Serve(r) \/ Crash(r) PROVE UNCHANGED faults \/ Fault
  BY <1>3 DEF Serve, Start, LookUpKey, Judge, Numbering, TakeNumber, ReserveStock, InsertOrder,
     RecordRedemption, CountUsage, RedeemPoints, CloseCart, Crash
<1>4. ASSUME NEW d \in Desks, CancelOrder(d) \/ MoveByHand(d) \/ DeskWorks(d) PROVE UNCHANGED faults
  BY <1>4 DEF CancelOrder, MoveByHand, DeskWorks
<1>5. Release \/ Outage \/ UNCHANGED vars => UNCHANGED faults \/ Fault
  BY DEF Release, Outage, vars
<1> QED
  BY <1>2, <1>3, <1>4, <1>5 DEF Next

\* A step of a request leaves the others, and their orders, as they are.
LEMMA OthersKeep ==
  ASSUME CheckoutInv, NEW r \in Requests, Serve(r), NEW q \in Requests \ {r}
  PROVE  loc'[q] = loc[q] /\ phase'[q] = phase[q] /\ order'[q] = order[q]
<1> USE DEF CheckoutInv, OwnInv, RowTypes, rows
<1>1. phase'[q] = phase[q]
  BY OthersWait
<1>2. CASE TakeNumber(r)
  BY <1>1, <1>2 DEF TakeNumber
<1>3. CASE ReserveStock(r)
  BY <1>1, <1>3 DEF ReserveStock
<1>4. CASE InsertOrder(r)
  BY <1>1, <1>4 DEF InsertOrder
<1>5. CASE ~TakeNumber(r) /\ ~ReserveStock(r) /\ ~InsertOrder(r)
  <2>1. UNCHANGED <<loc, order>>
    BY <1>5 DEF Serve, Start, LookUpKey, Judge, Numbering, RecordRedemption, CountUsage,
       RedeemPoints, CloseCart
  <2> QED
    BY <1>1, <2>1
<1> QED
  BY <1>2, <1>3, <1>4, <1>5

\* Every path numbers and inserts.
LEMMA EveryPath ==
  ASSUME RowTypes, NEW r \in Requests
  PROVE  {"number", "insert"} \subseteq StepsOf(r)
<1>1. form[r].path \in {"cart", "items", "guest"}
  BY Formed
<1>2. CASE form[r].path = "cart"
  BY <1>2 DEF Route, StepsOf
<1>3. CASE form[r].path = "items"
  BY <1>3 DEF Route, StepsOf
<1>4. CASE form[r].path = "guest"
  BY <1>4 DEF Route, StepsOf
<1> QED
  BY <1>1, <1>2, <1>3, <1>4

\* Where a request is before its row is placed, and where it goes from there.
LEMMA GoesAhead ==
  ASSUME CheckoutInv, HoldInv, NEW r \in Requests, Proceed(r),
         phase[r] \in {"idle"} \cup (Early \ {"insert"})
  PROVE  /\ phase'[r] \in StepsOf(r) \cap Early
         /\ form[r].path = "cart" =>
              /\ phase[r] \in Before => phase'[r] \in (Before \ {"idle"}) \cup {"number"}
              /\ phase[r] = "number" => phase'[r] = "stock"
              /\ phase[r] = "stock" => phase'[r] = "insert"
<1>1. phase'[r] = Following(r) /\ form[r].path \in {"cart", "items", "guest"}
  BY Formed DEF Proceed, CheckoutInv, OwnInv, RowTypes
<1>2. phase[r] = "idle" \/ phase[r] \in (StepsOf(r) \cap Early) \ {"insert"}
  BY DEF HoldInv, HoldsAt
<1> QED
  BY <1>1, <1>2, RowAhead

\* On the cart path nothing is judged after the number.
LEMMA JudgedBefore ==
  ASSUME HoldInv, NEW r \in Requests, form[r].path = "cart",
         phase[r] \in {"idle", "key", "cart", "promo", "points", "policy"}
  PROVE  phase[r] \in Before
BY DEF HoldInv, HoldsAt, Early, Before, StepsOf, Route

\* Every step of a request keeps it on its path, with its reservation.
LEMMA ServeHolds ==
  ASSUME CheckoutInv, StockInv, HoldInv, NEW r \in Requests, Serve(r), form' = form,
         faults' = 0 => faults = 0 /\ ~Fault
  PROVE  HoldsAt(r)'
<1> USE DEF rows
<1>1. HoldsAt(r) /\ ClashesLeft /\ RowTypes
  BY DEF HoldInv, CheckoutInv, OwnInv
<1>2. CASE Start(r) \/ LookUpKey(r) \/ Judge(r)
  <2>1. UNCHANGED <<loc, order>> /\ phase[r] \in {"idle", "key", "cart", "promo", "points", "policy"}
    BY <1>2 DEF Start, LookUpKey, Judge
  <2>2. Proceed(r) \/ phase'[r] \in {"refused", "done"}
    BY <1>1, <1>2 DEF Start, LookUpKey, Judge, Refuse, RowTypes
  <2>3. form[r].path = "cart" => phase[r] \in Before
    BY <2>1, JudgedBefore
  <2>4. loc[r].clashes = 0
    BY <1>1, <2>1 DEF ClashesLeft, Early
  <2>5. CASE Proceed(r)
    BY <1>1, <2>1, <2>3, <2>4, <2>5, GoesAhead DEF HoldsAt, StepsOf, HoldOf, Early, Before
  <2>6. CASE phase'[r] \in {"refused", "done"}
    BY <1>1, <2>1, <2>3, <2>6 DEF HoldsAt, HoldOf, Early, Before
  <2> QED
    BY <2>2, <2>5, <2>6
<1>3. CASE UNCHANGED <<loc, order, phase>>
  BY <1>1, <1>3 DEF HoldsAt, StepsOf, HoldOf
<1>4. CASE TakeNumber(r)
  <2>1. phase[r] = "number" /\ UNCHANGED <<order>>
    BY <1>4 DEF TakeNumber
  <2>2. loc'[r].hold = loc[r].hold /\ loc'[r].clashes = loc[r].clashes
    BY <1>1, <1>4 DEF TakeNumber, RowTypes
  <2>3. \/ phase'[r] = "refused"
        \/ phase'[r] = "insert" /\ loc[r].clashes > 0
        \/ Proceed(r)
    BY <1>1, <1>4 DEF TakeNumber, Refuse, RowTypes
  <2>4. CASE phase'[r] = "refused"
    BY <1>1, <2>1, <2>2, <2>4 DEF HoldsAt, HoldOf, Early, Before
  <2>5. CASE phase'[r] = "insert" /\ loc[r].clashes > 0
    BY <1>1, <2>1, <2>2, <2>5, EveryPath DEF HoldsAt, HoldOf, StepsOf, Early, Before
  <2>6. CASE Proceed(r)
    BY <1>1, <2>1, <2>2, <2>6, GoesAhead DEF HoldsAt, HoldOf, StepsOf, Early, Before
  <2> QED
    BY <2>3, <2>4, <2>5, <2>6
<1>5. CASE ReserveStock(r)
  <2>1. phase[r] = "stock" /\ UNCHANGED order
    BY <1>5 DEF ReserveStock
  <2>2. \/ phase'[r] = "refused"
        \/ Proceed(r) /\ (loc'[r].hold = HoldOf(r) \/ Fault)
    BY <1>1, <1>5 DEF ReserveStock, Refuse, RowTypes
  <2>3. CASE phase'[r] = "refused"
    BY <1>1, <2>1, <2>3, FaultType DEF HoldsAt, HoldOf, Early, Before
  <2>4. CASE Proceed(r) /\ (loc'[r].hold = HoldOf(r) \/ Fault)
    BY <1>1, <2>1, <2>4, GoesAhead DEF HoldsAt, HoldOf, StepsOf, Early, Before
  <2> QED
    BY <2>2, <2>3, <2>4
<1>6. CASE InsertOrder(r)
  <2>1. phase[r] = "insert" /\ loc'[r].hold = loc[r].hold
    BY <1>1, <1>6 DEF InsertOrder, RowTypes
  <2>2. \/ /\ phase'[r] \in Late \cup {"done"}
           /\ order'[r].hold = loc[r].hold
        \/ phase'[r] = "number" /\ UNCHANGED order
        \/ phase'[r] = "refused" /\ UNCHANGED order
    <3>1. Proceed(r) => phase'[r] \in Late \cup {"done"}
      BY <1>1, <2>1, Formed, StepFollows DEF Proceed, RowTypes
    <3> QED
      BY <1>1, <1>6, <3>1 DEF InsertOrder, Refuse, RowTypes
  <2> QED
    BY <1>1, <2>1, <2>2, EveryPath DEF HoldsAt, HoldOf, StepsOf, Early, Late, Before
<1>7. CASE phase[r] \in Late /\ phase'[r] \in Late \cup {"done"} /\ UNCHANGED <<loc, order>>
  BY <1>1, <1>7 DEF HoldsAt, HoldOf, Early, Late, Before
<1>8. CASE RecordRedemption(r) \/ CountUsage(r) \/ RedeemPoints(r) \/ CloseCart(r)
  <2>1. phase[r] \in Late /\ UNCHANGED <<loc, order>>
    BY <1>8 DEF RecordRedemption, CountUsage, RedeemPoints, CloseCart, Late
  <2>2. Proceed(r) => phase'[r] \in Late \cup {"done"}
    BY <1>1, <2>1, Formed, StepFollows DEF Proceed, RowTypes
  <2>3. Proceed(r) \/ UNCHANGED phase \/ phase'[r] \in {"redeem", "close"}
    BY <1>1, <1>8 DEF RecordRedemption, CountUsage, RedeemPoints, CloseCart, RowTypes
  <2> QED
    BY <1>3, <1>7, <2>1, <2>2, <2>3 DEF Late
<1>9. CASE Numbering(r)
  BY <1>3, <1>9 DEF Numbering
<1> QED
  BY <1>2, <1>4, <1>5, <1>6, <1>8, <1>9 DEF Serve

\* What a cancelled order had is given back, unless there was a fault.
GivenUp ==
  faults = 0 =>
    \A r \in Requests : order[r].placed /\ order[r].cancelled =>
                          order[r].hold \in releasing \cup freed \cup {NoHold}

\* A desk, a release, an outage or a crash moves no request but the one that dies.
LEMMA OthersHold ==
  ASSUME CheckoutInv, HoldInv, faults' = 0 => faults = 0, form' = form,
         \/ \E r \in Requests : Crash(r)
         \/ \E d \in Desks : CancelOrder(d) \/ MoveByHand(d) \/ DeskWorks(d)
         \/ Release
         \/ Outage
         \/ UNCHANGED vars
  PROVE  HoldInv'
<1> USE DEF rows
<1> SUFFICES ASSUME NEW q \in Requests PROVE HoldsAt(q)'
  BY DEF HoldInv
<1>1. HoldsAt(q) /\ RowTypes
  BY DEF HoldInv, CheckoutInv, OwnInv
<1>2. /\ loc' = loc /\ phase'[q] \in {phase[q], "dead"}
      /\ order'[q].hold = order[q].hold /\ order'[q].placed = order[q].placed
  <2>1. ASSUME NEW d \in Desks, CancelOrder(d)
        PROVE  order'[q].hold = order[q].hold /\ order'[q].placed = order[q].placed
    <3>1. PICK o \in Requests : order' = [order EXCEPT ![o].cancelled = TRUE]
      BY <2>1 DEF CancelOrder, Placed
    <3> QED
      BY <1>1, <3>1 DEF RowTypes, OrderType
  <2>2. ASSUME NEW r \in Requests, Crash(r) PROVE loc' = loc /\ phase'[q] \in {phase[q], "dead"} /\ order' = order
    BY <1>1, <2>2 DEF Crash, RowTypes
  <2>3. ASSUME NEW d \in Desks, CancelOrder(d) \/ MoveByHand(d) \/ DeskWorks(d)
        PROVE  loc' = loc /\ phase' = phase /\ (CancelOrder(d) \/ order' = order)
    BY <2>3 DEF CancelOrder, MoveByHand, DeskWorks
  <2>4. Release \/ Outage \/ UNCHANGED vars => loc' = loc /\ phase' = phase /\ order' = order
    BY DEF Release, Outage, vars
  <2> QED
    BY <2>1, <2>2, <2>3, <2>4
<1> QED
  BY <1>1, <1>2 DEF HoldsAt, StepsOf, HoldOf, Early, Before

\* Every step keeps every request on its path, with its reservation.
LEMMA HoldInvStep ==
  ASSUME CheckoutInv, StockInv, HoldInv, [Next]_vars PROVE HoldInv'
<1>1. form' = form /\ (faults' = 0 => faults = 0 /\ ~Fault)
  BY RequestSteps, FaultsCount
<1>2. ASSUME NEW r \in Requests, Serve(r) PROVE HoldInv'
  <2>1. HoldsAt(r)'
    BY <1>1, <1>2, ServeHolds
  <2>2. ASSUME NEW q \in Requests \ {r} PROVE HoldsAt(q)'
    BY <1>1, <1>2, OthersKeep DEF HoldInv, HoldsAt, StepsOf, HoldOf
  <2> QED
    BY <2>1, <2>2 DEF HoldInv
<1>3. CASE \/ \E r \in Requests : Crash(r)
           \/ \E d \in Desks : CancelOrder(d) \/ MoveByHand(d) \/ DeskWorks(d)
           \/ Release
           \/ Outage
           \/ UNCHANGED vars
  BY <1>1, <1>3, OthersHold
<1> QED
  BY <1>2, <1>3 DEF Next

\* Nothing that is being released, or has been, is forgotten unless there was a fault.
LEMMA ReleasesStay ==
  ASSUME [Next]_vars, ~Fault
  PROVE  releasing \cup freed \subseteq releasing' \cup freed'
<1> USE DEF stock, rows
<1>1. ASSUME NEW r \in Requests, Serve(r) \/ Crash(r) PROVE releasing \subseteq releasing' /\ freed' = freed
  BY <1>1 DEF Serve, Start, LookUpKey, Judge, Numbering, TakeNumber, ReserveStock, InsertOrder,
     RecordRedemption, CountUsage, RedeemPoints, CloseCart, Crash, Refuse
<1>2. ASSUME NEW d \in Desks, CancelOrder(d) \/ MoveByHand(d) \/ DeskWorks(d)
      PROVE  releasing \subseteq releasing' /\ freed' = freed
  BY <1>2 DEF CancelOrder, MoveByHand, DeskWorks
<1>3. CASE Release
  BY <1>3 DEF Release
<1>4. Outage \/ UNCHANGED vars => UNCHANGED stock
  BY DEF Outage, vars
<1> QED
  BY <1>1, <1>2, <1>3, <1>4 DEF Next

\* A cancellation gives the reservation back, and no other step cancels.
LEMMA GivenUpStep ==
  ASSUME CheckoutInv, GivenUp, [Next]_vars PROVE GivenUp'
<1> SUFFICES ASSUME faults' = 0, NEW r \in Requests, order'[r].placed, order'[r].cancelled
             PROVE  order'[r].hold \in releasing' \cup freed' \cup {NoHold}
  BY DEF GivenUp
<1>1. faults = 0 /\ releasing \cup freed \subseteq releasing' \cup freed'
  BY FaultsCount, ReleasesStay
<1>2. order[r] \in OrderType /\ order \in [Requests -> OrderType]
  BY DEF CheckoutInv, OwnInv, RowTypes
<1>3. CASE order'[r] = order[r]
  BY <1>1, <1>3 DEF GivenUp
<1>4. ASSUME NEW d \in Desks, CancelOrder(d), order'[r] # order[r]
      PROVE  order'[r].hold \in releasing' \cup {NoHold}
  <2>1. PICK o \in Requests : /\ order' = [order EXCEPT ![o].cancelled = TRUE]
                              /\ releasing' = releasing \cup ({order[o].hold} \ {NoHold})
    BY <1>4 DEF CancelOrder, Placed
  <2>2. o = r
    BY <1>2, <1>4, <2>1
  <2>3. order'[r].hold = order[r].hold
    BY <1>2, <2>1 DEF OrderType
  <2> QED
    BY <2>1, <2>2, <2>3
<1>5. ASSUME NEW q \in Requests, Serve(q), order'[r] # order[r] PROVE FALSE
  <2>1. q = r
    BY <1>5, OthersKeep
  <2>2. order' = [order EXCEPT ![r] = [placed |-> TRUE, cancelled |-> FALSE,
                                       number |-> loc[r].number, hold |-> loc[r].hold]]
    BY <1>5, <2>1 DEF Serve, Start, LookUpKey, Judge, Numbering, TakeNumber, ReserveStock, InsertOrder,
       RecordRedemption, CountUsage, RedeemPoints, CloseCart, rows
  <2> QED
    BY <1>2, <2>2
<1>6. ASSUME NEW d \in Desks, MoveByHand(d) \/ DeskWorks(d) PROVE order' = order
  BY <1>6 DEF MoveByHand, DeskWorks, rows
<1>7. ASSUME NEW q \in Requests, Crash(q) PROVE order' = order
  BY <1>7 DEF Crash, rows
<1>8. Release \/ Outage \/ UNCHANGED vars => order' = order
  BY DEF Release, Outage, vars, rows
<1> QED
  BY <1>3, <1>4, <1>5, <1>6, <1>7, <1>8 DEF Next

\* A request that has yet to insert its row, an order that stands, or a cart checkout
\* refused for its own values has the reservation.
Has(r, h) ==
  \/ loc[r].hold = h /\ (phase[r] \in Early \/ Unstorable(r))
  \/ order[r].hold = h /\ Live(r)

\* No checkout has used up its tries.
TriesLeft == \A r \in Requests : loc[r].clashes < MaxTries

\* What is reserved is on its way back, or someone has it.
Kempt == \A h \in reserved \ (freed \cup releasing) : \E r \in Requests : Has(r, h)

NothingLost == faults = 0 /\ TriesLeft => Kempt

\* A failed insert is never forgotten.
LEMMA TriesCount == ASSUME CheckoutInv, [Next]_vars, TriesLeft' PROVE TriesLeft
<1> USE DEF CheckoutInv, OwnInv, RowTypes
<1>1. CASE UNCHANGED loc
  BY <1>1 DEF TriesLeft
<1>2. ASSUME NEW r \in Requests, Serve(r) PROVE \A q \in Requests : loc[q].clashes <= loc'[q].clashes
  <2>1. loc'[r].clashes = loc[r].clashes \/ loc'[r].clashes = loc[r].clashes + 1
    <3>1. CASE TakeNumber(r)
      BY <3>1 DEF TakeNumber
    <3>2. CASE ReserveStock(r)
      BY <3>2 DEF ReserveStock
    <3>3. CASE InsertOrder(r)
      BY <3>3 DEF InsertOrder
    <3>4. CASE ~TakeNumber(r) /\ ~ReserveStock(r) /\ ~InsertOrder(r)
      BY <1>2, <3>4 DEF Serve, Start, LookUpKey, Judge, Numbering, RecordRedemption, CountUsage,
         RedeemPoints, CloseCart
    <3> QED
      BY <3>1, <3>2, <3>3, <3>4
  <2>2. \A q \in Requests : loc[q].clashes \in Nat
    OBVIOUS
  <2> QED
    BY <1>2, <2>1, <2>2, OthersKeep
<1>3. ASSUME NEW r \in Requests, Serve(r) PROVE TriesLeft
  <2>1. \A q \in Requests : loc[q].clashes \in Nat /\ loc'[q].clashes \in Nat
    <3>1. loc' \in [Requests -> [number : Number, hold : Holds \cup {NoHold}, clashes : 0..MaxTries]]
      BY <1>3, ServeOwn
    <3> QED
      BY <3>1
  <2> QED
    BY <1>2, <1>3, <2>1, MaxTriesAssumption DEF TriesLeft, MaxTriesAssumption
<1>4. ASSUME NEW r \in Requests, Crash(r) PROVE UNCHANGED loc
  BY <1>4 DEF Crash
<1>5. ASSUME NEW d \in Desks, CancelOrder(d) \/ MoveByHand(d) \/ DeskWorks(d) PROVE UNCHANGED loc
  BY <1>5 DEF CancelOrder, MoveByHand, DeskWorks
<1>6. Release \/ Outage \/ UNCHANGED vars => UNCHANGED loc
  BY DEF Release, Outage, vars
<1> QED
  BY <1>1, <1>3, <1>4, <1>5, <1>6 DEF Next

\* A reservation that nobody has can only come about in the step of the request that
\* had it.
LEMMA KemptAlone ==
  ASSUME CheckoutInv, Kempt, NEW r \in Requests, Serve(r), ~Fault, [Next]_vars,
         \A h \in reserved' \ reserved : Has(r, h)',
         \A h \in reserved : Has(r, h) => \/ h \in freed' \cup releasing'
                                          \/ \E q \in Requests : Has(q, h)'
  PROVE  Kempt'
<1>1. releasing \cup freed \subseteq releasing' \cup freed'
  BY ReleasesStay
<1>2. ASSUME NEW q \in Requests \ {r}, NEW h, Has(q, h) PROVE Has(q, h)'
  BY <1>2, OthersKeep, RequestSteps DEF Has, Live, Unstorable
<1> QED
  BY <1>1, <1>2 DEF Kempt

\* A request without a fault, and with a try left, gives back what it has or goes on
\* to its order with it.
LEMMA ServeKempt ==
  ASSUME CheckoutInv, StockInv, HoldInv, GivenUp, Kempt, faults = 0, ~outage, TriesLeft, ~Fault,
         NEW r \in Requests, Serve(r), [Next]_vars, form' = form
  PROVE  Kempt'
<1> USE DEF rows, stock
<1>1. /\ HoldsAt(r) /\ RowTypes /\ HoldsReserved /\ PlacedByInsert /\ HoldsNamed
      /\ NoHold \notin reserved /\ ~Unstorable(r)
  <2>1. phase[r] # "refused"
    BY DEF Serve, Start, LookUpKey, Judge, Numbering, TakeNumber, ReserveStock, InsertOrder,
       RecordRedemption, CountUsage, RedeemPoints, CloseCart
  <2> QED
    BY <2>1 DEF HoldInv, CheckoutInv, OwnInv, StockInv, RowTypes, Holds, Unstorable
<1>2. ASSUME UNCHANGED <<order, loc, reserved>>, phase[r] \in Early => phase'[r] \in Early
      PROVE  Kempt'
  BY <1>1, <1>2, KemptAlone DEF Has, Live
<1>3. ASSUME UNCHANGED <<order, reserved>>, loc[r].hold \in releasing' \cup {NoHold}
      PROVE  Kempt'
  BY <1>1, <1>3, KemptAlone DEF Has, Live
<1>4. Refuse(r) /\ form[r].path # "cart" => loc[r].hold \in releasing' \cup {NoHold}
  BY DEF Refuse, FreedOnRefusal
<1>5. CASE Start(r) \/ LookUpKey(r) \/ Judge(r)
  <2>1. /\ UNCHANGED <<order, loc, reserved>>
        /\ phase[r] \in {"idle", "key", "cart", "promo", "points", "policy"}
    BY <1>5 DEF Start, LookUpKey, Judge
  <2>2. CASE Proceed(r)
    BY <1>2, <2>1, <2>2, GoesAhead DEF Early
  <2>3. CASE form[r].path = "cart"
    BY <1>1, <1>3, <2>1, <2>3, JudgedBefore DEF HoldsAt
  <2>4. CASE form[r].path # "cart" /\ ~Proceed(r)
    <3>1. phase[r] # "key"
      BY <1>1, <2>4, Formed DEF HoldsAt, StepsOf, Route, Early
    <3>2. Refuse(r)
      BY <1>5, <2>4, <3>1 DEF Start, LookUpKey, Judge
    <3> QED
      BY <1>3, <1>4, <2>1, <2>4, <3>2
  <2> QED
    BY <2>2, <2>3, <2>4
<1>6. CASE Numbering(r)
  BY <1>2, <1>6 DEF Numbering
<1>7. CASE TakeNumber(r)
  <2>1. phase[r] = "number" /\ UNCHANGED <<order, reserved>> /\ loc'[r].hold = loc[r].hold
    BY <1>1, <1>7 DEF TakeNumber, RowTypes
  <2>2. loc[r].clashes # MaxTries
    <3>1. loc[r].clashes < MaxTries /\ loc[r].clashes \in Nat
      BY <1>1 DEF TriesLeft, RowTypes
    <3> QED
      BY <3>1, MaxTriesAssumption DEF MaxTriesAssumption
  <2>3. phase'[r] = "insert" \/ Proceed(r)
    BY <1>1, <1>7, <2>2 DEF TakeNumber, RowTypes
  <2>4. phase'[r] \in Early
    BY <2>1, <2>3, GoesAhead DEF Early
  <2> QED
    BY <2>1, <2>4, KemptAlone DEF Has, Live, Early
<1>8. CASE ReserveStock(r)
  <2>1. phase[r] = "stock" /\ UNCHANGED order
    BY <1>8 DEF ReserveStock
  <2>2. CASE Refuse(r) /\ HoldOf(r) \notin reserved /\ UNCHANGED <<reserved, loc>>
    <3>1. \A h \in reserved : loc[r].hold # h
      BY <1>1, <2>2 DEF HoldsNamed
    <3> QED
      BY <2>1, <2>2, <3>1, KemptAlone DEF Has, Live
  <2>3. CASE reserved' = reserved \cup {HoldOf(r)} /\ loc' = [loc EXCEPT ![r].hold = HoldOf(r)] /\ Proceed(r)
    <3>1. loc'[r].hold = HoldOf(r) /\ phase'[r] \in Early
      BY <1>1, <2>1, <2>3, GoesAhead DEF RowTypes, Early
    <3>2. \A h \in reserved : loc[r].hold = h => h = HoldOf(r)
      BY <1>1 DEF HoldsNamed
    <3> QED
      BY <2>1, <2>3, <3>1, <3>2, KemptAlone DEF Has, Live
  <2> QED
    BY <1>8, <2>2, <2>3 DEF ReserveStock
<1>9. CASE InsertOrder(r)
  <2>1. phase[r] = "insert" /\ UNCHANGED reserved /\ loc'[r].hold = loc[r].hold
    BY <1>1, <1>9 DEF InsertOrder, RowTypes
  <2>2. ~order[r].placed
    BY <1>1, <2>1 DEF PlacedByInsert, Early
  <2>3. CASE phase'[r] = "number" /\ UNCHANGED order
    BY <2>1, <2>3, KemptAlone DEF Has, Live, Early
  <2>4. CASE order' = [order EXCEPT ![r] = [placed |-> TRUE, cancelled |-> FALSE,
                                            number |-> loc[r].number, hold |-> loc[r].hold]]
    <3>1. order'[r].hold = loc[r].hold /\ Live(r)'
      BY <1>1, <2>4 DEF RowTypes, Live
    <3> QED
      BY <2>1, <2>2, <3>1, KemptAlone DEF Has, Live
  <2>5. CASE KeyTaken(r) /\ Refuse(r) /\ UNCHANGED <<loc, order>>
    <3>1. PICK o \in Requests : order[o].placed /\ form[o].key = form[r].key /\ form[r].key # NoKey
      BY <2>5 DEF KeyTaken, Placed
    <3>2. form[o].path = "cart" /\ order[o].hold = HoldOf(o) /\ HoldOf(o) = HoldOf(r)
      BY <1>1, <3>1, Formed DEF HoldInv, HoldsAt, HoldOf
    <3>3. \A h \in reserved : loc[r].hold = h => h = order[o].hold
      BY <1>1, <3>2 DEF HoldsNamed
    <3>4. order[o].cancelled => order[o].hold \in releasing \cup freed \cup {NoHold}
      BY <3>1 DEF GivenUp
    <3>5. releasing \cup freed \subseteq releasing' \cup freed'
      BY ReleasesStay
    <3>6. \A h \in reserved : Has(r, h) => h \in freed' \cup releasing' \/ Has(o, h)'
      BY <1>1, <2>2, <2>5, <3>1, <3>3, <3>4, <3>5 DEF Has, Live
    <3> QED
      BY <2>1, <3>6, KemptAlone
  <2>6. CASE ~form[r].storable /\ Refuse(r) /\ UNCHANGED <<loc, order>>
    <3>1. CASE form[r].path = "cart"
      <4>1. Unstorable(r)'
        BY <1>1, <2>6, <3>1 DEF Refuse, Unstorable, RowTypes
      <4> QED
        BY <1>1, <2>1, <2>6, <4>1, KemptAlone DEF Has, Live
    <3>2. CASE form[r].path # "cart"
      BY <1>3, <1>4, <2>1, <2>6, <3>2
    <3> QED
      BY <3>1, <3>2
  <2> QED
    BY <1>1, <1>9, <2>3, <2>4, <2>5, <2>6 DEF InsertOrder, RowTypes
<1>10. CASE RecordRedemption(r) \/ CountUsage(r) \/ RedeemPoints(r) \/ CloseCart(r)
  <2>1. phase[r] \notin Early /\ UNCHANGED <<order, loc, reserved>>
    BY <1>10 DEF RecordRedemption, CountUsage, RedeemPoints, CloseCart, Early
  <2> QED
    BY <1>2, <2>1
<1> QED
  BY <1>5, <1>6, <1>7, <1>8, <1>9, <1>10 DEF Serve

\* Unless there was a fault, or a checkout used up its tries, every step leaves what is
\* reserved with someone.
LEMMA NothingLostStep ==
  ASSUME CheckoutInv, StockInv, HoldInv, GivenUp, faults = 0 => ~outage, NothingLost, [Next]_vars
  PROVE  NothingLost'
<1> USE DEF rows, stock
<1> SUFFICES ASSUME faults' = 0, TriesLeft' PROVE Kempt'
  BY DEF NothingLost
<1>1. form' = form /\ faults = 0 /\ ~Fault /\ TriesLeft
  BY RequestSteps, FaultsCount, TriesCount
<1>2. Kempt /\ ~outage
  BY <1>1 DEF NothingLost
<1>3. releasing \cup freed \subseteq releasing' \cup freed'
  BY <1>1, ReleasesStay
<1>4. ASSUME NEW r \in Requests, Serve(r) PROVE Kempt'
  BY <1>1, <1>2, <1>4, ServeKempt
<1>5. ASSUME NEW r \in Requests, Crash(r) PROVE FALSE
  BY <1>1, <1>5 DEF Crash
<1>6. CASE UNCHANGED <<loc, phase, order, reserved>>
  BY <1>1, <1>2, <1>3, <1>6 DEF Kempt, Has, Live, Unstorable
<1>7. ASSUME NEW d \in Desks, CancelOrder(d) PROVE Kempt'
  <2>1. UNCHANGED <<loc, phase, reserved>>
    BY <1>7 DEF CancelOrder
  <2>2. PICK o \in Requests : /\ order' = [order EXCEPT ![o].cancelled = TRUE]
                              /\ releasing' = releasing \cup ({order[o].hold} \ {NoHold})
    BY <1>7 DEF CancelOrder, Placed
  <2>3. NoHold \notin reserved /\ order \in [Requests -> OrderType]
    BY DEF CheckoutInv, OwnInv, RowTypes, Holds
  <2>4. ASSUME NEW h \in reserved, NEW q \in Requests, Has(q, h)
        PROVE  h \in releasing' \/ Has(q, h)'
    <3>1. CASE q = o
      BY <1>1, <2>1, <2>2, <2>3, <2>4, <3>1 DEF Has, Unstorable
    <3>2. CASE q # o
      BY <1>1, <2>1, <2>2, <2>3, <2>4, <3>2 DEF Has, Live, Unstorable
    <3> QED
      BY <3>1, <3>2
  <2> QED
    BY <1>2, <1>3, <2>1, <2>4 DEF Kempt
<1>8. ASSUME NEW d \in Desks, MoveByHand(d) \/ DeskWorks(d) PROVE UNCHANGED <<loc, phase, order, reserved>>
  BY <1>8 DEF MoveByHand, DeskWorks
<1>9. Release \/ Outage \/ UNCHANGED vars => UNCHANGED <<loc, phase, order, reserved>>
  BY DEF Release, Outage, vars
<1> QED
  BY <1>4, <1>5, <1>6, <1>7, <1>8, <1>9 DEF Next

\* The sequence table is out of use only after a fault.
LEMMA OutageStep ==
  ASSUME CheckoutInv, faults = 0 => ~outage, [Next]_vars PROVE faults' = 0 => ~outage'
<1> SUFFICES ASSUME faults' = 0 PROVE ~outage'
  OBVIOUS
<1>1. ~Fault /\ ~outage
  BY FaultsCount
<1>2. ~Outage => outage' = outage
  BY DEF Next, Serve, Start, LookUpKey, Judge, Numbering, TakeNumber, ReserveStock, InsertOrder,
     RecordRedemption, CountUsage, RedeemPoints, CloseCart, Crash, CancelOrder, MoveByHand,
     DeskWorks, Release, vars, rows
<1> QED
  BY <1>1, <1>2 DEF Outage

LeakInv == HoldInv /\ GivenUp /\ (faults = 0 => ~outage) /\ NothingLost

\* Nothing is reserved in the initial states.
LEMMA LeakInitial == Init => LeakInv
BY DEF Init, LeakInv, HoldInv, HoldsAt, GivenUp, NothingLost, Kempt, NoRow, Early

\* Every step keeps what is reserved with someone.
LEMMA LeakInvStep == CheckoutInv /\ StockInv /\ LeakInv /\ [Next]_vars => LeakInv'
BY HoldInvStep, GivenUpStep, OutageStep, NothingLostStep DEF LeakInv

\* Without errors and crashes, and as long as no checkout has used up its tries for a
\* number, no reservation outlives its request unless an order has it, however many
\* requests there are and whichever of two repetitions loses; the exception is a cart
\* checkout refused by the orders table for its own values, whose reservation leaks.
THEOREM NothingLeaks == Spec => [](TriesLeft => NoStockLeaks)
<1>1. LeakInv => (TriesLeft => NoStockLeaks)
  <2> SUFFICES ASSUME LeakInv, TriesLeft, Quiet, faults = 0, NEW h \in reserved \ freed
               PROVE  h \in {order[r].hold : r \in {x \in Requests : Live(x)}}
                            \cup {loc[r].hold : r \in {x \in Requests : Unstorable(x)}}
    BY DEF NoStockLeaks
  <2>1. h \in reserved \ (freed \cup releasing)
    BY DEF Quiet
  <2>2. PICK r \in Requests : Has(r, h)
    BY <2>1 DEF LeakInv, NothingLost, Kempt
  <2>3. phase[r] \notin Early
    BY DEF Quiet, Early
  <2> QED
    BY <2>2, <2>3 DEF Has
<1> QED
  BY <1>1, LeakInitial, LeakInvStep, StockInitial, StockInvStep, CheckoutInvariant, PTL DEF Spec

-----------------------------------------------------------------------------
(* The tries of a checkout *)

\* The request holds a number of the counter.
Counter(r) == loc[r].number # NoNumber /\ ~loc[r].number.legacy

\* The requests the counter has minted a number for, and that number.
Swapped == {r \in Requests : mint[r].step = "minted" \/ Counter(r)}
NumberOf(r) == IF mint[r].step = "minted" THEN mint[r].seen ELSE loc[r].number.n

Unnumbered(r) == phase[r] \in Before \/ (phase[r] = "stock" /\ form[r].path = "items")
Numbered(r) == phase[r] \in {"policy", "insert"} \/ (phase[r] = "stock" /\ form[r].path # "items")

\* A request is numbered at the step that numbers it, and its order keeps that number.
NumberAt(r) ==
  /\ phase[r] # "number" => mint[r] = NoMint
  /\ phase[r] = "number" => ~Counter(r)
  /\ Unnumbered(r) => loc[r].number = NoNumber
  /\ Numbered(r) \/ order[r].placed => loc[r].number # NoNumber
  /\ order[r].placed => order[r].number = loc[r].number

\* No two requests have the same number of the counter.
NumbersApart ==
  /\ \A r \in Swapped : NumberOf(r) \in 1..sequence.val
  /\ \A r, s \in Swapped : NumberOf(r) = NumberOf(s) => r = s

LegacyAt(p, k) == order[p].placed /\ order[p].number = [legacy |-> TRUE, n |-> k]

LegacyPlaced(k) == \E p \in Requests : LegacyAt(p, k)

\* The legacy numbers are placed without a gap, and each failed insert of a request
\* has met another of them.
LegacyRunAt(r) ==
  /\ \A k \in 1..loc[r].clashes : LegacyPlaced(k)
  /\ loc[r].number.legacy => \A k \in 1..(loc[r].number.n - 1) : LegacyPlaced(k)
  /\ loc[r].number.legacy /\ phase[r] \in Early \ {"number"} => loc[r].number.n > loc[r].clashes

\* A request has lost every attempt at the counter to a number minted for another one,
\* and it has a legacy number only once all attempts of a call are lost.
SpentAt(r) ==
  /\ phase[r] = "number" => Spent(r, MaxTries * loc[r].clashes)
  /\ loc[r].number.legacy /\ phase[r] # "number" => MaxTries * (loc[r].clashes + 1) <= sequence.val

TriesInv ==
  /\ \A r \in Requests : NumberAt(r) /\ LegacyRunAt(r) /\ SpentAt(r)
  /\ NumbersApart
  /\ sequence.val = Cardinality(Swapped)

\* The number comes once on every path: before it a request has none, after it it has
\* one.
LEMMA NumberAhead ==
  ASSUME NEW r \in Requests, form[r].path \in {"cart", "items", "guest"},
         phase[r] = "idle" \/ phase[r] \in (StepsOf(r) \cap Early) \ {"insert"}
  PROVE  /\ Following(r) = "number" => Unnumbered(r)
         /\ Following(r) \in Before => Unnumbered(r)
         /\ Following(r) = "stock" /\ form[r].path = "items" => Unnumbered(r)
         /\ Following(r) \in {"policy", "insert"} \/ (Following(r) = "stock" /\ form[r].path # "items") =>
              Numbered(r) \/ phase[r] = "number"
<1> DEFINE steps == Route[form[r].path]
           left == Ahead(r)
<1>1. ASSUME NEW k \in left, NEW m \in 1..11, \A i \in left : i >= m
      PROVE  \E i \in m..k : Following(r) = steps[i]
  BY <1>1, FollowsAhead
<1>2. \A i \in left : i >= 1
  BY DEF Ahead, Route
<1>3. CASE form[r].path = "cart"
  <2>1. phase[r] \in Before \cup {"number", "stock"}
    BY <1>3 DEF Route, StepsOf, Before, Early
  <2> QED
    BY <1>3, <2>1, RowAhead DEF Unnumbered, Numbered, Before
<1>4. CASE form[r].path = "items"
  <2>1. /\ phase[r] \in {"idle", "promo", "stock"} => 3 \in left
        /\ phase[r] \in {"number", "policy"} => 5 \in left /\ \A i \in left : i >= 4
        /\ phase[r] \in {"idle", "promo", "stock", "number", "policy"}
    BY <1>4 DEF Ahead, Route, StepsOf, Early, Asked
  <2>2. /\ phase[r] \in {"idle", "promo", "stock"} => \E i \in 1..3 : Following(r) = steps[i]
        /\ phase[r] \in {"number", "policy"} => \E i \in 4..5 : Following(r) = steps[i]
    BY <1>1, <1>2, <2>1
  <2> HIDE DEF left
  <2> QED
    BY <1>4, <2>1, <2>2 DEF Route, Unnumbered, Numbered, Before
<1>5. CASE form[r].path = "guest"
  <2>1. /\ phase[r] \in {"idle", "cart"} => 2 \in left
        /\ phase[r] \in {"number", "stock", "policy"} => 5 \in left /\ \A i \in left : i >= 3
        /\ phase[r] \in {"idle", "cart", "number", "stock", "policy"}
    BY <1>5 DEF Ahead, Route, StepsOf, Early, Asked
  <2>2. /\ phase[r] \in {"idle", "cart"} => \E i \in 1..2 : Following(r) = steps[i]
        /\ phase[r] \in {"number", "stock", "policy"} => \E i \in 3..5 : Following(r) = steps[i]
    BY <1>1, <1>2, <2>1
  <2> HIDE DEF left
  <2> QED
    BY <1>5, <2>1, <2>2 DEF Route, Unnumbered, Numbered, Before
<1> QED
  BY <1>3, <1>4, <1>5

\* What a step without a fault does to one request's number.
Same(q) ==
  /\ loc'[q] = loc[q] /\ mint'[q] = mint[q] /\ phase'[q] = phase[q]
  /\ order'[q].placed = order[q].placed /\ order'[q].number = order[q].number

Rests(r) ==
  /\ phase[r] # "number" /\ UNCHANGED <<sequence, mint, order>>
  /\ loc'[r].number = loc[r].number /\ loc'[r].clashes = loc[r].clashes
  /\ phase'[r] = "number" \/ Unnumbered(r)' => Unnumbered(r)
  /\ Numbered(r)' => Numbered(r)
  /\ phase'[r] \in Early => phase[r] \in Early \cup {"idle"}

Mints(r) ==
  /\ phase[r] = "number" /\ UNCHANGED <<phase, loc, order>>
  /\ GenerateNumber(r) \/ MintStep(r)

Gets(r) ==
  /\ phase[r] = "number"
  /\ phase'[r] = "refused" \/ Numbered(r)'
  /\ mint' = [mint EXCEPT ![r] = NoMint] /\ UNCHANGED <<sequence, order>>
  /\ loc'[r].clashes = loc[r].clashes
  /\ \/ mint[r].step = "minted" /\ loc'[r].number = [legacy |-> FALSE, n |-> mint[r].seen]
     \/ mint[r].step = "failed" /\ loc'[r].number = LegacyNumber

Places(r) ==
  /\ phase[r] = "insert" /\ phase'[r] \notin Early \cup {"idle"} /\ UNCHANGED <<sequence, mint, loc>>
  /\ order'[r].placed /\ order'[r].number = loc[r].number

Clashes(r) ==
  /\ phase[r] = "insert" /\ NumberTaken(r) /\ phase'[r] = "number"
  /\ UNCHANGED <<sequence, mint, order>>
  /\ loc'[r].number = loc[r].number /\ loc'[r].clashes = loc[r].clashes + 1

Moves(r) == Rests(r) \/ Mints(r) \/ Gets(r) \/ Places(r) \/ Clashes(r)

\* A request that goes on before its row is placed comes to no step that its number
\* forbids.
LEMMA RestsAhead ==
  ASSUME CheckoutInv, HoldInv, NEW r \in Requests, Proceed(r), form' = form,
         phase[r] \in {"idle"} \cup (Early \ {"insert"})
  PROVE  /\ phase'[r] = "number" \/ Unnumbered(r)' => Unnumbered(r)
         /\ Numbered(r)' => Numbered(r) \/ phase[r] = "number"
         /\ phase[r] = "number" => Numbered(r)'
<1>1. phase'[r] = Following(r) /\ form[r].path \in {"cart", "items", "guest"}
  BY Formed DEF Proceed, CheckoutInv, OwnInv, RowTypes
<1>2. phase[r] = "idle" \/ phase[r] \in (StepsOf(r) \cap Early) \ {"insert"}
  BY DEF HoldInv, HoldsAt
<1>3. Following(r) \in StepsOf(r) \cap Early
  BY <1>1, <1>2, RowAhead
<1>4. phase[r] = "number" => ~Unnumbered(r)
  BY DEF Unnumbered, Before
<1>5. Following(r) \in Before \cup {"number", "policy", "insert", "stock"}
  BY <1>3 DEF Early, Before
<1> QED
  BY <1>1, <1>2, <1>4, <1>5, NumberAhead DEF Unnumbered, Numbered

\* Those are all the things a step of a request does to numbers.
LEMMA ServeMoves ==
  ASSUME CheckoutInv, HoldInv, ~outage, ~Fault,
         NEW r \in Requests, Serve(r), form' = form
  PROVE  /\ \A q \in Requests \ {r} : Same(q)
         /\ (Same(r) /\ UNCHANGED sequence) \/ Moves(r)
<1> USE DEF rows, sequenceVars
<1>1. RowTypes /\ SequenceInv /\ phase \in [Requests -> Phases]
  BY DEF CheckoutInv, OwnInv, RowTypes
<1>2. ASSUME UNCHANGED mint \/ Return(r) \/ GenerateNumber(r) \/ MintStep(r)
      PROVE  \A q \in Requests \ {r} : Same(q)
  <2>1. \A q \in Requests \ {r} : mint'[q] = mint[q]
    BY <1>1, <1>2 DEF SequenceInv, SequenceTypeOK, Return, GenerateNumber, MintStep, LookUp, CreateRow,
       Reread, Swap, TryAgain, MintAt
  <2> QED
    BY <2>1, OthersKeep DEF Same
<1>3. CASE Start(r) \/ LookUpKey(r) \/ Judge(r)
  <2>1. /\ UNCHANGED <<sequence, mint, order, loc>>
        /\ phase[r] \in ({"idle"} \cup Early) \ {"number", "insert"}
    BY <1>3 DEF Start, LookUpKey, Judge, Early
  <2>2. Proceed(r) \/ phase'[r] \in {"refused", "done"}
    BY <1>1, <1>3 DEF Start, LookUpKey, Judge, Refuse
  <2>3. ASSUME Proceed(r) PROVE Rests(r)
    BY <2>1, <2>3, RestsAhead DEF Rests, Early
  <2>4. ASSUME phase'[r] \in {"refused", "done"} PROVE Rests(r)
    BY <2>1, <2>4 DEF Rests, Unnumbered, Numbered, Early, Before
  <2> QED
    BY <1>2, <2>1, <2>2, <2>3, <2>4 DEF Moves
<1>4. CASE Numbering(r)
  BY <1>2, <1>4 DEF Numbering, Mints, Moves
<1>5. CASE TakeNumber(r)
  <2>1. phase[r] = "number" /\ mint' = [mint EXCEPT ![r] = NoMint] /\ UNCHANGED <<sequence, order>> /\ Return(r)
    BY <1>5 DEF TakeNumber, Return
  <2>2. mint[r].step \in {"minted", "failed"}
    BY <2>1 DEF Return
  <2> DEFINE number == IF mint[r].step = "minted" THEN [legacy |-> FALSE, n |-> mint[r].seen] ELSE LegacyNumber
  <2>3. loc'[r].clashes = loc[r].clashes /\ loc'[r].number = number
    <3>1. loc' = [loc EXCEPT ![r].number = number]
      BY <1>5 DEF TakeNumber
    <3> HIDE DEF number
    <3> QED
      BY <1>1, <3>1 DEF RowTypes
  <2>4. phase'[r] = "refused" \/ phase'[r] = "insert" \/ Proceed(r)
    BY <1>1, <1>5 DEF TakeNumber, Refuse
  <2>5. phase'[r] = "refused" \/ Numbered(r)'
    BY <2>1, <2>4, RestsAhead DEF Numbered, Early
  <2> QED
    BY <1>2, <2>1, <2>2, <2>3, <2>5 DEF Gets, Moves
<1>6. CASE ReserveStock(r)
  <2>1. phase[r] = "stock" /\ UNCHANGED <<sequence, mint, order>>
    BY <1>6 DEF ReserveStock
  <2>2. loc'[r].number = loc[r].number /\ loc'[r].clashes = loc[r].clashes
    BY <1>1, <1>6 DEF ReserveStock, RowTypes
  <2>3. Proceed(r) \/ phase'[r] = "refused"
    BY <1>1, <1>6 DEF ReserveStock, Refuse
  <2>4. ASSUME Proceed(r) PROVE Rests(r)
    BY <2>1, <2>2, <2>4, RestsAhead DEF Rests, Early
  <2>5. ASSUME phase'[r] = "refused" PROVE Rests(r)
    BY <2>1, <2>2, <2>5 DEF Rests, Unnumbered, Numbered, Early, Before
  <2> QED
    BY <1>2, <2>1, <2>3, <2>4, <2>5 DEF Moves
<1>7. CASE InsertOrder(r)
  <2>1. phase[r] = "insert" /\ UNCHANGED <<sequence, mint>>
    BY <1>7 DEF InsertOrder
  <2>2. ASSUME Proceed(r), UNCHANGED loc,
               order' = [order EXCEPT ![r] = [placed |-> TRUE, cancelled |-> FALSE,
                                              number |-> loc[r].number, hold |-> loc[r].hold]]
        PROVE  Moves(r)
    <3>1. phase'[r] \in Late \cup {"done"}
      BY <1>1, <2>1, <2>2, Formed, StepFollows DEF Proceed
    <3>2. order'[r].placed /\ order'[r].number = loc[r].number
      BY <1>1, <2>2 DEF RowTypes
    <3> QED
      BY <2>1, <2>2, <3>1, <3>2 DEF Places, Moves, Early, Late
  <2>3. ASSUME NumberTaken(r), loc' = [loc EXCEPT ![r].clashes = @ + 1],
               phase' = [phase EXCEPT ![r] = "number"], UNCHANGED order
        PROVE  Moves(r)
    BY <1>1, <2>1, <2>3 DEF Clashes, Moves, RowTypes
  <2>4. ASSUME Refuse(r), UNCHANGED <<loc, order>> PROVE Moves(r)
    BY <1>1, <2>1, <2>4 DEF Refuse, Rests, Moves, Unnumbered, Numbered, Early, Before
  <2> QED
    BY <1>2, <1>7, <2>1, <2>2, <2>3, <2>4 DEF InsertOrder
<1>8. CASE RecordRedemption(r) \/ CountUsage(r) \/ RedeemPoints(r) \/ CloseCart(r)
  <2>1. phase[r] \in Late /\ UNCHANGED <<sequence, mint, order, loc>>
    BY <1>8 DEF RecordRedemption, CountUsage, RedeemPoints, CloseCart, Late
  <2>2. Proceed(r) => phase'[r] \in Late \cup {"done"}
    BY <1>1, <2>1, Formed, StepFollows DEF Proceed
  <2>3. UNCHANGED phase \/ phase'[r] \in Late \cup {"done"}
    BY <1>1, <1>8, <2>2 DEF RecordRedemption, CountUsage, RedeemPoints, CloseCart, Late
  <2>4. Same(r) \/ Rests(r)
    BY <2>1, <2>3 DEF Same, Rests, Unnumbered, Numbered, Early, Late, Before
  <2> QED
    BY <1>2, <2>1, <2>4 DEF Moves
<1> QED
  BY <1>3, <1>4, <1>5, <1>6, <1>7, <1>8 DEF Serve

\* A clash is always over a legacy number: a number of the counter is no one else's.
LEMMA ClashIsLegacy ==
  ASSUME CheckoutInv, PlacedByInsert, \A q \in Requests : NumberAt(q), NumbersApart,
         NEW r \in Requests, phase[r] = "insert", NumberTaken(r)
  PROVE  loc[r].number.legacy
<1> SUFFICES ASSUME ~loc[r].number.legacy PROVE FALSE
  OBVIOUS
<1>1. PICK o \in Requests : order[o].placed /\ order[o].number = loc[r].number
  BY DEF NumberTaken, Placed
<1>2. phase[o] \notin Early /\ o # r
  BY <1>1 DEF PlacedByInsert, Early
<1>3. mint[o] = NoMint /\ mint[r] = NoMint
  BY <1>2 DEF NumberAt, Early
<1>4. loc[o].number = loc[r].number /\ loc[r].number # NoNumber
  BY <1>1 DEF NumberAt, Numbered
<1>5. {o, r} \subseteq Swapped /\ NumberOf(o) = NumberOf(r)
  BY <1>3, <1>4 DEF Swapped, Counter, NumberOf, NoMint
<1> QED
  BY <1>2, <1>5 DEF NumbersApart

\* A placed order keeps its number.
LEMMA LegacyStays ==
  ASSUME PlacedByInsert, NEW r \in Requests, \A q \in Requests \ {r} : Same(q), Same(r) \/ Moves(r),
         NEW k, LegacyPlaced(k)
  PROVE  LegacyPlaced(k)'
<1>1. PICK p \in Requests : LegacyAt(p, k)
  BY DEF LegacyPlaced
<1>2. CASE p # r \/ Same(r)
  BY <1>1, <1>2 DEF Same, LegacyAt, LegacyPlaced
<1>3. CASE Moves(r) /\ p = r
  <2>1. ~Places(r)
    BY <1>1, <1>3 DEF Places, LegacyAt, PlacedByInsert, Early
  <2> QED
    BY <1>1, <1>3, <2>1 DEF Moves, Rests, Mints, Gets, Clashes, LegacyAt, LegacyPlaced
<1> QED
  BY <1>2, <1>3

\* What a step leaves alone stays as it is.
LEMMA SameKeeps ==
  ASSUME NEW q \in Requests, Same(q), form' = form, NumberAt(q), LegacyRunAt(q), SpentAt(q),
         MaxTries * loc[q].clashes \in Nat, MaxTries * (loc[q].clashes + 1) \in Nat,
         mint[q] \in MintType, sequence.val \in Nat, sequence'.val \in Nat, sequence.val <= sequence'.val,
         \A k \in Nat : LegacyPlaced(k) => LegacyPlaced(k)',
         loc[q].clashes \in Nat, loc[q].number.n \in Nat
  PROVE  NumberAt(q)' /\ LegacyRunAt(q)' /\ SpentAt(q)'
<1>1. NumberAt(q)'
  BY DEF Same, NumberAt, Counter, Unnumbered, Numbered
<1>2. LegacyRunAt(q)'
  BY DEF Same, LegacyRunAt
<1>3. SpentAt(q)'
  <2>1. ASSUME phase[q] = "number", mint[q].step # "minted"
        PROVE  MaxTries * loc[q].clashes + mint[q].tries <= sequence'.val
    BY <2>1 DEF SpentAt, Spent, MintType
  <2>2. ASSUME loc[q].number.legacy, phase[q] # "number"
        PROVE  MaxTries * (loc[q].clashes + 1) <= sequence'.val
    BY <2>2 DEF SpentAt
  <2> QED
    BY <2>1, <2>2 DEF Same, SpentAt, Spent
<1> QED
  BY <1>1, <1>2, <1>3

\* A request is numbered by the step that numbers it.
LEMMA NumberAtMoves ==
  ASSUME CheckoutInv, PlacedByInsert, \A q \in Requests : NumberAt(q), NumbersApart, form' = form,
         NEW r \in Requests, Moves(r)
  PROVE  NumberAt(r)'
<1>1. NumberAt(r) /\ RowTypes /\ SequenceTypeOK
  BY DEF CheckoutInv, OwnInv, SequenceInv
<1>2. phase[r] \in Early => ~order[r].placed
  BY DEF PlacedByInsert
<1>3. CASE Rests(r)
  BY <1>1, <1>3 DEF Rests, NumberAt, Counter
<1>4. CASE Mints(r)
  BY <1>1, <1>4 DEF Mints, NumberAt, Counter, Unnumbered, Numbered, Before
<1>5. CASE Gets(r)
  <2>1. mint'[r] = NoMint /\ ~order'[r].placed
    <3>1. phase[r] = "number" /\ mint' = [mint EXCEPT ![r] = NoMint] /\ order' = order
      BY <1>5 DEF Gets
    <3> QED
      BY <1>1, <1>2, <3>1 DEF SequenceTypeOK, Early
  <2>2. loc'[r].number # NoNumber
    <3>1. CASE mint[r].step = "minted"
      <4>1. mint[r].seen # 0
        BY <3>1 DEF NumbersApart, Swapped, NumberOf
      <4> QED
        BY <1>5, <3>1, <4>1 DEF Gets, NoNumber
    <3>2. CASE mint[r].step = "failed"
      BY <1>5, <3>2 DEF Gets, LegacyNumber, NoNumber
    <3> QED
      BY <1>5, <3>1, <3>2 DEF Gets
  <2>3. phase'[r] = "refused" \/ Numbered(r)'
    BY <1>5 DEF Gets
  <2>4. phase'[r] # "number" /\ ~Unnumbered(r)'
    BY <2>3 DEF Numbered, Unnumbered, Before
  <2> QED
    BY <2>1, <2>2, <2>4 DEF NumberAt
<1>6. CASE Places(r)
  BY <1>1, <1>6 DEF Places, NumberAt, Unnumbered, Numbered, Early, Before
<1>7. CASE Clashes(r)
  <2>1. loc[r].number.legacy
    BY <1>7, ClashIsLegacy DEF Clashes
  <2> QED
    BY <1>1, <1>2, <1>7, <2>1 DEF Clashes, NumberAt, Counter, Unnumbered, Numbered, Early, Before
<1> QED
  BY <1>3, <1>4, <1>5, <1>6, <1>7 DEF Moves

\* A step of a request gives it the number the counter mints, which no other request
\* has, and takes no number from anyone.
LEMMA ApartMoves ==
  ASSUME CheckoutInv, ReadInv, \A q \in Requests : NumberAt(q), NumbersApart, sequence.val = Cardinality(Swapped),
         NEW r \in Requests, \A q \in Requests \ {r} : Same(q), Moves(r)
  PROVE  NumbersApart' /\ sequence'.val = Cardinality(Swapped')
<1>1. sequence.val \in Nat /\ SequenceInv /\ SequenceTypeOK /\ RowTypes
  BY DEF CheckoutInv, OwnInv, SequenceInv, SequenceTypeOK
<1>2. \A q \in Requests \ {r} : (q \in Swapped' <=> q \in Swapped) /\ NumberOf(q)' = NumberOf(q)
  BY DEF Same, Swapped, Counter, NumberOf
<1>3. NumberAt(r) /\ (r \in Swapped => NumberOf(r) \in 1..sequence.val)
  BY DEF NumbersApart
<1>4. ASSUME UNCHANGED sequence.val, r \in Swapped' <=> r \in Swapped,
             r \in Swapped => NumberOf(r)' = NumberOf(r)
      PROVE  NumbersApart' /\ sequence'.val = Cardinality(Swapped')
  <2>1. Swapped' = Swapped
    BY <1>2, <1>4 DEF Swapped
  <2>2. \A q \in Swapped : NumberOf(q)' = NumberOf(q)
    BY <1>2, <1>4 DEF Swapped
  <2> QED
    BY <1>4, <2>1, <2>2 DEF NumbersApart
<1>5. CASE Rests(r) \/ Places(r) \/ Clashes(r)
  <2>1. UNCHANGED <<sequence, mint>> /\ loc'[r].number = loc[r].number
    BY <1>5 DEF Rests, Places, Clashes
  <2> QED
    BY <1>4, <2>1 DEF Swapped, Counter, NumberOf
<1>6. CASE Gets(r)
  <2>1. mint'[r] = NoMint /\ UNCHANGED sequence /\ ~Counter(r)
    BY <1>1, <1>3, <1>6 DEF Gets, SequenceTypeOK, NumberAt
  <2>2. CASE mint[r].step = "minted"
    <3>1. r \in Swapped /\ NumberOf(r) = mint[r].seen /\ mint[r].seen # 0
      BY <1>3, <2>2 DEF Swapped, NumberOf
    <3>2. loc'[r].number = [legacy |-> FALSE, n |-> mint[r].seen]
      BY <1>6, <2>2 DEF Gets
    <3>3. r \in Swapped' /\ NumberOf(r)' = mint[r].seen
      BY <2>1, <3>1, <3>2 DEF Swapped, Counter, NumberOf, NoMint, NoNumber
    <3> QED
      BY <1>4, <2>1, <3>1, <3>3
  <2>3. CASE mint[r].step = "failed"
    <3>1. loc'[r].number.legacy
      BY <1>6, <2>3 DEF Gets, LegacyNumber
    <3>2. r \notin Swapped /\ r \notin Swapped'
      BY <2>1, <2>3, <3>1 DEF Swapped, Counter, NoMint
    <3> QED
      BY <1>4, <2>1, <3>2
  <2> QED
    BY <1>6, <2>2, <2>3 DEF Gets
<1>7. CASE Mints(r)
  <2>1. loc' = loc /\ r \in Minters /\ (GenerateNumber(r) \/ MintStep(r)) /\ ~Counter(r)
    BY <1>3, <1>7 DEF Mints, NumberAt, Requests
  <2>2. r \notin Swapped
    BY <1>1, <2>1, MintsNext DEF Swapped
  <2>3. CASE sequence'.val = sequence.val /\ mint'[r].step # "minted"
    BY <1>4, <2>1, <2>2, <2>3 DEF Swapped, Counter
  <2>4. CASE /\ sequence'.val = sequence.val + 1
             /\ mint'[r].step = "minted" /\ mint'[r].seen = sequence'.val
    <3>1. Swapped' = Swapped \cup {r} /\ NumberOf(r)' = sequence.val + 1
      BY <1>2, <2>4 DEF Swapped, NumberOf
    <3>2. IsFiniteSet(Swapped)
      BY RequestsAssumption, FS_Subset DEF Swapped, Requests
    <3>3. Cardinality(Swapped') = sequence.val + 1
      <4>1. Cardinality(Swapped \cup {r}) = Cardinality(Swapped) + 1
        BY <2>2, <3>2, FS_AddElement
      <4> QED
        BY <3>1, <4>1
    <3>4. \A q \in Swapped : q # r /\ NumberOf(q)' = NumberOf(q) /\ NumberOf(q) \in 1..sequence.val
      BY <1>2, <2>2 DEF Swapped, NumbersApart
    <3>5. \A p, q \in Swapped : NumberOf(p) = NumberOf(q) => p = q
      BY DEF NumbersApart
    <3>6. \A q \in Swapped' : NumberOf(q)' \in 1..sequence'.val
      BY <1>1, <2>4, <3>1, <3>4
    <3>7. \A p, q \in Swapped' : NumberOf(p)' = NumberOf(q)' => p = q
      BY <1>1, <3>1, <3>4, <3>5
    <3> QED
      BY <2>4, <3>3, <3>6, <3>7 DEF NumbersApart
  <2> QED
    BY <1>1, <2>1, <2>3, <2>4, MintsNext
<1> QED
  BY <1>5, <1>6, <1>7 DEF Moves

\* Every try of a request costs it all the attempts of a call, and each of those a
\* number minted for another request.
LEMMA SpentAtMoves ==
  ASSUME CheckoutInv, ReadInv, PlacedByInsert, \A q \in Requests : NumberAt(q), NumbersApart,
         NEW r \in Requests, SpentAt(r), Moves(r), form' = form
  PROVE  SpentAt(r)'
<1>1. NumberAt(r) /\ SequenceInv /\ SequenceTypeOK /\ RowTypes /\ ClashesLeft /\ r \in Minters
  BY DEF CheckoutInv, OwnInv, SequenceInv, Requests
<1> DEFINE c == loc[r].clashes
<1>2. /\ c \in Nat /\ MaxTries \in Nat /\ sequence.val \in Nat /\ MaxTries * c \in Nat
      /\ MaxTries * (c + 1) = MaxTries * c + MaxTries /\ MaxTries * 0 = 0
  BY <1>1, MaxTriesAssumption DEF RowTypes, SequenceTypeOK
<1>3. CASE Rests(r)
  <2>1. mint'[r] = NoMint /\ phase[r] # "number" /\ UNCHANGED sequence /\ loc'[r].clashes = c
    BY <1>1, <1>3 DEF Rests, NumberAt
  <2>2. ASSUME phase'[r] = "number" PROVE c = 0
    BY <1>1, <1>2, <1>3, <2>2 DEF Rests, Unnumbered, ClashesLeft, Before, Early
  <2>3. phase'[r] = "number" => MaxTries * loc'[r].clashes + 0 <= sequence'.val
    <3> SUFFICES ASSUME phase'[r] = "number" PROVE MaxTries * loc'[r].clashes + 0 <= sequence'.val
      OBVIOUS
    <3>1. loc'[r].clashes = 0 /\ sequence'.val = sequence.val
      BY <2>1, <2>2
    <3> QED
      BY <1>2, <3>1
  <2> QED
    BY <1>3, <2>1, <2>3 DEF Rests, SpentAt, Spent, NoMint
<1>4. CASE Mints(r)
  BY <1>1, <1>2, <1>4, AttemptSpent DEF Mints, SpentAt, Spent
<1>5. CASE Gets(r)
  <2>1. phase[r] = "number" /\ phase'[r] # "number" /\ UNCHANGED sequence /\ loc'[r].clashes = c
    BY <1>5 DEF Gets, Numbered
  <2>2. ASSUME mint[r].step = "failed" PROVE MaxTries * (c + 1) <= sequence.val
    BY <1>1, <1>2, <2>1, <2>2 DEF SpentAt, Spent, ReadInv
  <2> QED
    BY <1>5, <2>1, <2>2 DEF Gets, SpentAt
<1>6. CASE Places(r)
  BY <1>6 DEF Places, SpentAt, Early
<1>7. CASE Clashes(r)
  <2>1. loc[r].number.legacy /\ phase[r] # "number"
    BY <1>7, ClashIsLegacy DEF Clashes
  <2>2. mint'[r] = NoMint /\ phase'[r] = "number" /\ UNCHANGED sequence /\ loc'[r].clashes = c + 1
    BY <1>1, <1>7, <2>1 DEF Clashes, NumberAt
  <2>3. MaxTries * (c + 1) <= sequence.val
    BY <2>1 DEF SpentAt
  <2> QED
    BY <1>2, <2>2, <2>3 DEF SpentAt, Spent, NoMint
<1> QED
  BY <1>3, <1>4, <1>5, <1>6, <1>7 DEF Moves

\* The legacy numbers are placed one after another, and a request clashes with one
\* larger than those it clashed with before.
LEMMA LegacyRunMoves ==
  ASSUME CheckoutInv, PlacedByInsert, \A q \in Requests : NumberAt(q) /\ LegacyRunAt(q), NumbersApart,
         NEW r \in Requests, \A q \in Requests \ {r} : Same(q), Moves(r), form' = form
  PROVE  LegacyRunAt(r)'
<1>1. RowTypes /\ order \in [Requests -> OrderType]
  BY DEF CheckoutInv, OwnInv, RowTypes
<1> DEFINE c == loc[r].clashes
<1>2. c \in Nat /\ loc[r].number.n \in Nat /\ LegacyRunAt(r) /\ NumberAt(r)
  BY <1>1 DEF RowTypes, Number
<1>3. \A k : LegacyPlaced(k) => LegacyPlaced(k)'
  BY LegacyStays
<1>4. CASE Rests(r)
  <2>1. phase[r] = "idle" => ~loc[r].number.legacy
    BY <1>2 DEF NumberAt, Unnumbered, Before, NoNumber
  <2> QED
    BY <1>2, <1>3, <1>4, <2>1 DEF Rests, LegacyRunAt
<1>5. CASE Mints(r)
  BY <1>2, <1>3, <1>5 DEF Mints, LegacyRunAt
<1>6. CASE Gets(r)
  <2>1. phase[r] = "number" /\ loc'[r].clashes = c /\ \A k \in 1..c : LegacyPlaced(k)'
    BY <1>2, <1>3, <1>6 DEF Gets, LegacyRunAt
  <2>2. CASE mint[r].step = "minted"
    BY <1>6, <2>1, <2>2 DEF Gets, LegacyRunAt
  <2>3. CASE mint[r].step = "failed"
    <3>1. PICK n \in Nat \ {0} :
            /\ LegacyNumber = [legacy |-> TRUE, n |-> n]
            /\ \A o \in Placed : order[o].number.legacy => order[o].number.n < n
            /\ n = 1 \/ \E o \in Placed : order[o].number.legacy /\ n = order[o].number.n + 1
      BY <1>1, LegacyNext
    <3>2. loc'[r].number = [legacy |-> TRUE, n |-> n]
      BY <1>6, <2>3, <3>1 DEF Gets
    <3>3. \A k \in 1..(n - 1) : LegacyPlaced(k)
      <4>1. ASSUME NEW o \in Placed, order[o].number.legacy, n = order[o].number.n + 1
            PROVE  \A k \in 1..(n - 1) : LegacyPlaced(k)
        <5>1. /\ o \in Requests /\ order[o].placed /\ loc[o].number = order[o].number
              /\ order[o].number \in Number /\ LegacyRunAt(o)
          BY <1>1, <4>1 DEF NumberAt, Placed, OrderType
        <5>2. order[o].number = [legacy |-> TRUE, n |-> n - 1]
          <6>1. order[o].number.n = n - 1
            BY <4>1, <5>1 DEF Number
          <6> QED
            BY <4>1, <5>1, <6>1 DEF Number
        <5>3. LegacyPlaced(n - 1)
          BY <5>1, <5>2 DEF LegacyAt, LegacyPlaced
        <5>4. \A k \in 1..(n - 2) : LegacyPlaced(k)
          BY <5>1, <5>2 DEF LegacyRunAt
        <5> QED
          BY <5>3, <5>4
      <4> QED
        BY <3>1, <4>1
    <3>4. c < n
      <4>1. ASSUME c # 0 PROVE c < n
        <5>1. PICK p \in Requests : LegacyAt(p, c)
          BY <1>2, <4>1 DEF LegacyRunAt, LegacyPlaced
        <5> QED
          BY <3>1, <5>1 DEF LegacyAt, Placed
      <4> QED
        BY <3>1, <4>1
    <3> QED
      BY <1>3, <2>1, <3>2, <3>3, <3>4 DEF LegacyRunAt
  <2> QED
    BY <1>6, <2>2, <2>3 DEF Gets
<1>7. CASE Places(r)
  BY <1>2, <1>3, <1>7 DEF Places, LegacyRunAt
<1>8. CASE Clashes(r)
  <2>1. loc[r].number.legacy /\ phase[r] \in Early \ {"number"}
    BY <1>8, ClashIsLegacy DEF Clashes, Early
  <2>2. (\A k \in 1..(loc[r].number.n - 1) : LegacyPlaced(k)) /\ c < loc[r].number.n
    BY <1>2, <2>1 DEF LegacyRunAt
  <2>3. LegacyPlaced(loc[r].number.n)
    BY <1>1, <1>8, <2>1 DEF Clashes, NumberTaken, Placed, LegacyAt, LegacyPlaced, RowTypes, Number
  <2>4. \A k \in 1..(c + 1) : LegacyPlaced(k)
    BY <1>2, <2>2, <2>3
  <2> QED
    BY <1>3, <1>8, <2>2, <2>4 DEF Clashes, LegacyRunAt
<1> QED
  BY <1>4, <1>5, <1>6, <1>7, <1>8 DEF Moves

\* Nothing changes for a step that leaves every request and the counter alone.
LEMMA TriesInvRests ==
  ASSUME CheckoutInv, TriesInv, \A q \in Requests : Same(q), UNCHANGED <<form, sequence>>
  PROVE  TriesInv'
<1>1. RowTypes /\ SequenceTypeOK /\ MaxTries \in Nat
  BY MaxTriesAssumption DEF CheckoutInv, OwnInv, SequenceInv
<1>2. \A k : LegacyPlaced(k) => LegacyPlaced(k)'
  BY DEF Same, LegacyAt, LegacyPlaced
<1>3. ASSUME NEW q \in Requests PROVE NumberAt(q)' /\ LegacyRunAt(q)' /\ SpentAt(q)'
  <2>1. /\ mint[q] \in MintType /\ sequence.val \in Nat
        /\ loc[q].clashes \in Nat /\ loc[q].number.n \in Nat
    BY <1>1 DEF RowTypes, Number, SequenceTypeOK, Requests
  <2>2. MaxTries * loc[q].clashes \in Nat /\ MaxTries * (loc[q].clashes + 1) \in Nat
    BY <1>1, <2>1
  <2>3. NumberAt(q) /\ LegacyRunAt(q) /\ SpentAt(q)
    BY DEF TriesInv
  <2> QED
    BY <1>2, <2>1, <2>2, <2>3, SameKeeps
<1>4. Swapped' = Swapped /\ \A q \in Swapped : NumberOf(q)' = NumberOf(q)
  BY DEF Same, Swapped, Counter, NumberOf
<1>5. NumbersApart'
  BY <1>4 DEF TriesInv, NumbersApart
<1>6. sequence'.val = Cardinality(Swapped')
  BY <1>4 DEF TriesInv
<1> QED
  BY <1>3, <1>5, <1>6 DEF TriesInv

\* A step of a request keeps the count of tries.
LEMMA TriesInvServe ==
  ASSUME CheckoutInv, HoldInv, PlacedByInsert, ReadInv, TriesInv, ~outage, ~Fault,
         NEW r \in Requests, Serve(r), form' = form
  PROVE  TriesInv'
<1>1. RowTypes /\ SequenceTypeOK /\ SequenceInv /\ MaxTries \in Nat
  BY MaxTriesAssumption DEF CheckoutInv, OwnInv, SequenceInv
<1>2. \A q \in Requests \ {r} : Same(q)
  BY ServeMoves
<1>3. (Same(r) /\ UNCHANGED sequence) \/ Moves(r)
  BY ServeMoves
<1>4. CASE Same(r) /\ UNCHANGED sequence
  BY <1>2, <1>4, TriesInvRests
<1>5. CASE Moves(r)
  <2>1. /\ \A q \in Requests : NumberAt(q) /\ LegacyRunAt(q) /\ SpentAt(q)
        /\ NumbersApart /\ sequence.val = Cardinality(Swapped)
    BY DEF TriesInv
  <2>2. NumberAt(r)'
    BY <1>5, <2>1, NumberAtMoves
  <2>3. SpentAt(r)'
    BY <1>5, <2>1, SpentAtMoves
  <2>4. LegacyRunAt(r)'
    BY <1>2, <1>5, <2>1, LegacyRunMoves
  <2>5. NumbersApart' /\ sequence'.val = Cardinality(Swapped')
    BY <1>2, <1>5, <2>1, ApartMoves
  <2>6. \A k : LegacyPlaced(k) => LegacyPlaced(k)'
    BY <1>2, <1>5, LegacyStays
  <2>7. sequence.val \in Nat /\ sequence'.val \in Nat /\ sequence.val <= sequence'.val
    <3>1. sequence.val \in Nat
      BY <1>1 DEF SequenceTypeOK
    <3>2. CASE Mints(r)
      <4>1. SequenceNext
        BY <3>2 DEF Mints, SequenceNext, Requests
      <4> QED
        BY <1>1, <3>1, <4>1, CounterStays
    <3>3. CASE ~Mints(r)
      BY <1>5, <3>1, <3>3 DEF Moves, Rests, Gets, Places, Clashes
    <3> QED
      BY <3>2, <3>3
  <2>8. ASSUME NEW q \in Requests \ {r} PROVE NumberAt(q)' /\ LegacyRunAt(q)' /\ SpentAt(q)'
    <3>1. /\ mint[q] \in MintType /\ loc[q].clashes \in Nat /\ loc[q].number.n \in Nat
      BY <1>1 DEF RowTypes, Number, SequenceTypeOK, Requests
    <3>2. MaxTries * loc[q].clashes \in Nat /\ MaxTries * (loc[q].clashes + 1) \in Nat
      BY <1>1, <3>1
    <3> QED
      BY <1>2, <2>1, <2>6, <2>7, <3>1, <3>2, SameKeeps
  <2> QED
    BY <2>2, <2>3, <2>4, <2>5, <2>8 DEF TriesInv
<1> QED
  BY <1>3, <1>4, <1>5

\* Every step keeps the count of tries, unless there was a fault.
LEMMA TriesInvStep ==
  ASSUME CheckoutInv, HoldInv, PlacedByInsert, ReadInv, faults = 0 => ~outage,
         faults = 0 => TriesInv, [Next]_vars
  PROVE  faults' = 0 => TriesInv'
<1> SUFFICES ASSUME faults' = 0 PROVE TriesInv'
  OBVIOUS
<1>1. form' = form /\ faults = 0 /\ ~Fault /\ TriesInv /\ ~outage
  BY RequestSteps, FaultsCount
<1>2. ASSUME NEW r \in Requests, Serve(r) PROVE TriesInv'
  BY <1>1, <1>2, TriesInvServe
<1>3. ASSUME NEW r \in Requests, Crash(r) PROVE FALSE
  BY <1>1, <1>3 DEF Crash
<1>4. ASSUME NEW d \in Desks, CancelOrder(d) PROVE TriesInv'
  <2>1. UNCHANGED <<loc, phase, mint, sequence>>
    BY <1>4 DEF CancelOrder, sequenceVars
  <2>2. PICK o \in Requests : order' = [order EXCEPT ![o].cancelled = TRUE]
    BY <1>4 DEF CancelOrder, Placed
  <2>3. order \in [Requests -> OrderType]
    BY DEF CheckoutInv, OwnInv, RowTypes
  <2>4. \A q \in Requests : Same(q)
    BY <2>1, <2>2, <2>3 DEF Same
  <2> QED
    BY <1>1, <2>1, <2>4, TriesInvRests
<1>5. CASE UNCHANGED <<loc, phase, mint, sequence, order>>
  BY <1>1, <1>5, TriesInvRests DEF Same
<1>6. ASSUME NEW d \in Desks, MoveByHand(d) \/ DeskWorks(d) PROVE UNCHANGED <<loc, phase, mint, sequence, order>>
  BY <1>6 DEF MoveByHand, DeskWorks, rows, sequenceVars
<1>7. Release \/ Outage \/ UNCHANGED vars => UNCHANGED <<loc, phase, mint, sequence, order>>
  BY DEF Release, Outage, vars, rows, sequenceVars
<1> QED
  BY <1>2, <1>3, <1>4, <1>5, <1>6, <1>7 DEF Next

\* A checkout that fails its last insert has met a number of the counter for each of
\* its attempts, a legacy order for each of its tries, and has neither itself.
LEMMA TriesCrowd ==
  ASSUME CheckoutInv, PlacedByInsert, TriesInv, NEW r \in Requests, phase[r] = "insert",
         NumberTaken(r), loc[r].clashes + 1 = MaxTries
  PROVE  MaxTries * (MaxTries + 1) < Cardinality(Requests)
<1>1. RowTypes /\ MaxTries \in Nat \ {0} /\ loc[r].clashes \in Nat /\ loc[r].number \in Number
  BY MaxTriesAssumption DEF CheckoutInv, OwnInv, RowTypes
<1>2. /\ \A q \in Requests : NumberAt(q) /\ LegacyRunAt(q) /\ SpentAt(q)
      /\ NumbersApart /\ sequence.val = Cardinality(Swapped)
  BY DEF TriesInv
<1>3. loc[r].number.legacy
  BY <1>2, ClashIsLegacy
<1>4. MaxTries * MaxTries <= Cardinality(Swapped)
  BY <1>2, <1>3 DEF SpentAt
<1>5. \A k \in 1..MaxTries : LegacyPlaced(k)
  <2>1. (\A k \in 1..(loc[r].number.n - 1) : LegacyPlaced(k)) /\ MaxTries <= loc[r].number.n
    BY <1>1, <1>2, <1>3 DEF LegacyRunAt, Early, Number
  <2>2. LegacyPlaced(loc[r].number.n)
    BY <1>1, <1>3 DEF NumberTaken, Placed, LegacyAt, LegacyPlaced, Number
  <2> QED
    BY <1>1, <2>1, <2>2 DEF Number
<1> DEFINE who == [k \in 1..MaxTries |-> CHOOSE p \in Requests : LegacyAt(p, k)]
           Queue == {p \in Requests : \E k \in 1..MaxTries : LegacyAt(p, k)}
<1>6. \A k \in 1..MaxTries : who[k] \in Queue /\ LegacyAt(who[k], k)
  BY <1>5 DEF LegacyPlaced
<1>7. who \in Injection(1..MaxTries, Queue)
  <2>1. who \in [1..MaxTries -> Queue]
    BY <1>6
  <2>2. ASSUME NEW k \in 1..MaxTries, NEW j \in 1..MaxTries, who[k] = who[j] PROVE k = j
    <3>1. LegacyAt(who[k], k) /\ LegacyAt(who[k], j)
      BY <1>6, <2>2
    <3> HIDE DEF who
    <3> QED
      BY <3>1 DEF LegacyAt
  <2> HIDE DEF who, Queue
  <2> QED
    BY <2>1, <2>2 DEF Injection, IsInjective
<1>8. IsFiniteSet(Requests) /\ IsFiniteSet(Queue) /\ IsFiniteSet(Swapped)
  BY RequestsAssumption, FS_Subset DEF Requests, Swapped
<1>9. \A p \in Queue : p \notin Swapped /\ p # r
  <2> SUFFICES ASSUME NEW p \in Queue PROVE p \notin Swapped /\ p # r
    OBVIOUS
  <2> PICK k \in 1..MaxTries : LegacyAt(p, k)
    OBVIOUS
  <2>1. order[p].placed /\ order[p].number.legacy
    BY DEF LegacyAt
  <2>2. phase[p] \notin Early
    BY <2>1 DEF PlacedByInsert
  <2>3. mint[p] = NoMint /\ loc[p].number.legacy
    BY <1>2, <2>1, <2>2 DEF NumberAt, Early
  <2> QED
    BY <2>2, <2>3 DEF Swapped, Counter, NoMint, Early
<1>10. r \notin Swapped
  BY <1>2, <1>3 DEF NumberAt, Swapped, Counter, NoMint
<1> HIDE DEF who, Queue
<1>11. MaxTries <= Cardinality(Queue)
  <2>1. IsFiniteSet(1..MaxTries) /\ Cardinality(1..MaxTries) = MaxTries
    <3>1. IsFiniteSet(1..MaxTries) /\ Cardinality(1..MaxTries) = IF 1 > MaxTries THEN 0 ELSE MaxTries - 1 + 1
      <4>1. 1 \in Int /\ MaxTries \in Int
        BY <1>1
      <4> QED
        BY <4>1, FS_Interval, Zenon
    <3> QED
      BY <1>1, <3>1
  <2> QED
    BY <1>7, <1>8, <2>1, FS_Injection
<1>12. Cardinality(Swapped \cup Queue) = Cardinality(Swapped) + Cardinality(Queue)
  <2>1. Cardinality(Swapped \cap Queue) = 0
    <3>1. Swapped \cap Queue = {}
      BY <1>9
    <3> QED
      BY <3>1, FS_EmptySet
  <2>2. Cardinality(Swapped \cup Queue) = Cardinality(Swapped) + Cardinality(Queue) - Cardinality(Swapped \cap Queue)
    BY <1>8, FS_Union
  <2>3. Cardinality(Swapped) \in Nat /\ Cardinality(Queue) \in Nat
    BY <1>8, FS_CardinalityType
  <2> QED
    BY <2>1, <2>2, <2>3
<1>13. Cardinality(Swapped \cup Queue \cup {r}) = Cardinality(Swapped) + Cardinality(Queue) + 1
  <2>1. IsFiniteSet(Swapped \cup Queue) /\ r \notin Swapped \cup Queue
    BY <1>8, <1>9, <1>10, FS_Union
  <2>2. Cardinality(Swapped \cup Queue \cup {r}) = Cardinality(Swapped \cup Queue) + 1
    BY <2>1, FS_AddElement
  <2> QED
    BY <1>12, <2>2
<1>14. Cardinality(Swapped \cup Queue \cup {r}) <= Cardinality(Requests)
  <2>1. Swapped \cup Queue \cup {r} \subseteq Requests
    BY DEF Swapped, Queue
  <2> QED
    BY <1>8, <2>1, FS_Subset
<1>15. /\ Cardinality(Swapped) \in Nat /\ Cardinality(Queue) \in Nat /\ Cardinality(Requests) \in Nat
       /\ MaxTries * (MaxTries + 1) = MaxTries * MaxTries + MaxTries /\ MaxTries * MaxTries \in Nat
  BY <1>1, <1>8, FS_CardinalityType
<1> QED
  BY <1>1, <1>4, <1>11, <1>13, <1>14, <1>15

\* So many requests cannot use up the tries of one of them.
Enough == Cardinality(Requests) <= MaxTries * (MaxTries + 1)

CrowdInv == ReadInv /\ (faults = 0 => TriesInv /\ TriesLeft)

\* Nobody has tried for a number in the initial states.
LEMMA CrowdInitial == Init => CrowdInv
<1> SUFFICES ASSUME Init PROVE CrowdInv
  OBVIOUS
<1>1. /\ mint = [m \in Minters |-> NoMint] /\ sequence = [exists |-> FALSE, val |-> 0]
      /\ \A r \in Requests : /\ phase[r] = "idle" /\ order[r] = NoRow
                             /\ loc[r] = [number |-> NoNumber, hold |-> NoHold, clashes |-> 0]
  BY DEF Init, SequenceInit
<1>2. ReadInv
  BY ReadInitial DEF Init
<1>3. ASSUME NEW r \in Requests PROVE NumberAt(r) /\ LegacyRunAt(r) /\ SpentAt(r)
  <2>1. /\ phase[r] = "idle" /\ ~order[r].placed /\ mint[r] = NoMint
        /\ loc[r].number = NoNumber /\ loc[r].clashes = 0 /\ ~loc[r].number.legacy
    <3>1. phase[r] = "idle" /\ ~order[r].placed
      BY <1>1 DEF NoRow
    <3>2. mint[r] = NoMint
      BY <1>1 DEF Requests
    <3>3. loc[r].number = NoNumber /\ loc[r].clashes = 0
      BY <1>1
    <3> QED
      BY <3>1, <3>2, <3>3 DEF NoNumber
  <2> QED
    BY <2>1 DEF NumberAt, LegacyRunAt, SpentAt, Counter, Numbered
<1>5. Swapped = {}
  BY <1>1 DEF Swapped, Counter, NoMint, Requests
<1>6. NumbersApart /\ sequence.val = Cardinality(Swapped)
  BY <1>1, <1>5, FS_EmptySet DEF NumbersApart
<1>7. TriesLeft
  <2>1. 0 < MaxTries /\ \A r \in Requests : loc[r].clashes = 0
    BY <1>1, MaxTriesAssumption
  <2> QED
    BY <2>1 DEF TriesLeft
<1> QED
  BY <1>2, <1>3, <1>6, <1>7 DEF CrowdInv, TriesInv

\* A clash that leaves a checkout without a try needs a crowd.
LEMMA TriesLeftStep ==
  ASSUME Enough, CheckoutInv, HoldInv, PlacedByInsert, faults = 0 => ~outage,
         faults = 0 => TriesInv /\ TriesLeft, [Next]_vars
  PROVE  faults' = 0 => TriesLeft'
<1> SUFFICES ASSUME faults' = 0 PROVE TriesLeft'
  OBVIOUS
<1>1. form' = form /\ faults = 0 /\ ~Fault /\ TriesInv /\ TriesLeft /\ ~outage
  BY RequestSteps, FaultsCount
<1>2. loc \in [Requests -> [number : Number, hold : Holds \cup {NoHold}, clashes : 0..MaxTries]] /\ MaxTries \in Nat
  BY MaxTriesAssumption DEF CheckoutInv, OwnInv, RowTypes
<1>3. ASSUME NEW r \in Requests, Serve(r) PROVE TriesLeft'
  <2>1. (\A q \in Requests \ {r} : Same(q)) /\ (Same(r) \/ Moves(r))
    BY <1>1, <1>3, ServeMoves
  <2>2. \A q \in Requests \ {r} : loc'[q].clashes = loc[q].clashes
    BY <2>1 DEF Same
  <2>3. loc'[r].clashes < MaxTries
    <3>1. CASE Clashes(r)
      <4>1. loc[r].clashes + 1 # MaxTries
        <5> SUFFICES ASSUME loc[r].clashes + 1 = MaxTries PROVE FALSE
          OBVIOUS
        <5>1. MaxTries * (MaxTries + 1) < Cardinality(Requests)
          BY <1>1, <3>1, TriesCrowd DEF Clashes
        <5>2. Cardinality(Requests) \in Nat /\ MaxTries * (MaxTries + 1) \in Nat
          BY <1>2, RequestsAssumption, FS_CardinalityType DEF Requests
        <5> QED
          BY <5>1, <5>2 DEF Enough
      <4>2. loc[r].clashes < MaxTries
        BY <1>1 DEF TriesLeft
      <4> QED
        BY <1>2, <3>1, <4>1, <4>2 DEF Clashes
    <3>2. CASE Same(r) \/ Rests(r) \/ Mints(r) \/ Gets(r) \/ Places(r)
      <4>1. loc'[r].clashes = loc[r].clashes
        BY <3>2 DEF Same, Rests, Mints, Gets, Places
      <4> QED
        BY <1>1, <4>1 DEF TriesLeft
    <3> QED
      BY <2>1, <3>1, <3>2 DEF Moves
  <2> QED
    BY <1>1, <2>2, <2>3 DEF TriesLeft
<1>4. ASSUME ~ \E r \in Requests : Serve(r) PROVE UNCHANGED loc
  BY <1>4 DEF Next, Crash, CancelOrder, MoveByHand, DeskWorks, Release, Outage, vars
<1> QED
  BY <1>1, <1>3, <1>4 DEF TriesLeft

\* Every step keeps the crowd too small.
LEMMA CrowdInvStep ==
  ASSUME Enough PROVE CheckoutInv /\ StockInv /\ LeakInv /\ CrowdInv /\ [Next]_vars => CrowdInv'
<1> SUFFICES ASSUME CheckoutInv, StockInv, LeakInv, CrowdInv, [Next]_vars PROVE CrowdInv'
  OBVIOUS
<1>1. ReadInv'
  BY CheckoutStepsCounter, ReadInvStep DEF CheckoutInv, CrowdInv
<1>2. HoldInv /\ PlacedByInsert /\ (faults = 0 => ~outage) /\ ReadInv /\ (faults = 0 => TriesInv /\ TriesLeft)
  BY DEF LeakInv, StockInv, CrowdInv
<1>3. faults' = 0 => TriesInv'
  BY <1>2, TriesInvStep
<1>4. faults' = 0 => TriesLeft'
  BY <1>2, TriesLeftStep
<1> QED
  BY <1>1, <1>3, <1>4 DEF CrowdInv

\* Without errors and crashes no checkout uses up its tries for a number, for up to
\* MaxTries * (MaxTries + 1) requests of any kind, keys and carts: 30 with the tries
\* the code allows.
THEOREM TriesSuffice == ASSUME Enough PROVE Spec => [](faults = 0 => TriesLeft)
<1>1. CrowdInv => (faults = 0 => TriesLeft)
  BY DEF CrowdInv
<1>2. CheckoutInv /\ StockInv /\ LeakInv /\ CrowdInv /\ [Next]_vars => CrowdInv'
  BY CrowdInvStep
<1> QED
  BY <1>1, <1>2, CrowdInitial, LeakInitial, LeakInvStep, StockInitial, StockInvStep, CheckoutInvariant, PTL DEF Spec

\* For so many requests, no reservation outlives its request without errors and crashes
\* unless an order has it, or it was made for a cart checkout whose own values the
\* orders table refused: no other check leaks stock.
THEOREM NothingEverLeaks == ASSUME Enough PROVE Spec => []NoStockLeaks
<1>1. (TriesLeft => NoStockLeaks) /\ (faults = 0 => TriesLeft) => NoStockLeaks
  BY DEF NoStockLeaks
<1>2. Spec => [](faults = 0 => TriesLeft)
  BY TriesSuffice
<1> QED
  BY <1>1, <1>2, NothingLeaks, PTL

=============================================================================
