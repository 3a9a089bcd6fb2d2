--------------------------------- MODULE Checkout ---------------------------------
(***************************************************************************)
(* Concurrent checkouts of one tenant: requests on the three paths (the    *)
(* customer's cart, a list of items, a guest), which number their orders   *)
(* from the shared counter, reserve stock in the inventory service, and    *)
(* then redeem a promo code and loyalty points.  A client that hears       *)
(* nothing sends the request again with the same idempotency key.          *)
(*                                                                         *)
(* The minters are the requests, and an order is named after the request   *)
(* that places it; the tellers are the requests and the desks, where       *)
(* orders are cancelled and points are moved by hand.                      *)
(***************************************************************************)
EXTENDS DocumentSequence, Loyalty

CONSTANTS
  Keys,        \* idempotency keys
  NoKey,
  Carts,
  NoCart,
  NoHold,
  Forms,       \* what the requests ask for
  PromoLimit,  \* the promo code's usage limit
  MaxDesk,     \* bound: calls made at the desks
  MaxFaults    \* bound: database errors, outages, lost replies and crashes

Requests == Minters
Desks == Tellers \ Minters

\* promo: no code, one given with the request, or one attached to the cart before;
\* storable: the row the request asks for passes the checks of the orders table, a
\* payment method among those it knows and a key that is not too long.
FormType == [path : {"cart", "items", "guest"}, key : Keys \cup {NoKey},
             cart : Carts \cup {NoCart}, promo : {"none", "given", "attached"},
             points : 0..MaxPoints, storable : BOOLEAN]

\* Only the cart path takes a key, points and the cart's own promo code; a guest
\* redeems nothing.
ASSUME FormsAssumption ==
  /\ Minters \subseteq Tellers /\ Orders = Minters
  /\ Forms \subseteq [Requests -> FormType]
  /\ \A f \in Forms, r \in Requests :
       /\ f[r].path = "cart" => f[r].cart # NoCart
       /\ f[r].path # "cart" => f[r].key = NoKey /\ f[r].points = 0 /\ f[r].promo # "attached"
       /\ f[r].path = "items" => f[r].cart = NoCart
       /\ f[r].path = "guest" => f[r].promo = "none"

ASSUME RequestsAssumption == IsFiniteSet(Minters)

ASSUME KeysAssumption ==
  Keys \cap Minters = {} /\ NoKey \notin Keys /\ NoHold \notin Keys \cup Minters /\ NoCart \notin Carts

ASSUME CheckoutBounds == {PromoLimit, MaxDesk, MaxFaults} \subseteq Nat

VARIABLES
  form,         \* what each request asks for
  phase,        \* where each request is
  loc,          \* the number and the reservation it holds, and its failed inserts
  order,        \* the orders' rows
  cart,         \* the carts' status
  reserved,     \* inventory: reservations it has made
  freed,        \* inventory: reservations released
  releasing,    \* releases under way on goroutines of their own
  usage,        \* usage_count of the promo code
  redemptions,  \* orders with a row in promo_redemptions
  desk,         \* calls made at the desks so far
  outage,       \* the sequence table cannot be used
  faults        \* faults so far

promo == <<usage, redemptions>>
stock == <<reserved, freed, releasing>>
vars == <<form, phase, loc, order, cart, stock, promo, desk, outage, faults, sequenceVars, loyaltyVars>>

Holds == Keys \cup Requests
Number == [legacy : BOOLEAN, n : Nat]
NoNumber == [legacy |-> FALSE, n |-> 0]

Phases == {"idle", "key", "cart", "promo", "points", "number", "stock", "policy", "insert",
           "redemption", "usage", "redeem", "close", "done", "refused", "dead"}

OrderType == [placed : BOOLEAN, cancelled : BOOLEAN, number : Number,
              hold : Holds \cup {NoHold}]

NoRow == [placed |-> FALSE, cancelled |-> FALSE, number |-> NoNumber, hold |-> NoHold]

TypeOK ==
  /\ SequenceTypeOK /\ LoyaltyTypeOK
  /\ form \in Forms
  /\ phase \in [Requests -> Phases]
  /\ loc \in [Requests -> [number : Number, hold : Holds \cup {NoHold}, clashes : 0..MaxTries]]
  /\ order \in [Requests -> OrderType]
  /\ cart \in [Carts -> {"active", "checked_out"}]
  /\ reserved \subseteq Holds /\ freed \subseteq reserved
  /\ releasing \subseteq Holds
  /\ usage \in Nat
  /\ redemptions \subseteq Requests
  /\ desk \in 0..MaxDesk
  /\ outage \in BOOLEAN
  /\ faults \in 0..MaxFaults

Init ==
  /\ SequenceInit /\ LoyaltyInit
  /\ form \in Forms
  /\ phase = [r \in Requests |-> "idle"]
  /\ loc = [r \in Requests |-> [number |-> NoNumber, hold |-> NoHold, clashes |-> 0]]
  /\ order = [r \in Requests |-> NoRow]
  /\ cart = [c \in Carts |-> "active"]
  /\ reserved = {} /\ freed = {}
  /\ releasing = {}
  /\ usage = 0
  /\ redemptions = {}
  /\ desk = 0
  /\ outage = FALSE
  /\ faults = 0

Fault == faults < MaxFaults /\ faults' = faults + 1

Placed == {r \in Requests : order[r].placed}

-----------------------------------------------------------------------------
(* The way of a request *)

\* Mutant: the usage is counted before the redemption is recorded.
Route_UsageFirst ==
  [cart  |-> <<"key", "cart", "promo", "points", "number", "stock", "insert",
               "usage", "redemption", "redeem", "close">>,
   items |-> <<"promo", "stock", "number", "policy", "insert">>,
   guest |-> <<"cart", "number", "stock", "policy", "insert", "close">>]

\* The steps of each path.  The items path records no redemption.
Route ==
  [cart  |-> <<"key", "cart", "promo", "points", "number", "stock", "insert",
               "redemption", "usage", "redeem", "close">>,
   items |-> <<"promo", "stock", "number", "policy", "insert">>,
   guest |-> <<"cart", "number", "stock", "policy", "insert", "close">>]

Asked(f, step) ==
  CASE step = "key"                     -> f.key # NoKey
    [] step \in {"cart", "close"}       -> f.cart # NoCart
    [] step = "promo"                   -> f.promo = "given"
    [] step \in {"redemption", "usage"} -> f.promo # "none"
    [] step \in {"points", "redeem"}    -> f.points > 0
    [] OTHER                            -> TRUE

\* The step after the one the request is at.
Following(r) ==
  LET steps == Route[form[r].path]
      left == {i \in DOMAIN steps : /\ Asked(form[r], steps[i])
                                    /\ phase[r] = "idle" \/ \E j \in 1..(i - 1) : steps[j] = phase[r]}
  IN IF left = {} THEN "done" ELSE steps[CHOOSE i \in left : \A j \in left : i <= j]

Proceed(r) == phase' = [phase EXCEPT ![r] = Following(r)]

\* Mutant: the cart path gives its reservation back when it fails.
FreedOnRefusal_Cart(r) == {loc[r].hold} \ {NoHold}

\* Mutant: no path gives its reservation back.
FreedOnRefusal_Never(r) == {}

\* releaseReservationOnError; the cart path does not call it.
FreedOnRefusal(r) == IF form[r].path = "cart" THEN {} ELSE {loc[r].hold} \ {NoHold}

\* An error is returned; a guest's cart is marked checked out all the same.
Refuse(r) ==
  /\ phase' = [phase EXCEPT ![r] = "refused"]
  /\ releasing' = releasing \cup FreedOnRefusal(r)
  /\ cart' = IF form[r].path = "guest" /\ form[r].cart # NoCart /\ phase[r] # "cart"
             THEN [cart EXCEPT ![form[r].cart] = "checked_out"] ELSE cart

rows == <<order, promo, desk, outage>>

Start(r) ==
  /\ phase[r] = "idle"
  /\ Proceed(r)
  /\ UNCHANGED <<form, loc, rows, cart, stock, faults, sequenceVars, loyaltyVars>>

\* An order with the key is returned as it is.  An error reads as no such order.
LookUpKey(r) ==
  LET found == \E o \in Placed : form[o].key = form[r].key
  IN /\ phase[r] = "key"
     /\ \/ found /\ phase' = [phase EXCEPT ![r] = "done"] /\ UNCHANGED faults
        \/ ~found /\ Proceed(r) /\ UNCHANGED faults
        \/ Fault /\ Proceed(r)
     /\ UNCHANGED <<form, loc, rows, cart, stock, sequenceVars, loyaltyVars>>

\* The checks made on one read each: the cart is active, a promo code given with the
\* request is not used up (or is refused for what it is limited to), the points are
\* there, and, off the cart path, the payment method and code are acceptable.  A code
\* attached to the cart is not looked at again.
Judge(r) ==
  LET f == form[r]
      passes == CASE phase[r] = "cart"   -> cart[f.cart] = "active"
                  [] phase[r] = "promo"  -> usage < PromoLimit
                  [] phase[r] = "points" -> account.balance >= f.points
                  [] phase[r] = "policy" -> TRUE
  IN /\ phase[r] \in {"cart", "promo", "points", "policy"}
     /\ \/ passes /\ Proceed(r) /\ UNCHANGED <<cart, releasing>>
        \/ (~passes \/ phase[r] \in {"promo", "policy"}) /\ Refuse(r)
     /\ UNCHANGED <<form, loc, rows, reserved, freed, faults, sequenceVars, loyaltyVars>>

-----------------------------------------------------------------------------
(* The number, the reservation and the row *)

\* GenerateNumber runs.
Numbering(r) ==
  /\ phase[r] = "number"
  /\ \/ (GenerateNumber(r) \/ MintStep(r)) /\ UNCHANGED faults
     \/ outage /\ AttemptFails(r) /\ UNCHANGED faults
  /\ UNCHANGED <<form, phase, loc, rows, cart, stock, loyaltyVars>>

\* The legacy number of the day after the largest in use.
LegacyNumber ==
  LET used == {order[o].number.n : o \in {x \in Placed : order[x].number.legacy}}
  IN [legacy |-> TRUE, n |-> IF used = {} THEN 1 ELSE 1 + CHOOSE n \in used : \A k \in used : k <= n]

\* GenerateOrderNumber, whose look at the orders may fail as well; a number made
\* after a clash goes straight to the insert, and one made after the last try is of
\* no use.
TakeNumber(r) ==
  /\ phase[r] = "number"
  /\ \/ /\ loc' = [loc EXCEPT ![r].number = IF mint[r].step = "minted"
                                             THEN [legacy |-> FALSE, n |-> mint[r].seen]
                                             ELSE LegacyNumber]
        /\ IF loc[r].clashes = MaxTries THEN Refuse(r)
           ELSE /\ IF loc[r].clashes > 0 THEN phase' = [phase EXCEPT ![r] = "insert"] ELSE Proceed(r)
                /\ UNCHANGED <<cart, releasing>>
     \/ /\ mint[r].step = "failed" /\ outage
        /\ Refuse(r)
        /\ UNCHANGED loc
  /\ Return(r)
  /\ UNCHANGED <<form, rows, reserved, freed, faults, loyaltyVars>>

\* Mutant: the empty key of a request without one is sent as it is.
HoldOf_Raw(r) == form[r].key

HoldOf(r) == IF form[r].key # NoKey THEN form[r].key ELSE r

\* The inventory service reserves once per key and answers a repetition with the
\* reservation it made, kept or released.  A partial reservation is given
\* back and the request refused; on an error the order goes on without one.
ReserveStock(r) ==
  LET id == HoldOf(r)
  IN /\ phase[r] = "stock"
     /\ \/ /\ reserved' = reserved \cup {id}
           /\ loc' = [loc EXCEPT ![r].hold = id]
           /\ Proceed(r)
           /\ UNCHANGED <<cart, releasing, faults>>
        \/ /\ id \notin reserved
           /\ Refuse(r)
           /\ UNCHANGED <<reserved, loc, faults>>
        \/ /\ Fault
           /\ reserved' \in {reserved, reserved \cup {id}}
           /\ Proceed(r)
           /\ UNCHANGED <<cart, releasing, loc>>
     /\ UNCHANGED <<form, rows, freed, sequenceVars, loyaltyVars>>

NumberTaken(r) == \E o \in Placed : order[o].number = loc[r].number

\* Mutant: the idempotency key is not unique.
KeyTaken_Never(r) == FALSE

\* The partial unique index on the idempotency key.
KeyTaken(r) == form[r].key # NoKey /\ \E o \in Placed : form[o].key = form[r].key

\* createOrderWithRetry: a number in use is replaced by another one.  A row that does
\* not pass its checks is refused before the database sees it.
InsertOrder(r) ==
  /\ phase[r] = "insert"
  /\ \/ /\ form[r].storable /\ ~NumberTaken(r) /\ ~KeyTaken(r)
        /\ order' = [order EXCEPT ![r] = [placed |-> TRUE, cancelled |-> FALSE,
                                          number |-> loc[r].number, hold |-> loc[r].hold]]
        /\ Proceed(r)
        /\ UNCHANGED <<loc, cart, releasing, faults>>
     \/ /\ form[r].storable /\ NumberTaken(r)
        /\ loc' = [loc EXCEPT ![r].clashes = @ + 1]
        /\ phase' = [phase EXCEPT ![r] = "number"]
        /\ UNCHANGED <<order, cart, releasing, faults>>
     \/ /\ ~form[r].storable \/ KeyTaken(r)
        /\ Refuse(r)
        /\ UNCHANGED <<loc, order, faults>>
     \/ /\ Fault
        /\ Refuse(r)
        /\ UNCHANGED <<loc, order>>
  /\ UNCHANGED <<form, promo, desk, outage, reserved, freed, sequenceVars, loyaltyVars>>

-----------------------------------------------------------------------------
(* After the row *)

\* RecordPromoRedemption, its first write: after an error the usage is not counted.
RecordRedemption(r) ==
  /\ phase[r] = "redemption"
  /\ \/ redemptions' = redemptions \cup {r} /\ Proceed(r) /\ UNCHANGED faults
     \/ /\ Fault
        /\ phase' = [phase EXCEPT ![r] = IF form[r].points > 0 THEN "redeem" ELSE "close"]
        /\ UNCHANGED redemptions
  /\ UNCHANGED <<form, loc, order, usage, desk, outage, cart, stock, sequenceVars, loyaltyVars>>

CountUsage(r) ==
  /\ phase[r] = "usage"
  /\ \/ usage' = usage + 1 /\ UNCHANGED faults
     \/ Fault /\ UNCHANGED usage
  /\ Proceed(r)
  /\ UNCHANGED <<form, loc, order, redemptions, desk, outage, cart, stock, sequenceVars, loyaltyVars>>

\* RedeemPoints runs; its refusal is only logged.
RedeemPoints(r) ==
  /\ phase[r] = "redeem"
  /\ \/ BeginCall(r, "redeem", form[r].points, r) /\ UNCHANGED phase
     \/ LoyaltyStep(r) /\ UNCHANGED phase
     \/ EndCall(r) /\ Proceed(r)
  /\ UNCHANGED <<form, loc, rows, cart, stock, faults, sequenceVars>>

CloseCart(r) ==
  /\ phase[r] = "close"
  /\ cart' = [cart EXCEPT ![form[r].cart] = "checked_out"]
  /\ Proceed(r)
  /\ UNCHANGED <<form, loc, rows, stock, faults, sequenceVars, loyaltyVars>>

Crash(r) ==
  /\ phase[r] \notin {"idle", "done", "refused", "dead"}
  /\ Fault
  /\ phase' = [phase EXCEPT ![r] = "dead"]
  /\ UNCHANGED <<form, loc, rows, cart, stock, sequenceVars, loyaltyVars>>

-----------------------------------------------------------------------------
(* Others *)

\* releaseOrderReservation; its error is only logged.
Release ==
  /\ \E h \in releasing :
       /\ releasing' = releasing \ {h}
       /\ \/ freed' = freed \cup {h} /\ UNCHANGED faults
          \/ UNCHANGED freed /\ Fault
  /\ UNCHANGED <<form, phase, loc, rows, cart, reserved, sequenceVars, loyaltyVars>>

\* The sequence table fails for a while, for every request that is numbering.
Outage ==
  /\ \E r \in Requests : phase[r] = "number"
  /\ \/ ~outage /\ Fault
     \/ outage /\ UNCHANGED faults
  /\ outage' = ~outage
  /\ UNCHANGED <<form, phase, loc, order, promo, desk, cart, stock, sequenceVars, loyaltyVars>>

\* CancelOrder of a placed order, which one caller wins: the stock is freed and the
\* points the order was placed with are given back.
CancelOrder(d) ==
  /\ desk < MaxDesk /\ desk' = desk + 1
  /\ \E o \in Placed :
       /\ ~order[o].cancelled
       /\ order' = [order EXCEPT ![o].cancelled = TRUE]
       /\ releasing' = releasing \cup ({order[o].hold} \ {NoHold})
       /\ IF form[o].points > 0 THEN BeginCall(d, "refund", form[o].points, o)
          ELSE UNCHANGED loyaltyVars
  /\ UNCHANGED <<form, phase, loc, promo, outage, cart, reserved, freed, faults, sequenceVars>>

\* Points of another order are earned, or staff give or take some (bound: only
\* where a request redeems points too).
MoveByHand(d) ==
  /\ desk < MaxDesk /\ desk' = desk + 1
  /\ \E r \in Requests : form[r].points > 0
  /\ \E op \in {"earn", "give", "take"} : BeginCall(d, op, 1, NoOrder)
  /\ UNCHANGED <<form, phase, loc, order, promo, outage, cart, stock, faults, sequenceVars>>

DeskWorks(d) ==
  /\ LoyaltyStep(d) \/ EndCall(d)
  /\ UNCHANGED <<form, phase, loc, rows, cart, stock, faults, sequenceVars>>

-----------------------------------------------------------------------------

Serve(r) ==
  \/ Start(r) \/ LookUpKey(r) \/ Judge(r) \/ Numbering(r) \/ TakeNumber(r) \/ ReserveStock(r)
  \/ InsertOrder(r) \/ RecordRedemption(r) \/ CountUsage(r) \/ RedeemPoints(r) \/ CloseCart(r)

Next ==
  \/ \E r \in Requests : Serve(r) \/ Crash(r)
  \/ \E d \in Desks : CancelOrder(d) \/ MoveByHand(d) \/ DeskWorks(d)
  \/ Release
  \/ Outage

Spec == Init /\ [][Next]_vars

-----------------------------------------------------------------------------
(* Properties *)

Live(r) == order[r].placed /\ ~order[r].cancelled

\* The stock of an order that stands stays reserved: no other request that fails,
\* not even its own repetition with the same reservation, frees it.
StockOfOrdersHeld == \A r \in Requests : Live(r) /\ order[r].hold # NoHold => order[r].hold \in reserved \ freed

Quiet == releasing = {} /\ \A r \in Requests : phase[r] \in {"idle", "done", "refused"}

\* A cart checkout refused for values of its own that the orders table does not take.
Unstorable(r) == form[r].path = "cart" /\ ~form[r].storable /\ phase[r] = "refused"

\* Without errors and crashes a reservation outlives its request only with an order
\* that stands, whichever check fails and whichever of two repetitions loses.  The one
\* exception is a leak of the code: on the cart path nothing looks at the payment
\* method before the stock is reserved, the insert refuses it, and Checkout returns
\* without releaseReservationOnError.
NoStockLeaks ==
  Quiet /\ faults = 0 =>
    reserved \ freed \subseteq {order[r].hold : r \in {x \in Requests : Live(x)}}
                              \cup {loc[r].hold : r \in {x \in Requests : Unstorable(x)}}

\* However often a request is repeated, and wherever the first one died, its key
\* places one order, redeems one promo code and takes points once.
RetryActsOnce ==
  \A r, s \in Requests :
    /\ form[r].key = form[s].key /\ form[r].key # NoKey
    /\ {r, s} \subseteq Placed \cup redemptions \cup deducted
    => r = s

\* The usage count never runs ahead of the redemptions it counts, although a crash
\* or an error may leave it behind.
UsageBacked == usage <= Cardinality(redemptions)

\* "Refund loyalty points if they were redeemed": a cancelled order gives points
\* back only if they have been taken once its checkout is through.
PointsBackIfTaken == \A r \in givenBack : phase[r] = "done" => r \in deducted

=============================================================================
