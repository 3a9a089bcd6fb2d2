-------------------------------- MODULE MCCheckout --------------------------------
(***************************************************************************)
(* Values for Checkout's constants: what the requests ask for.             *)
(***************************************************************************)
EXTENDS Checkout

CONSTANTS q1, q2, d1, k1, k2, c1, g1

ByCart(key, code, points) ==
  [path |-> "cart", key |-> key, cart |-> c1, promo |-> code, points |-> points,
   storable |-> TRUE]

ByItems == [path |-> "items", key |-> NoKey, cart |-> NoCart, promo |-> "given", points |-> 0,
            storable |-> TRUE]

AsGuest == [path |-> "guest", key |-> NoKey, cart |-> g1, promo |-> "none", points |-> 0,
            storable |-> TRUE]

\* With a payment method the orders table does not know.
Mispaid(f) == [f EXCEPT !.storable = FALSE]

Pair(f, g) == [r \in Requests |-> IF r = q1 THEN f ELSE g]

\* A request and its repetition, once with a payment method that is put right, the
\* same cart from two tabs, and the three paths against one another.
PairForms ==
  {Pair(ByCart(k1, "given", 0), ByCart(k1, "given", 0)),
   Pair(ByCart(k1, "none", 1), ByCart(k2, "none", 0)),
   Pair(ByCart(k1, "none", 1), ByCart(k1, "none", 1)),
   Pair(Mispaid(ByCart(k1, "none", 0)), ByCart(k1, "attached", 0)),
   Pair(ByItems, ByCart(NoKey, "attached", 0)),
   Pair(AsGuest, AsGuest),
   Pair(AsGuest, ByItems),
   Pair(Mispaid(AsGuest), Mispaid(ByItems))}

TwoTabs == {Pair(ByCart(k1, "none", 1), ByCart(k2, "none", 1))}

Marks == {2}

=============================================================================
