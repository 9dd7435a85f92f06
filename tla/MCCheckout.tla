------------------------------ MODULE MCCheckout ------------------------------
(***************************************************************************)
(* Instances of Checkout for TLC: two or three requests, two products, and *)
(* sets of carts that bring out one question each.                         *)
(***************************************************************************)
EXTENDS Checkout, TLC

CONSTANTS p1, p2

One(p) == [product |-> p, quantity |-> 1]
Two(p) == [product |-> p, quantity |-> 2]

(* Both products, in both orders, and a cart of one line. *)
OppositeCarts == {<<One(p1)>>, <<One(p1), One(p2)>>, <<One(p2), One(p1)>>}

(* Also the same product twice, which StoreOrderRequest does not exclude.   *)
AllCarts ==
  OppositeCarts \cup {<<One(p1), One(p1)>>, <<One(p2), Two(p1), One(p2)>>}

(* Lines that name different products, one asking for two units. *)
DistinctCarts == {<<One(p1)>>, <<One(p1), Two(p2)>>, <<Two(p2), One(p1)>>}

SingleCart   == {<<One(p1)>>}

OneLeft == [p \in Products |-> 1]
TwoLeft == [p \in Products |-> 2]

(* Requests are alike, and so are order numbers. *)
Symmetry == Permutations(Requests) \cup Permutations(Numbers)

===============================================================================
