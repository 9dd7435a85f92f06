------------------------------ MODULE Inventory ------------------------------
(***************************************************************************)
(* What the checkout of the shop promises about the stock of its products, *)
(* without saying how: an order takes the units of all its lines from the  *)
(* stock in one indivisible step, at most once, and nothing else lowers or *)
(* raises a quantity except a seller who writes a new one.                 *)
(*                                                                         *)
(* Module Checkout, the transaction of app/Services/OrderService.php       *)
(* statement by statement, implements this specification.  Nothing here    *)
(* keeps a quantity from going below zero, because the code does not.      *)
(***************************************************************************)
EXTENDS Integers

CONSTANTS
  Orders,     \* the orders that can be placed
  Products,   \* the rows of the products table
  Opening     \* the quantity every product starts with

VARIABLES
  quantity,   \* products.quantity
  placed,     \* the orders placed so far
  bought      \* units of each product each placed order holds

inventoryVars == <<quantity, placed, bought>>

Nothing == [p \in Products |-> 0]

Init ==
  /\ quantity = Opening
  /\ placed = {}
  /\ bought = [o \in Orders |-> Nothing]

(* An order is recorded together with its units, and the stock drops by     *)
(* exactly those units; every other order keeps what it had.                *)
Place(o) ==
  /\ o \notin placed
  /\ placed' = placed \cup {o}
  /\ bought' \in [Orders -> [Products -> Nat]]
  /\ \A other \in Orders \ {o} : bought'[other] = bought[other]
  /\ quantity' = [p \in Products |-> quantity[p] - bought'[o][p]]

(* A seller writes a new quantity over the old one. *)
Adjust(p) ==
  /\ quantity'[p] \in Nat
  /\ quantity' = [quantity EXCEPT ![p] = quantity'[p]]
  /\ UNCHANGED <<placed, bought>>

Next ==
  \/ \E o \in Orders : Place(o)
  \/ \E p \in Products : Adjust(p)

Spec == Init /\ [][Next]_inventoryVars

=============================================================================
