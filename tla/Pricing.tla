------------------------------- MODULE Pricing -------------------------------
(***************************************************************************)
(* The amounts of an order, and the prices they are made of.  A checkout   *)
(* (OrderService::createOrder) reads one product row per line and adds up  *)
(* the subtotal; tax, shipping and total are computed from it and rounded  *)
(* when the columns decimal(10, 2) store them.  Between two lines the      *)
(* seller's PUT /products/{product} may change price and discount_price:   *)
(* the request loads the model, validates what it was sent, and writes the *)
(* columns that differ from the ones it loaded.                            *)
(*                                                                         *)
(* Money in the database is in cents.  What sellers send, and what PHP     *)
(* computes before it is stored, is in tenths of a cent: sellers may send  *)
(* more than two decimals, and the only factor is 0.1.                     *)
(***************************************************************************)
EXTENDS Integers, Sequences

CONSTANTS
  Products,     \* rows of the products table
  Prices,       \* prices a seller may send
  Discounts,    \* discount prices a seller may send
  Quantities,   \* quantities of an order line
  MaxLines,     \* bound on the lines of an order
  Editors,      \* slots for the seller's requests in flight
  NoEdit        \* an empty slot

(* min:0.01 and min:0                                                       *)
ASSUME PricesAssumption ==
  Prices \subseteq {t \in Nat : t >= 10} /\ Discounts \subseteq Nat

ASSUME QuantitiesAssumption ==
  Quantities \subseteq Nat \ {0} /\ MaxLines \in Nat

VARIABLES
  row,       \* price and discount_price of every product
  edit,      \* each slot's request: product, what was sent, what was loaded
  items,     \* $productData, later order_items
  subtotal,  \* $subtotal
  order      \* the stored amounts of the order, or NoOrder

vars == <<row, edit, items, subtotal, order>>

NoDiscount == -1   \* null
Unsent     == -2   \* the field is not in the request

(* decimal(10, 2) rounds half a cent up. *)
Stored(tenths) == (tenths + 5) \div 10

Row     == [price : {Stored(t) : t \in Prices},
            discount : {Stored(t) : t \in Discounts} \cup {NoDiscount}]
Request == [price : Prices \cup {Unsent},
            discount : Discounts \cup {NoDiscount, Unsent}]
Edit    == [product : Products, new : Request, loaded : Row]
Item    == [quantity : Quantities, price : Nat, total : Nat]

ASSUME NoEditAssumption == NoEdit \notin Edit

NoOrder == [subtotal |-> 0, tax |-> 0, shipping |-> 0, total |-> 0]

TypeOK ==
  /\ row \in [Products -> Row]
  /\ edit \in [Editors -> Edit \cup {NoEdit}]
  /\ items \in Seq(Item)
  /\ subtotal \in Nat
  /\ order \in [subtotal : Nat, tax : Nat, shipping : Nat, total : Nat]

(* A bug: a discount is compared only if there is a price to compare with.  *)
ValidIfSent(new) ==
  new.discount \in Discounts /\ new.price # Unsent => new.discount < new.price

(* lt:price compares with the price in the same request, before either is   *)
(* rounded, and fails when there is none.  A price may be sent alone.       *)
Valid(new) ==
  new.discount \in Discounts => new.price # Unsent /\ new.discount < new.price

(* What a column holds of a field that was sent. *)
Kept(sent) == IF sent = NoDiscount THEN NoDiscount ELSE Stored(sent)

(* StoreProductRequest has the same rules for a new product, but 'price' is *)
(* required; a discount that was not sent is null.                          *)
NewRows ==
  {[price |-> Stored(new.price), discount |-> Kept(new.discount)] :
     new \in {n \in Request : Valid(n) /\ Unsent \notin {n.price, n.discount}}}

Init ==
  /\ row \in [Products -> NewRows]
  /\ edit = [e \in Editors |-> NoEdit]
  /\ items = <<>>
  /\ subtotal = 0
  /\ order = NoOrder

-------------------------------------------------------------------------------
(* Sellers. *)

LoadProduct(e) ==
  /\ edit[e] = NoEdit
  /\ \E p \in Products, new \in Request :
       /\ Valid(new)
       /\ edit' = [edit EXCEPT ![e] =
                     [product |-> p, new |-> new, loaded |-> row[p]]]
  /\ UNCHANGED <<row, items, subtotal, order>>

(* What the UPDATE makes of a column: it is left out when the request does  *)
(* not have it or when, with two decimals, it equals the loaded value.      *)
Column(current, new, loaded) ==
  IF new = Unsent \/ Kept(new) = loaded THEN current ELSE Kept(new)

SaveProduct(e) ==
  /\ edit[e] # NoEdit
  /\ LET p == edit[e].product
         n == edit[e].new
         l == edit[e].loaded
     IN row' = [row EXCEPT ![p] =
                  [price    |-> Column(@.price, n.price, l.price),
                   discount |-> Column(@.discount, n.discount, l.discount)]]
  /\ edit' = [edit EXCEPT ![e] = NoEdit]
  /\ UNCHANGED <<items, subtotal, order>>

-------------------------------------------------------------------------------
(* The checkout. *)

Price(r) == IF r.discount = NoDiscount THEN r.price ELSE r.discount

(* $product->discount_price ?? $product->price * $item['quantity']: the     *)
(* product binds tighter, so a discounted line costs one unit, whatever     *)
(* its quantity.                                                            *)
LineTotal(r, q) ==
  IF r.discount = NoDiscount THEN r.price * q ELSE r.discount

(* A bug: take the quantity into account for the subtotal only. *)
PriceLineHalfway(p, q) ==
  /\ order = NoOrder
  /\ Len(items) < MaxLines
  /\ items' = Append(items, [quantity |-> q, price |-> Price(row[p]),
                             total |-> LineTotal(row[p], q)])
  /\ subtotal' = subtotal + Price(row[p]) * q
  /\ UNCHANGED <<row, edit, order>>

PriceLine(p, q) ==
  /\ order = NoOrder
  /\ Len(items) < MaxLines
  /\ items' = Append(items, [quantity |-> q, price |-> Price(row[p]),
                             total |-> LineTotal(row[p], q)])
  /\ subtotal' = subtotal + LineTotal(row[p], q)
  /\ UNCHANGED <<row, edit, order>>

(* A bug: cut the tax off after the cents. *)
TaxCut(s) == s \div 10

Tax(s) == Stored(s)

Shipping(s) == IF s > 10000 THEN 0 ELSE 1000

Total(s) == Stored(10 * s + s + 10 * Shipping(s))

Amounts(s) == [subtotal |-> s, tax |-> Tax(s), shipping |-> Shipping(s),
               total |-> Total(s)]

CreateOrder ==
  /\ order = NoOrder
  /\ items # <<>>
  /\ order' = Amounts(subtotal)
  /\ UNCHANGED <<row, edit, items, subtotal>>

Next ==
  \/ \E e \in Editors : LoadProduct(e) \/ SaveProduct(e)
  \/ \E p \in Products, q \in Quantities : PriceLine(p, q)
  \/ CreateOrder

Spec == Init /\ [][Next]_vars

-------------------------------------------------------------------------------
(* Properties. *)

(* The three amounts of a stored order add up to its stored total to the    *)
(* cent, although tax and total are rounded separately.                     *)
AmountsAddUp ==
  order.total = order.subtotal + order.tax + order.shipping

(* What a sequence of amounts adds up to. *)
AddedUp(amounts) ==
  LET upTo[n \in 0 .. Len(amounts)] ==
        IF n = 0 THEN 0 ELSE upTo[n - 1] + amounts[n]
  IN upTo[Len(amounts)]

(* The stored subtotal is the sum of the stored items, whatever became of   *)
(* the prices since.                                                        *)
ItemsAddUp ==
  order # NoOrder =>
    order.subtotal = AddedUp([i \in 1 .. Len(items) |-> items[i].total])

(* A discount price above the price does not come from an update that sends *)
(* both and finds the row it loaded: lt:price lets it through only when     *)
(* discount_price is not sent, or was compared with a row that is no more.  *)
CrossedOnlyUnseen ==
  [][\A p \in Products :
       row[p].discount <= row[p].price /\ row'[p].discount > row'[p].price =>
         \E e \in Editors :
           /\ edit[e] # NoEdit /\ edit'[e] = NoEdit /\ edit[e].product = p
           /\ edit[e].new.discount = Unsent \/ edit[e].loaded # row[p]]_vars

(* What the rule lt:price says (UpdateProductRequest.php:20): a discount    *)
(* price is below the price.                                                *)
DiscountBelowPrice ==
  \A p \in Products : row[p].discount < row[p].price

(* "Free shipping over $100" (OrderService.php:46), where the goods are     *)
(* worth their price times their quantity.                                  *)
FreeShippingOver100 ==
  /\ order # NoOrder
  /\ AddedUp([i \in 1 .. Len(items) |-> items[i].price * items[i].quantity]) > 10000
  => order.shipping = 0

===============================================================================
