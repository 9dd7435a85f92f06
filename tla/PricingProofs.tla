---------------------------- MODULE PricingProofs ----------------------------
(***************************************************************************)
(* Theorems about module Pricing, for any prices, discounts, quantities    *)
(* and number of lines.                                                    *)
(***************************************************************************)
EXTENDS Pricing, WellFoundedInduction, TLAPS

(* Amounts are natural numbers of cents. *)
LEMMA AmountsTyped ==
  ASSUME NEW s \in Nat
  PROVE  Amounts(s) \in [subtotal : Nat, tax : Nat, shipping : Nat, total : Nat]
BY DEF Amounts, Tax, Shipping, Total, Stored

(* Rounding tax and total apart makes no difference: subtotal and shipping  *)
(* are whole cents.                                                         *)
LEMMA RoundingAgrees ==
  ASSUME NEW s \in Nat
  PROVE  Total(s) = s + Tax(s) + Shipping(s)
<1>1. Shipping(s) \in {0, 1000}
  BY DEF Shipping
<1>2. ASSUME NEW h \in Nat
      PROVE  (10 * s + s + 10 * h + 5) \div 10 = s + h + (s + 5) \div 10
  OBVIOUS
<1>3. Total(s) = s + Shipping(s) + (s + 5) \div 10
  BY <1>1, <1>2 DEF Total, Stored
<1> QED
  BY <1>1, <1>3 DEF Tax, Stored

(* Stored amounts are natural numbers. *)
LEMMA RowsTyped ==
  ASSUME NEW r \in Row
  PROVE  /\ r.price \in Nat \ {0}
         /\ r.discount \in Nat \/ r.discount = NoDiscount
<1>1. PICK t \in Prices : r.price = Stored(t)
  BY DEF Row
<1>2. r.discount = NoDiscount \/ \E d \in Discounts : r.discount = Stored(d)
  BY DEF Row
<1>3. t \in Nat /\ t >= 10 /\ \A d \in Discounts : d \in Nat
  BY PricesAssumption
<1> QED
  BY <1>1, <1>2, <1>3 DEF Stored

(* What a line costs. *)
LEMMA LinesTyped ==
  ASSUME NEW r \in Row, NEW q \in Quantities
  PROVE  /\ Price(r) \in Nat
         /\ LineTotal(r, q) \in Nat
         /\ [quantity |-> q, price |-> Price(r), total |-> LineTotal(r, q)] \in Item
<1>1. /\ r.price \in Nat
      /\ r.discount \in Nat \/ r.discount = NoDiscount
      /\ q \in Nat
  BY RowsTyped, QuantitiesAssumption
<1>2. r.price * q \in Nat
  BY <1>1
<1>3. Price(r) \in Nat /\ LineTotal(r, q) \in Nat
  BY <1>1, <1>2 DEF Price, LineTotal
<1> QED
  BY <1>3 DEF Item

(* What an update makes of a row. *)
LEMMA KeptTyped ==
  /\ \A t \in Prices : Kept(t) = Stored(t)
  /\ \A t \in Discounts : Kept(t) = Stored(t)
  /\ Kept(NoDiscount) = NoDiscount
<1>1. \A t \in Prices \cup Discounts : t # NoDiscount
  BY PricesAssumption DEF NoDiscount
<1> QED
  BY <1>1 DEF Kept

LEMMA SavedTyped ==
  ASSUME TypeOK, NEW e \in Editors, edit[e] # NoEdit
  PROVE  /\ edit[e].product \in Products
         /\ edit[e].new \in Request
         /\ edit[e].loaded \in Row
         /\ \A r \in Row :
              [price    |-> Column(r.price, edit[e].new.price, edit[e].loaded.price),
               discount |-> Column(r.discount, edit[e].new.discount,
                                   edit[e].loaded.discount)] \in Row
<1>1. edit[e] \in Edit
  BY DEF TypeOK
<1>2. /\ edit[e].new.price \in Prices \cup {Unsent}
      /\ edit[e].new.discount \in Discounts \cup {NoDiscount, Unsent}
  BY <1>1 DEF Edit, Request
<1>3. ASSUME NEW r \in Row
      PROVE  /\ Column(r.price, edit[e].new.price, edit[e].loaded.price)
                  \in {Stored(t) : t \in Prices}
             /\ Column(r.discount, edit[e].new.discount, edit[e].loaded.discount)
                  \in {Stored(t) : t \in Discounts} \cup {NoDiscount}
  BY <1>2, KeptTyped DEF Column, Row
<1> QED
  BY <1>1, <1>3 DEF Edit, Row

LEMMA NewRowsTyped == NewRows \subseteq Row
<1> SUFFICES ASSUME NEW n \in Request, Unsent \notin {n.price, n.discount}
             PROVE  [price |-> Stored(n.price), discount |-> Kept(n.discount)] \in Row
  BY DEF NewRows
<1>1. n.price \in Prices /\ n.discount \in Discounts \cup {NoDiscount}
  BY DEF Request
<1> QED
  BY <1>1, KeptTyped DEF Row

LEMMA TypeInit == Init => TypeOK
BY NewRowsTyped DEF Init, TypeOK, NoOrder

LEMMA TypeStep == TypeOK /\ [Next]_vars => TypeOK'
<1> SUFFICES ASSUME TypeOK, [Next]_vars
             PROVE  TypeOK'
  OBVIOUS
<1>1. ASSUME NEW e \in Editors, LoadProduct(e)
      PROVE  TypeOK'
  BY <1>1 DEF LoadProduct, TypeOK, Edit
<1>2. ASSUME NEW e \in Editors, SaveProduct(e)
      PROVE  TypeOK'
  <2>1. row' \in [Products -> Row]
    BY <1>2, SavedTyped DEF SaveProduct, TypeOK
  <2> QED
    BY <1>2, <2>1 DEF SaveProduct, TypeOK
<1>3. ASSUME NEW p \in Products, NEW q \in Quantities, PriceLine(p, q)
      PROVE  TypeOK'
  <2>1. row[p] \in Row
    BY DEF TypeOK
  <2>2. subtotal' \in Nat
    BY <1>3, <2>1, LinesTyped DEF PriceLine, TypeOK
  <2>3. items' \in Seq(Item)
    BY <1>3, <2>1, LinesTyped DEF PriceLine, TypeOK
  <2> QED
    BY <1>3, <2>2, <2>3 DEF PriceLine, TypeOK
<1>4. CASE CreateOrder
  BY <1>4, AmountsTyped DEF CreateOrder, TypeOK
<1>5. CASE UNCHANGED vars
  BY <1>5 DEF vars, TypeOK
<1> QED
  BY <1>1, <1>2, <1>3, <1>4, <1>5 DEF Next

(* Rows, requests in flight and amounts keep their types. *)
THEOREM TypeCorrect == Spec => []TypeOK
BY TypeInit, TypeStep, PTL DEF Spec

(* The stored total of an order is its subtotal, tax and shipping, to the   *)
(* cent.                                                                    *)
THEOREM OrdersAddUp == Spec => []AmountsAddUp
<1>1. Init => AmountsAddUp
  BY DEF Init, AmountsAddUp, NoOrder
<1>2. TypeOK /\ AmountsAddUp /\ [Next]_vars => AmountsAddUp'
  <2> SUFFICES ASSUME TypeOK, AmountsAddUp, [Next]_vars
               PROVE  AmountsAddUp'
    OBVIOUS
  <2>1. CASE CreateOrder
    <3>1. subtotal \in Nat /\ order' = Amounts(subtotal)
      BY <2>1 DEF CreateOrder, TypeOK
    <3>2. Tax(subtotal) \in Nat /\ Shipping(subtotal) \in Nat
      BY <3>1 DEF Tax, Shipping, Stored
    <3> QED
      BY <3>1, <3>2, RoundingAgrees DEF AmountsAddUp, Amounts
  <2>2. CASE order' = order
    BY <2>2 DEF AmountsAddUp
  <2> QED
    BY <2>1, <2>2 DEF Next, LoadProduct, SaveProduct, PriceLine, vars
<1> QED
  BY <1>1, <1>2, TypeCorrect, PTL DEF Spec

-------------------------------------------------------------------------------
(* Items.  AddedUp is a recursive function: that there is such a function,  *)
(* and only one, is shown by looking at the least number where it fails.    *)

(* A set of numbers has a least one. *)
LEMMA LeastNumber ==
  ASSUME NEW T \in SUBSET Nat, T # {}
  PROVE  \E m \in T : \A k \in T : m <= k
<1>1. PICK m \in T : \A k \in T : <<k, m>> \notin OpToRel(<, Nat)
  BY NatLessThanWellFounded, WFMin
<1>2. \A k \in T : ~ (k < m)
  BY <1>1 DEF OpToRel
<1> QED
  BY <1>2

(* f gives the sums of the first amounts. *)
PartialSums(amounts, f) ==
  f = [n \in 0 .. Len(amounts) |->
         IF n = 0 THEN 0 ELSE f[n - 1] + amounts[n]]

LEMMA PartialSumsExist ==
  ASSUME NEW a \in Seq(Nat)
  PROVE  \E f : PartialSums(a, f)
<1> DEFINE Upto(n) == \E f \in [0 .. n -> Nat] :
                        \A k \in 0 .. n :
                          f[k] = IF k = 0 THEN 0 ELSE f[k - 1] + a[k]
           Missing == {n \in Nat : n <= Len(a) /\ ~ Upto(n)}
<1>1. Missing = {}
  <2> SUFFICES ASSUME Missing # {} PROVE FALSE
    OBVIOUS
  <2> HIDE DEF Upto
  <2>1. PICK n \in Missing : \A k \in Missing : n <= k
    BY LeastNumber
  <2>2. CASE n = 0
    <3>1. PICK f : f = [k \in 0 .. 0 |-> 0]
      OBVIOUS
    <3>2. f \in [0 .. 0 -> Nat] /\ \A k \in 0 .. 0 : k = 0 /\ f[k] = 0
      BY <3>1
    <3>3. Upto(0)
      BY <3>2 DEF Upto
    <3> QED
      BY <2>1, <2>2, <3>3
  <2>3. CASE n # 0
    <3>1. n - 1 \in Nat /\ n \in 1 .. Len(a) /\ Upto(n - 1)
      BY <2>1, <2>3
    <3>2. PICK f \in [0 .. n - 1 -> Nat] :
            \A k \in 0 .. n - 1 :
              f[k] = IF k = 0 THEN 0 ELSE f[k - 1] + a[k]
      BY <3>1 DEF Upto
    <3> DEFINE g == [k \in 0 .. n |-> IF k = n THEN f[n - 1] + a[n] ELSE f[k]]
    <3>3. a[n] \in Nat /\ f[n - 1] \in Nat
      BY <3>1, <3>2
    <3>4. g \in [0 .. n -> Nat]
      BY <3>1, <3>2, <3>3
    <3>5. \A k \in 0 .. n : g[k] = IF k = 0 THEN 0 ELSE g[k - 1] + a[k]
      BY <3>1, <3>2
    <3>6. Upto(n)
      BY <3>4, <3>5 DEF Upto
    <3> QED
      BY <2>1, <3>6
  <2> QED
    BY <2>2, <2>3
<1>2. Upto(Len(a))
  <2> HIDE DEF Upto
  <2>1. Len(a) \in Nat
    OBVIOUS
  <2> QED
    BY <1>1, <2>1
<1>3. PICK f \in [0 .. Len(a) -> Nat] :
        \A k \in 0 .. Len(a) :
          f[k] = IF k = 0 THEN 0 ELSE f[k - 1] + a[k]
  BY <1>2
<1>4. PartialSums(a, f)
  BY <1>3 DEF PartialSums
<1> QED
  BY <1>4

(* The sums of a sequence are those of every sequence that continues it. *)
LEMMA PartialSumsAgree ==
  ASSUME NEW a \in Seq(Nat), NEW b \in Seq(Nat), Len(a) <= Len(b),
         \A n \in 1 .. Len(a) : a[n] = b[n],
         NEW f, PartialSums(a, f), NEW g, PartialSums(b, g)
  PROVE  \A n \in 0 .. Len(a) : f[n] = g[n]
<1> DEFINE Bad == {n \in 0 .. Len(a) : f[n] # g[n]}
<1> SUFFICES ASSUME Bad # {} PROVE FALSE
  OBVIOUS
<1>1. PICK n \in Bad : \A k \in Bad : n <= k
  <2>1. Bad \in SUBSET Nat /\ Bad # {}
    OBVIOUS
  <2> HIDE DEF Bad
  <2> QED
    BY <2>1, LeastNumber
<1>2. CASE n = 0
  BY <1>1, <1>2 DEF PartialSums
<1>3. CASE n # 0
  <2>1. n - 1 \in 0 .. Len(a) /\ n \in 1 .. Len(a) /\ n \in 0 .. Len(b)
    BY <1>3
  <2>2. f[n - 1] = g[n - 1]
    BY <1>1, <2>1
  <2>3. f[n] = f[n - 1] + a[n] /\ g[n] = g[n - 1] + b[n]
    BY <1>3, <2>1 DEF PartialSums
  <2> QED
    BY <1>1, <2>1, <2>2, <2>3
<1> QED
  BY <1>2, <1>3

LEMMA AddedUpIsLast ==
  ASSUME NEW a \in Seq(Nat)
  PROVE  \E f : PartialSums(a, f) /\ AddedUp(a) = f[Len(a)]
<1>1. PICK f : PartialSums(a, f)
  BY PartialSumsExist
<1>2. PartialSums(a, CHOOSE g : PartialSums(a, g))
  BY <1>1
<1>3. AddedUp(a) = (CHOOSE g : PartialSums(a, g))[Len(a)]
  BY DEF AddedUp, PartialSums
<1> QED
  BY <1>2, <1>3

LEMMA NothingAddedUp == AddedUp(<<>>) = 0
<1>1. <<>> \in Seq(Nat) /\ Len(<<>>) = 0
  OBVIOUS
<1>2. PICK f : PartialSums(<<>>, f) /\ AddedUp(<<>>) = f[Len(<<>>)]
  BY <1>1, AddedUpIsLast
<1> QED
  BY <1>1, <1>2 DEF PartialSums

LEMMA OneMoreAddedUp ==
  ASSUME NEW a \in Seq(Nat), NEW b \in Seq(Nat), NEW x \in Nat,
         Len(b) = Len(a) + 1, b[Len(b)] = x,
         \A n \in 1 .. Len(a) : a[n] = b[n]
  PROVE  AddedUp(b) = AddedUp(a) + x
<1>1. PICK f : PartialSums(a, f) /\ AddedUp(a) = f[Len(a)]
  BY AddedUpIsLast
<1>2. PICK g : PartialSums(b, g) /\ AddedUp(b) = g[Len(b)]
  BY AddedUpIsLast
<1>3. f[Len(a)] = g[Len(a)]
  BY <1>1, <1>2, PartialSumsAgree
<1>4. g[Len(b)] = g[Len(a)] + x
  BY <1>2 DEF PartialSums
<1> QED
  BY <1>1, <1>2, <1>3, <1>4

(* The subtotal follows the items of an order under construction, and the   *)
(* order's subtotal is the one it was created with.                         *)
Totals == [i \in 1 .. Len(items) |-> items[i].total]

Counted ==
  /\ subtotal = AddedUp(Totals)
  /\ order # NoOrder => order.subtotal = subtotal

LEMMA TotalsTyped ==
  ASSUME NEW s \in Seq(Item)
  PROVE  [i \in 1 .. Len(s) |-> s[i].total] \in Seq(Nat)
<1>1. Len(s) \in Nat /\ \A i \in 1 .. Len(s) : s[i] \in Item
  OBVIOUS
<1>2. \A i \in Item : i.total \in Nat
  BY DEF Item
<1> QED
  BY <1>1, <1>2

LEMMA CountedStep == TypeOK /\ Counted /\ [Next]_vars => Counted'
<1> SUFFICES ASSUME TypeOK, Counted, [Next]_vars
             PROVE  Counted'
  OBVIOUS
<1>1. ASSUME NEW p \in Products, NEW q \in Quantities, PriceLine(p, q)
      PROVE  Counted'
  <2>1. PICK x \in Nat, item \in Item :
          /\ x = LineTotal(row[p], q) /\ item.total = x
          /\ items' = Append(items, item)
          /\ subtotal' = subtotal + x
    <3>1. row[p] \in Row
      BY DEF TypeOK
    <3> QED
      BY <1>1, <3>1, LinesTyped DEF PriceLine
  <2>2. /\ items \in Seq(Item) /\ items' \in Seq(Item)
        /\ Len(items') = Len(items) + 1
        /\ items'[Len(items')] = item
        /\ \A n \in 1 .. Len(items) : items'[n] = items[n]
    BY <2>1 DEF TypeOK
  <2>3. Totals \in Seq(Nat) /\ Totals' \in Seq(Nat)
    BY <2>2, TotalsTyped DEF Totals
  <2>4. /\ Len(Totals) = Len(items) /\ Len(Totals') = Len(items) + 1
        /\ Totals'[Len(Totals')] = x
        /\ \A n \in 1 .. Len(Totals) : Totals[n] = Totals'[n]
    BY <2>1, <2>2 DEF Totals
  <2>5. AddedUp(Totals') = AddedUp(Totals) + x
    BY <2>3, <2>4, OneMoreAddedUp
  <2>6. order' = NoOrder
    BY <1>1 DEF PriceLine
  <2> QED
    BY <2>1, <2>5, <2>6 DEF Counted
<1>2. CASE CreateOrder
  BY <1>2 DEF CreateOrder, Counted, Totals, Amounts
<1>3. ASSUME UNCHANGED <<items, subtotal, order>>
      PROVE  Counted'
  BY <1>3 DEF Counted, Totals
<1> QED
  BY <1>1, <1>2, <1>3 DEF Next, LoadProduct, SaveProduct, vars

(* The stored subtotal is the sum of the stored items, however many lines   *)
(* the order has and however the prices move meanwhile.                     *)
THEOREM SubtotalsAddUp == Spec => []ItemsAddUp
<1>1. Init => Counted
  <2>1. ASSUME Init
        PROVE  Totals = <<>>
    BY <2>1 DEF Init, Totals
  <2> QED
    BY <2>1, NothingAddedUp DEF Init, Counted
<1>2. TypeOK /\ Counted /\ [Next]_vars => Counted'
  BY CountedStep
<1>3. Counted => ItemsAddUp
  BY DEF Counted, ItemsAddUp, Totals
<1> QED
  BY <1>1, <1>2, <1>3, TypeCorrect, PTL DEF Spec

-------------------------------------------------------------------------------
(* Discounts. *)

(* Rounding keeps the order, though not strictly. *)
LEMMA RoundingMonotone ==
  ASSUME NEW m \in Nat, NEW n \in Nat, m < n
  PROVE  Stored(m) <= Stored(n)
BY DEF Stored

(* What was sent has passed the validation. *)
EditsValid == \A e \in Editors : edit[e] # NoEdit => Valid(edit[e].new)

LEMMA EditsValidStep == TypeOK /\ EditsValid /\ [Next]_vars => EditsValid'
<1> SUFFICES ASSUME TypeOK, EditsValid, [Next]_vars
             PROVE  EditsValid'
  OBVIOUS
<1>1. ASSUME NEW e \in Editors, LoadProduct(e)
      PROVE  EditsValid'
  <2>1. PICK p \in Products, new \in Request :
          /\ Valid(new)
          /\ edit' = [edit EXCEPT ![e] =
                        [product |-> p, new |-> new, loaded |-> row[p]]]
    BY <1>1 DEF LoadProduct
  <2>2. \A d \in Editors : \/ d = e /\ edit'[d].new = new
                           \/ edit'[d] = edit[d]
    BY <2>1 DEF TypeOK
  <2> QED
    BY <2>1, <2>2 DEF EditsValid, Valid
<1>2. ASSUME NEW e \in Editors, SaveProduct(e)
      PROVE  EditsValid'
  BY <1>2 DEF SaveProduct, TypeOK, EditsValid, Valid
<1>3. CASE UNCHANGED edit
  BY <1>3 DEF EditsValid, Valid
<1> QED
  BY <1>1, <1>2, <1>3 DEF Next, PriceLine, CreateOrder, vars

(* One update that sends both prices, or none, and finds the row it loaded  *)
(* leaves the discount price at most at the price.                          *)
LEMMA ComparedInOrder ==
  ASSUME NEW old \in Row, NEW new \in Request, Valid(new),
         old.discount <= old.price,
         new.discount # Unsent
  PROVE  Column(old.discount, new.discount, old.discount)
           <= Column(old.price, new.price, old.price)
<1>1. /\ new.price \in Prices \cup {Unsent}
      /\ new.discount \in Discounts \cup {NoDiscount}
  BY DEF Request
<1>2. /\ \A n \in Prices : n \in Nat /\ n >= 10 /\ Stored(n) \in Nat
      /\ \A n \in Discounts : n \in Nat /\ Stored(n) \in Nat
  BY PricesAssumption DEF Stored
<1>3. Column(old.discount, new.discount, old.discount) = Kept(new.discount)
  BY DEF Column
<1>4. Column(old.price, new.price, old.price)
        = IF new.price = Unsent THEN old.price ELSE Kept(new.price)
  BY DEF Column
<1>5. CASE new.discount = NoDiscount
  <2>1. Kept(new.discount) = -1
    BY <1>5, KeptTyped DEF NoDiscount
  <2>2. Column(old.price, new.price, old.price) \in Nat
    BY <1>1, <1>2, <1>4, KeptTyped, RowsTyped
  <2> QED
    BY <1>3, <2>1, <2>2
<1>6. CASE new.discount \in Discounts
  <2>1. new.price \in Prices /\ new.price # Unsent /\ new.discount < new.price
    BY <1>1, <1>6 DEF Valid
  <2>2. Kept(new.discount) = Stored(new.discount) /\ Kept(new.price) = Stored(new.price)
    BY <1>6, <2>1, KeptTyped
  <2> QED
    BY <1>2, <1>3, <1>4, <1>6, <2>1, <2>2, RoundingMonotone
<1> QED
  BY <1>1, <1>5, <1>6

(* The two ways in which a discount price gets above a price that it was    *)
(* not above before are the only ones, for any prices and number of         *)
(* overlapping updates.                                                     *)
THEOREM CrossingsUnseen == Spec => CrossedOnlyUnseen
<1> DEFINE Crossed == \A p \in Products :
       row[p].discount <= row[p].price /\ row'[p].discount > row'[p].price =>
         \E e \in Editors :
           /\ edit[e] # NoEdit /\ edit'[e] = NoEdit /\ edit[e].product = p
           /\ edit[e].new.discount = Unsent \/ edit[e].loaded # row[p]
<1>1. Init => EditsValid
  BY DEF Init, EditsValid
<1>2. TypeOK /\ EditsValid /\ [Next]_vars => EditsValid'
  BY EditsValidStep
<1>3. TypeOK /\ EditsValid /\ [Next]_vars => [Crossed]_vars
  <2> SUFFICES ASSUME TypeOK, EditsValid, Next,
                      NEW p \in Products,
                      row[p].discount <= row[p].price,
                      row'[p].discount > row'[p].price
               PROVE  \E e \in Editors :
                        /\ edit[e] # NoEdit /\ edit'[e] = NoEdit
                        /\ edit[e].product = p
                        /\ edit[e].new.discount = Unsent \/ edit[e].loaded # row[p]
    OBVIOUS
  <2>1. row[p] \in Row
    BY DEF TypeOK
  <2>2. row'[p] # row[p]
    <3>1. row[p].price \in Int /\ row[p].discount \in Int
      BY <2>1, RowsTyped DEF NoDiscount
    <3> QED
      BY <3>1
  <2>3. PICK e \in Editors : SaveProduct(e)
    BY <2>2 DEF Next, LoadProduct, PriceLine, CreateOrder
  <2>4. /\ edit[e] # NoEdit /\ edit'[e] = NoEdit
        /\ edit[e].new \in Request /\ Valid(edit[e].new)
    BY <2>3, SavedTyped DEF SaveProduct, TypeOK, EditsValid
  <2>5. edit[e].product = p
    BY <2>2, <2>3 DEF SaveProduct, TypeOK
  <2>6. ASSUME edit[e].new.discount # Unsent, edit[e].loaded = row[p]
        PROVE  FALSE
    <3>1. row'[p] =
            [price    |-> Column(row[p].price, edit[e].new.price, row[p].price),
             discount |-> Column(row[p].discount, edit[e].new.discount,
                                 row[p].discount)]
      BY <2>3, <2>5, <2>6 DEF SaveProduct, TypeOK
    <3>2. row'[p].discount <= row'[p].price
      BY <2>1, <2>4, <2>6, <3>1, ComparedInOrder
    <3>3. row'[p] \in Row
      <4>1. row' \in [Products -> Row]
        BY <2>3, SavedTyped DEF SaveProduct, TypeOK
      <4> QED
        BY <4>1
    <3>4. row'[p].price \in Int /\ row'[p].discount \in Int
      BY <3>3, RowsTyped DEF NoDiscount
    <3> QED
      BY <3>2, <3>4
  <2> QED
    BY <2>4, <2>5, <2>6
<1>4. Spec => [][Crossed]_vars
  BY <1>1, <1>2, <1>3, TypeCorrect, PTL DEF Spec
<1> QED
  BY <1>4 DEF CrossedOnlyUnseen

===============================================================================
