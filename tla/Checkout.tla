------------------------------- MODULE Checkout -------------------------------
(***************************************************************************)
(* POST /orders: OrderController::store runs OrderService::createOrder,    *)
(* one database transaction over the tables products, orders and           *)
(* order_items.  Several requests run at once, each in a PHP worker with   *)
(* its own connection to PostgreSQL (config/database.php, READ COMMITTED), *)
(* next to sellers who update and delete products.  One action is one      *)
(* statement the database sees, because that is where they interleave:     *)
(*                                                                         *)
(*   checking    Product::findOrFail and the stock test, line by line      *)
(*   numbering   Order::generateOrderNumber                                *)
(*   creating    Order::create, against the unique index on order_number   *)
(*   adding      OrderItem::create for the current line                    *)
(*   taking      decrement('quantity'), which locks the product's row      *)
(*   committing  the COMMIT that DB::transaction sends                     *)
(*                                                                         *)
(* Reads are not locked.  The decrement is relative, its row stays locked  *)
(* until the transaction ends, and no other transaction sees it before.    *)
(* Money is in module Pricing; it does not influence these steps.          *)
(***************************************************************************)
EXTENDS Integers, Sequences, FiniteSets, FiniteSetsExt

CONSTANTS
  Requests,         \* requests to place an order; a retry is another request
  Products,         \* rows of the products table
  Carts,            \* validated 'items': sequences of [product, quantity]
  Numbers,          \* what generateOrderNumber can return
  Opening,          \* products.quantity at the start
  Restocks,         \* quantities a seller may write
  MaxEdits,         \* bound on sellers' updates in flight at once
  Bindable,         \* what 'bindable' may be
  None              \* holder of a row nobody locked, number not generated yet

Line == [product : Products, quantity : Nat \ {0}]

ASSUME CartsAssumption == Carts \subseteq Seq(Line) \ {<<>>}

ASSUME OpeningAssumption == Opening \in [Products -> Nat]

ASSUME RestocksAssumption == Restocks \subseteq Nat /\ MaxEdits \in Nat

ASSUME BindableAssumption == Bindable \subseteq BOOLEAN

ASSUME NoneAssumption == None \notin Requests \cup Numbers

VARIABLES
  bindable,   \* can 'shipping_address', an array, be bound to its column?
              \* Order has no cast for it, so as committed it cannot: PDO's
              \* conversion to a string raises an error.  It does not change
  stock,      \* products.quantity, as committed
  working,    \* the row's newest version, seen by its lock holder only
  holder,     \* the request whose transaction has locked the row, or None
  deleted,    \* products with deleted_at set
  orders,     \* committed rows of orders, named by the request they come from
  items,      \* order_items: units of each product in a request's order
  number,     \* orders.order_number
  pc,         \* where each request is
  cart,       \* $data['items']
  seen,       \* quantities findOrFail read: the models kept in $productData
  line,       \* index of the foreach that writes items and stock
  reply,      \* why a request was answered
  edits       \* sellers' updates in flight, with the quantity they loaded

rowVars == <<stock, working, holder>>
vars    == <<bindable, stock, working, holder, deleted, orders, items,
             number, pc, cart, seen, line, reply, edits>>

Phases  == {"idle", "checking", "numbering", "creating", "adding", "taking",
            "committing", "answered", "lost"}
Replies == {"none", "created", "missing", "insufficient", "unbindable",
            "duplicate", "deadlock", "error"}
Edit    == [product : Products, loaded : Int]

NoUnits == [p \in Products |-> 0]

TypeOK ==
  /\ bindable \in Bindable
  /\ stock \in [Products -> Int]
  /\ working \in [Products -> Int]
  /\ holder \in [Products -> Requests \cup {None}]
  /\ deleted \subseteq Products
  /\ orders \subseteq Requests
  /\ items \in [Requests -> [Products -> Nat]]
  /\ number \in [Requests -> Numbers \cup {None}]
  /\ pc \in [Requests -> Phases]
  /\ cart \in [Requests -> Carts \cup {<<>>}]
  /\ seen \in [Requests -> Seq(Int)]
  /\ line \in [Requests -> Nat]
  /\ reply \in [Requests -> Replies]
  /\ edits \subseteq Edit

(* The migrations have run and nobody has ordered yet. *)
Init ==
  /\ bindable \in Bindable
  /\ stock = Opening
  /\ working = Opening
  /\ holder = [p \in Products |-> None]
  /\ deleted = {}
  /\ orders = {}
  /\ items = [r \in Requests |-> NoUnits]
  /\ number = [r \in Requests |-> None]
  /\ pc = [r \in Requests |-> "idle"]
  /\ cart = [r \in Requests |-> <<>>]
  /\ seen = [r \in Requests |-> <<>>]
  /\ line = [r \in Requests |-> 0]
  /\ reply = [r \in Requests |-> "none"]
  /\ edits = {}

-------------------------------------------------------------------------------
(* The transaction of a request. *)

InTransaction(r) == pc[r] \notin {"idle", "answered", "lost"}

(* Its row of orders is inserted but not committed. *)
Inserted(r) == pc[r] \in {"adding", "taking", "committing"}

(* The units of product p in the lines I of a cart, and in all of them. *)
UnitsIn(c, p, I) ==
  MapThenSumSet(LAMBDA i : c[i].quantity, {i \in I : c[i].product = p})

CartUnits(c, p) == UnitsIn(c, p, 1 .. Len(c))

(* A bug: write the scarcest product first. *)
ScarcestFirst(r) ==
  LET s == seen[r]
      n == Len(cart[r])
  IN IF pc[r] = "checking" THEN cart[r][Len(s) + 1]
     ELSE IF s[n] < s[1] THEN cart[r][n + 1 - line[r]]
     ELSE cart[r][line[r]]

(* The line a request is at: the next one to check, or the one it writes. *)
Current(r) ==
  cart[r][IF pc[r] = "checking" THEN Len(seen[r]) + 1 ELSE line[r]]

Advance(r, phase) == pc' = [pc EXCEPT ![r] = phase]

(* The closure's variables go with it; its order's rows stay if they were   *)
(* committed.                                                               *)
Leave(r, phase, why) ==
  /\ Advance(r, phase)
  /\ reply' = [reply EXCEPT ![r] = why]
  /\ seen' = [seen EXCEPT ![r] = <<>>]
  /\ line' = [line EXCEPT ![r] = 0]

(* DB::transaction rolls back when the closure throws, and PostgreSQL does  *)
(* when the connection goes: inserted rows vanish, locked rows get their    *)
(* committed version back.                                                  *)
Rollback(r, phase, why) ==
  /\ Leave(r, phase, why)
  /\ working' = [p \in Products |->
                   IF holder[p] = r THEN stock[p] ELSE working[p]]
  /\ holder' = [p \in Products |->
                   IF holder[p] = r THEN None ELSE holder[p]]
  /\ items' = [items EXCEPT ![r] = NoUnits]
  /\ number' = [number EXCEPT ![r] = None]
  /\ UNCHANGED <<stock, bindable, deleted, orders, cart, edits>>

(* store() catches the exception and answers 400. *)
Refuse(r, why) == Rollback(r, "answered", why)

Submit(r) ==
  /\ pc[r] = "idle"
  /\ \E c \in Carts : cart' = [cart EXCEPT ![r] = c]
  /\ Advance(r, "checking")
  /\ UNCHANGED <<rowVars, bindable, deleted, orders, items, number, seen,
                 line, reply, edits>>

(* A bug: ask Product::inStock, whatever the quantity. *)
InStock(l) == stock[l.product] > 0

Enough(l) == stock[l.product] >= l.quantity

(* findOrFail is a plain SELECT of what is committed now; the next line is  *)
(* read by another SELECT, later.                                           *)
CheckLine(r) ==
  LET l == Current(r) IN
  /\ pc[r] = "checking"
  /\ l.product \notin deleted
  /\ Enough(l)
  /\ seen' = [seen EXCEPT ![r] = Append(@, stock[l.product])]
  /\ Advance(r, IF Len(seen[r]) + 1 < Len(cart[r])
                  THEN "checking" ELSE "numbering")
  /\ UNCHANGED <<rowVars, bindable, deleted, orders, items, number, cart,
                 line, reply, edits>>

(* ModelNotFoundException: the product was deleted after validation, whose  *)
(* 'exists' rule does not look at deleted_at anyway.                        *)
RefuseMissing(r) ==
  /\ pc[r] = "checking"
  /\ Current(r).product \in deleted
  /\ Refuse(r, "missing")

RefuseInsufficient(r) ==
  LET l == Current(r) IN
  /\ pc[r] = "checking"
  /\ l.product \notin deleted
  /\ ~Enough(l)
  /\ Refuse(r, "insufficient")

GenerateNumber(r) ==
  /\ pc[r] = "numbering"
  /\ \E n \in Numbers : number' = [number EXCEPT ![r] = n]
  /\ Advance(r, "creating")
  /\ UNCHANGED <<rowVars, bindable, deleted, orders, items, cart, seen, line,
                 reply, edits>>

(* A bug: look for the number among the committed orders, with no index. *)
NeverPending(r) == FALSE

(* The unique index makes an insert wait for an uncommitted row with the    *)
(* same number, and fail once such a row is committed.                      *)
NumberPending(r) ==
  \E s \in Requests \ {r} : Inserted(s) /\ number[s] = number[r]

NumberTaken(r) == \E s \in orders : number[s] = number[r]

(* A bug: create the order before the transaction begins. *)
CreateVisibly(r) ==
  /\ pc[r] = "creating"
  /\ bindable
  /\ ~NumberPending(r)
  /\ ~NumberTaken(r)
  /\ orders' = orders \cup {r}
  /\ line' = [line EXCEPT ![r] = 1]
  /\ Advance(r, "adding")
  /\ UNCHANGED <<rowVars, bindable, deleted, items, number, cart, seen, reply,
                 edits>>

CreateOrder(r) ==
  /\ pc[r] = "creating"
  /\ bindable
  /\ ~NumberPending(r)
  /\ ~NumberTaken(r)
  /\ line' = [line EXCEPT ![r] = 1]
  /\ Advance(r, "adding")
  /\ UNCHANGED <<rowVars, bindable, deleted, orders, items, number, cart,
                 seen, reply, edits>>

(* A bug: swallow the exception and answer 201 all the same. *)
SwallowUnbindable(r) ==
  /\ pc[r] = "creating"
  /\ ~bindable
  /\ Refuse(r, "created")

RefuseUnbindable(r) ==
  /\ pc[r] = "creating"
  /\ ~bindable
  /\ Refuse(r, "unbindable")

RefuseDuplicate(r) ==
  /\ pc[r] = "creating"
  /\ bindable
  /\ ~NumberPending(r)
  /\ NumberTaken(r)
  /\ Refuse(r, "duplicate")

(* The foreign key to products takes FOR KEY SHARE, which no update here    *)
(* conflicts with.                                                          *)
AddItem(r) ==
  LET l == Current(r) IN
  /\ pc[r] = "adding"
  /\ items' = [items EXCEPT ![r][l.product] = @ + l.quantity]
  /\ Advance(r, "taking")
  /\ UNCHANGED <<rowVars, bindable, deleted, orders, number, cart, seen, line,
                 reply, edits>>

(* A bug: write back what is left of the quantity that was read. *)
LeftOfSeen(r) == seen[r][line[r]] - Current(r).quantity

Left(r) == working[Current(r).product] - Current(r).quantity

(* A bug: leave the loop one line early. *)
MoreBeforeLast(r) == line[r] + 1 < Len(cart[r])

MoreLines(r) == line[r] < Len(cart[r])

(* UPDATE products SET quantity = quantity - ?, on the newest version.  The *)
(* stock is not tested again.                                               *)
TakeStock(r) ==
  LET p == Current(r).product IN
  /\ pc[r] = "taking"
  /\ holder[p] \in {None, r}
  /\ holder' = [holder EXCEPT ![p] = r]
  /\ working' = [working EXCEPT ![p] = Left(r)]
  /\ Advance(r, IF MoreLines(r) THEN "adding" ELSE "committing")
  /\ line' = [line EXCEPT ![r] = @ + 1]
  /\ UNCHANGED <<stock, bindable, deleted, orders, items, number, cart, seen,
                 reply, edits>>

(* The transaction becomes visible and its rows are unlocked. *)
Publish(r) ==
  /\ orders' = orders \cup {r}
  /\ stock' = [p \in Products |->
                 IF holder[p] = r THEN working[p] ELSE stock[p]]
  /\ holder' = [p \in Products |->
                 IF holder[p] = r THEN None ELSE holder[p]]
  /\ UNCHANGED <<working, bindable, deleted, items, number, cart, edits>>

Commit(r) ==
  /\ pc[r] = "committing"
  /\ Publish(r)
  /\ Leave(r, "answered", "created")

(* The server has committed and PHP never hears of it: the connection drops *)
(* and the exception is answered like any other, or the worker dies too.    *)
CommitUnheard(r) ==
  /\ pc[r] = "committing"
  /\ Publish(r)
  /\ \/ Leave(r, "answered", "error")
     \/ Leave(r, "lost", "none")

-------------------------------------------------------------------------------
(* What else happens to a transaction. *)

(* r's statement waits for s's transaction to end. *)
WaitsFor(r, s) ==
  \/ /\ pc[r] = "taking"
     /\ s # r
     /\ holder[Current(r).product] = s
  \/ /\ pc[r] = "creating"
     /\ bindable
     /\ s # r
     /\ Inserted(s)
     /\ number[s] = number[r]

(* r is on a cycle of waits: a set of requests each of which waits for one  *)
(* of them and is waited for by one of them.                                *)
Deadlocked(r) ==
  \E S \in SUBSET Requests :
    /\ r \in S
    /\ \A s \in S : /\ \E t \in S : WaitsFor(s, t)
                    /\ \E t \in S : WaitsFor(t, s)

(* A bug: start the transaction again, as often as it takes. *)
TryAgain(r) ==
  /\ Deadlocked(r)
  /\ Rollback(r, "checking", "none")

(* PostgreSQL's deadlock_timeout ends one of the transactions on a cycle.   *)
(* DB::transaction makes a single attempt, so the error is rethrown.        *)
DeadlockVictim(r) ==
  /\ Deadlocked(r)
  /\ Refuse(r, "deadlock")

(* Any statement may fail for another reason: the connection is lost, a     *)
(* statement times out.                                                     *)
FailStatement(r) ==
  /\ InTransaction(r)
  /\ Refuse(r, "error")

(* The worker dies; nobody answers. *)
Crash(r) ==
  /\ InTransaction(r)
  /\ Rollback(r, "lost", "none")

-------------------------------------------------------------------------------
(* Sellers. *)

(* PUT /products/{product}: route binding loads the model... *)
LoadProduct(p) ==
  /\ Cardinality(edits) < MaxEdits
  /\ p \notin deleted
  /\ edits' = edits \cup {[product |-> p, loaded |-> stock[p]]}
  /\ UNCHANGED <<rowVars, bindable, deleted, orders, items, number, pc, cart,
                 seen, line, reply>>

(* ...and $product->update($request->validated()) writes the quantity, if   *)
(* it differs from the loaded one, once the row is free.                    *)
SaveProduct(e) ==
  /\ e \in edits
  /\ \E q \in Restocks :
       \/ /\ q = e.loaded
          /\ UNCHANGED rowVars
       \/ /\ q # e.loaded
          /\ holder[e.product] = None
          /\ stock' = [stock EXCEPT ![e.product] = q]
          /\ working' = [working EXCEPT ![e.product] = q]
          /\ UNCHANGED holder
  /\ edits' = edits \ {e}
  /\ UNCHANGED <<bindable, deleted, orders, items, number, pc, cart, seen,
                 line, reply>>

(* DELETE /products/{product} sets deleted_at; the row remains. *)
DestroyProduct(p) ==
  /\ p \notin deleted
  /\ holder[p] = None
  /\ deleted' = deleted \cup {p}
  /\ UNCHANGED <<bindable, rowVars, orders, items, number, pc, cart, seen,
                 line, reply, edits>>

-------------------------------------------------------------------------------
(* A worker's own progress, as against what may befall it. *)
Step(r) ==
  \/ CheckLine(r)
  \/ RefuseMissing(r)
  \/ RefuseInsufficient(r)
  \/ GenerateNumber(r)
  \/ CreateOrder(r)
  \/ RefuseUnbindable(r)
  \/ RefuseDuplicate(r)
  \/ AddItem(r)
  \/ TakeStock(r)
  \/ Commit(r)

Next ==
  \/ \E r \in Requests :
       \/ Submit(r)
       \/ Step(r)
       \/ CommitUnheard(r)
       \/ DeadlockVictim(r)
       \/ FailStatement(r)
       \/ Crash(r)
  \/ \E p \in Products : LoadProduct(p) \/ DestroyProduct(p)
  \/ \E e \in edits : SaveProduct(e)

Spec == Init /\ [][Next]_vars

(* A worker runs its request to the end, and PostgreSQL finds deadlocks.    *)
(* Nothing forces a customer, a seller, a failure or a crash.               *)
Fairness ==
  \A r \in Requests : WF_vars(Step(r)) /\ WF_vars(DeadlockVictim(r))

FairSpec == Spec /\ Fairness

-------------------------------------------------------------------------------
(* Properties. *)

(* An order is all or nothing: a committed one has exactly the units of its *)
(* whole cart, and a request that ended without committing left no item.    *)
WholeOrders ==
  \A r \in Requests :
    /\ r \in orders =>
         items[r] = [p \in Products |-> CartUnits(cart[r], p)]
    /\ ~InTransaction(r) /\ r \notin orders => items[r] = NoUnits

(* What a transaction in flight has done to the stock is exactly what its   *)
(* item rows say, less the line it has yet to take; it did it to rows it    *)
(* holds, and nobody else sees it.  A request outside a transaction holds   *)
(* no row, and without a committed order it has no item.                    *)
Pending(r, p) ==
  IF pc[r] = "taking" /\ Current(r).product = p THEN Current(r).quantity ELSE 0

Taken(r, p) == IF holder[p] = r THEN stock[p] - working[p] ELSE 0

Isolation ==
  /\ \A p \in Products : holder[p] = None => working[p] = stock[p]
  /\ \A r \in Requests :
       /\ Inserted(r) => \A p \in Products :
                            items[r][p] = Taken(r, p) + Pending(r, p)
       /\ ~Inserted(r) => \A p \in Products : holder[p] # r
       /\ ~Inserted(r) /\ r \notin orders => items[r] = NoUnits
       /\ r \in orders => pc[r] \in {"answered", "lost"}

(* Where the indices of a request point. *)
Positions ==
  \A r \in Requests :
    /\ pc[r] = "idle" => seen[r] = <<>>
    /\ pc[r] # "idle" => cart[r] \in Carts
    /\ pc[r] = "checking" => Len(seen[r]) < Len(cart[r])
    /\ pc[r] \in {"numbering", "creating"} \/ Inserted(r) =>
         Len(seen[r]) = Len(cart[r])
    /\ pc[r] \in {"adding", "taking"} => line[r] \in 1 .. Len(cart[r])
    /\ pc[r] = "committing" => line[r] = Len(cart[r]) + 1

(* Rows inserted or committed have different numbers. *)
NumbersDiffer ==
  \A r, s \in Requests :
    /\ r # s
    /\ Inserted(r) \/ r \in orders
    /\ Inserted(s) \/ s \in orders
    => number[r] # number[s]

(* Every quantity a transaction has read covered the line it was read for.  *)
LinesChecked ==
  \A r \in Requests :
    \A i \in 1 .. Len(seen[r]) : seen[r][i] >= cart[r][i].quantity

(* The items of a cart of different products are those of its lines up to   *)
(* the current one.                                                         *)
DistinctLines(c) ==
  \A i, j \in 1 .. Len(c) : c[i].product = c[j].product => i = j

Written(r, i) == i < line[r] \/ (i = line[r] /\ pc[r] = "taking")

LinesWritten ==
  \A r \in Requests :
    Inserted(r) /\ DistinctLines(cart[r]) =>
      \A i \in 1 .. Len(cart[r]) :
        items[r][cart[r][i].product] =
          IF Written(r, i) THEN cart[r][i].quantity ELSE 0

(* The units of a product that the committed orders have.                   *)
Sold(p) == MapThenSumSet(LAMBDA r : items[r][p], orders)

(* Without sellers the stock is a ledger: what is left of a product is what *)
(* there was less the units of the committed orders, whatever order their   *)
(* decrements took effect in.                                               *)
LedgerBalanced == \A p \in Products : stock[p] = Opening[p] - Sold(p)

(* No two committed orders have the same order_number: generateOrderNumber  *)
(* repeats itself, and only the unique index stands in the way.             *)
UniqueNumbers ==
  \A r, s \in orders : r # s => number[r] # number[s]

(* What a customer is told is true.  "created" is only answered for an      *)
(* order that is there; a refusal of the shop is only answered for one that *)
(* is not, so it is safe to try again; only a lost connection or a dead     *)
(* worker leaves the customer in doubt.                                     *)
AnswersMatchOrders ==
  \A r \in Requests :
    /\ reply[r] = "created" => r \in orders
    /\ r \in orders => \/ reply[r] \in {"created", "error"}
                       \/ pc[r] = "lost"

(* The stock test does protect an order that runs alone: if its lines name  *)
(* different products and no quantity changed since it was read, what the   *)
(* order leaves behind is not negative.  (Every other case oversells: see   *)
(* StockNeverNegative.)                                                     *)
SeenStillTrue(r) ==
  \A i \in 1 .. Len(seen[r]) : stock[cart[r][i].product] = seen[r][i]

SoldWithinWhatWasSeen ==
  [][\A r \in orders' \ orders :
       DistinctLines(cart[r]) /\ SeenStillTrue(r) =>
         \A i \in 1 .. Len(cart[r]) : stock'[cart[r][i].product] >= 0]_vars

(* Requests only wait for each other in a circle when their carts disagree  *)
(* about the order of the products: were the lines sorted by product, no    *)
(* checkout would ever be the victim of a deadlock.                         *)
CartsAgree ==
  \E rank \in [Products -> 1 .. Cardinality(Products)] :
    \A r \in Requests :
      \A i, j \in 1 .. Len(cart[r]) :
        /\ i < j
        /\ cart[r][i].product # cart[r][j].product
        => rank[cart[r][i].product] < rank[cart[r][j].product]

DeadlockNeedsDisagreement ==
  (\E r \in Requests : Deadlocked(r)) => ~CartsAgree

(* Nobody waits for ever for a row or for an order number: every request    *)
(* that is submitted is answered, unless its worker dies.                   *)
EveryRequestEnds ==
  \A r \in Requests :
    pc[r] = "checking" ~> pc[r] \in {"answered", "lost"}

(* What OrderService.php:20 sets out to do, "Validate all products exist    *)
(* and have sufficient stock": no product is ever sold below zero.          *)
StockNeverNegative == \A p \in Products : stock[p] >= 0

(* What tests/Feature/OrderTest.php expects of an order for a product in    *)
(* stock: it is not refused for the shape of its address.                   *)
AddressAccepted == \A r \in Requests : reply[r] # "unbindable"

-------------------------------------------------------------------------------
(* The stock as module Inventory promises it: an order and its units appear *)
(* when the transaction commits, all at once.                               *)
Bought(r) == IF r \in orders THEN items[r] ELSE NoUnits

Shop == INSTANCE Inventory WITH
          Orders   <- Requests,
          quantity <- stock,
          placed   <- orders,
          bought   <- [r \in Requests |-> Bought(r)]

ImplementsInventory == Shop!Spec

=============================================================================
