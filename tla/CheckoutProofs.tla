---------------------------- MODULE CheckoutProofs ----------------------------
(***************************************************************************)
(* Theorems about module Checkout, for any number of requests and products *)
(* and any carts, stock and order numbers.                                 *)
(***************************************************************************)
EXTENDS Checkout, FiniteSetTheorems, WellFoundedInduction, TLAPS

-------------------------------------------------------------------------------
(* Lines of carts. *)

LEMMA CartLines ==
  ASSUME NEW c \in Carts
  PROVE  /\ c \in Seq(Line)
         /\ Len(c) \in Nat \ {0}
         /\ \A i \in 1 .. Len(c) : /\ c[i] \in Line
                                   /\ c[i].product \in Products
                                   /\ c[i].quantity \in Nat \ {0}
<1>1. c \in Seq(Line) /\ c # <<>>
  BY CartsAssumption
<1>2. Len(c) \in Nat \ {0}
  BY <1>1
<1>3. \A i \in 1 .. Len(c) : c[i] \in Line
  BY <1>1
<1> QED
  BY <1>1, <1>2, <1>3 DEF Line

(* The line a request is at is a line of its cart. *)
LEMMA CurrentLine ==
  ASSUME TypeOK, Positions,
         NEW r \in Requests, pc[r] \in {"checking", "adding", "taking"}
  PROVE  Current(r).product \in Products /\ Current(r).quantity \in Nat \ {0}
<1>1. cart[r] \in Carts /\ seen[r] \in Seq(Int)
  BY DEF Positions, TypeOK
<1>2. CASE pc[r] = "checking"
  <2>1. Len(seen[r]) + 1 \in 1 .. Len(cart[r])
    BY <1>1, <1>2, CartLines DEF Positions
  <2> QED
    BY <1>1, <1>2, <2>1, CartLines DEF Current
<1>3. CASE pc[r] \in {"adding", "taking"}
  <2>1. line[r] \in 1 .. Len(cart[r])
    BY <1>3 DEF Positions
  <2> QED
    BY <1>1, <1>3, <2>1, CartLines DEF Current
<1> QED
  BY <1>2, <1>3

(* Only a transaction can be on a circle of waits. *)
LEMMA DeadlockedActive ==
  ASSUME NEW r \in Requests, Deadlocked(r)
  PROVE  InTransaction(r)
BY DEF Deadlocked, WaitsFor, InTransaction

-------------------------------------------------------------------------------
(* Types. *)

(* What a request leaves behind when its transaction is rolled back. *)
LEMMA RollbackTyped ==
  ASSUME TypeOK, Positions,
         NEW r \in Requests, InTransaction(r),
         NEW phase \in {"answered", "lost"}, NEW why \in Replies,
         Rollback(r, phase, why)
  PROVE  TypeOK' /\ Positions'
<1> USE DEF Rollback, Leave, Advance
<1>1. TypeOK'
  <2>1. working' \in [Products -> Int] /\ holder' \in [Products -> Requests \cup {None}]
    BY DEF TypeOK
  <2>2. items' \in [Requests -> [Products -> Nat]]
    BY DEF TypeOK, NoUnits
  <2>3. seen' \in [Requests -> Seq(Int)]
    BY DEF TypeOK
  <2>4. pc' \in [Requests -> Phases] /\ reply' \in [Requests -> Replies]
    BY DEF TypeOK, Phases
  <2> QED
    BY <2>1, <2>2, <2>3, <2>4 DEF TypeOK
<1>2. Positions'
  BY DEF TypeOK, Positions, Inserted, InTransaction
<1> QED
  BY <1>1, <1>2

LEMMA PublishTyped ==
  ASSUME TypeOK, Positions,
         NEW r \in Requests, InTransaction(r), Publish(r),
         NEW phase \in {"answered", "lost"}, NEW why \in Replies,
         Leave(r, phase, why)
  PROVE  TypeOK' /\ Positions'
<1> USE DEF Publish, Leave, Advance
<1>1. TypeOK'
  <2>1. stock' \in [Products -> Int] /\ holder' \in [Products -> Requests \cup {None}]
    BY DEF TypeOK
  <2>2. seen' \in [Requests -> Seq(Int)]
    BY DEF TypeOK
  <2>3. pc' \in [Requests -> Phases] /\ reply' \in [Requests -> Replies]
    BY DEF TypeOK, Phases
  <2> QED
    BY <2>1, <2>2, <2>3 DEF TypeOK
<1>2. Positions'
  BY DEF TypeOK, Positions, Inserted, InTransaction
<1> QED
  BY <1>1, <1>2

LEMMA TypeInit == Init => TypeOK /\ Positions
<1> SUFFICES ASSUME Init PROVE TypeOK /\ Positions
  OBVIOUS
<1>1. TypeOK
  BY OpeningAssumption DEF Init, TypeOK, NoUnits, Phases, Replies
<1>2. Positions
  BY DEF Init, Positions, Inserted
<1> QED
  BY <1>1, <1>2

LEMMA TypeStep ==
  ASSUME TypeOK, Positions, [Next]_vars
  PROVE  TypeOK' /\ Positions'
<1>1. ASSUME NEW r \in Requests, Submit(r)
      PROVE  TypeOK' /\ Positions'
  <2>1. TypeOK'
    BY <1>1 DEF TypeOK, Submit, Advance, rowVars, Phases
  <2>2. Positions'
    BY <1>1, CartLines DEF Submit, Advance, rowVars, TypeOK, Positions, Inserted
  <2> QED
    BY <2>1, <2>2
<1>2. ASSUME NEW r \in Requests, CheckLine(r)
      PROVE  TypeOK' /\ Positions'
  <2>1. Current(r).product \in Products
    BY <1>2, CurrentLine DEF CheckLine
  <2>2. /\ Append(seen[r], stock[Current(r).product]) \in Seq(Int)
        /\ Len(Append(seen[r], stock[Current(r).product])) = Len(seen[r]) + 1
    BY <2>1 DEF TypeOK
  <2>3. TypeOK'
    BY <1>2, <2>2 DEF TypeOK, CheckLine, Advance, rowVars, Phases
  <2>4. Len(seen[r]) < Len(cart[r]) /\ cart[r] \in Carts
    BY <1>2 DEF Positions, CheckLine
  <2>5. Len(cart[r]) \in Nat /\ Len(seen[r]) \in Nat
    BY <2>4, CartLines DEF TypeOK
  <2>6. seen'[r] = Append(seen[r], stock[Current(r).product])
        /\ \A s \in Requests \ {r} : seen'[s] = seen[s] /\ pc'[s] = pc[s]
    BY <1>2 DEF CheckLine, Advance, TypeOK
  <2>7. pc'[r] = IF Len(seen[r]) + 1 < Len(cart[r]) THEN "checking" ELSE "numbering"
    BY <1>2 DEF CheckLine, Advance, TypeOK
  <2>8. Positions'
    BY <1>2, <2>2, <2>4, <2>5, <2>6, <2>7 DEF CheckLine, Positions, Inserted
  <2> QED
    BY <2>3, <2>8
<1>3. ASSUME NEW r \in Requests, NEW why \in Replies, Refuse(r, why),
             InTransaction(r)
      PROVE  TypeOK' /\ Positions'
  BY <1>3, RollbackTyped DEF Refuse
<1>4. ASSUME NEW r \in Requests, GenerateNumber(r)
      PROVE  TypeOK' /\ Positions'
  <2>1. TypeOK'
    BY <1>4 DEF TypeOK, GenerateNumber, Advance, rowVars, Phases
  <2>2. Positions'
    BY <1>4 DEF GenerateNumber, Advance, rowVars, TypeOK, Positions, Inserted
  <2> QED
    BY <2>1, <2>2
<1>5. ASSUME NEW r \in Requests, CreateOrder(r)
      PROVE  TypeOK' /\ Positions'
  <2>1. TypeOK'
    BY <1>5 DEF TypeOK, CreateOrder, Advance, rowVars, Phases
  <2>2. 1 \in 1 .. Len(cart[r])
    BY <1>5, CartLines DEF CreateOrder, Positions
  <2>3. Positions'
    BY <1>5, <2>2 DEF CreateOrder, Advance, rowVars, TypeOK, Positions, Inserted
  <2> QED
    BY <2>1, <2>3
<1>6. ASSUME NEW r \in Requests, AddItem(r)
      PROVE  TypeOK' /\ Positions'
  <2>1. Current(r).product \in Products /\ Current(r).quantity \in Nat
    BY <1>6, CurrentLine DEF AddItem
  <2>2. items' \in [Requests -> [Products -> Nat]]
    BY <1>6, <2>1 DEF AddItem, TypeOK
  <2>3. TypeOK'
    BY <1>6, <2>2 DEF TypeOK, AddItem, Advance, rowVars, Phases
  <2>4. Positions'
    BY <1>6 DEF AddItem, Advance, rowVars, TypeOK, Positions, Inserted
  <2> QED
    BY <2>3, <2>4
<1>7. ASSUME NEW r \in Requests, TakeStock(r)
      PROVE  TypeOK' /\ Positions'
  <2>1. Current(r).product \in Products /\ Current(r).quantity \in Nat
    BY <1>7, CurrentLine DEF TakeStock
  <2>2. Left(r) \in Int
    BY <2>1 DEF Left, TypeOK
  <2>3. TypeOK'
    BY <1>7, <2>1, <2>2 DEF TypeOK, TakeStock, Advance, Phases
  <2>4. line[r] \in 1 .. Len(cart[r]) /\ Len(cart[r]) \in Nat
    BY <1>7, CartLines DEF TakeStock, Positions
  <2>5. /\ line'[r] = line[r] + 1
        /\ pc'[r] = IF line[r] < Len(cart[r]) THEN "adding" ELSE "committing"
        /\ \A s \in Requests \ {r} : line'[s] = line[s] /\ pc'[s] = pc[s]
    BY <1>7 DEF TakeStock, Advance, MoreLines, TypeOK
  <2>6. Positions'
    BY <1>7, <2>4, <2>5 DEF TakeStock, Positions, Inserted
  <2> QED
    BY <2>3, <2>6
<1>8. ASSUME NEW r \in Requests, Commit(r) \/ CommitUnheard(r)
      PROVE  TypeOK' /\ Positions'
  BY <1>8, PublishTyped DEF Commit, CommitUnheard, Replies, InTransaction
<1>9. ASSUME NEW p \in Products, LoadProduct(p)
      PROVE  TypeOK' /\ Positions'
  BY <1>9 DEF LoadProduct, rowVars, TypeOK, Edit, Positions, Inserted
<1>10. ASSUME NEW p \in Products, DestroyProduct(p)
       PROVE  TypeOK' /\ Positions'
  BY <1>10 DEF DestroyProduct, rowVars, TypeOK, Positions, Inserted
<1>11. ASSUME NEW e \in edits, SaveProduct(e)
       PROVE  TypeOK' /\ Positions'
  BY <1>11, RestocksAssumption
     DEF SaveProduct, rowVars, TypeOK, Edit, Positions, Inserted
<1>12. CASE UNCHANGED vars
  BY <1>12 DEF vars, rowVars, TypeOK, Positions, Inserted
<1>13. ASSUME NEW r \in Requests, Crash(r)
       PROVE  TypeOK' /\ Positions'
  BY <1>13, RollbackTyped DEF Crash, Replies
<1>14. \A r \in Requests : Deadlocked(r) => InTransaction(r)
  BY DeadlockedActive
<1> QED
  BY <1>1, <1>2, <1>3, <1>4, <1>5, <1>6, <1>7, <1>8, <1>9, <1>10, <1>11,
     <1>12, <1>13, <1>14
     DEF Next, Step, RefuseMissing, RefuseInsufficient, RefuseUnbindable,
         RefuseDuplicate, DeadlockVictim, FailStatement, InTransaction, Replies

(* Every variable keeps its type, and the indices of a request always point *)
(* into its cart.                                                           *)
THEOREM TypeCorrect == Spec => [](TypeOK /\ Positions)
<1>1. Init => TypeOK /\ Positions
  BY TypeInit
<1>2. TypeOK /\ Positions /\ [Next]_vars => TypeOK' /\ Positions'
  BY TypeStep
<1> QED
  BY <1>1, <1>2, PTL DEF Spec

-------------------------------------------------------------------------------
(* Isolation. *)

(* The pending line of a request depends on that request alone. *)
LEMMA PendingKept ==
  ASSUME NEW s \in Requests, NEW p \in Products,
         pc'[s] = pc[s], cart'[s] = cart[s],
         line'[s] = line[s], seen'[s] = seen[s]
  PROVE  Pending(s, p)' = Pending(s, p)
BY DEF Pending, Current

(* The part of Isolation that speaks of one request. *)
Isolated(r) ==
  /\ Inserted(r) => \A p \in Products :
                       items[r][p] = Taken(r, p) + Pending(r, p)
  /\ ~Inserted(r) => \A p \in Products : holder[p] # r
  /\ ~Inserted(r) /\ r \notin orders => items[r] = NoUnits
  /\ r \in orders => pc[r] \in {"answered", "lost"}

(* A request stays isolated while others change rows it does not hold. *)
LEMMA IsolatedKept ==
  ASSUME Isolation, NEW s \in Requests,
         pc'[s] = pc[s], cart'[s] = cart[s], line'[s] = line[s],
         seen'[s] = seen[s], items'[s] = items[s],
         s \in orders' <=> s \in orders,
         \A p \in Products : Taken(s, p)' = Taken(s, p),
         \A p \in Products : holder'[p] = s <=> holder[p] = s
  PROVE  Isolated(s)'
<1>1. Isolated(s)
  BY DEF Isolation, Isolated
<1>2. \A p \in Products : Pending(s, p)' = Pending(s, p)
  BY PendingKept
<1>3. Inserted(s)' = Inserted(s)
  BY DEF Inserted
<1> QED
  BY <1>1, <1>2, <1>3 DEF Isolated, NoUnits

LEMMA RollbackIsolated ==
  ASSUME TypeOK, Isolation,
         NEW r \in Requests, InTransaction(r),
         NEW phase \in {"answered", "lost"}, NEW why \in Replies,
         Rollback(r, phase, why)
  PROVE  Isolation'
<1> USE DEF Rollback, Leave, Advance
<1>1. r # None /\ r \notin orders
  BY NoneAssumption DEF Isolation, InTransaction
<1>2. \A p \in Products : holder'[p] = None => working'[p] = stock'[p]
  BY DEF TypeOK, Isolation
<1>3. Isolated(r)'
  BY <1>1 DEF TypeOK, Isolated, Inserted, NoUnits
<1>4. ASSUME NEW s \in Requests \ {r}
      PROVE  Isolated(s)'
  <2>1. \A p \in Products : Taken(s, p)' = Taken(s, p)
    BY NoneAssumption DEF TypeOK, Taken
  <2>2. \A p \in Products : holder'[p] = s <=> holder[p] = s
    BY NoneAssumption DEF TypeOK
  <2> QED
    BY <2>1, <2>2, IsolatedKept DEF TypeOK
<1> QED
  BY <1>2, <1>3, <1>4 DEF Isolation, Isolated

LEMMA PublishIsolated ==
  ASSUME TypeOK, Isolation,
         NEW r \in Requests, Publish(r),
         NEW phase \in {"answered", "lost"}, NEW why \in Replies,
         Leave(r, phase, why)
  PROVE  Isolation'
<1> USE DEF Publish, Leave, Advance
<1>1. r # None
  BY NoneAssumption
<1>2. \A p \in Products : holder'[p] = None => working'[p] = stock'[p]
  BY DEF TypeOK, Isolation
<1>3. Isolated(r)'
  BY <1>1 DEF TypeOK, Isolated, Inserted
<1>4. ASSUME NEW s \in Requests \ {r}
      PROVE  Isolated(s)'
  <2>1. \A p \in Products : Taken(s, p)' = Taken(s, p)
    BY NoneAssumption DEF TypeOK, Taken
  <2>2. \A p \in Products : holder'[p] = s <=> holder[p] = s
    BY NoneAssumption DEF TypeOK
  <2> QED
    BY <2>1, <2>2, IsolatedKept DEF TypeOK
<1> QED
  BY <1>2, <1>3, <1>4 DEF Isolation, Isolated

(* A step of r that leaves all rows and items as they are, and neither      *)
(* enters nor leaves the insertion.                                         *)
LEMMA ProgressIsolated ==
  ASSUME TypeOK, Isolation,
         NEW r \in Requests,
         pc[r] \in {"idle", "checking", "numbering"},
         NEW phase \in {"checking", "numbering", "creating"},
         Advance(r, phase),
         UNCHANGED <<stock, working, holder, orders, items, line>>,
         \A s \in Requests \ {r} : cart'[s] = cart[s] /\ seen'[s] = seen[s]
  PROVE  Isolation'
<1> USE DEF Advance
<1>1. Isolated(r)'
  BY DEF TypeOK, Isolation, Isolated, Inserted, NoUnits
<1>2. ASSUME NEW s \in Requests \ {r}
      PROVE  Isolated(s)'
  BY IsolatedKept DEF TypeOK, Taken
<1> QED
  BY <1>1, <1>2 DEF Isolation, Isolated

LEMMA IsolationInit == Init => Isolation
BY NoneAssumption DEF Init, Isolation, Inserted, NoUnits

LEMMA IsolationStep ==
  ASSUME TypeOK, Positions, Isolation, [Next]_vars
  PROVE  Isolation'
<1>1. ASSUME NEW r \in Requests,
             Submit(r) \/ CheckLine(r) \/ GenerateNumber(r)
      PROVE  Isolation'
  BY <1>1, ProgressIsolated
     DEF Submit, CheckLine, GenerateNumber, rowVars, TypeOK
<1>2. ASSUME NEW r \in Requests, InTransaction(r),
             NEW why \in Replies, Refuse(r, why)
      PROVE  Isolation'
  BY <1>2, RollbackIsolated DEF Refuse
<1>3. ASSUME NEW r \in Requests, CreateOrder(r)
      PROVE  Isolation'
  <2>1. Isolated(r)'
    <3>1. pc[r] = "creating" /\ pc'[r] = "adding"
      BY <1>3 DEF CreateOrder, Advance, TypeOK
    <3>2. /\ items[r] = NoUnits
          /\ r \notin orders
          /\ \A p \in Products : holder[p] # r
      BY <3>1 DEF Isolation, Inserted
    <3>3. UNCHANGED <<stock, working, holder, items, orders>>
      BY <1>3 DEF CreateOrder, rowVars
    <3>4. \A p \in Products : Taken(r, p)' = 0 /\ Pending(r, p)' = 0
      BY <3>1, <3>2, <3>3 DEF Taken, Pending
    <3>5. \A p \in Products : items'[r][p] = 0
      BY <3>2, <3>3 DEF NoUnits
    <3> QED
      BY <3>1, <3>2, <3>3, <3>4, <3>5 DEF Isolated, Inserted
  <2>2. ASSUME NEW s \in Requests \ {r}
        PROVE  Isolated(s)'
    BY <1>3, IsolatedKept DEF CreateOrder, Advance, rowVars, TypeOK, Taken
  <2> QED
    BY <1>3, <2>1, <2>2 DEF CreateOrder, rowVars, Isolation, Isolated
<1>4. ASSUME NEW r \in Requests, AddItem(r)
      PROVE  Isolation'
  <2> DEFINE l == Current(r)
  <2>1. l.product \in Products /\ l.quantity \in Nat
    BY <1>4, CurrentLine DEF AddItem
  <2>2. pc[r] = "adding" /\ pc'[r] = "taking"
    BY <1>4 DEF AddItem, Advance, TypeOK
  <2>3. Current(r)' = l
    BY <1>4, <2>2 DEF Current, AddItem
  <2>4. \A p \in Products : /\ Pending(r, p) = 0
                            /\ Pending(r, p)' = IF p = l.product
                                                  THEN l.quantity ELSE 0
                            /\ Taken(r, p)' = Taken(r, p)
    BY <1>4, <2>2, <2>3 DEF Pending, Taken, AddItem, rowVars
  <2>5. \A p \in Products :
          items'[r][p] = items[r][p] + IF p = l.product THEN l.quantity ELSE 0
    BY <1>4, <2>1 DEF AddItem, TypeOK
  <2>6. \A p \in Products : items'[r][p] = Taken(r, p)' + Pending(r, p)'
    <3>1. \A p \in Products : items[r][p] = Taken(r, p) + Pending(r, p)
      BY <2>2 DEF Isolation, Inserted
    <3>2. \A p \in Products : Taken(r, p) \in Int
      BY DEF Taken, TypeOK
    <3> QED
      BY <2>1, <2>4, <2>5, <3>1, <3>2
  <2>7. Isolated(r)'
    BY <1>4, <2>2, <2>6 DEF Isolation, Isolated, Inserted, AddItem
  <2>8. ASSUME NEW s \in Requests \ {r}
        PROVE  Isolated(s)'
    BY <1>4, IsolatedKept DEF AddItem, Advance, rowVars, TypeOK, Taken
  <2> QED
    BY <1>4, <2>7, <2>8 DEF AddItem, rowVars, Isolation, Isolated
<1>5. ASSUME NEW r \in Requests, TakeStock(r)
      PROVE  Isolation'
  <2>1. PICK q \in Products, n \in Nat :
          q = Current(r).product /\ n = Current(r).quantity
    BY <1>5, CurrentLine DEF TakeStock
  <2>2. pc[r] = "taking" /\ pc'[r] \in {"adding", "committing"}
    BY <1>5 DEF TakeStock, Advance, TypeOK
  <2>3. /\ holder[q] \in {None, r}
        /\ holder' = [holder EXCEPT ![q] = r]
        /\ working' = [working EXCEPT ![q] = working[q] - n]
        /\ stock' = stock /\ items' = items /\ orders' = orders
    BY <1>5, <2>1 DEF TakeStock, Left
  <2>4. r # None
    BY NoneAssumption
  <2>5. \A p \in Products : items'[r][p] = Taken(r, p)' + Pending(r, p)'
    <3>1. \A p \in Products : items[r][p] = Taken(r, p) + Pending(r, p)
      BY <2>2 DEF Isolation, Inserted
    <3>2. \A p \in Products : /\ Pending(r, p) = IF p = q THEN n ELSE 0
                              /\ Pending(r, p)' = 0
      BY <2>1, <2>2 DEF Pending
    <3>3. holder[q] = None => working[q] = stock[q]
      BY <2>1 DEF Isolation
    <3>4. Taken(r, q)' = Taken(r, q) + n
      <4>1. holder'[q] = r /\ working'[q] = working[q] - n
        BY <2>1, <2>3 DEF TypeOK
      <4>2. Taken(r, q)' = stock[q] - (working[q] - n)
        BY <2>3, <4>1 DEF Taken
      <4>3. Taken(r, q) = stock[q] - working[q]
        BY <2>1, <2>3, <3>3 DEF Taken, TypeOK
      <4>4. stock[q] \in Int /\ working[q] \in Int
        BY <2>1 DEF TypeOK
      <4> QED
        BY <2>1, <4>2, <4>3, <4>4
    <3>5. \A p \in Products \ {q} : Taken(r, p)' = Taken(r, p)
      BY <2>3 DEF Taken, TypeOK
    <3>6. \A p \in Products : Taken(r, p) \in Int
      BY DEF Taken, TypeOK
    <3>7. items'[r][q] = Taken(r, q)' + Pending(r, q)'
      BY <2>1, <2>3, <3>1, <3>2, <3>4, <3>6
    <3>8. \A p \in Products \ {q} : items'[r][p] = Taken(r, p)' + Pending(r, p)'
      BY <2>3, <3>1, <3>2, <3>5, <3>6
    <3> QED
      BY <3>7, <3>8
  <2>6. Isolated(r)'
    BY <2>2, <2>3, <2>5 DEF Isolation, Isolated, Inserted
  <2>7. ASSUME NEW s \in Requests \ {r}
        PROVE  Isolated(s)'
    <3>1. \A p \in Products : /\ Taken(s, p)' = Taken(s, p)
                              /\ holder'[p] = s <=> holder[p] = s
      BY <2>1, <2>3, NoneAssumption DEF TypeOK, Taken
    <3> QED
      BY <1>5, <2>3, <3>1, IsolatedKept DEF TakeStock, Advance, TypeOK
  <2>8. \A p \in Products : holder'[p] = None => working'[p] = stock'[p]
    BY <2>1, <2>3, <2>4 DEF Isolation, TypeOK
  <2> QED
    BY <2>6, <2>7, <2>8 DEF Isolation, Isolated
<1>6. ASSUME NEW r \in Requests, Commit(r) \/ CommitUnheard(r)
      PROVE  Isolation'
  BY <1>6, PublishIsolated DEF Commit, CommitUnheard, Replies
<1>7. ASSUME NEW r \in Requests, Crash(r)
      PROVE  Isolation'
  BY <1>7, RollbackIsolated DEF Crash, Replies
<1>8. ASSUME NEW e \in edits, SaveProduct(e)
      PROVE  Isolation'
  <2>1. ASSUME NEW s \in Requests
        PROVE  Isolated(s)'
    <3>1. \A p \in Products : Taken(s, p)' = Taken(s, p)
      BY <1>8, NoneAssumption DEF SaveProduct, rowVars, TypeOK, Taken
    <3> QED
      BY <1>8, <3>1, IsolatedKept DEF SaveProduct, rowVars
  <2>2. \A p \in Products : holder'[p] = None => working'[p] = stock'[p]
    BY <1>8 DEF SaveProduct, rowVars, TypeOK, Isolation
  <2> QED
    BY <2>1, <2>2 DEF Isolation, Isolated
<1>9. ASSUME UNCHANGED <<rowVars, pc, cart, line, seen, items, orders>>
      PROVE  Isolation'
  <2>1. ASSUME NEW s \in Requests
        PROVE  Isolated(s)'
    BY <1>9, IsolatedKept DEF rowVars, Taken
  <2> QED
    BY <1>9, <2>1 DEF rowVars, Isolation, Isolated
<1>10. \A r \in Requests : Deadlocked(r) => InTransaction(r)
  BY DeadlockedActive
<1>11. CASE \E r \in Requests : Step(r) \/ DeadlockVictim(r) \/ FailStatement(r)
  BY <1>1, <1>2, <1>3, <1>4, <1>5, <1>6, <1>10, <1>11
     DEF Step, RefuseMissing, RefuseInsufficient, RefuseUnbindable,
         RefuseDuplicate, DeadlockVictim, FailStatement, InTransaction, Replies
<1>12. CASE \/ UNCHANGED vars
            \/ \E p \in Products : LoadProduct(p) \/ DestroyProduct(p)
  BY <1>9, <1>12 DEF vars, rowVars, LoadProduct, DestroyProduct
<1> QED
  BY <1>1, <1>6, <1>7, <1>8, <1>11, <1>12 DEF Next

(* A transaction in flight has changed only rows it holds, by exactly the   *)
(* units its item rows record.                                              *)
THEOREM TransactionsIsolated == Spec => []Isolation
<1>1. Init => Isolation
  BY IsolationInit
<1>2. TypeOK /\ Positions /\ Isolation /\ [Next]_vars => Isolation'
  BY IsolationStep
<1> QED
  BY <1>1, <1>2, TypeCorrect, PTL DEF Spec

-------------------------------------------------------------------------------
(* Order numbers. *)

Recorded(r) == Inserted(r) \/ r \in orders

LEMMA NumbersInit == Init => NumbersDiffer
BY DEF Init, NumbersDiffer, Inserted

(* Numbers stay different as long as nobody is recorded anew and those who  *)
(* are recorded keep their numbers.                                         *)
LEMMA NumbersKept ==
  ASSUME NumbersDiffer,
         \A r \in Requests : Recorded(r)' => Recorded(r) /\ number'[r] = number[r]
  PROVE  NumbersDiffer'
BY DEF NumbersDiffer, Recorded, Inserted

LEMMA NumbersStep ==
  ASSUME TypeOK, Positions, Isolation, NumbersDiffer, [Next]_vars
  PROVE  NumbersDiffer'
<1>1. ASSUME NEW r \in Requests, CreateOrder(r)
      PROVE  NumbersDiffer'
  <2>1. \A s \in Requests \ {r} : Recorded(s) => number[s] # number[r]
    BY <1>1 DEF CreateOrder, NumberPending, NumberTaken, Recorded
  <2>2. \A s \in Requests \ {r} : Recorded(s)' = Recorded(s)
    BY <1>1 DEF CreateOrder, Advance, Recorded, Inserted, TypeOK
  <2>3. number' = number
    BY <1>1 DEF CreateOrder
  <2>4. ASSUME NEW s \in Requests, NEW t \in Requests, s # t,
               Recorded(s)', Recorded(t)'
        PROVE  number[s] # number[t]
    <3>1. CASE s = r
      BY <2>1, <2>2, <2>4, <3>1
    <3>2. CASE t = r
      BY <2>1, <2>2, <2>4, <3>2
    <3>3. CASE s # r /\ t # r
      BY <2>2, <2>4, <3>3 DEF NumbersDiffer, Recorded
    <3> QED
      BY <3>1, <3>2, <3>3
  <2> QED
    BY <2>3, <2>4 DEF NumbersDiffer, Recorded, Inserted
<1>2. ASSUME NEW r \in Requests, pc[r] # "creating", Step(r) \/ Submit(r)
      PROVE  NumbersDiffer'
  <2>1. ASSUME NEW s \in Requests, Recorded(s)'
        PROVE  Recorded(s) /\ number'[s] = number[s]
    <3>1. CASE Submit(r)
      BY <2>1, <3>1 DEF Submit, Advance, TypeOK, Recorded, Inserted
    <3>2. CASE CheckLine(r)
      BY <2>1, <3>2 DEF CheckLine, Advance, TypeOK, Recorded, Inserted, Isolation
    <3>3. CASE GenerateNumber(r)
      BY <2>1, <3>3 DEF GenerateNumber, Advance, TypeOK, Recorded, Inserted, Isolation
    <3>4. CASE AddItem(r)
      BY <2>1, <3>4 DEF AddItem, Advance, TypeOK, Recorded, Inserted
    <3>5. CASE TakeStock(r)
      BY <2>1, <3>5 DEF TakeStock, Advance, TypeOK, Recorded, Inserted
    <3>6. CASE Commit(r)
      BY <2>1, <3>6 DEF Commit, Publish, Leave, Advance, TypeOK, Recorded, Inserted
    <3>7. CASE RefuseMissing(r) \/ RefuseInsufficient(r)
      BY <2>1, <3>7 DEF RefuseMissing, RefuseInsufficient, Refuse, Rollback,
                        Leave, Advance, TypeOK, Recorded, Inserted, Isolation
    <3> QED
      BY <1>2, <3>1, <3>2, <3>3, <3>4, <3>5, <3>6, <3>7
         DEF Step, CreateOrder, RefuseUnbindable, RefuseDuplicate
  <2> QED
    BY <2>1, NumbersKept
<1>3. ASSUME NEW r \in Requests, InTransaction(r),
             NEW phase \in {"answered", "lost"}, NEW why, Rollback(r, phase, why)
      PROVE  NumbersDiffer'
  <2>1. r \notin orders
    BY <1>3 DEF Isolation, InTransaction
  <2>2. ASSUME NEW s \in Requests, Recorded(s)'
        PROVE  Recorded(s) /\ number'[s] = number[s]
    BY <1>3, <2>1, <2>2
       DEF Rollback, Leave, Advance, TypeOK, Recorded, Inserted
  <2> QED
    BY <2>2, NumbersKept
<1>4. ASSUME NEW r \in Requests, CommitUnheard(r)
      PROVE  NumbersDiffer'
  <2>1. ASSUME NEW s \in Requests, Recorded(s)'
        PROVE  Recorded(s) /\ number'[s] = number[s]
    BY <1>4, <2>1
       DEF CommitUnheard, Publish, Leave, Advance, TypeOK, Recorded, Inserted
  <2> QED
    BY <2>1, NumbersKept
<1>5. ASSUME UNCHANGED <<pc, number, orders>>
      PROVE  NumbersDiffer'
  BY <1>5 DEF NumbersDiffer, Inserted
<1>6. \A r \in Requests : Deadlocked(r) => InTransaction(r)
  BY DeadlockedActive
<1>7. ASSUME NEW r \in Requests, RefuseUnbindable(r) \/ RefuseDuplicate(r)
      PROVE  NumbersDiffer'
  BY <1>3, <1>7 DEF RefuseUnbindable, RefuseDuplicate, Refuse, InTransaction
<1>8. ASSUME NEW r \in Requests, Step(r)
      PROVE  NumbersDiffer'
  BY <1>1, <1>2, <1>7, <1>8
     DEF Step, CheckLine, RefuseMissing, RefuseInsufficient, GenerateNumber,
         AddItem, TakeStock, Commit
<1>9. ASSUME NEW r \in Requests,
             DeadlockVictim(r) \/ FailStatement(r) \/ Crash(r)
      PROVE  NumbersDiffer'
  BY <1>3, <1>6, <1>9 DEF DeadlockVictim, FailStatement, Crash, Refuse
<1>10. CASE \/ UNCHANGED vars
            \/ \E p \in Products : LoadProduct(p) \/ DestroyProduct(p)
            \/ \E e \in edits : SaveProduct(e)
  BY <1>5, <1>10 DEF vars, LoadProduct, DestroyProduct, SaveProduct
<1>11. ASSUME NEW r \in Requests, Submit(r)
       PROVE  NumbersDiffer'
  BY <1>2, <1>11 DEF Submit
<1> QED
  BY <1>4, <1>8, <1>9, <1>10, <1>11 DEF Next

(* generateOrderNumber may repeat itself as it likes: no two committed      *)
(* orders have the same number.                                             *)
THEOREM OrderNumbersUnique == Spec => []UniqueNumbers
<1>1. Init => NumbersDiffer
  BY NumbersInit
<1>2. TypeOK /\ Positions /\ Isolation /\ NumbersDiffer /\ [Next]_vars
        => NumbersDiffer'
  BY NumbersStep
<1>3. TypeOK /\ NumbersDiffer => UniqueNumbers
  BY DEF TypeOK, NumbersDiffer, UniqueNumbers
<1> QED
  BY <1>1, <1>2, <1>3, TypeCorrect, TransactionsIsolated, PTL DEF Spec

-------------------------------------------------------------------------------
(* Answers. *)

LEMMA AnswersStep ==
  ASSUME TypeOK, Isolation, AnswersMatchOrders, [Next]_vars
  PROVE  AnswersMatchOrders'
<1>1. ASSUME NEW r \in Requests, InTransaction(r),
             NEW phase \in {"answered", "lost"},
             NEW why \in Replies \ {"created"}, Rollback(r, phase, why)
      PROVE  AnswersMatchOrders'
  <2>1. r \notin orders
    BY <1>1 DEF Isolation, InTransaction
  <2> QED
    BY <1>1, <2>1 DEF Rollback, Leave, Advance, TypeOK, AnswersMatchOrders
<1>2. ASSUME NEW r \in Requests, Commit(r) \/ CommitUnheard(r)
      PROVE  AnswersMatchOrders'
  <2>1. /\ orders' = orders \cup {r}
        /\ reply'[r] \in {"created", "error"} \/ pc'[r] = "lost"
    BY <1>2 DEF Commit, CommitUnheard, Publish, Leave, Advance, TypeOK
  <2>2. \A s \in Requests \ {r} : reply'[s] = reply[s] /\ pc'[s] = pc[s]
    BY <1>2 DEF Commit, CommitUnheard, Leave, Advance, TypeOK
  <2> QED
    BY <2>1, <2>2 DEF AnswersMatchOrders
<1>3. ASSUME NEW r \in Requests, InTransaction(r) \/ pc[r] = "idle",
             NEW phase, Advance(r, phase), UNCHANGED <<orders, reply>>
      PROVE  AnswersMatchOrders'
  BY <1>3 DEF Advance, TypeOK, AnswersMatchOrders, InTransaction, Isolation
<1>4. ASSUME UNCHANGED <<pc, orders, reply>>
      PROVE  AnswersMatchOrders'
  BY <1>4 DEF AnswersMatchOrders
<1>5. \A r \in Requests : Deadlocked(r) => InTransaction(r)
  BY DeadlockedActive
<1>6. ASSUME NEW r \in Requests,
             \/ RefuseMissing(r) \/ RefuseInsufficient(r)
             \/ RefuseUnbindable(r) \/ RefuseDuplicate(r)
             \/ DeadlockVictim(r) \/ FailStatement(r) \/ Crash(r)
      PROVE  AnswersMatchOrders'
  BY <1>1, <1>5, <1>6
     DEF RefuseMissing, RefuseInsufficient, RefuseUnbindable, RefuseDuplicate,
         DeadlockVictim, FailStatement, Crash, Refuse, InTransaction, Replies
<1>7. ASSUME NEW r \in Requests,
             \/ Submit(r) \/ CheckLine(r) \/ GenerateNumber(r)
             \/ CreateOrder(r) \/ AddItem(r) \/ TakeStock(r)
      PROVE  AnswersMatchOrders'
  BY <1>3, <1>7
     DEF Submit, CheckLine, GenerateNumber, CreateOrder, AddItem, TakeStock,
         InTransaction
<1>8. CASE \/ UNCHANGED vars
           \/ \E p \in Products : LoadProduct(p) \/ DestroyProduct(p)
           \/ \E e \in edits : SaveProduct(e)
  BY <1>4, <1>8 DEF vars, LoadProduct, DestroyProduct, SaveProduct
<1> QED
  BY <1>2, <1>6, <1>7, <1>8 DEF Next, Step

(* An order is answered 201 only if it is there, and an order that is there *)
(* was answered 201 unless the answer to its COMMIT was lost.               *)
THEOREM AnswersTruthful == Spec => []AnswersMatchOrders
<1>1. Init => AnswersMatchOrders
  BY DEF Init, AnswersMatchOrders
<1>2. TypeOK /\ Isolation /\ AnswersMatchOrders /\ [Next]_vars
        => AnswersMatchOrders'
  BY AnswersStep
<1> QED
  BY <1>1, <1>2, TypeCorrect, TransactionsIsolated, PTL DEF Spec

-------------------------------------------------------------------------------
(* Refinement. *)

(* A commit takes the units of the order's items from the stock, all of     *)
(* them and nothing else.                                                   *)
LEMMA PublishSubtracts ==
  ASSUME TypeOK, Isolation,
         NEW r \in Requests, pc[r] = "committing", Publish(r)
  PROVE  /\ r \notin orders
         /\ stock' = [p \in Products |-> stock[p] - items[r][p]]
<1>1. r \notin orders
  BY DEF Isolation
<1>2. \A p \in Products : items[r][p] = Taken(r, p)
  <2>1. \A p \in Products : items[r][p] = Taken(r, p) + Pending(r, p)
    BY DEF Isolation, Inserted
  <2>2. \A p \in Products : Pending(r, p) = 0 /\ Taken(r, p) \in Int
    BY DEF Pending, Taken, TypeOK
  <2> QED
    BY <2>1, <2>2
<1>3. ASSUME NEW p \in Products
      PROVE  (IF holder[p] = r THEN working[p] ELSE stock[p])
               = stock[p] - items[r][p]
  BY <1>2 DEF Taken, TypeOK
<1> QED
  BY <1>1, <1>3 DEF Publish

LEMMA PublishPlaces ==
  ASSUME TypeOK, Isolation,
         NEW r \in Requests, pc[r] = "committing", Publish(r)
  PROVE  Shop!Place(r)
<1> DEFINE bought == [s \in Requests |-> Bought(s)]
<1>1. r \notin orders /\ orders' = orders \cup {r} /\ items' = items
  BY PublishSubtracts DEF Publish
<1>2. \A s \in Requests : Bought(s)' = IF s \in orders \cup {r} THEN items[s]
                                         ELSE NoUnits
  BY <1>1 DEF Bought, NoUnits
<1>3. bought' \in [Requests -> [Products -> Nat]]
  <2>1. NoUnits \in [Products -> Nat] /\ \A s \in Requests : items[s] \in [Products -> Nat]
    BY DEF TypeOK, NoUnits
  <2>2. \A s \in Requests : Bought(s)' \in [Products -> Nat]
    BY <1>2, <2>1
  <2> QED
    BY <2>2
<1>4. \A s \in Requests \ {r} : bought'[s] = bought[s]
  BY <1>2 DEF Bought
<1>5. stock' = [p \in Products |-> stock[p] - bought'[r][p]]
  BY <1>2, PublishSubtracts
<1> QED
  BY <1>1, <1>3, <1>4, <1>5 DEF Shop!Place

LEMMA BoughtKept ==
  ASSUME stock' = stock, orders' = orders,
         \A s \in orders : items'[s] = items[s]
  PROVE  UNCHANGED Shop!inventoryVars
BY DEF Shop!inventoryVars, Bought, NoUnits

LEMMA InventoryStep ==
  ASSUME TypeOK, Positions, Isolation, [Next]_vars
  PROVE  [Shop!Next]_(Shop!inventoryVars)
<1>1. ASSUME NEW r \in Requests, Commit(r) \/ CommitUnheard(r)
      PROVE  Shop!Next
  BY <1>1, PublishPlaces DEF Commit, CommitUnheard, Shop!Next
<1>2. ASSUME NEW e \in edits, SaveProduct(e)
      PROVE  [Shop!Next]_(Shop!inventoryVars)
  <2>1. e.product \in Products /\ orders' = orders /\ items' = items
    BY <1>2 DEF SaveProduct, TypeOK, Edit
  <2>2. CASE stock' = stock
    BY <2>1, <2>2, BoughtKept
  <2>3. CASE \E q \in Restocks : stock' = [stock EXCEPT ![e.product] = q]
    <3>1. PICK q \in Restocks : stock' = [stock EXCEPT ![e.product] = q]
      BY <2>3
    <3>2. stock'[e.product] = q /\ q \in Nat
      BY <2>1, <3>1, RestocksAssumption DEF TypeOK
    <3>3. UNCHANGED <<orders, [s \in Requests |-> Bought(s)]>>
      BY <2>1 DEF Bought, NoUnits
    <3>4. Shop!Adjust(e.product)
      BY <3>1, <3>2, <3>3 DEF Shop!Adjust
    <3> QED
      BY <2>1, <3>4 DEF Shop!Next
  <2> QED
    BY <1>2, <2>2, <2>3 DEF SaveProduct, rowVars
<1>3. ASSUME NEW r \in Requests, InTransaction(r),
             NEW phase, NEW why, Rollback(r, phase, why)
      PROVE  UNCHANGED Shop!inventoryVars
  <2>1. r \notin orders
    BY <1>3 DEF Isolation, InTransaction
  <2> QED
    BY <1>3, <2>1, BoughtKept DEF Rollback, TypeOK
<1>4. ASSUME NEW r \in Requests, AddItem(r)
      PROVE  UNCHANGED Shop!inventoryVars
  <2>1. r \notin orders
    BY <1>4 DEF AddItem, Isolation
  <2> QED
    BY <1>4, <2>1, BoughtKept DEF AddItem, rowVars, TypeOK
<1>5. ASSUME UNCHANGED <<stock, orders, items>>
      PROVE  UNCHANGED Shop!inventoryVars
  BY <1>5, BoughtKept
<1>6. \A r \in Requests : Deadlocked(r) => InTransaction(r)
  BY DeadlockedActive
<1>7. ASSUME NEW r \in Requests,
             \/ RefuseMissing(r) \/ RefuseInsufficient(r)
             \/ RefuseUnbindable(r) \/ RefuseDuplicate(r)
             \/ DeadlockVictim(r) \/ FailStatement(r) \/ Crash(r)
      PROVE  UNCHANGED Shop!inventoryVars
  BY <1>3, <1>6, <1>7
     DEF RefuseMissing, RefuseInsufficient, RefuseUnbindable, RefuseDuplicate,
         DeadlockVictim, FailStatement, Crash, Refuse, InTransaction
<1>8. ASSUME NEW r \in Requests,
             \/ Submit(r) \/ CheckLine(r) \/ GenerateNumber(r)
             \/ CreateOrder(r) \/ TakeStock(r)
      PROVE  UNCHANGED Shop!inventoryVars
  BY <1>5, <1>8
     DEF Submit, CheckLine, GenerateNumber, CreateOrder, TakeStock, rowVars
<1>9. CASE \/ UNCHANGED vars
           \/ \E p \in Products : LoadProduct(p) \/ DestroyProduct(p)
  BY <1>5, <1>9 DEF vars, rowVars, LoadProduct, DestroyProduct
<1> QED
  BY <1>1, <1>2, <1>4, <1>7, <1>8, <1>9 DEF Next, Step

LEMMA InventoryInit == Init => Shop!Init
BY DEF Init, Shop!Init, Shop!Nothing, Bought, NoUnits

(* The checkout, statement by statement and with its failures, implements   *)
(* the inventory: an order and its effect on the stock appear in one step,  *)
(* and apart from sellers' edits nothing else touches the stock.            *)
THEOREM CheckoutImplementsInventory == Spec => ImplementsInventory
<1>1. Init => Shop!Init
  BY InventoryInit
<1>2. TypeOK /\ Positions /\ Isolation /\ [Next]_vars
        => [Shop!Next]_(Shop!inventoryVars)
  BY InventoryStep
<1> QED
  BY <1>1, <1>2, TypeCorrect, TransactionsIsolated, PTL
     DEF Spec, ImplementsInventory, Shop!Spec

-------------------------------------------------------------------------------
(* The stock test. *)

LEMMA LinesCheckedStep ==
  ASSUME TypeOK, Positions, LinesChecked, [Next]_vars
  PROVE  LinesChecked'
<1>1. ASSUME NEW r \in Requests, CheckLine(r)
      PROVE  LinesChecked'
  <2>1. /\ seen[r] \in Seq(Int)
        /\ stock[Current(r).product] \in Int
        /\ cart[r][Len(seen[r]) + 1] = Current(r)
        /\ stock[Current(r).product] >= Current(r).quantity
    BY <1>1, CurrentLine DEF CheckLine, TypeOK, Current, Enough
  <2>2. /\ seen'[r] = Append(seen[r], stock[Current(r).product])
        /\ cart' = cart
        /\ \A s \in Requests \ {r} : seen'[s] = seen[s]
    BY <1>1 DEF CheckLine, TypeOK
  <2>3. ASSUME NEW i \in 1 .. Len(seen'[r])
        PROVE  seen'[r][i] >= cart[r][i].quantity
    <3>1. CASE i \in 1 .. Len(seen[r])
      BY <2>1, <2>2, <3>1 DEF LinesChecked
    <3>2. CASE i = Len(seen[r]) + 1
      BY <2>1, <2>2, <3>2
    <3> QED
      BY <2>1, <2>2, <3>1, <3>2
  <2> QED
    BY <2>2, <2>3 DEF LinesChecked
<1>2. ASSUME NEW r \in Requests, NEW phase, NEW why, Leave(r, phase, why),
             cart' = cart
      PROVE  LinesChecked'
  BY <1>2 DEF Leave, TypeOK, LinesChecked
<1>3. ASSUME NEW r \in Requests, Submit(r)
      PROVE  LinesChecked'
  <2>1. seen[r] = <<>> /\ seen' = seen
    BY <1>3 DEF Submit, Positions
  <2>2. \A s \in Requests \ {r} : cart'[s] = cart[s]
    BY <1>3 DEF Submit, TypeOK
  <2> QED
    BY <2>1, <2>2 DEF LinesChecked
<1>4. ASSUME UNCHANGED <<seen, cart>>
      PROVE  LinesChecked'
  BY <1>4 DEF LinesChecked
<1>5. ASSUME NEW r \in Requests,
             \/ RefuseMissing(r) \/ RefuseInsufficient(r)
             \/ RefuseUnbindable(r) \/ RefuseDuplicate(r)
             \/ DeadlockVictim(r) \/ FailStatement(r) \/ Crash(r)
             \/ Commit(r) \/ CommitUnheard(r)
      PROVE  LinesChecked'
  BY <1>2, <1>5
     DEF RefuseMissing, RefuseInsufficient, RefuseUnbindable, RefuseDuplicate,
         DeadlockVictim, FailStatement, Crash, Refuse, Rollback, Commit,
         CommitUnheard, Publish
<1>6. CASE UNCHANGED vars
  BY <1>4, <1>6 DEF vars
<1> QED
  BY <1>1, <1>3, <1>4, <1>5, <1>6
     DEF Next, Step, GenerateNumber, CreateOrder, AddItem, TakeStock,
         LoadProduct, DestroyProduct, SaveProduct

(* The part of LinesWritten that speaks of one request. *)
Wrote(r) ==
  Inserted(r) /\ DistinctLines(cart[r]) =>
    \A i \in 1 .. Len(cart[r]) :
      items[r][cart[r][i].product] =
        IF Written(r, i) THEN cart[r][i].quantity ELSE 0

LEMMA WroteKept ==
  ASSUME LinesWritten, NEW s \in Requests,
         pc'[s] = pc[s], cart'[s] = cart[s], line'[s] = line[s],
         items'[s] = items[s]
  PROVE  Wrote(s)'
BY DEF LinesWritten, Wrote, Written, Inserted, DistinctLines

LEMMA LinesWrittenStep ==
  ASSUME TypeOK, Positions, Isolation, LinesWritten, [Next]_vars
  PROVE  LinesWritten'
<1>1. ASSUME NEW r \in Requests, CreateOrder(r)
      PROVE  LinesWritten'
  <2>1. /\ pc[r] = "creating" /\ pc'[r] = "adding"
        /\ line'[r] = 1 /\ items' = items /\ cart' = cart
    BY <1>1 DEF CreateOrder, Advance, TypeOK
  <2>2. items[r] = NoUnits /\ cart[r] \in Carts
    BY <1>1, <2>1 DEF Isolation, Inserted, CreateOrder, Positions
  <2>3. \A i \in 1 .. Len(cart[r]) : /\ cart[r][i].product \in Products
                                     /\ ~Written(r, i)'
    BY <2>1, <2>2, CartLines DEF Written
  <2>4. Wrote(r)'
    BY <2>1, <2>2, <2>3 DEF Wrote, NoUnits
  <2>5. ASSUME NEW s \in Requests \ {r}
        PROVE  Wrote(s)'
    BY <1>1, WroteKept DEF CreateOrder, Advance, TypeOK
  <2> QED
    BY <2>4, <2>5 DEF LinesWritten, Wrote
<1>2. ASSUME NEW r \in Requests, AddItem(r)
      PROVE  LinesWritten'
  <2>1. PICK k \in 1 .. Len(cart[r]) : k = line[r] /\ cart[r] \in Carts
    BY <1>2 DEF AddItem, Positions
  <2>2. PICK q \in Products, n \in Nat :
          q = cart[r][k].product /\ n = cart[r][k].quantity
    BY <2>1, CartLines
  <2>3. /\ pc[r] = "adding" /\ pc'[r] = "taking" /\ line' = line /\ cart' = cart
        /\ items' = [items EXCEPT ![r][q] = @ + n]
    BY <1>2, <2>1, <2>2 DEF AddItem, Advance, TypeOK, Current
  <2>4. ASSUME DistinctLines(cart[r]), NEW i \in 1 .. Len(cart[r])
        PROVE  items'[r][cart[r][i].product] =
                 IF Written(r, i)' THEN cart[r][i].quantity ELSE 0
    <3>1. items[r][cart[r][i].product] =
            IF i < k THEN cart[r][i].quantity ELSE 0
      BY <2>1, <2>3, <2>4 DEF LinesWritten, Written, Inserted
    <3>2. Written(r, i)' <=> i < k \/ i = k
      BY <2>1, <2>3 DEF Written
    <3>3. CASE i = k
      BY <2>2, <2>3, <3>1, <3>2, <3>3 DEF TypeOK
    <3>4. CASE i # k
      <4>1. cart[r][i].product # q
        BY <2>2, <2>4, <3>4 DEF DistinctLines
      <4> QED
        BY <2>3, <3>1, <3>2, <3>4, <4>1 DEF TypeOK
    <3> QED
      BY <3>3, <3>4
  <2>5. Wrote(r)'
    BY <2>3, <2>4 DEF Wrote, DistinctLines
  <2>6. ASSUME NEW s \in Requests \ {r}
        PROVE  Wrote(s)'
    BY <1>2, WroteKept DEF AddItem, Advance, TypeOK
  <2> QED
    BY <2>5, <2>6 DEF LinesWritten, Wrote
<1>3. ASSUME NEW r \in Requests, TakeStock(r)
      PROVE  LinesWritten'
  <2>1. /\ pc[r] = "taking" /\ pc'[r] \in {"adding", "committing"}
        /\ line[r] \in 1 .. Len(cart[r]) /\ line'[r] = line[r] + 1
        /\ items' = items /\ cart' = cart
    BY <1>3 DEF TakeStock, Advance, TypeOK, Positions
  <2>2. \A i \in 1 .. Len(cart[r]) : Written(r, i)' <=> Written(r, i)
    BY <2>1 DEF Written
  <2>3. Wrote(r)'
    BY <2>1, <2>2 DEF LinesWritten, Wrote, Inserted, DistinctLines
  <2>4. ASSUME NEW s \in Requests \ {r}
        PROVE  Wrote(s)'
    BY <1>3, WroteKept DEF TakeStock, Advance, TypeOK
  <2> QED
    BY <2>3, <2>4 DEF LinesWritten, Wrote
<1>4. ASSUME NEW r \in Requests, ~Inserted(r)',
             \A s \in Requests \ {r} :
               /\ pc'[s] = pc[s] /\ cart'[s] = cart[s]
               /\ line'[s] = line[s] /\ items'[s] = items[s]
      PROVE  LinesWritten'
  <2>1. Wrote(r)'
    BY <1>4 DEF Wrote
  <2>2. ASSUME NEW s \in Requests \ {r}
        PROVE  Wrote(s)'
    BY <1>4, WroteKept
  <2> QED
    BY <2>1, <2>2 DEF LinesWritten, Wrote
<1>5. ASSUME NEW r \in Requests,
             \/ Submit(r) \/ CheckLine(r) \/ GenerateNumber(r)
      PROVE  LinesWritten'
  BY <1>4, <1>5 DEF Submit, CheckLine, GenerateNumber, Advance, TypeOK, Inserted
<1>6. ASSUME NEW r \in Requests, NEW phase \in {"answered", "lost"}, NEW why,
             Rollback(r, phase, why) \/ (Publish(r) /\ Leave(r, phase, why))
      PROVE  LinesWritten'
  BY <1>4, <1>6 DEF Rollback, Publish, Leave, Advance, TypeOK, Inserted
<1>7. ASSUME NEW r \in Requests,
             \/ RefuseMissing(r) \/ RefuseInsufficient(r)
             \/ RefuseUnbindable(r) \/ RefuseDuplicate(r)
             \/ DeadlockVictim(r) \/ FailStatement(r) \/ Crash(r)
             \/ Commit(r) \/ CommitUnheard(r)
      PROVE  LinesWritten'
  BY <1>6, <1>7
     DEF RefuseMissing, RefuseInsufficient, RefuseUnbindable, RefuseDuplicate,
         DeadlockVictim, FailStatement, Crash, Refuse, Commit, CommitUnheard
<1>8. ASSUME UNCHANGED <<pc, cart, line, items>>
      PROVE  LinesWritten'
  BY <1>8 DEF LinesWritten, Written, Inserted, DistinctLines
<1>9. CASE \/ UNCHANGED vars
           \/ \E p \in Products : LoadProduct(p) \/ DestroyProduct(p)
           \/ \E e \in edits : SaveProduct(e)
  BY <1>8, <1>9 DEF vars, LoadProduct, DestroyProduct, SaveProduct
<1> QED
  BY <1>1, <1>2, <1>3, <1>5, <1>7, <1>9 DEF Next, Step

(* A commit of an order whose lines name different products, and whose      *)
(* readings are all still true, leaves no product of it negative.           *)
LEMMA CommitCovered ==
  ASSUME TypeOK, Positions, Isolation, LinesChecked, LinesWritten,
         NEW r \in Requests, pc[r] = "committing", Publish(r),
         DistinctLines(cart[r]), SeenStillTrue(r),
         NEW i \in 1 .. Len(cart[r])
  PROVE  stock'[cart[r][i].product] >= 0
<1>1. PICK q \in Products, n \in Nat :
        q = cart[r][i].product /\ n = cart[r][i].quantity
  BY CartLines DEF Positions
<1>2. i \in 1 .. Len(seen[r]) /\ Written(r, i)
  BY CartLines DEF Positions, Inserted, Written
<1>3. stock[q] >= n
  BY <1>1, <1>2 DEF LinesChecked, SeenStillTrue
<1>4. items[r][q] = n
  BY <1>1, <1>2 DEF LinesWritten, Inserted
<1>5. stock'[q] = stock[q] - n
  BY <1>4, PublishSubtracts
<1>6. stock[q] \in Int
  BY DEF TypeOK
<1> QED
  BY <1>1, <1>3, <1>5, <1>6

LEMMA OnlyCommitsPublish ==
  ASSUME [Next]_vars, NEW r \in orders' \ orders
  PROVE  r \in Requests /\ pc[r] = "committing" /\ Publish(r)
<1>1. ASSUME NEW s \in Requests, Commit(s) \/ CommitUnheard(s)
      PROVE  s = r /\ pc[s] = "committing" /\ Publish(s)
  BY <1>1 DEF Commit, CommitUnheard, Publish
<1>2. ASSUME orders' = orders
      PROVE  FALSE
  BY <1>2
<1> QED
  BY <1>1, <1>2
     DEF Next, Step, vars, Submit, CheckLine, RefuseMissing,
         RefuseInsufficient, GenerateNumber, CreateOrder, RefuseUnbindable,
         RefuseDuplicate, AddItem, TakeStock, DeadlockVictim, FailStatement,
         Crash, Refuse, Rollback, LoadProduct, SaveProduct, DestroyProduct

(* Overselling takes a quantity that changed between reading and commit, or *)
(* a cart that names a product twice.                                       *)
THEOREM NoOversellAlone == Spec => SoldWithinWhatWasSeen
<1>1. Init => LinesChecked /\ LinesWritten
  BY DEF Init, LinesChecked, LinesWritten, Inserted
<1>2. TypeOK /\ Positions /\ LinesChecked /\ [Next]_vars => LinesChecked'
  BY LinesCheckedStep
<1>3. TypeOK /\ Positions /\ Isolation /\ LinesWritten /\ [Next]_vars
        => LinesWritten'
  BY LinesWrittenStep
<1>4. TypeOK /\ Positions /\ Isolation /\ LinesChecked /\ LinesWritten
      /\ [Next]_vars
        => [\A r \in orders' \ orders :
              DistinctLines(cart[r]) /\ SeenStillTrue(r) =>
                \A i \in 1 .. Len(cart[r]) : stock'[cart[r][i].product] >= 0]_vars
  BY CommitCovered, OnlyCommitsPublish
<1> QED
  BY <1>1, <1>2, <1>3, <1>4, TypeCorrect, TransactionsIsolated, PTL
     DEF Spec, SoldWithinWhatWasSeen

-------------------------------------------------------------------------------
(* Circles of waits. *)

(* A set of numbers has a least one. *)
LEMMA LeastNumber ==
  ASSUME NEW T \in SUBSET Nat, T # {}
  PROVE  \E m \in T : \A k \in T : m <= k
<1>1. PICK m \in T : \A k \in T : <<k, m>> \notin OpToRel(<, Nat)
  BY NatLessThanWellFounded, WFMin
<1>2. \A k \in T : ~ (k < m)
  BY <1>1 DEF OpToRel
<1> QED
  BY <1>2

(* A row is locked by a request that is past a line with its product. *)
Passed(r, p) ==
  \E i \in 1 .. Len(cart[r]) : i < line[r] /\ cart[r][i].product = p

LocksPassed ==
  \A r \in Requests : \A p \in Products : holder[p] = r => Passed(r, p)

LEMMA PassedKept ==
  ASSUME LocksPassed, NEW r \in Requests, NEW p \in Products,
         holder[p] = r, cart'[r] = cart[r], line'[r] = line[r]
  PROVE  Passed(r, p)'
BY DEF LocksPassed, Passed

LEMMA LocksPassedStep ==
  ASSUME TypeOK, Positions, Isolation, LocksPassed, [Next]_vars
  PROVE  LocksPassed'
<1>1. ASSUME NEW r \in Requests, TakeStock(r)
      PROVE  LocksPassed'
  <2>1. Current(r).product \in Products
    BY <1>1, CurrentLine DEF TakeStock
  <2>2. /\ line[r] \in 1 .. Len(cart[r]) /\ line'[r] = line[r] + 1
        /\ cart' = cart /\ Current(r) = cart[r][line[r]]
        /\ cart[r] \in Carts
    BY <1>1 DEF TakeStock, TypeOK, Positions, Current
  <2>3. Len(cart[r]) \in Nat
    BY <2>2, CartLines
  <2>4. ASSUME NEW p \in Products, holder'[p] = r
        PROVE  Passed(r, p)'
    <3>1. CASE p = Current(r).product
      BY <2>2, <2>3, <3>1 DEF Passed
    <3>2. CASE p # Current(r).product
      <4>1. holder[p] = r
        BY <1>1, <2>4, <3>2 DEF TakeStock, TypeOK
      <4> QED
        BY <2>2, <2>3, <4>1 DEF LocksPassed, Passed
    <3> QED
      BY <3>1, <3>2
  <2>5. ASSUME NEW s \in Requests \ {r}, NEW p \in Products, holder'[p] = s
        PROVE  Passed(s, p)'
    <3>1. /\ holder[p] = s /\ cart'[s] = cart[s] /\ line'[s] = line[s]
      BY <1>1, <2>1, <2>5 DEF TakeStock, TypeOK
    <3> QED
      BY <3>1, PassedKept
  <2> QED
    BY <2>4, <2>5 DEF LocksPassed
<1>2. ASSUME NEW r \in Requests,
             \A p \in Products : holder'[p] # r,
             \A s \in Requests \ {r} :
               cart'[s] = cart[s] /\ line'[s] = line[s],
             \A p \in Products : holder'[p] \in {holder[p], None}
      PROVE  LocksPassed'
  <2>1. ASSUME NEW s \in Requests, NEW p \in Products, holder'[p] = s
        PROVE  Passed(s, p)'
    <3>1. s # r /\ holder[p] = s
      BY <1>2, <2>1, NoneAssumption
    <3> QED
      BY <1>2, <3>1, PassedKept
  <2> QED
    BY <2>1 DEF LocksPassed
<1>3. ASSUME UNCHANGED <<holder, cart, line>>
      PROVE  LocksPassed'
  BY <1>3 DEF LocksPassed, Passed
<1>4. ASSUME NEW r \in Requests, Submit(r) \/ CreateOrder(r)
      PROVE  LocksPassed'
  <2>1. \A p \in Products : holder[p] # r /\ holder'[p] = holder[p]
    BY <1>4 DEF Submit, CreateOrder, rowVars, Isolation, Inserted
  <2>2. \A s \in Requests \ {r} : cart'[s] = cart[s] /\ line'[s] = line[s]
    BY <1>4 DEF Submit, CreateOrder, TypeOK
  <2> QED
    BY <1>2, <2>1, <2>2
<1>5. ASSUME NEW r \in Requests,
             CheckLine(r) \/ GenerateNumber(r) \/ AddItem(r)
      PROVE  LocksPassed'
  BY <1>3, <1>5 DEF CheckLine, GenerateNumber, AddItem, rowVars
<1>6. ASSUME NEW r \in Requests, NEW phase \in {"answered", "lost"}, NEW why,
             Rollback(r, phase, why) \/ (Publish(r) /\ Leave(r, phase, why))
      PROVE  LocksPassed'
  <2>1. /\ \A p \in Products : holder'[p] # r /\ holder'[p] \in {holder[p], None}
        /\ \A s \in Requests \ {r} : cart'[s] = cart[s] /\ line'[s] = line[s]
    BY <1>6, NoneAssumption DEF Rollback, Publish, Leave, TypeOK
  <2> QED
    BY <1>2, <2>1
<1>7. ASSUME NEW r \in Requests,
             \/ RefuseMissing(r) \/ RefuseInsufficient(r)
             \/ RefuseUnbindable(r) \/ RefuseDuplicate(r)
             \/ DeadlockVictim(r) \/ FailStatement(r) \/ Crash(r)
             \/ Commit(r) \/ CommitUnheard(r)
      PROVE  LocksPassed'
  BY <1>6, <1>7
     DEF RefuseMissing, RefuseInsufficient, RefuseUnbindable, RefuseDuplicate,
         DeadlockVictim, FailStatement, Crash, Refuse, Commit, CommitUnheard
<1>8. CASE \/ UNCHANGED vars
           \/ \E p \in Products : LoadProduct(p) \/ DestroyProduct(p)
           \/ \E e \in edits : SaveProduct(e)
  BY <1>3, <1>8 DEF vars, rowVars, LoadProduct, DestroyProduct, SaveProduct
<1> QED
  BY <1>1, <1>4, <1>5, <1>7, <1>8 DEF Next, Step

(* Who is waited for has inserted its order, so that nobody on a circle     *)
(* waits for a number.                                                      *)
LEMMA AwaitedInserted ==
  ASSUME TypeOK, Positions, Isolation, NEW r \in Requests, NEW s \in Requests,
         WaitsFor(r, s)
  PROVE  Inserted(s)
<1>1. CASE pc[r] = "taking" /\ holder[Current(r).product] = s
  <2>1. Current(r).product \in Products
    BY <1>1, CurrentLine
  <2> QED
    BY <1>1, <2>1 DEF Isolation
<1> QED
  BY <1>1 DEF WaitsFor

(* Where the carts agree, a request waits for a product that ranks below    *)
(* the one its holder waits for.                                            *)
LEMMA WaitsRank ==
  ASSUME TypeOK, Positions, LocksPassed,
         NEW rank \in [Products -> Nat],
         \A r \in Requests : \A i, j \in 1 .. Len(cart[r]) :
           /\ i < j
           /\ cart[r][i].product # cart[r][j].product
           => rank[cart[r][i].product] < rank[cart[r][j].product],
         NEW r \in Requests, NEW s \in Requests,
         WaitsFor(r, s), pc[r] = "taking", pc[s] = "taking",
         holder[Current(s).product] # s
  PROVE  rank[Current(r).product] < rank[Current(s).product]
<1>1. Current(r).product \in Products /\ holder[Current(r).product] = s
  BY CurrentLine DEF WaitsFor
<1>2. PICK i \in 1 .. Len(cart[s]) :
        i < line[s] /\ cart[s][i].product = Current(r).product
  BY <1>1 DEF LocksPassed, Passed
<1>3. line[s] \in 1 .. Len(cart[s]) /\ Current(s) = cart[s][line[s]]
  BY DEF Positions, Current
<1>4. Current(r).product # Current(s).product
  BY <1>1
<1> QED
  BY <1>2, <1>3, <1>4

LEMMA CirclesDisagree ==
  ASSUME TypeOK, Positions, Isolation, LocksPassed, IsFiniteSet(Products)
  PROVE  DeadlockNeedsDisagreement
<1> SUFFICES ASSUME NEW x \in Requests, Deadlocked(x), CartsAgree
             PROVE  FALSE
  BY DEF DeadlockNeedsDisagreement
<1>1. PICK S \in SUBSET Requests :
        /\ x \in S
        /\ \A s \in S : /\ \E t \in S : WaitsFor(s, t)
                        /\ \E t \in S : WaitsFor(t, s)
  BY DEF Deadlocked
<1>2. PICK rank \in [Products -> 1 .. Cardinality(Products)] :
        \A r \in Requests : \A i, j \in 1 .. Len(cart[r]) :
          /\ i < j
          /\ cart[r][i].product # cart[r][j].product
          => rank[cart[r][i].product] < rank[cart[r][j].product]
  BY DEF CartsAgree
<1>3. rank \in [Products -> Nat]
  BY <1>2, FS_CardinalityType
<1>4. \A s \in S : /\ pc[s] = "taking"
                   /\ Current(s).product \in Products
                   /\ holder[Current(s).product] # s
  <2>1. \A s \in S : Inserted(s)
    BY <1>1, AwaitedInserted
  <2>2. ASSUME NEW s \in S
        PROVE  pc[s] = "taking" /\ holder[Current(s).product] # s
    <3>1. PICK t \in S : WaitsFor(s, t)
      BY <1>1
    <3>2. pc[s] # "creating"
      BY <2>1 DEF Inserted
    <3> QED
      BY <3>1, <3>2 DEF WaitsFor
  <2> QED
    BY <2>2, CurrentLine
<1> DEFINE Ranks == {rank[Current(s).product] : s \in S}
<1>5. Ranks \in SUBSET Nat /\ Ranks # {}
  BY <1>1, <1>3, <1>4
<1>6. PICK m \in Ranks : \A k \in Ranks : m <= k
  BY <1>5, LeastNumber
<1>7. PICK s \in S : m = rank[Current(s).product]
  BY <1>6
<1>8. PICK r \in S : WaitsFor(r, s)
  BY <1>1
<1>9. rank[Current(r).product] < m
  BY <1>2, <1>3, <1>4, <1>7, <1>8, WaitsRank
<1>10. m <= rank[Current(r).product] /\ m \in Nat /\ rank[Current(r).product] \in Nat
  BY <1>3, <1>4, <1>5, <1>6
<1> QED
  BY <1>9, <1>10

(* Requests wait in a circle only if their carts disagree about the order   *)
(* of the products, however many requests and products there are.           *)
THEOREM DeadlocksDisagree ==
  ASSUME IsFiniteSet(Products)
  PROVE  Spec => []DeadlockNeedsDisagreement
<1>1. Init => LocksPassed
  BY NoneAssumption DEF Init, LocksPassed
<1>2. TypeOK /\ Positions /\ Isolation /\ LocksPassed /\ [Next]_vars
        => LocksPassed'
  BY LocksPassedStep
<1>3. TypeOK /\ Positions /\ Isolation /\ LocksPassed
        => DeadlockNeedsDisagreement
  BY CirclesDisagree
<1> QED
  BY <1>1, <1>2, <1>3, TypeCorrect, TransactionsIsolated, PTL DEF Spec

-------------------------------------------------------------------------------
(* Sums. *)

Some(s) == CHOOSE x \in s : TRUE

Adds(F, U, it) ==
  it = [s \in SUBSET U |-> IF s = {} THEN 0 ELSE F[Some(s)] + it[s \ {Some(s)}]]

SumIter(F, U) == CHOOSE it : Adds(F, U, it)

SumOver(F, S) == SumIter(F, S)[S]

(* A set of finite sets has one with the fewest elements. *)
LEMMA SmallestSet ==
  ASSUME NEW U, IsFiniteSet(U), NEW Bad \in SUBSET (SUBSET U), Bad # {}
  PROVE  \E m \in Bad : \A s \in SUBSET m : s # m => s \notin Bad
<1>1. \A s \in SUBSET U : IsFiniteSet(s) /\ Cardinality(s) \in Nat
  BY FS_Subset, FS_CardinalityType
<1> DEFINE Sizes == {Cardinality(s) : s \in Bad}
<1>2. Sizes \in SUBSET Nat /\ Sizes # {}
  BY <1>1
<1>3. PICK n \in Sizes : \A k \in Sizes : n <= k
  BY <1>2, LeastNumber
<1>4. PICK m \in Bad : n = Cardinality(m)
  BY <1>3
<1>5. ASSUME NEW s \in SUBSET m, s # m, s \in Bad
      PROVE  FALSE
  <2>1. Cardinality(s) < Cardinality(m)
    BY <1>1, <1>5, FS_Subset
  <2>2. Cardinality(m) <= Cardinality(s)
    BY <1>3, <1>4, <1>5
  <2> QED
    BY <1>1, <2>1, <2>2
<1> QED
  BY <1>4, <1>5

LEMMA SomeMember ==
  ASSUME NEW s, s # {}
  PROVE  Some(s) \in s /\ s \ {Some(s)} \in SUBSET s /\ s \ {Some(s)} # s
BY DEF Some

(* solutions on a set restrict *)
LEMMA SumIterDefined ==
  ASSUME NEW F, NEW U, IsFiniteSet(U)
  PROVE  Adds(F, U, SumIter(F, U))
<1> DEFINE Unfolded(it) == [s \in SUBSET U |-> IF s = {} THEN 0
                                    ELSE F[Some(s)] + it[s \ {Some(s)}]]
           Good(n) == \E it : \A s \in SUBSET U : Cardinality(s) <= n =>
                         it[s] = Unfolded(it)[s]
<1>1. \A s \in SUBSET U : IsFiniteSet(s) /\ Cardinality(s) \in Nat
  BY FS_Subset, FS_CardinalityType
<1>2. \A n \in Nat : Good(n)
  <2> SUFFICES ASSUME {n \in Nat : ~ Good(n)} # {}
               PROVE  FALSE
    OBVIOUS
  <2> HIDE DEF Good
  <2>1. PICK n \in Nat : ~ Good(n) /\ \A k \in Nat : ~ Good(k) => n <= k
    BY LeastNumber
  <2>2. PICK old : \A s \in SUBSET U : Cardinality(s) < n => old[s] = Unfolded(old)[s]
    <3>1. CASE n = 0
      BY <1>1, <3>1
    <3>2. CASE n # 0
      <4>1. n - 1 \in Nat /\ ~ (n <= n - 1)
        BY <3>2
      <4>2. PICK it : \A s \in SUBSET U : Cardinality(s) <= n - 1 => it[s] = Unfolded(it)[s]
        BY <4>1, <2>1 DEF Good
      <4>3. \A s \in SUBSET U : Cardinality(s) < n => Cardinality(s) <= n - 1
        BY <1>1
      <4> QED
        BY <4>2, <4>3
    <3> QED
      BY <3>1, <3>2
  <2>3. ASSUME NEW s \in SUBSET U, Cardinality(s) <= n
        PROVE  Unfolded(old)[s] = Unfolded(Unfolded(old))[s]
    <3>1. CASE s = {}
      BY <3>1
    <3>2. CASE s # {}
      <4>1. /\ s \ {Some(s)} \in SUBSET U
            /\ Cardinality(s \ {Some(s)}) < Cardinality(s)
        BY <1>1, <3>2, SomeMember, FS_RemoveElement
      <4>2. Cardinality(s \ {Some(s)}) < n
        BY <1>1, <2>3, <4>1
      <4>3. Unfolded(old)[s \ {Some(s)}] = old[s \ {Some(s)}]
        BY <2>2, <4>1, <4>2
      <4> QED
        BY <3>2, <4>3, <4>1
    <3> QED
      BY <3>1, <3>2
  <2>4. Good(n)
    BY <2>3 DEF Good
  <2> QED
    BY <2>1, <2>4
<1>3. Cardinality(U) \in Nat /\ \A s \in SUBSET U : Cardinality(s) <= Cardinality(U)
  BY <1>1, FS_Subset
<1>4. PICK it : \A s \in SUBSET U : it[s] = Unfolded(it)[s]
  <2>1. Good(Cardinality(U))
    BY <1>2, <1>3
  <2> QED
    BY <1>3, <2>1
<1>5. Adds(F, U, Unfolded(it))
  <2>1. \A s \in SUBSET U : s # {} => it[s \ {Some(s)}] = Unfolded(it)[s \ {Some(s)}]
    BY <1>4
  <2>2. \A s \in SUBSET U : Unfolded(it)[s] = Unfolded(Unfolded(it))[s]
    BY <2>1
  <2>3. Unfolded(it) = Unfolded(Unfolded(it))
    BY <2>2
  <2> QED
    BY <2>3 DEF Adds
<1> QED
  BY <1>5 DEF SumIter

(* A sum does not depend on the set it is computed within, nor on the       *)
(* function outside of it.                                                  *)
LEMMA SumIterAgrees ==
  ASSUME NEW T, IsFiniteSet(T), NEW S \in SUBSET T,
         NEW F, NEW G, \A x \in S : F[x] = G[x]
  PROVE  \A s \in SUBSET S : SumIter(F, T)[s] = SumIter(G, S)[s]
<1> SUFFICES ASSUME {s \in SUBSET S : SumIter(F, T)[s] # SumIter(G, S)[s]} # {}
             PROVE  FALSE
  OBVIOUS
<1>1. IsFiniteSet(S)
  BY FS_Subset
<1>2. Adds(F, T, SumIter(F, T)) /\ Adds(G, S, SumIter(G, S))
  BY <1>1, SumIterDefined
<1>3. PICK s \in SUBSET S :
        /\ SumIter(F, T)[s] # SumIter(G, S)[s]
        /\ \A t \in SUBSET s : t # s => SumIter(F, T)[t] = SumIter(G, S)[t]
  <2> DEFINE Bad == {s \in SUBSET S : SumIter(F, T)[s] # SumIter(G, S)[s]}
  <2>1. PICK m \in Bad : \A s \in SUBSET m : s # m => s \notin Bad
    <3> HIDE DEF Bad
    <3>1. Bad \in SUBSET (SUBSET S) /\ Bad # {}
      BY DEF Bad
    <3> QED
      BY <1>1, <3>1, SmallestSet
  <2>2. m \in SUBSET S
    BY <2>1
  <2> QED
    BY <2>1, <2>2
<1>4. s \in SUBSET T
  OBVIOUS
<1>5. CASE s = {}
  BY <1>2, <1>3, <1>5 DEF Adds
<1>6. CASE s # {}
  <2>1. Some(s) \in s /\ s \ {Some(s)} \in SUBSET s /\ s \ {Some(s)} # s
    BY <1>6, SomeMember
  <2>2. SumIter(F, T)[s] = F[Some(s)] + SumIter(F, T)[s \ {Some(s)}]
    BY <1>2, <1>4, <1>6 DEF Adds
  <2>3. SumIter(G, S)[s] = G[Some(s)] + SumIter(G, S)[s \ {Some(s)}]
    BY <1>2, <1>6 DEF Adds
  <2> QED
    BY <1>3, <2>1, <2>2, <2>3
<1> QED
  BY <1>5, <1>6

(* It does not matter which element a sum takes out first. *)
LEMMA SumIterTakesOut ==
  ASSUME NEW U, IsFiniteSet(U), NEW F, \A x \in U : F[x] \in Int
  PROVE  \A s \in SUBSET U :
           /\ SumIter(F, U)[s] \in Int
           /\ \A x \in s : SumIter(F, U)[s] = F[x] + SumIter(F, U)[s \ {x}]
<1> DEFINE it == SumIter(F, U)
           Fine(s) == /\ it[s] \in Int
                      /\ \A x \in s : it[s] = F[x] + it[s \ {x}]
           Bad == {s \in SUBSET U : ~ Fine(s)}
<1> SUFFICES ASSUME Bad # {}
             PROVE  FALSE
  OBVIOUS
<1>1. Adds(F, U, it)
  BY SumIterDefined
<1> HIDE DEF it, Fine
<1>2. PICK s \in SUBSET U :
        ~ Fine(s) /\ \A t \in SUBSET s : t # s => Fine(t)
  <2>1. PICK m \in Bad : \A s \in SUBSET m : s # m => s \notin Bad
    <3> HIDE DEF Bad
    <3>1. Bad \in SUBSET (SUBSET U) /\ Bad # {}
      BY DEF Bad
    <3> QED
      BY <3>1, SmallestSet
  <2>2. m \in SUBSET U
    BY <2>1
  <2> QED
    BY <2>1, <2>2
<1>3. \A t \in SUBSET s : t # s =>
        it[t] \in Int /\ \A x \in t : it[t] = F[x] + it[t \ {x}]
  BY <1>2 DEF Fine
<1>4. CASE s = {}
  BY <1>1, <1>2, <1>4 DEF Adds, Fine
<1>5. CASE s # {}
  <2> DEFINE c == Some(s)
  <2>1. c \in s /\ s \ {c} \in SUBSET s /\ s \ {c} # s
    BY <1>5, SomeMember
  <2>2. it[s] = F[c] + it[s \ {c}]
    BY <1>1, <1>5 DEF Adds
  <2>3. it[s \ {c}] \in Int /\ F[c] \in Int
    BY <1>3, <2>1
  <2> HIDE DEF c
  <2>4. ASSUME NEW x \in s, x # c
        PROVE  it[s] = F[x] + it[s \ {x}]
    <3>1. x \in s \ {c} /\ c \in s \ {x} /\ s \ {x} # s
      BY <2>1, <2>4
    <3> DEFINE d == (s \ {c}) \ {x}
    <3>2. d \in SUBSET s /\ d # s /\ d = (s \ {x}) \ {c}
      BY <3>1
    <3> HIDE DEF d
    <3>3. it[s \ {c}] = F[x] + it[d]
      BY <1>3, <2>1, <3>1 DEF d
    <3>4. it[s \ {x}] = F[c] + it[d]
      BY <1>3, <3>1, <3>2
    <3>5. it[d] \in Int /\ F[x] \in Int
      BY <1>3, <3>2
    <3> QED
      BY <2>2, <2>3, <3>3, <3>4, <3>5
  <2>5. it[s] \in Int
    BY <2>2, <2>3
  <2>6. \A x \in s : it[s] = F[x] + it[s \ {x}]
    BY <2>2, <2>4
  <2> QED
    BY <1>2, <2>5, <2>6 DEF Fine
<1> QED
  BY <1>4, <1>5

LEMMA SumOfNone ==
  ASSUME NEW F
  PROVE  SumOver(F, {}) = 0
<1>1. IsFiniteSet({})
  BY FS_EmptySet
<1>2. Adds(F, {}, SumIter(F, {}))
  BY <1>1, SumIterDefined
<1> QED
  BY <1>1, <1>2 DEF SumOver, Adds

LEMMA SumAgrees ==
  ASSUME NEW S, IsFiniteSet(S), NEW F, NEW G, \A x \in S : F[x] = G[x]
  PROVE  SumOver(F, S) = SumOver(G, S)
BY SumIterAgrees DEF SumOver

LEMMA SumTyped ==
  ASSUME NEW S, IsFiniteSet(S), NEW F, \A x \in S : F[x] \in Int
  PROVE  SumOver(F, S) \in Int
BY SumIterTakesOut DEF SumOver

LEMMA SumWithOneMore ==
  ASSUME NEW S, IsFiniteSet(S), NEW x, x \notin S,
         NEW F, \A y \in S \cup {x} : F[y] \in Int
  PROVE  SumOver(F, S \cup {x}) = F[x] + SumOver(F, S)
<1>1. IsFiniteSet(S \cup {x})
  BY FS_AddElement
<1>2. (S \cup {x}) \ {x} = S
  OBVIOUS
<1>3. SumOver(F, S \cup {x}) = F[x] + SumIter(F, S \cup {x})[S]
  BY <1>1, <1>2, SumIterTakesOut DEF SumOver
<1>4. SumIter(F, S \cup {x})[S] = SumOver(F, S)
  BY <1>1, SumIterAgrees DEF SumOver
<1> QED
  BY <1>3, <1>4

-------------------------------------------------------------------------------
(* Whole orders. *)

LEMMA UnitsAdd ==
  ASSUME NEW c, NEW p, NEW I
  PROVE  UnitsIn(c, p, I) = SumOver([i \in I |-> c[i].quantity],
                                    {i \in I : c[i].product = p})
BY DEF UnitsIn, MapThenSumSet, MapThenFoldSet, SumOver, SumIter, Adds, Some

LEMMA UnitsInNone ==
  ASSUME NEW c, NEW p
  PROVE  UnitsIn(c, p, {}) = 0
<1>1. {i \in {} : c[i].product = p} = {}
  OBVIOUS
<1> QED
  BY <1>1, UnitsAdd, SumOfNone

(* One more line adds its quantity to the units of its product. *)
LEMMA UnitsInOneMore ==
  ASSUME NEW c \in Carts, NEW p \in Products,
         NEW I \in SUBSET (1 .. Len(c)), NEW i \in (1 .. Len(c)) \ I
  PROVE  UnitsIn(c, p, I \cup {i})
           = UnitsIn(c, p, I) + IF c[i].product = p THEN c[i].quantity ELSE 0
<1> DEFINE J == I \cup {i}
           Of(K) == {k \in K : c[k].product = p}
           F == [k \in J |-> c[k].quantity]
           G == [k \in I |-> c[k].quantity]
<1>1. \A k \in J : F[k] \in Int
  BY CartLines
<1>2. IsFiniteSet(1 .. Len(c))
  BY CartLines, FS_Interval
<1>3. IsFiniteSet(Of(I)) /\ IsFiniteSet(Of(J))
  BY <1>2, FS_Subset
<1>4. UnitsIn(c, p, J) = SumOver(F, Of(J)) /\ UnitsIn(c, p, I) = SumOver(G, Of(I))
  BY UnitsAdd
<1>5. SumOver(G, Of(I)) = SumOver(F, Of(I)) /\ SumOver(F, Of(I)) \in Int
  <2>1. \A k \in Of(I) : G[k] = F[k] /\ F[k] \in Int
    BY <1>1
  <2> HIDE DEF F, G, Of
  <2> QED
    BY <1>3, <2>1, SumAgrees, SumTyped
<1>6. CASE c[i].product = p
  <2>1. Of(J) = Of(I) \cup {i} /\ i \notin Of(I)
    BY <1>6
  <2>2. \A k \in Of(I) \cup {i} : F[k] \in Int
    BY <1>1
  <2>3. F[i] = c[i].quantity /\ F[i] \in Int
    BY <1>1
  <2> HIDE DEF F, Of
  <2>4. SumOver(F, Of(J)) = F[i] + SumOver(F, Of(I))
    BY <1>3, <2>1, <2>2, SumWithOneMore
  <2> QED
    BY <1>4, <1>5, <1>6, <2>3, <2>4
<1>7. CASE c[i].product # p
  <2>1. Of(J) = Of(I)
    BY <1>7
  <2> HIDE DEF Of
  <2> QED
    BY <1>4, <1>5, <1>7, <2>1
<1> QED
  BY <1>6, <1>7

(* The item rows of a request stand for the lines it has written, and those *)
(* of an order for its whole cart.                                          *)
WrittenLines(r) == {i \in 1 .. Len(cart[r]) : Written(r, i)}

Filled(r) ==
  /\ Inserted(r) => \A p \in Products :
                       items[r][p] = UnitsIn(cart[r], p, WrittenLines(r))
  /\ r \in orders => \A p \in Products : items[r][p] = CartUnits(cart[r], p)

ItemsFilled == \A r \in Requests : Filled(r)

LEMMA FilledKept ==
  ASSUME ItemsFilled, NEW s \in Requests,
         pc'[s] = pc[s], cart'[s] = cart[s], line'[s] = line[s],
         items'[s] = items[s], s \in orders' <=> s \in orders
  PROVE  Filled(s)'
<1>1. WrittenLines(s)' = WrittenLines(s)
  BY DEF WrittenLines, Written
<1> QED
  BY <1>1 DEF ItemsFilled, Filled, Inserted

LEMMA ItemsFilledStep ==
  ASSUME TypeOK, Positions, Isolation, ItemsFilled, [Next]_vars
  PROVE  ItemsFilled'
<1>1. ASSUME NEW r \in Requests, CreateOrder(r)
      PROVE  ItemsFilled'
  <2>1. /\ pc[r] = "creating" /\ pc'[r] = "adding" /\ line'[r] = 1
        /\ items' = items /\ cart' = cart /\ orders' = orders
    BY <1>1 DEF CreateOrder, Advance, TypeOK
  <2>2. r \notin orders /\ items[r] = NoUnits
    BY <2>1 DEF Isolation, Inserted
  <2>3. WrittenLines(r)' = {}
    BY <2>1 DEF WrittenLines, Written
  <2>4. Filled(r)'
    BY <2>1, <2>2, <2>3, UnitsInNone DEF Filled, NoUnits
  <2>5. ASSUME NEW s \in Requests \ {r}
        PROVE  Filled(s)'
    BY <1>1, <2>1, FilledKept DEF CreateOrder, Advance, TypeOK
  <2> QED
    BY <2>4, <2>5 DEF ItemsFilled
<1>2. ASSUME NEW r \in Requests, AddItem(r)
      PROVE  ItemsFilled'
  <2> DEFINE c == cart[r]
  <2>1. PICK k \in 1 .. Len(c) : k = line[r] /\ c \in Carts
    BY <1>2 DEF AddItem, Positions
  <2>2. PICK q \in Products, n \in Nat : q = c[k].product /\ n = c[k].quantity
    BY <2>1, CartLines
  <2>3. /\ pc[r] = "adding" /\ pc'[r] = "taking"
        /\ line' = line /\ cart' = cart /\ orders' = orders
        /\ items' = [items EXCEPT ![r][q] = @ + n]
    BY <1>2, <2>1, <2>2 DEF AddItem, Advance, TypeOK, Current
  <2>4. /\ WrittenLines(r) \in SUBSET (1 .. Len(c))
        /\ k \notin WrittenLines(r)
        /\ WrittenLines(r)' = WrittenLines(r) \cup {k}
    BY <2>1, <2>3 DEF WrittenLines, Written
  <2>5. ASSUME NEW p \in Products
        PROVE  items'[r][p] = UnitsIn(c, p, WrittenLines(r)')
    <3>1. items[r][p] = UnitsIn(c, p, WrittenLines(r))
      BY <2>1, <2>3 DEF ItemsFilled, Filled, Inserted
    <3>2. UnitsIn(c, p, WrittenLines(r)')
            = UnitsIn(c, p, WrittenLines(r)) + IF q = p THEN n ELSE 0
      BY <2>1, <2>2, <2>4, UnitsInOneMore
    <3>3. items'[r][p] = items[r][p] + IF q = p THEN n ELSE 0
      BY <2>3 DEF TypeOK
    <3> QED
      BY <3>1, <3>2, <3>3
  <2>6. r \notin orders
    BY <2>3 DEF Isolation
  <2>7. Filled(r)'
    BY <2>1, <2>3, <2>5, <2>6 DEF Filled
  <2>8. ASSUME NEW s \in Requests \ {r}
        PROVE  Filled(s)'
    BY <1>2, FilledKept DEF AddItem, Advance, TypeOK
  <2> QED
    BY <2>7, <2>8 DEF ItemsFilled
<1>3. ASSUME NEW r \in Requests, TakeStock(r)
      PROVE  ItemsFilled'
  <2>1. /\ pc[r] = "taking" /\ pc'[r] \in {"adding", "committing"}
        /\ line[r] \in 1 .. Len(cart[r]) /\ line'[r] = line[r] + 1
        /\ items' = items /\ cart' = cart /\ orders' = orders
    BY <1>3 DEF TakeStock, Advance, TypeOK, Positions
  <2>2. WrittenLines(r)' = WrittenLines(r)
    BY <2>1 DEF WrittenLines, Written
  <2>3. Filled(r)'
    BY <2>1, <2>2 DEF ItemsFilled, Filled, Inserted
  <2>4. ASSUME NEW s \in Requests \ {r}
        PROVE  Filled(s)'
    BY <1>3, FilledKept DEF TakeStock, Advance, TypeOK
  <2> QED
    BY <2>3, <2>4 DEF ItemsFilled
<1>4. ASSUME NEW r \in Requests, ~Inserted(r)', r \notin orders',
             \A s \in Requests \ {r} :
               /\ pc'[s] = pc[s] /\ cart'[s] = cart[s]
               /\ line'[s] = line[s] /\ items'[s] = items[s],
             orders' = orders
      PROVE  ItemsFilled'
  <2>1. Filled(r)'
    BY <1>4 DEF Filled
  <2>2. ASSUME NEW s \in Requests \ {r}
        PROVE  Filled(s)'
    BY <1>4, FilledKept
  <2> QED
    BY <2>1, <2>2 DEF ItemsFilled
<1>5. ASSUME NEW r \in Requests,
             \/ Submit(r) \/ CheckLine(r) \/ GenerateNumber(r)
      PROVE  ItemsFilled'
  <2>1. r \notin orders
    BY <1>5 DEF Submit, CheckLine, GenerateNumber, Isolation
  <2> QED
    BY <1>4, <1>5, <2>1
       DEF Submit, CheckLine, GenerateNumber, Advance, TypeOK, Inserted
<1>6. ASSUME NEW r \in Requests, InTransaction(r),
             NEW phase \in {"answered", "lost"}, NEW why, Rollback(r, phase, why)
      PROVE  ItemsFilled'
  <2>1. r \notin orders
    BY <1>6 DEF InTransaction, Isolation
  <2> QED
    BY <1>4, <1>6, <2>1 DEF Rollback, Leave, Advance, TypeOK, Inserted
<1>7. ASSUME NEW r \in Requests,
             \/ RefuseMissing(r) \/ RefuseInsufficient(r)
             \/ RefuseUnbindable(r) \/ RefuseDuplicate(r)
             \/ DeadlockVictim(r) \/ FailStatement(r) \/ Crash(r)
      PROVE  ItemsFilled'
  <2>1. InTransaction(r)
    BY <1>7, DeadlockedActive
       DEF RefuseMissing, RefuseInsufficient, RefuseUnbindable,
           RefuseDuplicate, DeadlockVictim, FailStatement, Crash, InTransaction
  <2> QED
    BY <1>6, <1>7, <2>1
       DEF RefuseMissing, RefuseInsufficient, RefuseUnbindable,
           RefuseDuplicate, DeadlockVictim, FailStatement, Crash, Refuse
<1>8. ASSUME NEW r \in Requests, Commit(r) \/ CommitUnheard(r)
      PROVE  ItemsFilled'
  <2>1. /\ pc[r] = "committing" /\ pc'[r] \in {"answered", "lost"}
        /\ items' = items /\ cart' = cart /\ orders' = orders \cup {r}
        /\ \A s \in Requests \ {r} : pc'[s] = pc[s] /\ line'[s] = line[s]
    BY <1>8 DEF Commit, CommitUnheard, Publish, Leave, Advance, TypeOK
  <2>2. WrittenLines(r) = 1 .. Len(cart[r])
    BY <2>1, CartLines DEF Positions, WrittenLines, Written
  <2>3. \A p \in Products : items[r][p] = CartUnits(cart[r], p)
    BY <2>1, <2>2 DEF ItemsFilled, Filled, Inserted, CartUnits
  <2>4. Filled(r)'
    BY <2>1, <2>3 DEF Filled, Inserted
  <2>5. ASSUME NEW s \in Requests \ {r}
        PROVE  Filled(s)'
    BY <2>1, FilledKept
  <2> QED
    BY <2>4, <2>5 DEF ItemsFilled
<1>9. ASSUME UNCHANGED <<pc, cart, line, items, orders>>
      PROVE  ItemsFilled'
  BY <1>9, FilledKept DEF ItemsFilled
<1>10. CASE \/ UNCHANGED vars
            \/ \E p \in Products : LoadProduct(p) \/ DestroyProduct(p)
            \/ \E e \in edits : SaveProduct(e)
  BY <1>9, <1>10 DEF vars, LoadProduct, DestroyProduct, SaveProduct
<1> QED
  BY <1>1, <1>2, <1>3, <1>5, <1>7, <1>8, <1>10 DEF Next, Step

(* A committed order has the units of its whole cart, whatever lines repeat *)
(* a product, and a request that ended without one has left no item.        *)
THEOREM OrdersAreWhole == Spec => []WholeOrders
<1>1. Init => ItemsFilled
  BY DEF Init, ItemsFilled, Filled, Inserted
<1>2. TypeOK /\ Positions /\ Isolation /\ ItemsFilled /\ [Next]_vars
        => ItemsFilled'
  BY ItemsFilledStep
<1>3. TypeOK /\ Isolation /\ ItemsFilled => WholeOrders
  <2> SUFFICES ASSUME TypeOK, Isolation, ItemsFilled, NEW r \in Requests
               PROVE  /\ r \in orders =>
                           items[r] = [p \in Products |-> CartUnits(cart[r], p)]
                      /\ ~InTransaction(r) /\ r \notin orders =>
                           items[r] = NoUnits
    BY DEF WholeOrders
  <2>1. items[r] \in [Products -> Nat]
    BY DEF TypeOK
  <2>2. ~InTransaction(r) => ~Inserted(r)
    BY DEF InTransaction, Inserted
  <2> QED
    BY <2>1, <2>2 DEF ItemsFilled, Filled, Isolation
<1> QED
  BY <1>1, <1>2, <1>3, TypeCorrect, TransactionsIsolated, PTL DEF Spec

-------------------------------------------------------------------------------
(* The ledger. *)

LEMMA SoldAdds ==
  ASSUME NEW p
  PROVE  /\ Sold(p) = SumOver([r \in orders |-> items[r][p]], orders)
         /\ Sold(p)' = SumOver([r \in orders' |-> items'[r][p]], orders')
BY DEF Sold, MapThenSumSet, MapThenFoldSet, SumOver, SumIter, Adds, Some

(* A commit adds its units to what was sold, and nothing else does. *)
LEMMA CommitSells ==
  ASSUME IsFiniteSet(Requests), TypeOK,
         NEW r \in Requests, r \notin orders,
         orders' = orders \cup {r}, items' = items, NEW p \in Products
  PROVE  Sold(p)' = Sold(p) + items[r][p] /\ Sold(p) \in Int
<1> DEFINE F == [s \in orders |-> items[s][p]]
           G == [s \in orders' |-> items'[s][p]]
<1>1. IsFiniteSet(orders) /\ orders \subseteq Requests
  BY FS_Subset DEF TypeOK
<1>2. \A s \in Requests : items[s][p] \in Nat
  BY DEF TypeOK
<1>3. /\ \A s \in orders : F[s] = G[s] /\ F[s] \in Int
      /\ \A s \in orders \cup {r} : G[s] \in Int
      /\ G[r] = items[r][p] /\ G[r] \in Int
  BY <1>1, <1>2
<1>4. Sold(p) = SumOver(F, orders) /\ Sold(p)' = SumOver(G, orders \cup {r})
  BY SoldAdds
<1> HIDE DEF F, G
<1>5. SumOver(G, orders \cup {r}) = G[r] + SumOver(G, orders)
  BY <1>1, <1>3, SumWithOneMore
<1>6. SumOver(F, orders) = SumOver(G, orders) /\ SumOver(F, orders) \in Int
  BY <1>1, <1>3, SumAgrees, SumTyped
<1> QED
  BY <1>3, <1>4, <1>5, <1>6

LEMMA SoldKept ==
  ASSUME IsFiniteSet(Requests), TypeOK, orders' = orders,
         \A s \in orders : items'[s] = items[s], NEW p \in Products
  PROVE  Sold(p)' = Sold(p)
<1>1. [s \in orders' |-> items'[s][p]] = [s \in orders |-> items[s][p]]
  OBVIOUS
<1> QED
  BY <1>1, SoldAdds

(* A rolled back transaction has no order. *)
LEMMA RollbackUnsold ==
  ASSUME Isolation, NEW r \in Requests,
         \/ RefuseMissing(r) \/ RefuseInsufficient(r)
         \/ RefuseUnbindable(r) \/ RefuseDuplicate(r)
         \/ DeadlockVictim(r) \/ FailStatement(r) \/ Crash(r)
  PROVE  /\ r \notin orders
         /\ \E phase \in {"answered", "lost"}, why \in Replies :
              Rollback(r, phase, why)
<1>1. InTransaction(r)
  BY DeadlockedActive
     DEF RefuseMissing, RefuseInsufficient, RefuseUnbindable,
         RefuseDuplicate, DeadlockVictim, FailStatement, Crash, InTransaction
<1>2. r \notin orders
  BY <1>1 DEF InTransaction, Isolation
<1> QED
  BY <1>2
     DEF RefuseMissing, RefuseInsufficient, RefuseUnbindable, RefuseDuplicate,
         DeadlockVictim, FailStatement, Crash, Refuse, Replies

(* Nobody has a seller's update to save. *)
NoSellers == MaxEdits = 0 => edits = {}

LEMMA NoSellersStep ==
  ASSUME NoSellers, [Next]_vars
  PROVE  NoSellers'
<1>1. ASSUME NEW p \in Products, LoadProduct(p), MaxEdits = 0
      PROVE  FALSE
  BY <1>1, FS_EmptySet DEF LoadProduct, NoSellers
<1>2. ASSUME edits' \subseteq edits
      PROVE  NoSellers'
  BY <1>2 DEF NoSellers
<1> QED
  BY <1>1, <1>2
     DEF NoSellers, Next, Step, vars, Submit, CheckLine, RefuseMissing,
         RefuseInsufficient, GenerateNumber, CreateOrder, RefuseUnbindable,
         RefuseDuplicate, AddItem, TakeStock, DeadlockVictim, FailStatement,
         Crash, Refuse, Rollback, Commit, CommitUnheard, Publish,
         SaveProduct, DestroyProduct

LEMMA LedgerStep ==
  ASSUME IsFiniteSet(Requests), Restocks = {} \/ MaxEdits = 0,
         TypeOK, Isolation, NoSellers, LedgerBalanced, [Next]_vars
  PROVE  LedgerBalanced'
<1>1. ASSUME NEW r \in Requests, Commit(r) \/ CommitUnheard(r)
      PROVE  LedgerBalanced'
  <2>1. /\ pc[r] = "committing" /\ Publish(r)
        /\ orders' = orders \cup {r} /\ items' = items
    BY <1>1 DEF Commit, CommitUnheard, Publish
  <2>2. r \notin orders /\ stock' = [p \in Products |-> stock[p] - items[r][p]]
    BY <2>1, PublishSubtracts
  <2>3. ASSUME NEW p \in Products
        PROVE  stock'[p] = Opening[p] - Sold(p)'
    <3>1. Sold(p)' = Sold(p) + items[r][p] /\ Sold(p) \in Int
      BY <2>1, <2>2, CommitSells
    <3>2. stock[p] = Opening[p] - Sold(p) /\ stock'[p] = stock[p] - items[r][p]
      BY <2>2 DEF LedgerBalanced
    <3>3. Opening[p] \in Int /\ items[r][p] \in Int
      BY OpeningAssumption DEF TypeOK
    <3> QED
      BY <3>1, <3>2, <3>3
  <2> QED
    BY <2>3 DEF LedgerBalanced
<1>2. ASSUME stock' = stock, orders' = orders,
             \A s \in orders : items'[s] = items[s]
      PROVE  LedgerBalanced'
  <2>1. \A p \in Products : Sold(p)' = Sold(p)
    BY <1>2, SoldKept
  <2> QED
    BY <1>2, <2>1 DEF LedgerBalanced
<1>3. ASSUME NEW r \in Requests,
             \/ RefuseMissing(r) \/ RefuseInsufficient(r)
             \/ RefuseUnbindable(r) \/ RefuseDuplicate(r)
             \/ DeadlockVictim(r) \/ FailStatement(r) \/ Crash(r)
      PROVE  LedgerBalanced'
  BY <1>2, <1>3, RollbackUnsold DEF Rollback, TypeOK
<1>4. ASSUME NEW r \in Requests, AddItem(r)
      PROVE  LedgerBalanced'
  <2>1. r \notin orders
    BY <1>4 DEF AddItem, Isolation
  <2> QED
    BY <1>2, <1>4, <2>1 DEF AddItem, rowVars, TypeOK
<1>5. ASSUME NEW r \in Requests,
             \/ Submit(r) \/ CheckLine(r) \/ GenerateNumber(r)
             \/ CreateOrder(r) \/ TakeStock(r)
      PROVE  LedgerBalanced'
  BY <1>2, <1>5
     DEF Submit, CheckLine, GenerateNumber, CreateOrder, TakeStock, rowVars
<1>6. ~ \E e \in edits : SaveProduct(e)
  BY DEF SaveProduct, NoSellers
<1>7. CASE UNCHANGED vars \/ \E p \in Products : LoadProduct(p) \/ DestroyProduct(p)
  BY <1>2, <1>7 DEF vars, LoadProduct, DestroyProduct, rowVars
<1> QED
  BY <1>1, <1>3, <1>4, <1>5, <1>6, <1>7 DEF Next, Step

(* Where sellers write no quantity, what is left of every product is what   *)
(* there was less the units of the committed orders.                        *)
THEOREM StockIsLedger ==
  ASSUME IsFiniteSet(Requests), Restocks = {} \/ MaxEdits = 0
  PROVE  Spec => []LedgerBalanced
<1>1. Init => NoSellers
  BY DEF Init, NoSellers
<1>2. Init => LedgerBalanced
  <2> SUFFICES ASSUME Init, NEW p \in Products
               PROVE  stock[p] = Opening[p] - Sold(p)
    BY DEF LedgerBalanced
  <2>1. orders = {} /\ stock = Opening
    BY DEF Init
  <2>2. Sold(p) = SumOver([r \in orders |-> items[r][p]], {})
    BY <2>1, SoldAdds
  <2>3. Opening[p] \in Int
    BY OpeningAssumption
  <2> QED
    BY <2>1, <2>2, <2>3, SumOfNone
<1>3. NoSellers /\ [Next]_vars => NoSellers'
  BY NoSellersStep
<1>4. TypeOK /\ Isolation /\ NoSellers /\ LedgerBalanced /\ [Next]_vars
        => LedgerBalanced'
  BY LedgerStep
<1> QED
  BY <1>1, <1>2, <1>3, <1>4, TypeCorrect, TransactionsIsolated, PTL DEF Spec

-------------------------------------------------------------------------------
(* Progress: what EveryRequestEnds rests on besides fairness. *)

(* The database would execute r's next statement now. *)
Ready(r) ==
  /\ InTransaction(r)
  /\ pc[r] = "creating" /\ bindable => ~NumberPending(r)
  /\ pc[r] = "taking" => holder[Current(r).product] \in {None, r}

LEMMA NotReadyWaits ==
  ASSUME TypeOK, Positions, NEW r \in Requests, InTransaction(r), ~Ready(r)
  PROVE  \E s \in Requests : WaitsFor(r, s)
<1>1. CASE pc[r] = "creating" /\ bindable /\ NumberPending(r)
  BY <1>1 DEF NumberPending, WaitsFor
<1>2. CASE pc[r] = "taking" /\ holder[Current(r).product] \notin {None, r}
  <2>1. Current(r).product \in Products
    BY <1>2, CurrentLine
  <2>2. holder[Current(r).product] \in Requests \ {r}
    BY <1>2, <2>1 DEF TypeOK
  <2> QED
    BY <1>2, <2>2 DEF WaitsFor
<1> QED
  BY <1>1, <1>2 DEF Ready

(* A finite group in which everybody waits for somebody has a circle: its   *)
(* smallest part with that property.                                        *)
LEMMA WaitingGroupsCircle ==
  ASSUME NEW T \in SUBSET Requests, IsFiniteSet(T), T # {},
         \A s \in T : \E t \in T : WaitsFor(s, t)
  PROVE  \E s \in T : Deadlocked(s)
<1> DEFINE Waiting(S) == S # {} /\ \A s \in S : \E t \in S : WaitsFor(s, t)
           Groups == {S \in SUBSET T : Waiting(S)}
<1>1. PICK S \in Groups : \A R \in SUBSET S : R # S => R \notin Groups
  <2>1. Groups \in SUBSET (SUBSET T) /\ Groups # {}
    OBVIOUS
  <2> HIDE DEF Groups
  <2> QED
    BY <2>1, SmallestSet
<1>2. S \in SUBSET T /\ Waiting(S)
  BY <1>1
<1>3. ASSUME NEW s \in S
      PROVE  \E t \in S : WaitsFor(t, s)
  <2> SUFFICES ASSUME \A t \in S : ~WaitsFor(t, s)
               PROVE  FALSE
    OBVIOUS
  <2>1. PICK t \in S : WaitsFor(s, t)
    BY <1>2
  <2>2. t # s
    BY <2>1
  <2>3. Waiting(S \ {s})
    BY <1>2, <2>1, <2>2
  <2>4. S \ {s} \in Groups /\ S \ {s} \in SUBSET S /\ S \ {s} # S
    BY <1>2, <2>3
  <2> QED
    BY <1>1, <2>4
<1>4. PICK s \in S : TRUE
  BY <1>2
<1>5. Deadlocked(s)
  BY <1>2, <1>3, <1>4 DEF Deadlocked
<1> QED
  BY <1>2, <1>4, <1>5

(* Requests in transactions that wait for nobody else: one of them can      *)
(* execute its next statement, or PostgreSQL finds it on a circle.          *)
GroupsMove ==
  \A T \in SUBSET Requests :
    /\ T # {}
    /\ \A s \in T : InTransaction(s)
    /\ \A s \in T, t \in Requests : WaitsFor(s, t) => t \in T
    => \E s \in T : Ready(s) \/ Deadlocked(s)

(* Locks and the unique index never leave open transactions at a standstill *)
(* that the deadlock detector would not end.                                *)
THEOREM NoStandstill ==
  ASSUME IsFiniteSet(Requests)
  PROVE  Spec => []GroupsMove
<1>1. TypeOK /\ Positions => GroupsMove
  <2> SUFFICES ASSUME TypeOK, Positions, NEW T \in SUBSET Requests, T # {},
                      \A s \in T : InTransaction(s),
                      \A s \in T, t \in Requests : WaitsFor(s, t) => t \in T,
                      \A s \in T : ~Ready(s)
               PROVE  \E s \in T : Deadlocked(s)
    BY DEF GroupsMove
  <2>1. \A s \in T : \E t \in T : WaitsFor(s, t)
    BY NotReadyWaits
  <2>2. IsFiniteSet(T)
    BY FS_Subset
  <2> QED
    BY <2>1, <2>2, WaitingGroupsCircle
<1> QED
  BY <1>1, TypeCorrect, PTL

(* The statements a request has yet to execute, if nothing goes wrong: two  *)
(* for every line to write and one for every line to check, the number, the *)
(* order and the commit.                                                    *)
Remaining(r) ==
  LET n == Len(cart[r]) IN
  CASE pc[r] = "checking"   -> (n - Len(seen[r])) + 2 * n + 3
    [] pc[r] = "numbering"  -> 2 * n + 3
    [] pc[r] = "creating"   -> 2 * n + 2
    [] pc[r] = "adding"     -> 2 * (n + 1 - line[r]) + 1
    [] pc[r] = "taking"     -> 2 * (n + 1 - line[r])
    [] pc[r] = "committing" -> 1
    [] OTHER                -> 0

(* The own statements of a request bring it nearer to its end, and nothing  *)
(* else that happens takes it further away.                                 *)
StepsRunOut ==
  [][\A r \in Requests :
       /\ Step(r) => Remaining(r)' < Remaining(r)
       /\ pc[r] # "idle" => Remaining(r)' <= Remaining(r)]_vars

LEMMA RemainingTyped ==
  ASSUME TypeOK, Positions, NEW r \in Requests
  PROVE  /\ Remaining(r) \in Nat
         /\ InTransaction(r) => Remaining(r) > 0
<1>1. CASE InTransaction(r)
  <2>1. Len(cart[r]) \in Nat /\ Len(seen[r]) \in Nat /\ line[r] \in Nat
    BY <1>1, CartLines DEF InTransaction, Positions, TypeOK
  <2> QED
    BY <1>1, <2>1 DEF InTransaction, Positions, TypeOK, Phases, Remaining
<1>2. CASE ~InTransaction(r)
  BY <1>2 DEF InTransaction, Remaining
<1> QED
  BY <1>1, <1>2

LEMMA RemainingKept ==
  ASSUME NEW s \in Requests,
         pc'[s] = pc[s], cart'[s] = cart[s],
         line'[s] = line[s], seen'[s] = seen[s]
  PROVE  Remaining(s)' = Remaining(s)
BY DEF Remaining

(* Leaving a transaction leaves nothing to do. *)
LEMMA LeavingRemains ==
  ASSUME TypeOK, NEW r \in Requests, NEW phase \in {"answered", "lost"},
         NEW why, Leave(r, phase, why), cart' = cart
  PROVE  /\ Remaining(r)' = 0
         /\ \A s \in Requests \ {r} : Remaining(s)' = Remaining(s)
<1>1. pc'[r] \in {"answered", "lost"}
  BY DEF Leave, Advance, TypeOK
<1>2. ASSUME NEW s \in Requests \ {r}
      PROVE  Remaining(s)' = Remaining(s)
  BY RemainingKept DEF Leave, Advance, TypeOK
<1> QED
  BY <1>1, <1>2 DEF Remaining

LEMMA StepRemains ==
  ASSUME TypeOK, Positions, NEW r \in Requests, Step(r)
  PROVE  /\ InTransaction(r)
         /\ Remaining(r)' \in Nat /\ Remaining(r)' < Remaining(r)
         /\ \A s \in Requests \ {r} : Remaining(s)' = Remaining(s)
<1>1. InTransaction(r)
  BY DEF Step, CheckLine, RefuseMissing, RefuseInsufficient, GenerateNumber,
         CreateOrder, RefuseUnbindable, RefuseDuplicate, AddItem, TakeStock,
         Commit, InTransaction
<1>2. PICK n \in Nat : n = Len(cart[r]) /\ cart'[r] = cart[r]
  <2>1. Len(cart[r]) \in Nat
    BY <1>1, CartLines DEF Positions, InTransaction
  <2>2. cart' = cart
    BY DEF Step, CheckLine, RefuseMissing, RefuseInsufficient, GenerateNumber,
           CreateOrder, RefuseUnbindable, RefuseDuplicate, AddItem, TakeStock,
           Commit, Refuse, Rollback, Publish
  <2> QED
    BY <2>1, <2>2
<1>3. CASE CheckLine(r)
  <2>1. PICK k \in Nat : k = Len(seen[r]) /\ k < n
    BY <1>2, <1>3 DEF CheckLine, TypeOK, Positions
  <2>2. /\ pc[r] = "checking"
        /\ pc'[r] = IF k + 1 < n THEN "checking" ELSE "numbering"
    BY <1>2, <1>3, <2>1 DEF CheckLine, Advance, TypeOK
  <2>3. Len(seen'[r]) = k + 1
    <3>1. Current(r).product \in Products
      BY <2>2, CurrentLine
    <3>2. seen'[r] = Append(seen[r], stock[Current(r).product])
      BY <1>3 DEF CheckLine, TypeOK
    <3> QED
      BY <2>1, <3>1, <3>2 DEF TypeOK
  <2>4. Remaining(r) = (n - k) + 2 * n + 3
    BY <1>2, <2>1, <2>2 DEF Remaining
  <2>5. ASSUME k + 1 < n
        PROVE  Remaining(r)' \in Nat /\ Remaining(r)' < Remaining(r)
    <3>1. Remaining(r)' = (n - (k + 1)) + 2 * n + 3
      BY <1>2, <2>2, <2>3, <2>5 DEF Remaining
    <3> QED
      BY <2>4, <2>5, <3>1
  <2>6. ASSUME ~(k + 1 < n)
        PROVE  Remaining(r)' \in Nat /\ Remaining(r)' < Remaining(r)
    <3>1. Remaining(r)' = 2 * n + 3
      BY <1>2, <2>2, <2>6 DEF Remaining
    <3>2. n - k \in Nat /\ n - k > 0 /\ 2 * n + 3 \in Nat
      BY <2>1
    <3>3. 2 * n + 3 < (n - k) + 2 * n + 3
      BY <3>2
    <3> QED
      BY <2>4, <3>1, <3>2, <3>3
  <2>7. ASSUME NEW s \in Requests \ {r}
        PROVE  Remaining(s)' = Remaining(s)
    BY <1>3, RemainingKept DEF CheckLine, Advance, TypeOK
  <2>8. Remaining(r)' \in Nat /\ Remaining(r)' < Remaining(r)
    BY <2>5, <2>6
  <2> QED
    BY <1>1, <2>7, <2>8
<1>4. CASE GenerateNumber(r) \/ CreateOrder(r)
  <2>1. \/ pc[r] = "numbering" /\ pc'[r] = "creating"
        \/ pc[r] = "creating" /\ pc'[r] = "adding" /\ line'[r] = 1
    BY <1>4 DEF GenerateNumber, CreateOrder, Advance, TypeOK
  <2>2. Remaining(r)' \in Nat /\ Remaining(r)' < Remaining(r)
    <3>1. CASE pc[r] = "numbering"
      <4>1. Remaining(r) = 2 * n + 3
        BY <1>2, <3>1 DEF Remaining
      <4>2. Remaining(r)' = 2 * n + 2
        BY <1>2, <2>1, <3>1 DEF Remaining
      <4> QED
        BY <4>1, <4>2
    <3>2. CASE pc[r] = "creating"
      <4>1. Remaining(r) = 2 * n + 2
        BY <1>2, <3>2 DEF Remaining
      <4>2. Remaining(r)' = 2 * (n + 1 - 1) + 1
        BY <1>2, <2>1, <3>2 DEF Remaining
      <4> QED
        BY <4>1, <4>2
    <3> QED
      BY <2>1, <3>1, <3>2
  <2>3. ASSUME NEW s \in Requests \ {r}
        PROVE  Remaining(s)' = Remaining(s)
    BY <1>4, RemainingKept DEF GenerateNumber, CreateOrder, Advance, TypeOK
  <2> QED
    BY <1>1, <2>2, <2>3
<1>5. CASE AddItem(r)
  <2>1. /\ pc[r] = "adding" /\ pc'[r] = "taking"
        /\ line'[r] = line[r] /\ line[r] \in 1 .. n
    BY <1>2, <1>5 DEF AddItem, Advance, TypeOK, Positions
  <2>2. /\ Remaining(r) = 2 * (n + 1 - line[r]) + 1
        /\ Remaining(r)' = 2 * (n + 1 - line[r])
    BY <1>2, <2>1 DEF Remaining
  <2>3. ASSUME NEW s \in Requests \ {r}
        PROVE  Remaining(s)' = Remaining(s)
    BY <1>5, RemainingKept DEF AddItem, Advance, TypeOK
  <2> QED
    BY <1>1, <2>1, <2>2, <2>3
<1>6. CASE TakeStock(r)
  <2>1. /\ pc[r] = "taking" /\ line[r] \in 1 .. n /\ line'[r] = line[r] + 1
        /\ pc'[r] = IF line[r] < n THEN "adding" ELSE "committing"
    BY <1>2, <1>6 DEF TakeStock, Advance, MoreLines, TypeOK, Positions
  <2>2. Remaining(r) = 2 * (n + 1 - line[r])
    BY <1>2, <2>1 DEF Remaining
  <2>3. Remaining(r)' \in Nat /\ Remaining(r)' < Remaining(r)
    <3>1. CASE line[r] < n
      <4>1. Remaining(r)' = 2 * (n + 1 - (line[r] + 1)) + 1
        BY <1>2, <2>1, <3>1 DEF Remaining
      <4> QED
        BY <2>1, <2>2, <4>1
    <3>2. CASE ~(line[r] < n)
      <4>1. Remaining(r)' = 1
        BY <1>2, <2>1, <3>2 DEF Remaining
      <4> QED
        BY <2>1, <2>2, <4>1
    <3> QED
      BY <3>1, <3>2
  <2>4. ASSUME NEW s \in Requests \ {r}
        PROVE  Remaining(s)' = Remaining(s)
    BY <1>6, RemainingKept DEF TakeStock, Advance, TypeOK
  <2> QED
    BY <1>1, <2>3, <2>4
<1>7. ASSUME NEW phase \in {"answered", "lost"}, NEW why,
             Leave(r, phase, why), cart' = cart
      PROVE  /\ Remaining(r)' \in Nat /\ Remaining(r)' < Remaining(r)
             /\ \A s \in Requests \ {r} : Remaining(s)' = Remaining(s)
  BY <1>1, <1>7, LeavingRemains, RemainingTyped
<1>8. CASE \/ RefuseMissing(r) \/ RefuseInsufficient(r)
           \/ RefuseUnbindable(r) \/ RefuseDuplicate(r) \/ Commit(r)
  BY <1>1, <1>7, <1>8
     DEF RefuseMissing, RefuseInsufficient, RefuseUnbindable, RefuseDuplicate,
         Refuse, Rollback, Commit, Publish
<1> QED
  BY <1>3, <1>4, <1>5, <1>6, <1>8 DEF Step

(* A request with n lines ends after at most 3n + 3 own statements: nothing *)
(* is ever tried again.                                                     *)
THEOREM NoEndlessRequest == Spec => StepsRunOut
<1> DEFINE Down == \A r \in Requests :
                     /\ Step(r) => Remaining(r)' < Remaining(r)
                     /\ pc[r] # "idle" => Remaining(r)' <= Remaining(r)
<1>1. ASSUME TypeOK, Positions, [Next]_vars
      PROVE  Down
  <2> USE <1>1
  <2>1. \A r \in Requests : Remaining(r) \in Nat
    BY RemainingTyped
  <2>2. ASSUME NEW r \in Requests, Step(r)
        PROVE  Remaining(r)' < Remaining(r)
    BY <2>2, StepRemains
  <2>3. SUFFICES ASSUME NEW r \in Requests, pc[r] # "idle"
                 PROVE  Remaining(r)' <= Remaining(r)
    BY <2>2
  <2>4. ASSUME NEW q \in Requests, Submit(q)
        PROVE  Remaining(r)' <= Remaining(r)
    <3>1. q # r
      BY <2>3, <2>4 DEF Submit
    <3>2. Remaining(r)' = Remaining(r)
      BY <2>4, <3>1, RemainingKept DEF Submit, Advance, TypeOK
    <3> QED
      BY <2>1, <3>2
  <2>5. ASSUME NEW q \in Requests, Step(q)
        PROVE  Remaining(r)' <= Remaining(r)
    <3>1. /\ Remaining(q)' \in Nat /\ Remaining(q)' < Remaining(q)
          /\ \A s \in Requests \ {q} : Remaining(s)' = Remaining(s)
      BY <2>5, StepRemains
    <3> QED
      BY <2>1, <3>1
  <2>6. ASSUME NEW q \in Requests, NEW phase \in {"answered", "lost"}, NEW why,
               Leave(q, phase, why), cart' = cart
        PROVE  Remaining(r)' <= Remaining(r)
    <3>1. /\ Remaining(q)' = 0
          /\ \A s \in Requests \ {q} : Remaining(s)' = Remaining(s)
      BY <2>6, LeavingRemains
    <3> QED
      BY <2>1, <3>1
  <2>7. ASSUME NEW q \in Requests,
               \/ CommitUnheard(q) \/ DeadlockVictim(q)
               \/ FailStatement(q) \/ Crash(q)
        PROVE  Remaining(r)' <= Remaining(r)
    BY <2>6, <2>7
       DEF CommitUnheard, Publish, DeadlockVictim, FailStatement, Crash,
           Refuse, Rollback
  <2>8. CASE \/ UNCHANGED vars
             \/ \E p \in Products : LoadProduct(p) \/ DestroyProduct(p)
             \/ \E e \in edits : SaveProduct(e)
    <3>1. Remaining(r)' = Remaining(r)
      BY <2>8, RemainingKept DEF vars, LoadProduct, DestroyProduct, SaveProduct
    <3> QED
      BY <2>1, <3>1
  <2> QED
    BY <2>4, <2>5, <2>7, <2>8 DEF Next
<1>2. TypeOK /\ Positions /\ [Next]_vars => [Down]_vars
  BY <1>1
<1> QED
  BY <1>2, TypeCorrect, PTL DEF Spec, StepsRunOut

===============================================================================
