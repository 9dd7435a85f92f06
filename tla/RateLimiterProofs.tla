-------------------------- MODULE RateLimiterProofs --------------------------
(***************************************************************************)
(* Theorems about module RateLimiter, for any limit, window and number of  *)
(* workers.  The bounds on the counter are those of the Redis store: with  *)
(* the file store they do not hold.                                        *)
(***************************************************************************)
EXTENDS RateLimiter, FiniteSetTheorems, TLAPS

LEMMA CardinalityWorkers == Cardinality(Workers) \in Nat
BY WorkersAssumption, FS_CardinalityType

LEMMA TypeInit == Init => TypeOK
BY LimitsAssumption DEF Init, TypeOK, Times, Forever, Phases, Unread

LEMMA TypeStep == TypeOK /\ [Next]_vars => TypeOK'
<1> SUFFICES ASSUME TypeOK, [Next]_vars
             PROVE  TypeOK'
  OBVIOUS
<1> USE LimitsAssumption DEF TypeOK, Times, Forever, Phases
<1>1. ASSUME NEW w \in Workers, Has(w) \/ Reject(w) \/ GetBelow(w)
      PROVE  TypeOK'
  BY <1>1 DEF Has, Reject, GetBelow, Advance
<1>2. Succ(admitted) \in 0 .. Cap
  BY DEF Succ
<1>3. ASSUME NEW w \in Workers, Increment(w)
      PROVE  TypeOK'
  BY <1>2, <1>3 DEF Increment, Admit, Advance, Kept
<1>4. ASSUME NEW w \in Workers, ReadForIncrement(w)
      PROVE  TypeOK'
  BY <1>4 DEF ReadForIncrement, Advance
<1>5. ASSUME NEW w \in Workers, WriteIncrement(w)
      PROVE  TypeOK'
  <2>1. copy[w].value \in Nat /\ copy[w].ttl \in Times
    OBVIOUS
  <2>2. Succ(copy[w].value) \in Nat /\ Kept(copy[w].ttl) \in Times
    BY <2>1 DEF Succ, Kept
  <2> QED
    BY <1>2, <1>5, <2>2 DEF WriteIncrement, Admit, Advance, Unread
<1>6. ASSUME NEW w \in Workers, Put(w)
      PROVE  TypeOK'
  BY <1>2, <1>6 DEF Put, Admit, Advance
<1>7. CASE Tick
  BY <1>7 DEF Tick
<1>8. CASE UNCHANGED vars
  BY <1>8 DEF vars
<1> QED
  BY <1>1, <1>3, <1>4, <1>5, <1>6, <1>7, <1>8 DEF Next, Handle

(* The counter, the clock and the workers keep their types. *)
THEOREM TypeCorrect == Spec => []TypeOK
BY TypeInit, TypeStep, PTL DEF Spec

-------------------------------------------------------------------------------
(* The counter, and the workers about to raise it. *)

LEMMA CountingFinite ==
  /\ IsFiniteSet(Counting)
  /\ Cardinality(Counting) \in Nat
  /\ Cardinality(Counting) <= Cardinality(Workers)
BY WorkersAssumption, FS_Subset, FS_CardinalityType DEF Counting

(* A worker that is not counting leaves room for the others. *)
LEMMA CountingOthers ==
  ASSUME NEW w \in Workers, w \notin Counting
  PROVE  Cardinality(Counting) < Cardinality(Workers)
<1>1. Counting \subseteq Workers \ {w}
  BY DEF Counting
<1>2. IsFiniteSet(Workers \ {w}) /\ Cardinality(Workers \ {w}) = Cardinality(Workers) - 1
  BY WorkersAssumption, FS_RemoveElement
<1>3. Cardinality(Counting) <= Cardinality(Workers \ {w})
  BY <1>1, <1>2, FS_Subset
<1> QED
  BY <1>2, <1>3, CountingFinite, CardinalityWorkers

(* The counter with the raises under way is bounded, nobody is in the file  *)
(* store's increment, and every unit of it is a request let through.        *)
Counted ==
  /\ value + Cardinality(Counting) < Max + Cardinality(Workers)
  /\ \A w \in Workers : pc[w] # "writing"
  /\ value <= admitted

LEMMA CountedInit == Init => Counted
<1> SUFFICES ASSUME Init PROVE Counted
  OBVIOUS
<1>1. Counting = {}
  BY DEF Init, Counting
<1> QED
  BY <1>1, FS_EmptySet, CardinalityWorkers, LimitsAssumption DEF Init, Counted

LEMMA CountedStep ==
  ASSUME store = "redis", TypeOK, Counted, [Next]_vars
  PROVE  Counted'
<1> USE LimitsAssumption, CardinalityWorkers, CountingFinite
<1>1. ASSUME NEW w \in Workers, Has(w) \/ Reject(w)
      PROVE  Counted'
  <2>1. Counting' = Counting
    BY <1>1 DEF Has, Reject, Advance, Counting, TypeOK
  <2> QED
    BY <1>1, <2>1 DEF Has, Reject, Advance, Counted, TypeOK
<1>2. ASSUME NEW w \in Workers, GetBelow(w)
      PROVE  Counted'
  <2>1. w \notin Counting /\ Counting' = Counting \cup {w}
    BY <1>2 DEF GetBelow, Advance, Counting, TypeOK
  <2>2. Cardinality(Counting') = Cardinality(Counting) + 1
    BY <2>1, FS_AddElement
  <2>3. Cardinality(Counting) < Cardinality(Workers)
    BY <2>1, CountingOthers
  <2>4. value' = value /\ admitted' = admitted /\ value < Max
    BY <1>2 DEF GetBelow, Full, TypeOK
  <2>5. \A v \in Workers : pc'[v] # "writing"
    BY <1>2 DEF GetBelow, Advance, Counted, TypeOK
  <2> QED
    BY <2>2, <2>3, <2>4, <2>5 DEF Counted, TypeOK
<1>3. ASSUME NEW w \in Workers, Increment(w)
      PROVE  Counted'
  <2>1. w \in Counting /\ Counting' = Counting \ {w}
    BY <1>3 DEF Increment, Admit, Advance, Counting, TypeOK
  <2>2. Cardinality(Counting') = Cardinality(Counting) - 1
    BY <2>1, FS_RemoveElement
  <2>3. Cardinality(Counting') \in Nat
    BY <2>1, FS_RemoveElement, FS_CardinalityType
  <2>4. value' = value + 1 /\ admitted' = Succ(admitted)
    BY <1>3 DEF Increment, Admit
  <2>5. value' <= admitted'
    BY <2>2, <2>3, <2>4 DEF Succ, Counted, TypeOK
  <2>6. \A v \in Workers : pc'[v] # "writing"
    BY <1>3 DEF Increment, Admit, Advance, Counted, TypeOK
  <2> QED
    BY <2>2, <2>4, <2>5, <2>6 DEF Counted, TypeOK
<1>4. ASSUME NEW w \in Workers, Put(w)
      PROVE  Counted'
  <2>1. w \notin Counting /\ Counting' = Counting
    BY <1>4 DEF Put, Admit, Advance, Counting, TypeOK
  <2>2. Cardinality(Counting) < Cardinality(Workers)
    BY <2>1, CountingOthers
  <2>3. value' = 1 /\ admitted' = Succ(admitted)
    BY <1>4 DEF Put, Admit
  <2>4. 1 <= admitted'
    BY <2>3 DEF Succ, TypeOK
  <2>5. \A v \in Workers : pc'[v] # "writing"
    BY <1>4 DEF Put, Admit, Advance, Counted, TypeOK
  <2> QED
    BY <2>1, <2>2, <2>3, <2>4, <2>5 DEF Counted, TypeOK
<1>5. CASE Tick
  <2>1. Counting' = Counting /\ pc' = pc
    BY <1>5 DEF Tick, Counting
  <2>2. \/ value' = 0 /\ admitted' = 0
        \/ value' = value /\ admitted' = admitted
    BY <1>5 DEF Tick
  <2> QED
    BY <2>1, <2>2 DEF Counted, TypeOK
<1>6. CASE UNCHANGED vars
  BY <1>6 DEF vars, Counted, Counting
<1> QED
  BY <1>1, <1>2, <1>3, <1>4, <1>5, <1>6
     DEF Next, Handle, ReadForIncrement, WriteIncrement, Counted

LEMMA AlwaysCounted == Spec => [](store = "redis" => Counted)
<1>1. Init => Counted
  BY CountedInit
<1>2. TypeOK /\ (store = "redis" => Counted) /\ [Next]_vars
        => (store = "redis" => Counted)'
  <2>1. [Next]_vars => store' = store
    BY DEF Next, vars, Handle, Has, Reject, GetBelow, Increment,
           ReadForIncrement, WriteIncrement, Put, Tick
  <2> QED
    BY <2>1, CountedStep
<1> QED
  BY <1>1, <1>2, TypeCorrect, PTL DEF Spec

(* With Redis the counter passes the limit by less than one request per     *)
(* worker.                                                                  *)
THEOREM OvershootBounded == Spec => []CounterBounded
<1>1. TypeOK /\ (store = "redis" => Counted) => CounterBounded
  BY CountingFinite, CardinalityWorkers, LimitsAssumption
     DEF Counted, CounterBounded, TypeOK
<1> QED
  BY <1>1, AlwaysCounted, TypeCorrect, PTL

(* With Redis nobody is turned away before the limit was let through.       *)
THEOREM BlockedOnlyAtLimit == Spec => []NeverBlockedEarly
<1>1. TypeOK /\ (store = "redis" => Counted) => NeverBlockedEarly
  BY LimitsAssumption DEF Counted, NeverBlockedEarly, Full, TypeOK
<1> QED
  BY <1>1, AlwaysCounted, TypeCorrect, PTL

-------------------------------------------------------------------------------
(* What becomes of a client whose key has lost its time to live.            *)

(* The key does not expire, the limit is reached, and every request that is *)
(* under way has yet to look at the counter.                                *)
ShutOut ==
  /\ ttl = Forever /\ Full
  /\ \A w \in Workers : pc[w] \in {"idle", "getting"}

LEMMA ShutOutStays == TypeOK /\ ShutOut /\ [Next]_vars => ShutOut'
<1> SUFFICES ASSUME TypeOK, ShutOut, [Next]_vars PROVE ShutOut'
  OBVIOUS
<1> USE DEF ShutOut, Full, Forever
<1>1. ASSUME NEW w \in Workers, Has(w) PROVE ShutOut'
  BY <1>1 DEF Has, Absent, Advance, TypeOK
<1>2. ASSUME NEW w \in Workers, Reject(w) PROVE ShutOut'
  BY <1>2 DEF Reject, Advance, TypeOK
<1>3. ASSUME NEW w \in Workers,
             \/ GetBelow(w) \/ Increment(w) \/ ReadForIncrement(w)
             \/ WriteIncrement(w) \/ Put(w)
      PROVE  FALSE
  BY <1>3 DEF GetBelow, Increment, ReadForIncrement, WriteIncrement, Put
<1>4. ~Tick
  BY DEF Tick
<1>5. CASE UNCHANGED vars
  BY <1>5 DEF vars
<1> QED
  BY <1>1, <1>2, <1>3, <1>4, <1>5 DEF Next, Handle

(* A client that has run into a key without an end is turned away for good, *)
(* whatever the store, the limit and the window: no request, and no time    *)
(* that passes, leads out of it: BlockedClientRecovers fails for all values *)
(* of the constants for which ShutOut can be reached.                       *)
THEOREM ShutOutForGood == Spec => [](ShutOut => []ShutOut)
BY ShutOutStays, TypeCorrect, PTL DEF Spec

-------------------------------------------------------------------------------
(* How many requests one key lets through.                                  *)

(* Those workers that have found no key, and will write a new one.          *)
Putting == {w \in Workers : pc[w] = "putting"}

(* What one count can reach: the limit, and a raise by every other worker.  *)
Allowance == Max + Cardinality(Workers) - 1

LEMMA AllowanceType == Cardinality(Workers) # 0 => Allowance \in Nat
BY CardinalityWorkers, LimitsAssumption DEF Allowance

LEMMA PuttingFinite ==
  /\ IsFiniteSet(Putting)
  /\ Cardinality(Putting) \in Nat
  /\ Cardinality(Putting) <= Cardinality(Workers)
BY WorkersAssumption, FS_Subset, FS_CardinalityType DEF Putting

(* Multiples of one number are ordered as their factors, and follow each    *)
(* other at its distance.                                                   *)
LEMMA Multiples ==
  ASSUME NEW a \in Nat, NEW b \in Nat, NEW c \in Nat, a <= b
  PROVE  a * c \in Nat /\ a * c <= b * c
<1>1. (b - a) * c >= 0 /\ b * c = (b - a) * c + a * c /\ a * c \in Nat
  OBVIOUS
<1> QED
  BY <1>1

LEMMA MultipleBefore ==
  ASSUME NEW a \in Nat, NEW c \in Nat
  PROVE  (a - 1) * c = a * c - c /\ a * c \in Nat
OBVIOUS

(* A raise of the count and one more request let through keep the balance.  *)
LEMMA RaisedTogether ==
  ASSUME NEW a \in Nat, NEW b \in Nat, NEW c \in Nat, NEW d \in Nat,
         NEW e \in Nat, c + a <= d + b, e <= c + 1
  PROVE  e + a <= (d + 1) + b
OBVIOUS

(* Every worker that is yet to write a new key may start the count again,   *)
(* and each of them does so once: what was let through is what the present  *)
(* count says, and a full count for every restart there has been.           *)
Spent ==
  IF Absent
  THEN value = 0 /\ admitted = 0
  ELSE admitted + Cardinality(Putting) * Allowance
         <= value + (Cardinality(Workers) - 1) * Allowance

LEMMA SpentInit == Init => Spent
BY DEF Init, Spent, Absent

LEMMA SpentStep ==
  ASSUME store = "redis", TypeOK, Counted, Spent, [Next]_vars
  PROVE  Spent'
<1> USE LimitsAssumption, CardinalityWorkers, PuttingFinite, CountingFinite
<1> DEFINE n == Cardinality(Workers)
           k == Cardinality(Putting)
<1>0. n' = n /\ Allowance' = Allowance
  BY DEF Allowance
<1>1. ASSUME NEW w \in Workers, Has(w) \/ Reject(w) \/ GetBelow(w)
      PROVE  Spent'
  <2>1. ttl' = ttl /\ value' = value /\ admitted' = admitted
    BY <1>1 DEF Has, Reject, GetBelow
  <2>2. ~Absent => Putting' = Putting
    BY <1>1 DEF Has, Reject, GetBelow, Advance, Putting, TypeOK
  <2> QED
    BY <2>1, <2>2 DEF Spent, Absent
<1>2. ASSUME NEW w \in Workers
      PROVE  n # 0 /\ n - 1 \in Nat /\ Allowance \in Nat /\ value <= Allowance
  <2>1. n # 0
    BY WorkersAssumption, FS_EmptySet
  <2> QED
    BY <2>1, AllowanceType DEF Counted, TypeOK, Allowance
<1>3. ASSUME NEW w \in Workers, Increment(w)
      PROVE  Spent'
  <2>1. value' = value + 1 /\ ~Absent' /\ Putting' = Putting /\ admitted' <= admitted + 1
    BY <1>3 DEF Increment, Admit, Advance, Kept, Forever, Succ, Absent, Putting, TypeOK
  <2> DEFINE ka == k * Allowance
             na == (n - 1) * Allowance
  <2>2. ka \in Nat /\ na \in Nat
    BY <1>2, Multiples
  <2>3. Spent' <=> admitted' + ka <= value' + na
    BY <1>0, <2>1 DEF Spent
  <2>4. CASE Absent
    <3>1. Putting \subseteq Workers \ {w}
      BY <1>3 DEF Increment, Putting
    <3>2. IsFiniteSet(Workers \ {w}) /\ Cardinality(Workers \ {w}) = n - 1
      BY WorkersAssumption, FS_RemoveElement
    <3>3. k <= n - 1
      BY <3>1, <3>2, FS_Subset
    <3>4. ka <= na
      BY <3>3, <1>2, Multiples
    <3>5. value = 0 /\ admitted = 0
      BY <2>4 DEF Spent
    <3>6. admitted' = 0 \/ admitted' = 1
      BY <1>3, <3>5 DEF Increment, Admit, Succ
    <3>7. admitted' + ka <= value' + na
      <4> HIDE DEF ka, na
      <4> QED
        BY <2>1, <2>2, <3>4, <3>5, <3>6
    <3> QED
      BY <2>3, <3>7
  <2>5. CASE ~Absent
    <3>1. admitted + ka <= value + na
      BY <2>5 DEF Spent
    <3>2. admitted \in Nat /\ admitted' \in Nat /\ value \in Nat
      BY <1>3 DEF TypeOK, Increment, Admit, Succ
    <3>3. admitted' + ka <= value' + na
      BY <2>1, <2>2, <3>1, <3>2, RaisedTogether
    <3> QED
      BY <2>3, <3>3
  <2> QED
    BY <2>4, <2>5
<1>4. ASSUME NEW w \in Workers, Put(w)
      PROVE  Spent'
  <2>1. value' = 1 /\ ~Absent' /\ admitted' \in Nat /\ admitted' <= admitted + 1
    BY <1>4 DEF Put, Admit, Absent, Succ, TypeOK
  <2>2. w \in Putting /\ Putting' = Putting \ {w}
    BY <1>4 DEF Put, Admit, Advance, Putting, TypeOK
  <2>3. Cardinality(Putting') = k - 1 /\ k - 1 \in Nat
    <3>1. IsFiniteSet(Putting') /\ Cardinality(Putting') = k - 1
      BY <2>2, FS_RemoveElement
    <3> QED
      BY <3>1, FS_CardinalityType
  <2> DEFINE ka == k * Allowance
             na == (n - 1) * Allowance
             kb == (k - 1) * Allowance
  <2>4. ka \in Nat /\ na \in Nat /\ kb \in Nat
    BY <1>2, <2>3, Multiples
  <2>5. kb = ka - Allowance /\ kb <= na
    BY <1>2, <2>3, Multiples, MultipleBefore
  <2>6. Spent' <=> admitted' + kb <= 1 + na
    BY <1>0, <2>1, <2>3 DEF Spent
  <2>7. CASE Absent
    <3>1. admitted = 0
      BY <2>7 DEF Spent
    <3> HIDE DEF ka, na, kb
    <3> QED
      BY <3>1, <2>1, <2>4, <2>5, <2>6
  <2>8. CASE ~Absent
    <3>1. admitted + ka <= value + na
      BY <2>8 DEF Spent
    <3> HIDE DEF ka, na, kb
    <3> QED
      BY <3>1, <1>2, <2>1, <2>4, <2>5, <2>6 DEF TypeOK
  <2> QED
    BY <2>7, <2>8
<1>5. CASE Tick
  <2>1. Putting' = Putting
    BY <1>5 DEF Tick, Putting
  <2> QED
    BY <1>5, <2>1 DEF Tick, Spent, Absent, TypeOK, Times, Forever
<1>6. CASE UNCHANGED vars
  BY <1>6 DEF vars, Spent, Absent, Putting
<1> QED
  BY <1>1, <1>3, <1>4, <1>5, <1>6
     DEF Next, Handle, ReadForIncrement, WriteIncrement, Counted

(* With Redis one key lets through no more than a full count for every      *)
(* worker: each of them may have found no key, and put() starts the count   *)
(* again however late it comes (RateLimitMiddleware.php:24-28).             *)
LetThrough == store = "redis" => admitted <= Cardinality(Workers) * Allowance

(* What one key lets through in RateLimitMiddleware::handle is bounded, for  *)
(* any limit, window and number of workers.                                 *)
THEOREM LetThroughBounded == Spec => []LetThrough
<1>1. TypeOK /\ (store = "redis" => Counted) /\ (store = "redis" => Spent)
        /\ [Next]_vars => (store = "redis" => Spent)'
  <2>1. [Next]_vars => store' = store
    BY DEF Next, vars, Handle, Has, Reject, GetBelow, Increment,
           ReadForIncrement, WriteIncrement, Put, Tick
  <2> QED
    BY <2>1, SpentStep
<1>2. TypeOK /\ (store = "redis" => Counted) /\ (store = "redis" => Spent) => LetThrough
  <2> SUFFICES ASSUME TypeOK, store = "redis", Counted, Spent
               PROVE  admitted <= Cardinality(Workers) * Allowance
    BY DEF LetThrough
  <2> DEFINE n == Cardinality(Workers)
             na == n * Allowance
             nb == (n - 1) * Allowance
             ka == Cardinality(Putting) * Allowance
  <2>1. CASE n = 0
    <3>1. Workers = {}
      BY <2>1, WorkersAssumption, FS_EmptySet
    <3>2. Putting = {}
      BY <3>1 DEF Putting
    <3>3. Cardinality(Putting) = 0
      BY <3>2, FS_EmptySet
    <3> QED
      BY <2>1, <3>3, CountingFinite, LimitsAssumption DEF Spent, Counted, TypeOK, Allowance
  <2>2. CASE n # 0
    <3>1. n \in Nat /\ n - 1 \in Nat /\ Allowance \in Nat /\ value <= Allowance
      BY <2>2, CardinalityWorkers, AllowanceType, CountingFinite, LimitsAssumption
         DEF Counted, TypeOK, Allowance
    <3>2. ka \in Nat /\ na \in Nat /\ nb = na - Allowance
      BY <3>1, PuttingFinite, Multiples, MultipleBefore
    <3>3. \/ value = 0 /\ admitted = 0
          \/ admitted + ka <= value + nb
      BY DEF Spent
    <3> HIDE DEF ka, na, nb
    <3>4. admitted <= na
      BY <3>1, <3>2, <3>3 DEF TypeOK
    <3> QED
      BY <3>4 DEF na
  <2> QED
    BY <2>1, <2>2
<1> QED
  BY <1>1, <1>2, SpentInit, AlwaysCounted, TypeCorrect, PTL DEF Spec

===============================================================================
