---------------------------- MODULE ReviewsProofs ----------------------------
(***************************************************************************)
(* Theorems about module Reviews, for any users, products, ratings and     *)
(* number of overlapping requests.                                         *)
(***************************************************************************)
EXTENDS Reviews, TLAPS

LEMMA TypeInit == Init => TypeOK
BY DEF Init, TypeOK, Phases, Replies

LEMMA TypeStep == TypeOK /\ [Next]_vars => TypeOK'
<1> SUFFICES ASSUME TypeOK, [Next]_vars
             PROVE  TypeOK'
  OBVIOUS
<1> USE DEF TypeOK, Phases, Replies, inputs
<1>1. ASSUME NEW r \in Requests, Store(r) \/ LookStore(r) \/ BeginRemove(r)
      PROVE  TypeOK'
  BY <1>1 DEF Store, LookStore, BeginRemove, Begin
<1>2. ASSUME NEW r \in Requests,
             \/ RefuseStore(r) \/ FailInsert(r)
             \/ ForbidChange(r) \/ ForbidDelete(r)
      PROVE  TypeOK'
  BY <1>2 DEF RefuseStore, FailInsert, ForbidChange, ForbidDelete, Answer
<1>3. ASSUME NEW r \in Requests, BindChange(r) \/ BindDelete(r)
      PROVE  TypeOK'
  BY <1>3 DEF BindChange, BindDelete, Bind, Begin
<1>4. ASSUME NEW r \in Requests, Insert(r) \/ Change(r)
      PROVE  TypeOK'
  BY <1>4 DEF Insert, Change, Answer
<1>5. ASSUME NEW r \in Requests, Delete(r) \/ Remove(r)
      PROVE  TypeOK'
  BY <1>5 DEF Delete, Remove, Answer
<1>6. CASE UNCHANGED vars
  BY <1>6 DEF vars
<1> QED
  BY <1>1, <1>2, <1>3, <1>4, <1>5, <1>6 DEF Next

(* Rows and requests keep their types. *)
THEOREM TypeCorrect == Spec => []TypeOK
BY TypeInit, TypeStep, PTL DEF Spec

-------------------------------------------------------------------------------
(* What a request says about its pair never changes. *)
LEMMA PairsKept ==
  ASSUME [Next]_vars
  PROVE  table' = table /\ user' = user /\ product' = product
BY DEF Next, vars, inputs, Answer, Store, RefuseStore, LookStore, Insert,
       FailInsert, BindChange, BindDelete, Bind, ForbidChange, Change,
       ForbidDelete, Delete, BeginRemove, Remove

(* Rows only appear by an insert, which the unique index has let through.   *)
LEMMA RowsAppear ==
  ASSUME [Next]_vars, NEW t \in rows', t \notin rows
  PROVE  Insert(t)
BY DEF Next, vars, Store, RefuseStore, LookStore, Insert, FailInsert,
       BindChange, BindDelete, Bind, ForbidChange, Change, ForbidDelete,
       Delete, BeginRemove, Remove

(* No two rows are of the same user and product, whatever the interleaving  *)
(* of looking and inserting.                                                *)
THEOREM NoDuplicates == Spec => []OnePerPair
<1>1. Init => OnePerPair
  BY DEF Init, OnePerPair
<1>2. TypeOK /\ OnePerPair /\ [Next]_vars => OnePerPair'
  <2> SUFFICES ASSUME TypeOK, OnePerPair, [Next]_vars,
                      NEW r \in rows', NEW s \in rows', SamePair(r, s)'
               PROVE  r = s
    BY DEF OnePerPair
  <2>1. SamePair(r, s) /\ SamePair(s, r)
    BY PairsKept DEF SamePair
  <2>2. CASE r \in rows /\ s \in rows
    BY <2>1, <2>2 DEF OnePerPair
  <2>3. CASE r \notin rows
    <3>1. Insert(r)
      BY <2>3, RowsAppear
    <3>2. rows' = rows \cup {r} /\ s \notin rows
      BY <2>1, <3>1 DEF Insert, Taken
    <3> QED
      BY <3>2
  <2>4. CASE s \notin rows
    <3>1. Insert(s)
      BY <2>4, RowsAppear
    <3>2. rows' = rows \cup {s} /\ r \notin rows
      BY <2>1, <3>1 DEF Insert, Taken
    <3> QED
      BY <3>2
  <2> QED
    BY <2>2, <2>3, <2>4
<1> QED
  BY <1>1, <1>2, TypeCorrect, PTL DEF Spec

-------------------------------------------------------------------------------
(* Who has been answered, and how. *)

(* A row exists only if its request was answered "created", a request has   *)
(* an answer only after its last step.                                      *)
Served ==
  /\ \A r \in rows : reply[r] = "created"
  /\ \A r \in Requests : (pc[r] = "answered") <=> (reply[r] # "none")

LEMMA ServedStep == TypeOK /\ Served /\ [Next]_vars => Served'
<1> SUFFICES ASSUME TypeOK, Served, [Next]_vars
             PROVE  Served'
  OBVIOUS
<1> USE DEF TypeOK, Served
<1>1. ASSUME NEW r \in Requests,
             \/ Store(r) \/ LookStore(r) \/ BeginRemove(r)
             \/ BindChange(r) \/ BindDelete(r)
      PROVE  Served'
  BY <1>1 DEF Store, LookStore, BeginRemove, BindChange, BindDelete, Bind, Begin
<1>2. ASSUME NEW r \in Requests, NEW why \in Replies \ {"none"},
             pc[r] # "answered", Answer(r, why),
             rows' \subseteq rows \cup {r}, r \in rows' => why = "created"
      PROVE  Served'
  BY <1>2 DEF Answer
<1>3. ASSUME NEW r \in Requests, pc[r] # "answered"
      PROVE  r \notin rows
  BY <1>3
<1>4. ASSUME NEW r \in Requests,
             \/ RefuseStore(r) \/ FailInsert(r) \/ ForbidChange(r)
             \/ ForbidDelete(r) \/ Change(r) \/ Delete(r) \/ Remove(r)
      PROVE  Served'
  BY <1>2, <1>3, <1>4 DEF RefuseStore, FailInsert, ForbidChange, ForbidDelete,
                          Change, Delete, Remove, Replies
<1>5. ASSUME NEW r \in Requests, Insert(r)
      PROVE  Served'
  BY <1>2, <1>5 DEF Insert, Replies
<1>6. CASE UNCHANGED vars
  BY <1>6 DEF vars
<1> QED
  BY <1>1, <1>4, <1>5, <1>6 DEF Next

LEMMA AlwaysServed == Spec => []Served
<1>1. Init => Served
  BY DEF Init, Served
<1> QED
  BY <1>1, ServedStep, TypeCorrect, PTL DEF Spec

(* Answers are final. *)
LEMMA AnswersStay ==
  ASSUME TypeOK, Served, [Next]_vars, NEW r \in Requests, reply[r] # "none"
  PROVE  reply'[r] = reply[r]
<1>1. pc[r] = "answered"
  BY DEF Served
<1> QED
  BY <1>1 DEF TypeOK, Next, vars, Begin, Answer, Store, RefuseStore, LookStore,
              Insert, FailInsert, BindChange, BindDelete, Bind, ForbidChange,
              Change, ForbidDelete, Delete, BeginRemove, Remove

(* Nobody is turned away without a served request of his own.               *)
THEOREM NoInnocentLosers == Spec => []LosersHaveRivals
<1>1. Init => LosersHaveRivals
  BY DEF Init, LosersHaveRivals
<1>2. TypeOK /\ Served /\ LosersHaveRivals /\ [Next]_vars => LosersHaveRivals'
  <2> SUFFICES ASSUME TypeOK, Served, LosersHaveRivals, [Next]_vars,
                      NEW r \in Requests, reply'[r] \in {"already", "error"}
               PROVE  \E s \in Requests \ {r} :
                        SamePair(r, s)' /\ reply'[s] = "created"
    BY DEF LosersHaveRivals
  <2>1. SUFFICES \E s \in Requests \ {r} : SamePair(r, s) /\ reply[s] = "created"
    BY PairsKept, AnswersStay DEF SamePair
  <2>2. CASE reply[r] \in {"already", "error"}
    BY <2>2 DEF LosersHaveRivals
  <2>3. CASE reply[r] \notin {"already", "error"}
    <3>1. RefuseStore(r) \/ FailInsert(r)
      BY <2>3 DEF TypeOK, Next, vars, Begin, Answer, Store, RefuseStore,
                  LookStore, Insert, FailInsert, BindChange, BindDelete, Bind,
                  ForbidChange, Change, ForbidDelete, Delete, BeginRemove, Remove
    <3>2. pc[r] # "answered"
      BY <3>1 DEF RefuseStore, FailInsert
    <3>3. PICK t \in rows : SamePair(t, r)
      BY <3>1 DEF RefuseStore, FailInsert, Has, Taken
    <3> QED
      BY <3>2, <3>3 DEF Served, TypeOK, SamePair
  <2> QED
    BY <2>2, <2>3
<1> QED
  BY <1>1, <1>2, TypeCorrect, AlwaysServed, PTL DEF Spec

(* A deleted row never comes back.                                          *)
THEOREM DeletedForGood == Spec => DeletedStayDeleted
<1>1. TypeOK /\ Served /\ [Next]_vars
        => [\A r \in Requests :
              reply[r] = "created" /\ r \notin rows => r \notin rows']_vars
  <2> SUFFICES ASSUME TypeOK, Served, [Next]_vars, NEW r \in Requests,
                      reply[r] = "created", r \notin rows, r \in rows'
               PROVE  FALSE
    OBVIOUS
  <2>1. Insert(r)
    BY RowsAppear
  <2> QED
    BY <2>1 DEF Insert, Served
<1> QED
  BY <1>1, TypeCorrect, AlwaysServed, PTL DEF Spec, DeletedStayDeleted

===============================================================================
