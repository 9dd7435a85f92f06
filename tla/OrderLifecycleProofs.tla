------------------------- MODULE OrderLifecycleProofs -------------------------
(***************************************************************************)
(* Theorems about module OrderLifecycle, for any number of overlapping     *)
(* requests and any users.                                                 *)
(***************************************************************************)
EXTENDS OrderLifecycle, TLAPS

LEMMA TypeInit == Init => TypeOK
BY UsersAssumption DEF Init, TypeOK, Statuses, Phases, Replies

LEMMA TypeStep == TypeOK /\ [Next]_vars => TypeOK'
<1> SUFFICES ASSUME TypeOK, [Next]_vars
             PROVE  TypeOK'
  OBVIOUS
<1> USE DEF TypeOK, Statuses, Phases, Replies
<1>1. ASSUME NEW r \in Requests, LoadToCancel(r) \/ LoadToUpdate(r)
      PROVE  TypeOK'
  BY <1>1 DEF LoadToCancel, LoadToUpdate, Load
<1>2. ASSUME NEW r \in Requests,
             \/ ForbidCancel(r) \/ RefuseCancel(r)
             \/ ForbidUpdate(r) \/ RefuseUpdate(r)
      PROVE  TypeOK'
  BY <1>2 DEF ForbidCancel, RefuseCancel, ForbidUpdate, RefuseUpdate, Answer
<1>3. ASSUME NEW r \in Requests, Cancel(r) \/ UpdateStatus(r)
      PROVE  TypeOK'
  BY <1>3 DEF Cancel, UpdateStatus, Save, Answer
<1>4. CASE UNCHANGED vars
  BY <1>4 DEF vars
<1> QED
  BY <1>1, <1>2, <1>3, <1>4 DEF Next

(* The order and the requests about it keep their types. *)
THEOREM TypeCorrect == Spec => []TypeOK
BY TypeInit, TypeStep, PTL DEF Spec

Refusals == {"forbidden", "refused", "invalid"}

(* The only steps that change the status, or say that they did. *)
LEMMA OnlyWritersWrite ==
  ASSUME [Next]_vars,
         ~(\E r \in Requests : Cancel(r) \/ UpdateStatus(r))
  PROVE  /\ status' = status
         /\ \A r \in Requests : \/ reply'[r] = reply[r]
                                \/ reply'[r] \in Refusals
<1>1. ASSUME NEW r \in Requests, NEW why, Answer(r, why),
             why \in Refusals
      PROVE  \A q \in Requests : \/ reply'[q] = reply[q]
                                 \/ reply'[q] \in Refusals
  BY <1>1 DEF Answer
<1> QED
  BY <1>1 DEF Next, vars, LoadToCancel, LoadToUpdate, Load, ForbidCancel,
              RefuseCancel, ForbidUpdate, RefuseUpdate, Refusals

(* Whoever is told that the order is cancelled is told the truth: the model *)
(* of a cancellable order is not 'cancelled', so its UPDATE is never        *)
(* skipped.                                                                 *)
THEOREM CancelsTruthful == Spec => CancelAnswersTrue
<1>1. TypeOK /\ [Next]_vars
        => [\A r \in Requests : Answered(r, "cancelled") => status' = "cancelled"]_vars
  <2> SUFFICES ASSUME TypeOK, [Next]_vars,
                      NEW r \in Requests, Answered(r, "cancelled")
               PROVE  status' = "cancelled"
    OBVIOUS
  <2>1. ASSUME NEW q \in Requests, Cancel(q)
        PROVE  status' = "cancelled"
    BY <2>1 DEF Cancel, Cancellable, Save, Open
  <2>2. ASSUME NEW q \in Requests, UpdateStatus(q)
        PROVE  FALSE
    BY <2>2 DEF UpdateStatus, Answer, Answered, TypeOK
  <2> QED
    BY <2>1, <2>2, OnlyWritersWrite DEF Answered, Refusals
<1> QED
  BY <1>1, TypeCorrect, PTL DEF Spec, CancelAnswersTrue

(* A request has no answer before its last step. *)
Unanswered == \A r \in Requests : pc[r] # "answered" => reply[r] = "none"

LEMMA AlwaysUnanswered == Spec => []Unanswered
<1>1. Init => Unanswered
  BY DEF Init, Unanswered
<1>2. TypeOK /\ Unanswered /\ [Next]_vars => Unanswered'
  BY DEF TypeOK, Unanswered, Next, vars, LoadToCancel, LoadToUpdate, Load,
         ForbidCancel, RefuseCancel, Cancel, ForbidUpdate, RefuseUpdate,
         UpdateStatus, Answer
<1> QED
  BY <1>1, <1>2, TypeCorrect, PTL DEF Spec

(* A cancelled order comes back only by an administrator's update. *)
THEOREM ReopenedByAdmin == Spec => OnlyAdminReopens
<1>1. TypeOK /\ Unanswered /\ [Next]_vars
        => [status = "cancelled" /\ status' # "cancelled" =>
              \E r \in Requests : user[r] = Admin /\ Answered(r, "updated")]_vars
  <2> SUFFICES ASSUME TypeOK, Unanswered, [Next]_vars,
                      status = "cancelled", status' # "cancelled"
               PROVE  \E r \in Requests : user[r] = Admin /\ Answered(r, "updated")
    OBVIOUS
  <2>1. ~(\E q \in Requests : Cancel(q))
    BY DEF Cancel, Save
  <2>2. PICK r \in Requests : UpdateStatus(r)
    BY <2>1, OnlyWritersWrite
  <2>3. user[r] = Admin
    BY <2>2 DEF UpdateStatus, MayAdminister
  <2>4. reply[r] # "updated" /\ reply'[r] = "updated"
    BY <2>2 DEF UpdateStatus, Answer, TypeOK, Unanswered
  <2> QED
    BY <2>3, <2>4 DEF Answered
<1> QED
  BY <1>1, TypeCorrect, AlwaysUnanswered, PTL DEF Spec, OnlyAdminReopens

===============================================================================
