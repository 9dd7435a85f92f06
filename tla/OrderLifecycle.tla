--------------------------- MODULE OrderLifecycle ---------------------------
(***************************************************************************)
(* The status of an order after checkout: POST /orders/{order}/cancel      *)
(* (OrderController::cancel) and PUT /admin/orders/{order}/status          *)
(* (AdminController::updateOrderStatus).  Both load the order when the     *)
(* route is bound and write later, without a lock or a condition on what   *)
(* is written over; $order->update sends an UPDATE only if the status      *)
(* differs from the one that was loaded.                                   *)
(*                                                                         *)
(* One order is enough: every request touches the row of its own order and *)
(* no other.  Nothing here changes the stock: cancelling does not give the *)
(* units back.                                                             *)
(***************************************************************************)
EXTENDS FiniteSets

CONSTANTS
  Requests,          \* requests about this order
  Users,             \* who may send them
  Owner, Admin,      \* the customer of the order, and an administrator
  AbilitiesDefined   \* is 'isAdmin' an ability of the gate?  As committed it
                     \* is not: no Gate::define, and authorize denies

ASSUME UsersAssumption == {Owner, Admin} \subseteq Users /\ Owner # Admin

ASSUME AbilitiesAssumption == AbilitiesDefined \in BOOLEAN

VARIABLES
  status,    \* orders.status
  pc,        \* where each request is
  user,      \* who sent it
  wanted,    \* the status an administrator asks for
  loaded,    \* the status in the request's model
  reply      \* how it was answered

vars == <<status, pc, user, wanted, loaded, reply>>

Statuses == {"pending", "processing", "shipped", "delivered", "cancelled"}
Open     == {"pending", "processing"}
Phases   == {"idle", "cancelling", "updating", "answered"}
Replies  == {"none", "cancelled", "refused", "updated", "forbidden", "invalid"}

Unknown == "unknown"   \* any status the validation does not know

TypeOK ==
  /\ status \in Statuses
  /\ pc \in [Requests -> Phases]
  /\ user \in [Requests -> Users]
  /\ wanted \in [Requests -> Statuses \cup {Unknown}]
  /\ loaded \in [Requests -> Statuses]
  /\ reply \in [Requests -> Replies]

(* Checkout creates the order as 'pending'. *)
Init ==
  /\ status = "pending"
  /\ pc = [r \in Requests |-> "idle"]
  /\ user = [r \in Requests |-> Owner]
  /\ wanted = [r \in Requests |-> "cancelled"]
  /\ loaded = [r \in Requests |-> "pending"]
  /\ reply = [r \in Requests |-> "none"]

-------------------------------------------------------------------------------
(* Route binding reads the order. *)
Load(r, phase) ==
  /\ pc[r] = "idle"
  /\ pc' = [pc EXCEPT ![r] = phase]
  /\ loaded' = [loaded EXCEPT ![r] = status]
  /\ \E u \in Users : user' = [user EXCEPT ![r] = u]
  /\ UNCHANGED <<status, reply>>

LoadToCancel(r) == Load(r, "cancelling") /\ UNCHANGED wanted

LoadToUpdate(r) ==
  /\ Load(r, "updating")
  /\ \E s \in Statuses \cup {Unknown} : wanted' = [wanted EXCEPT ![r] = s]

Answer(r, why) ==
  /\ pc' = [pc EXCEPT ![r] = "answered"]
  /\ reply' = [reply EXCEPT ![r] = why]
  /\ UNCHANGED <<user, wanted, loaded>>

(* $order->update(['status' => s]): no UPDATE for an attribute that is not  *)
(* dirty.                                                                   *)
Save(r, s) == status' = IF s # loaded[r] THEN s ELSE status

(* OrderPolicy::update *)
MayUpdate(r) == user[r] \in {Owner, Admin}

(* A bug: let a cancelled order be cancelled again. *)
CancellableAgain(r) == loaded[r] \in Open \cup {"cancelled"}

Cancellable(r) == loaded[r] \in Open

ForbidCancel(r) ==
  /\ pc[r] = "cancelling"
  /\ ~MayUpdate(r)
  /\ Answer(r, "forbidden")
  /\ UNCHANGED status

RefuseCancel(r) ==
  /\ pc[r] = "cancelling"
  /\ MayUpdate(r)
  /\ ~Cancellable(r)
  /\ Answer(r, "refused")
  /\ UNCHANGED status

Cancel(r) ==
  /\ pc[r] = "cancelling"
  /\ MayUpdate(r)
  /\ Cancellable(r)
  /\ Save(r, "cancelled")
  /\ Answer(r, "cancelled")

(* A bug: authorize('update', $order) here too. *)
MayUpdateToo(r) == MayUpdate(r) /\ AbilitiesDefined

(* The route's role:admin middleware, then authorize('isAdmin'). *)
MayAdminister(r) == user[r] = Admin /\ AbilitiesDefined

ForbidUpdate(r) ==
  /\ pc[r] = "updating"
  /\ ~MayAdminister(r)
  /\ Answer(r, "forbidden")
  /\ UNCHANGED status

(* 'required|in:pending,processing,shipped,delivered,cancelled' *)
RefuseUpdate(r) ==
  /\ pc[r] = "updating"
  /\ MayAdminister(r)
  /\ wanted[r] \notin Statuses
  /\ Answer(r, "invalid")
  /\ UNCHANGED status

UpdateStatus(r) ==
  /\ pc[r] = "updating"
  /\ MayAdminister(r)
  /\ wanted[r] \in Statuses
  /\ Save(r, wanted[r])
  /\ Answer(r, "updated")

Next ==
  \E r \in Requests :
    \/ LoadToCancel(r)
    \/ LoadToUpdate(r)
    \/ ForbidCancel(r)
    \/ RefuseCancel(r)
    \/ Cancel(r)
    \/ ForbidUpdate(r)
    \/ RefuseUpdate(r)
    \/ UpdateStatus(r)

Spec == Init /\ [][Next]_vars

-------------------------------------------------------------------------------
(* Properties. *)

Answered(r, why) == reply[r] # why /\ reply'[r] = why

(* "Order cancelled successfully" is true when it is said, however stale    *)
(* the model: an order that may be cancelled is never one whose UPDATE is   *)
(* left out.                                                                *)
CancelAnswersTrue ==
  [][\A r \in Requests : Answered(r, "cancelled") => status' = "cancelled"]_vars

(* Only an administrator brings a cancelled order back.                     *)
OnlyAdminReopens ==
  [][status = "cancelled" /\ status' # "cancelled" =>
       \E r \in Requests : user[r] = Admin /\ Answered(r, "updated")]_vars

(* "Order cannot be cancelled in current status" (OrderController.php:73):  *)
(* who is told that it was cancelled did not find it shipped, delivered or  *)
(* cancelled already.                                                       *)
OnlyOpenOrdersCancelled ==
  [][\A r \in Requests : Answered(r, "cancelled") => status \in Open]_vars

===============================================================================
