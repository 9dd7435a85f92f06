------------------------------- MODULE Reviews -------------------------------
(***************************************************************************)
(* What customers keep about products: reviews (ReviewController) and      *)
(* wishlist entries (WishlistController).  Both tables have a unique index *)
(* on user and product, and both controllers first look for a row, then    *)
(* insert one, as two statements without a transaction.  Changing and      *)
(* deleting a review starts from the model that route binding loaded;      *)
(* removing a wishlist entry is one DELETE by user and product.            *)
(*                                                                         *)
(* A row is named by the request that created it, as it is by its id.      *)
(* is_verified_purchase is left out: no code of the shop completes a       *)
(* payment, so it is false in every row made here.  WishlistController's   *)
(* clear is left out because the route before it shadows its own.          *)
(***************************************************************************)
EXTENDS FiniteSets

CONSTANTS
  Requests,   \* requests to either controller
  Users,      \* who may send them
  Admin,      \* an administrator
  Products,   \* products they are about
  Ratings     \* what a review may say: its rating stands for all columns

ASSUME AdminAssumption == Admin \in Users

VARIABLES
  rows,       \* the rows of both tables
  rating,     \* reviews.rating, of a row
  pc,         \* where each request is
  table,      \* the table it is about
  user,       \* the user it comes from
  product,    \* and the product
  target,     \* the row that route binding loaded
  loaded,     \* the rating it loaded
  wanted,     \* the rating that was sent
  reply       \* how the request was answered

inputs == <<table, user, product, target, loaded, wanted>>
vars   == <<rows, rating, pc, inputs, reply>>

Tables  == {"reviews", "wishlists"}
Phases  == {"idle", "looking", "inserting", "changing", "deleting", "dropping",
            "answered"}
Replies == {"none", "already", "error", "created", "changed", "deleted",
            "removed", "forbidden"}

TypeOK ==
  /\ rows \subseteq Requests
  /\ rating \in [Requests -> Ratings]
  /\ pc \in [Requests -> Phases]
  /\ table \in [Requests -> Tables]
  /\ user \in [Requests -> Users]
  /\ product \in [Requests -> Products]
  /\ target \in [Requests -> Requests]
  /\ loaded \in [Requests -> Ratings]
  /\ wanted \in [Requests -> Ratings]
  /\ reply \in [Requests -> Replies]

(* No rows, no requests; what the requests will be is chosen here.  The     *)
(* fields that route binding fills are overwritten by it.                   *)
Init ==
  /\ rows = {}
  /\ pc = [r \in Requests |-> "idle"]
  /\ table \in [Requests -> Tables]
  /\ user \in [Requests -> Users]
  /\ product \in [Requests -> Products]
  /\ wanted \in [Requests -> Ratings]
  /\ rating = wanted
  /\ target = [r \in Requests |-> r]
  /\ loaded = wanted
  /\ reply = [r \in Requests |-> "none"]

-------------------------------------------------------------------------------
Begin(r, phase) ==
  /\ pc[r] = "idle"
  /\ pc' = [pc EXCEPT ![r] = phase]

Answer(r, why) ==
  /\ pc' = [pc EXCEPT ![r] = "answered"]
  /\ reply' = [reply EXCEPT ![r] = why]
  /\ UNCHANGED inputs

SamePair(r, s) ==
  table[r] = table[s] /\ user[r] = user[s] /\ product[r] = product[s]

(* A bug: look for anybody's review of the product. *)
AnyoneHas(r) == \E t \in rows : table[t] = table[r] /\ product[t] = product[r]

(* where('product_id', ...)->where('user_id', auth()->id())->first() *)
Has(r) == \E t \in rows : SamePair(t, r)

(* POST /products/{product}/reviews, POST /wishlist/{product} *)
Store(r) ==
  /\ Begin(r, "looking")
  /\ UNCHANGED <<rows, rating, inputs, reply>>

RefuseStore(r) ==
  /\ pc[r] = "looking"
  /\ Has(r)
  /\ Answer(r, "already")
  /\ UNCHANGED <<rows, rating>>

LookStore(r) ==
  /\ pc[r] = "looking"
  /\ ~Has(r)
  /\ pc' = [pc EXCEPT ![r] = "inserting"]
  /\ UNCHANGED <<rows, rating, inputs, reply>>

(* A bug: a migration without the unique indexes. *)
NeverTaken(r) == FALSE

(* unique(['product_id', 'user_id']), unique(['user_id', 'product_id']) *)
Taken(r) == \E t \in rows : SamePair(t, r)

Insert(r) ==
  /\ pc[r] = "inserting"
  /\ ~Taken(r)
  /\ rows' = rows \cup {r}
  /\ rating' = [rating EXCEPT ![r] = wanted[r]]
  /\ Answer(r, "created")

(* The unique index throws, and nobody catches: 500. *)
FailInsert(r) ==
  /\ pc[r] = "inserting"
  /\ Taken(r)
  /\ Answer(r, "error")
  /\ UNCHANGED <<rows, rating>>

(* PUT and DELETE /reviews/{review}: route binding. *)
Bind(r, phase) ==
  /\ table[r] = "reviews"
  /\ Begin(r, phase)
  /\ \E t \in rows :
       /\ table[t] = "reviews"
       /\ target' = [target EXCEPT ![r] = t]
       /\ loaded' = [loaded EXCEPT ![r] = rating[t]]
  /\ UNCHANGED <<rows, rating, table, user, product, wanted, reply>>

BindChange(r) == Bind(r, "changing")
BindDelete(r) == Bind(r, "deleting")

(* ReviewPolicy *)
IsOwner(r)   == user[r] = user[target[r]]
MayDelete(r) == IsOwner(r) \/ user[r] = Admin

(* UpdateReviewRequest::authorize, which is asked first, wants the owner;   *)
(* the policy would let an administrator pass as well.                      *)
MayChange(r) == IsOwner(r) /\ MayDelete(r)

ForbidChange(r) ==
  /\ pc[r] = "changing"
  /\ ~MayChange(r)
  /\ Answer(r, "forbidden")
  /\ UNCHANGED <<rows, rating>>

(* A bug: updateOrCreate. *)
ChangeOrCreate(r) ==
  /\ pc[r] = "changing"
  /\ MayChange(r)
  /\ rows' = rows \cup {target[r]}
  /\ rating' = [rating EXCEPT ![target[r]] = wanted[r]]
  /\ Answer(r, "changed")

(* UPDATE reviews SET ... WHERE id = ?, only if something differs from what *)
(* was loaded; it may find no row.                                          *)
Change(r) ==
  LET t == target[r] IN
  /\ pc[r] = "changing"
  /\ MayChange(r)
  /\ rating' = IF t \in rows /\ wanted[r] # loaded[r]
                 THEN [rating EXCEPT ![t] = wanted[r]] ELSE rating
  /\ Answer(r, "changed")
  /\ UNCHANGED rows

ForbidDelete(r) ==
  /\ pc[r] = "deleting"
  /\ ~MayDelete(r)
  /\ Answer(r, "forbidden")
  /\ UNCHANGED <<rows, rating>>

Delete(r) ==
  /\ pc[r] = "deleting"
  /\ MayDelete(r)
  /\ rows' = rows \ {target[r]}
  /\ Answer(r, "deleted")
  /\ UNCHANGED rating

(* DELETE /wishlist/{product} *)
BeginRemove(r) ==
  /\ table[r] = "wishlists"
  /\ Begin(r, "dropping")
  /\ UNCHANGED <<rows, rating, inputs, reply>>

Remove(r) ==
  /\ pc[r] = "dropping"
  /\ rows' = {t \in rows : ~SamePair(t, r)}
  /\ Answer(r, "removed")
  /\ UNCHANGED rating

Next ==
  \E r \in Requests :
    \/ Store(r) \/ RefuseStore(r) \/ LookStore(r) \/ Insert(r) \/ FailInsert(r)
    \/ BindChange(r) \/ ForbidChange(r) \/ Change(r)
    \/ BindDelete(r) \/ ForbidDelete(r) \/ Delete(r)
    \/ BeginRemove(r) \/ Remove(r)

Spec == Init /\ [][Next]_vars

-------------------------------------------------------------------------------
(* Properties. *)

(* One review, and one wishlist entry, per user and product, however many   *)
(* of the user's requests overlap.                                          *)
OnePerPair == \A r, s \in rows : SamePair(r, s) => r = s

(* A customer whose request is refused, or fails with an error 500, has     *)
(* another request about the same product that was served: nobody is turned *)
(* away because of somebody else.                                           *)
LosersHaveRivals ==
  \A r \in Requests :
    reply[r] \in {"already", "error"} =>
      \E s \in Requests \ {r} : SamePair(r, s) /\ reply[s] = "created"

(* A review that was deleted does not come back, not even by an update that *)
(* had loaded it before.                                                    *)
DeletedStayDeleted ==
  [][\A r \in Requests : reply[r] = "created" /\ r \notin rows => r \notin rows']_vars

===============================================================================
