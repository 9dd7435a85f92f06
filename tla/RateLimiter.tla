----------------------------- MODULE RateLimiter -----------------------------
(***************************************************************************)
(* RateLimitMiddleware::handle for the requests of one IP address: at most *)
(* $maxAttempts of them per $decayMinutes, counted in a key of the cache.  *)
(* Workers serve requests at the same time and every call of the cache is  *)
(* a step of its own, between which the key may expire:                    *)
(*                                                                         *)
(*   idle          has($key)                                               *)
(*   getting       get($key) >= $maxAttempts                               *)
(*   incrementing  increment($key)                                         *)
(*   writing       the second half of increment, with the file store       *)
(*   putting       put($key, 1, now()->addMinutes($decayMinutes))          *)
(*                                                                         *)
(* With Redis (.env.example) increment is one INCRBY, which keeps the time *)
(* to live of the key and creates a missing key without one.  With the     *)
(* file store (the default of config/cache.php) it reads value and         *)
(* remaining time, and puts both back later; what it puts back for a       *)
(* missing key never expires either.                                       *)
(***************************************************************************)
EXTENDS Integers, FiniteSets

CONSTANTS
  Workers,   \* PHP workers serving requests of the same address
  Max,       \* $maxAttempts
  Window,    \* $decayMinutes, in ticks of the clock
  Stores,    \* the cache stores a deployment may be configured with
  Cap        \* bound on 'admitted', and on what the file store counts

ASSUME WorkersAssumption == IsFiniteSet(Workers)

ASSUME LimitsAssumption ==
  /\ Max \in Nat \ {0}
  /\ Window \in Nat \ {0}
  /\ Cap \in Nat
  /\ Cap >= Max + Cardinality(Workers)

ASSUME StoresAssumption == Stores \subseteq {"redis", "file"}

VARIABLES
  store,     \* the store of this deployment; it does not change
  value,     \* the counter, 0 without a key
  ttl,       \* ticks the key has left, 0 without a key, or Forever
  pc,        \* where each worker is
  copy,      \* what the file store's increment has read
  admitted   \* ghost: requests let through since there last was no key

vars == <<store, value, ttl, pc, copy, admitted>>

Forever == -1

Times == {Forever} \cup 0 .. Window

Phases == {"idle", "getting", "incrementing", "writing", "putting"}

TypeOK ==
  /\ store \in Stores
  /\ value \in Nat
  /\ ttl \in Times
  /\ pc \in [Workers -> Phases]
  /\ copy \in [Workers -> [value : Nat, ttl : Times]]
  /\ admitted \in 0 .. Cap

Unread == [value |-> 0, ttl |-> 0]

Init ==
  /\ store \in Stores
  /\ value = 0
  /\ ttl = 0
  /\ pc = [w \in Workers |-> "idle"]
  /\ copy = [w \in Workers |-> Unread]
  /\ admitted = 0

-------------------------------------------------------------------------------
Absent == ttl = 0

Advance(w, phase) == pc' = [pc EXCEPT ![w] = phase]

(* Counting up to Cap: beyond Max all counts mean the same. *)
Succ(n) == IF n < Cap THEN n + 1 ELSE Cap

(* return $next($request) *)
Admit(w) ==
  /\ Advance(w, "idle")
  /\ admitted' = Succ(admitted)

Has(w) ==
  /\ pc[w] = "idle"
  /\ Advance(w, IF Absent THEN "putting" ELSE "getting")
  /\ UNCHANGED <<store, value, ttl, copy, admitted>>

(* Bugs: stop one request early or late. *)
FullEarly == value >= Max - 1
FullLate  == value > Max

(* A key that expired since has() reads as null, and null is not >= 60. *)
Full == value >= Max

(* A bug: start the window again with every request turned away. *)
RejectRenewing(w) ==
  /\ pc[w] = "getting"
  /\ Full
  /\ ttl' = IF ttl > 0 THEN Window ELSE ttl
  /\ Advance(w, "idle")
  /\ UNCHANGED <<store, value, copy, admitted>>

Reject(w) ==
  /\ pc[w] = "getting"
  /\ Full
  /\ Advance(w, "idle")
  /\ UNCHANGED <<store, value, ttl, copy, admitted>>

GetBelow(w) ==
  /\ pc[w] = "getting"
  /\ ~Full
  /\ Advance(w, "incrementing")
  /\ UNCHANGED <<store, value, ttl, copy, admitted>>

(* The time to live of an incremented key. *)
Kept(time) == IF time = 0 THEN Forever ELSE time

Increment(w) ==
  /\ store = "redis"
  /\ pc[w] = "incrementing"
  /\ value' = value + 1
  /\ ttl' = Kept(ttl)
  /\ Admit(w)
  /\ UNCHANGED <<store, copy>>

ReadForIncrement(w) ==
  /\ store = "file"
  /\ pc[w] = "incrementing"
  /\ copy' = [copy EXCEPT ![w] = [value |-> value, ttl |-> ttl]]
  /\ Advance(w, "writing")
  /\ UNCHANGED <<store, value, ttl, admitted>>

WriteIncrement(w) ==
  /\ pc[w] = "writing"
  /\ value' = Succ(copy[w].value)
  /\ ttl' = Kept(copy[w].ttl)
  /\ copy' = [copy EXCEPT ![w] = Unread]
  /\ Admit(w)
  /\ UNCHANGED store

Put(w) ==
  /\ pc[w] = "putting"
  /\ value' = 1
  /\ ttl' = Window
  /\ Admit(w)
  /\ UNCHANGED <<store, copy>>

(* The clock; an expired key is gone with its counter. *)
Tick ==
  /\ ttl > 0
  /\ ttl' = ttl - 1
  /\ IF ttl = 1 THEN value' = 0 /\ admitted' = 0
                ELSE UNCHANGED <<value, admitted>>
  /\ UNCHANGED <<store, pc, copy>>

Handle(w) ==
  \/ Reject(w)
  \/ GetBelow(w)
  \/ Increment(w)
  \/ ReadForIncrement(w)
  \/ WriteIncrement(w)
  \/ Put(w)

Next ==
  \/ \E w \in Workers : Has(w) \/ Handle(w)
  \/ Tick

Spec == Init /\ [][Next]_vars

(* The clock goes on and a request that was begun is finished; nobody has   *)
(* to send another.                                                         *)
FairSpec == Spec /\ WF_vars(Tick) /\ \A w \in Workers : WF_vars(Handle(w))

-------------------------------------------------------------------------------
(* Properties. *)

(* Checking and counting are apart, so the counter may pass the limit, but  *)
(* with Redis by no more than the requests that were between the two: one   *)
(* per other worker.  (With the file store a lost increment makes room for  *)
(* more.)                                                                   *)
CounterBounded == store = "redis" => value < Max + Cardinality(Workers)

(* Those workers: they have found the counter below the limit and not       *)
(* raised it yet.                                                           *)
Counting == {w \in Workers : pc[w] \in {"incrementing", "writing"}}

(* A client is turned away only after it really had $maxAttempts requests   *)
(* let through under the present key (RateLimitMiddleware.php:20), with     *)
(* Redis.  (With the file store a count of a window that ended may be       *)
(* written into the next.)                                                  *)
NeverBlockedEarly == store = "redis" /\ Full => admitted >= Max

(* A key with a time to live goes away, requests or not, unless a request   *)
(* that found it expiring makes it immortal.                                *)
MortalKeyExpires == ttl > 0 ~> ttl <= 0

(* What the answer 429 says, "Please try again later", and $decayMinutes:   *)
(* a client at the limit is let through again at some later time.           *)
BlockedClientRecovers == Full ~> ~Full

===============================================================================
