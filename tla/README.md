# Homehive254: specifications, model checks and proofs

Homehive254 is a shop: a Laravel 12 API (`app/`, `routes/api.php`) in front of
PostgreSQL (`config/database.php:6`) and a cache (`config/cache.php:4`, Redis in
`.env.example:15`). The shop's code keeps no state between requests. Everything
that can go wrong between two requests goes wrong in the database or in the
cache, between the statements of one request and those of another. The shop's
modules are therefore about *statements*: one action is one statement the
database or the cache sees, and TLC and TLAPS look at what their interleavings,
failures and crashes do.

The repository carries the PHP that runs all this (`php-8.5.5/`), and two parts
of it do keep state between requests: the opcode cache, in memory that all
workers share, and FPM's master, which forks the workers, sends them signals and
reaps them. Their modules are about *accesses*: one action is what a process
does between two moments at which another one may look.

## 1. Inventory

| Component | Code | State | Operations that change it | What is hard |
|---|---|---|---|---|
| Checkout | `Services/OrderService.php`, `OrderController::store`, `Order::generateOrderNumber` | products.quantity, orders, order_items | `createOrder`, one transaction | stock read long before it is taken, locks in cart order, a unique number from a repeating generator, failure at every statement, a COMMIT whose answer is lost |
| Prices and amounts | `OrderService.php:34-57`, `Update/StoreProductRequest` | price, discount_price; subtotal, tax, shipping, total | line pricing, `Order::create`, seller's update | operator precedence, separate rounding, prices edited between two lines, validation against the same request only |
| Order status | `OrderController::cancel`, `AdminController::updateOrderStatus`, `OrderPolicy`, `VerifyRole` | orders.status | cancel, set status | model loaded before it is tested, UPDATE left out for "clean" attributes |
| Rate limiting | `RateLimitMiddleware.php` | one cache key per address | has, get, increment, put | three cache calls with an expiry in between; two different stores |
| Products | `ProductController.php`, `ProductPolicy` | products | store, update, delete | absolute writes next to relative ones, soft deletes, SKU collisions, ungrouped `orWhere` in the listing |
| Accounts | `AuthController.php`, `AdminController::(de)activateUser` | users, tokens | register, login, logout, profile, (de)activate | account deactivated during a login, row kept although the token failed, email race |
| Reviews, wishlist | `ReviewController.php`, `WishlistController.php` | reviews, wishlists | create, update, delete, clear | check then insert against a unique index; `payment_status` never becomes completed |
| Dispatch | `routes/api.php`, `bootstrap/app.php`, policies, form requests | none | - | first match shadows later routes; `api.php`, the role alias and the limiter are not registered; two layers of authorization that disagree |
| The rest | other middleware, configuration, models without writers, migrations, factories, seeders, views | - | - | no state, or used once by one process |
| Opcode cache | `php-8.5.5/ext/opcache/ZendAccelerator.c`, `zend_shared_alloc.c`, `zend_accel_hash.c` | one shared segment: scripts, hash table, waste, the switch and the restart flags; three bytes of a lock file | look up, validate, compile, store, discard, reset, invalidate, restart | flags read without the lock and used after it, a restart next to readers, a worker that dies while it empties the segment, two workers compiling one file, a file edited while it is compiled |
| FPM | `php-8.5.5/sapi/fpm/fpm/` (`fpm_process_ctl.c`, `fpm_children.c`, `fpm_signals.c`, `fpm_request.c`) | the master's intention, signal and timer; its list of children; the scoreboard | fork, reap, escalate, idle maintenance, fork on demand, time-outs | signals that fall together or are blocked, forks that fail, children that die at any moment, a scoreboard that is behind |
| The rest of PHP | `php-8.5.5/` | - | - | runs inside one process; of it, only `uniqid()` matters to the shop |

How they interact: an HTTP request is routed, passes middleware (limiter, role),
a form request (validation), a policy, and ends in a controller; controllers
share nothing but database rows. Checkout reads and decrements the rows that
sellers overwrite and delete; prices flow from the products into orders;
cancelling touches the order and *not* the stock. FPM forks the workers the
requests run in, and every worker starts a request in the opcode cache
(RINIT), includes the application's files through it and leaves it at the end.
A worker FPM kills is for the opcode cache a process that dies anywhere (`Die` of
Opcache), and the one forked for it starts without locks.

What makes each correct: orders are whole or absent, the stock is a ledger of
the orders, numbers are unique, customers are told the truth, everybody gets an
answer (Checkout); amounts add up, discounts are discounts (Pricing); a
cancellation that is confirmed is a fact (Order status); the limit is nearly
kept, early refusals do not happen, and the window ends (Rate limiting); one row
per user and product, deleted means deleted, only authors write (Reviews);
an account stays with whoever registered it, and deactivating it stops logins
(Accounts); a request executes the scripts it asked for, as they are on disk, and
a restart that was scheduled takes place (Opcache); the pool stays within its
bounds and fills up again, no dead child is overlooked, and a master that is
told to leave does, without leaving anybody behind (Fpm).

## 2. Modules

```
Inventory                 what checkout promises about the stock
   ^  implemented by
Checkout                  createOrder, statement by statement
   MCCheckout             instances for TLC
   CheckoutProofs         theorems
Pricing                   amounts and prices        PricingProofs
OrderLifecycle            cancel, set status        MCOrderLifecycle, OrderLifecycleProofs
Reviews                   reviews and wishlist      MCReviews, ReviewsProofs
Accounts                  users and their tokens    MCAccounts, AccountsProofs
RateLimiter               the middleware            MCRateLimiter, RateLimiterProofs
Opcache                   the shared opcode cache   MCOpcache, OpcacheProofs
ProcessPool               what FPM promises about its children
   ^  implemented by
Fpm                       the process manager       MCFpm, FpmProofs
```

### Checkout (`OrderService.php:17-81`, `OrderController.php:44-62`)

Each request has a program counter with the phases the code goes through.

| Phase | Code | Actions |
|---|---|---|
| `idle` | `StoreOrderRequest` has validated the cart | `Submit` |
| `checking` | `findOrFail`, stock test, :26-32, a SELECT per line | `CheckLine`, `RefuseMissing`, `RefuseInsufficient` |
| `numbering` | `Order::generateOrderNumber`, Order.php:58-61 | `GenerateNumber` |
| `creating` | `Order::create`, :50-63, unique `order_number` | `CreateOrder`, `RefuseDuplicate`, `RefuseUnbindable` |
| `adding` | `OrderItem::create`, :67-73 | `AddItem` |
| `taking` | `decrement('quantity')`, :76 | `TakeStock` |
| `committing` | end of `DB::transaction` | `Commit`, `CommitUnheard` |
| any | exception, connection, worker | `FailStatement`, `DeadlockVictim`, `Crash` |

A product row has a committed version (`stock`), a newest version (`working`)
and a lock holder. That is all of PostgreSQL's READ COMMITTED that the code can
notice: a SELECT sees `stock`, the relative UPDATE waits for the holder and
works on `working`, COMMIT publishes it, a roll back restores it. An insert of a
number another transaction has inserted waits for that transaction. Sellers
(`ProductController::update`, `destroy`) load a product, and write an absolute
quantity later (`LoadProduct`, `SaveProduct`, `DestroyProduct`); Eloquent writes
only attributes that differ from the loaded ones, and so does the model.

`bindable` is the one switch. `shipping_address` is validated as an array
(StoreOrderRequest.php:20) and `Order` has no cast for it, so the code as
committed cannot bind it: with FALSE every order ends in `RefuseUnbindable`.
With TRUE the module says what the transaction does once that cast exists.
`CheckoutSellers` and the proofs are about both; the other runs use TRUE,
because otherwise nothing else is ever reached.

### Inventory

An order takes all its units in one indivisible step, once; a seller writes one
quantity. `Checkout!ImplementsInventory` maps committed stock, committed orders
and their items to it. Inventory does not forbid negative quantities, because
the code does not.

### Pricing (`OrderService.php:34-63`, `UpdateProductRequest.php:19-20`)

Money in the database is in cents; what sellers send, and what PHP computes, is in
tenths of a cent until the decimal(10, 2) columns round it (`Stored`). `LineTotal`
is what PHP computes: `a ?? b * c` is `a ?? (b * c)`, so a discounted line costs
one unit whatever its quantity. An update sends price and discount price, one of
them, or neither. `Valid` is the rule `lt:price`: it compares the two fields of
one request, before they are rounded, refuses a discount without a price, and
has nothing against a price alone. `SaveProduct` writes the columns whose rounded
value (`Kept`) differs from the row the request loaded. `Editors` are the updates
in flight.

### OrderLifecycle (`OrderController.php:67-83`, `AdminController.php:94-108`)

A request loads the order when its route is bound and tests and writes later.
`AbilitiesDefined` tells whether the gate knows `isAdmin`; as committed no
`Gate::define` exists and `authorize` denies administrators too, so that FALSE is
the code as it is (every status update ends in `ForbidUpdate`) and TRUE what it
becomes with the ability. The run uses TRUE, whose behaviours include those of
FALSE up to who is forbidden.

### Reviews (`ReviewController.php:29-88`, `WishlistController.php:26-59`)

Reviews and wishlist entries follow one pattern: look for a row, then insert
one, in two statements without a transaction, against a unique index on user and
product. The loser of a race gets an unhandled exception (`FailInsert`, a 500). A
review is changed and deleted from a model that route binding loaded earlier;
the UPDATE may find no row. `UpdateReviewRequest::authorize` runs before the
policy and refuses administrators, whom `ReviewPolicy::update` would admit
(`MayChange`); deleting asks the policy only (`MayDelete`).

### Accounts (`AuthController.php`, `AdminController.php:53-72`)

Registration is three statements without a transaction: the rule
`unique:users,email`, the insert, the token. Login reads the user once and makes
the token later. Every other request presents a token; `auth:sanctum` loads its
user, does not look at `is_active`, and the controller writes later from the
model loaded then (`EditProfile`) or when the route was bound (`SwitchUser`).
`hasTokens` is FALSE in the code as committed: `User` does not use
`HasApiTokens`, so `createToken` throws after the row was inserted
(`FailToken`), and no request with a token exists. TRUE is what `AuthTest`
expects. `AbilitiesDefined` is as in OrderLifecycle. Customers and sellers are
alike here; the address, which no code changes, names the account.

### RateLimiter (`RateLimitMiddleware.php:13-31`)

One client address, several workers, a clock that may tick between any two
cache calls. `store` is chosen at the start: "redis" increments in one step,
"file" reads and writes in two. The middleware exists but `bootstrap/app.php`
does not register it; the module is about what it does when it runs. The window
and the limit are small (2 and 2, for 1 minute and 60): what matters is the
order of the calls around the limit and the expiry, and that there are more
workers than requests left. `Cap` bounds the ghost `admitted` and the counts of
the file store; beyond the limit all counts behave alike. The file store's
removal of an expired file while another worker writes it is left out.

### Opcache (`ext/opcache`, mostly `ZendAccelerator.c`)

| State | Code |
|---|---|
| `pending`, `inProgress`, `enabled`, `statusBefore`, `armed` | `ZCSG(restart_pending)`, `restart_in_progress`, `accelerator_enabled`, `cache_status_before_restart`, `force_restart_time` |
| `mem`, `top`, `hash`, `wasted`, `exhausted` | the segment, what of it is given out, `ZCSG(hash)`, `ZSMMG(wasted_shared_memory)`, `ZSMMG(memory_exhausted)` |
| `allocLock`, `usage`, `restartLock` | bytes 0, 1 and 2 of the lock file: exclusive around changes, a read lock per reading request, held while the segment is emptied |
| `on`, `counted`, `loaded`, `tried` | what a request remembers: its copy of the switch, that it has its read lock, the blocks it executes, the files it has included |
| `found`, `stamp`, `content`, `file` | local variables of a lookup and a compilation |

| Part | Code | Actions |
|---|---|---|
| start of a request | RINIT, :2712-2762 | `RequestStart`, `ReadPending`, `AcquireAlloc`, `BeginRestart`, `SkipRestart`, `CopyEnabled` |
| the restart | `accel_restart_enter` .. `_leave` | `EnterRestart`, `CleanHash`, `RestoreState`, `LeaveRestart` |
| forcing it | `kill_all_lockers` | `BeginKilling`, `KillLocker`, `StopKilling` |
| a file | `persistent_compile_file` | `Include`, `LookUp`, `Count`, `Hit`, `Outdated`, `Discard`, `Miss`, `Compile` |
| discarding a script | `zend_accel_discard_script`, :1385-1396 | `Discard` or `Invalidate` (both `Mark`), `ClearDate`, `AddWaste` |
| storing one | `cache_script_in_shared_memory` | `UseExisting`, `NoRoom`, `Allocate`, `CopyIn`, `Publish`, `Measure` |
| scheduling a restart | `zend_accel_schedule_restart`, :3548-3557 | `SetPending`, `RememberStatus`, `SwitchOff`, `SetForceTime` |
| scripts that ask for it | `opcache_reset`, `opcache_invalidate` | `CallReset`, `Reset`, `CallInvalidate`, `CheckFlag`, `Find`, `Invalidate` |
| the end | `accel_post_deactivate`, a dead process | `RequestEnd`, `Die` |

Outside byte 0 every access to the segment is an action of its own, because
nothing keeps another worker from coming between. What runs under byte 0 is split
too, wherever a process that does not take byte 0 may look in between, or a worker
that dies there leaves a change half done. Interruptions are blocked under byte 0,
SIGKILL is not; the kernel gives byte 0 back when its holder dies, and nobody
mends what it left. So scheduling is four assignments with a death possible
between any two, running out of memory is a step before the schedule it asks for
(`NoRoom` goes to `scheduling`), and discarding is marking, clearing the date, and
adding to the waste. A block is a script; what a discard will add to the waste
(`memory_consumption`) is set only by `Measure`, after others can find the script.
A discarded script stays in its block with its flag set and its timestamp 0, and
a restart moves `top` back without touching the blocks: what an old reader sees
there is whatever is stored next, which is what the read lock on byte 1 is for.

Two histories are kept for the properties. `exposed[p]`: a restart looked for
read locks when `p` had none. `lost`: the phases in which workers died in the
middle of a change (`Unfinished`). `Whole(change)` says that nobody died in the
middle of that one; a property names the changes it cannot do without, and no
others.
The build is the POSIX one with fcntl locks; `validate_timestamps` is on and
`revalidate_freq` 0, so every hit is validated.

### Fpm (`sapi/fpm/fpm`)

| State | Code |
|---|---|
| `state`, `sent`, `timer` | `fpm_state`, `fpm_signal_sent` and the process control's timer |
| `phase`, `running`, `idleKill` | the processes, `wp->running_children`, `child->idle_kill` |
| `stage` | the scoreboard's `request_stage`, as far as the master asks for it |
| `pending`, `sigchld` | signals on their way; the SIGCHLD written into the master's pipe |
| `ended`, `quitting` | how a process ended (for waitpid); `in_shutdown` |
| `faults`, `spawnRate` | `last_faults`, `wp->idle_spawn_rate` |

| Part | Code | Actions |
|---|---|---|
| start | `fpm_run` | `Start` |
| leaving | `fpm_pctl`, `fpm_pctl_action_next`, the timer | `Control`, `ControlTimeout` |
| reaping | `fpm_got_signal`, `fpm_children_bury` | `GotSigchld`, `BuryLast`, `BuryAndReload`, `Bury`, `BuryDone` |
| maintenance | `fpm_pctl_perform_idle_server_maintenance` | `RetireSpare`, `SpawnSpare`, `ResetRate`, `RetireIdle` |
| on demand | `fpm_pctl_on_socket_accept` | `OnSocketAccept` |
| slow requests | `fpm_request_check_timed_out` | `TerminateSlow` |
| a child | `fcgi_accept_request`, `fpm_request.c`, `sig_soft_quit` | `Accepting`, `Accept`, `Drop`, `ReadingHeaders`, `RequestEnd`, `Retire`, `Quits`, `TakeQuit`, `TakeTerm`, `TakeKill`, `Crash` |

A handler of the event loop is one step of the master, except that reaping is
one step per child: the others go on dying meanwhile, and a SIGCHLD that comes
while the master reaps is looked at again. A signal is pending until the child
takes it. Children are only asked for the stage the scoreboard shows, which is
behind what they do: `accept` returns one step before the scoreboard says so, and
a dead child keeps its stage until it is reaped. `crashes` and `failedForks` are
counted apart, within the bound `MaxFailures`, because a pool does not recover from
them in the same way. `request_terminate_timeout_track_finished`, which also ends
children whose request has finished, is off, as it is by default. Time is left out,
so a timer may
go off whenever it is set and a request may be too slow whenever it is served.
There is one pool; connections are left out (one may come whenever somebody
waits for it), and a child never keeps one. `faults` counts the crashes without
their times: those of `emergency_restart_interval` are taken to be recent.

### ProcessPool

What remains of a process manager without signals, timers, styles and handlers:
a stance (starting, up, leaving, gone), a list of children within a limit, and
who of them is alive. Only the dead leave the list; a dead child may be replaced
in the step that takes it off; nobody is forked once the manager leaves; and it
is gone exactly when the list is empty. `Fpm!ImplementsPool` maps to it: `Stance`
reads `mpc` and `state`, the list is `Children`, and `Living` are the processes
that run. Signals, the scoreboard, the counters, the timer and the maintenance's
bookkeeping are stutters. That the master leaves nobody behind
(`NobodyLeftBehind`) is a consequence.

Opcache and Fpm are not composed. All the opcode cache sees of FPM is that
workers die and are replaced; the composition would add what FPM does between
these deaths and nothing that the cache can tell apart.

## 3. Runs

| Run | Question | Instance | Result |
|---|---|---|---|
| `CheckoutPair` | `WholeOrders`, `LedgerBalanced`, `EveryRequestEnds` | 2 requests, 5 carts (opposite, repeated, three lines), 2 numbers | holds |
| `CheckoutSellers` | `ImplementsInventory`, `SoldWithinWhatWasSeen`, `UniqueNumbers`, `AnswersMatchOrders`, `DeadlockNeedsDisagreement` | 2 requests, 3 carts of different products, 2 numbers, and a seller who writes 0 or 3, or deletes; addresses bindable or not | holds |
| `OversellByRace` | `StockNeverNegative` | 2 requests, 1 unit, addresses bindable | violated |
| `PricingOrder` | `AmountsAddUp`, `ItemsAddUp`, `CrossedOnlyUnseen` | orders of 2 lines and 2 overlapping updates with both prices, one or none; amounts around the rounding (4, 4.9 and 5 cents) and the shipping limit; 2,884,416 states | holds |
| `LifecycleOverlap` | `CancelAnswersTrue`, `OnlyAdminReopens` | 3 requests by owner, admin, stranger | holds |
| `ReviewsOverlap` | `OnePerPair`, `LosersHaveRivals`, `DeletedStayDeleted` | 3 requests by two customers and an administrator about 2 products, both tables | holds |
| `AccountsOverlap` | `CredentialsStand`, `DeactivationStops`, `OnlyAdminsSwitch`, `OwnLogoutOnly` | 4 requests about the administrator's account and one that is registered, 2 passwords, with and without tokens | holds |
| `LimiterStores` | `CounterBounded`, `NeverBlockedEarly`, `MortalKeyExpires` | 3 workers, both stores | holds |
| `LimiterImmortal` | `BlockedClientRecovers` | 2 workers, Redis | violated |
| `OpcacheRestart` | `SwitchFollowsRestart`, `ExhaustedIsScheduled`, `WasteIsCounted`, `OneScriptPerFile`, `TimestampProtects`, `HitIsCurrent`, `TypeOK` | 2 workers, a file edited once, 2 blocks, 1 call of reset or invalidate, 1 death; 491,658 states | holds |
| `OpcacheFiles` | `RunsItsOwnScripts`, `RestartHappens` | 2 workers, 2 files that share 1 block and 1 entry of the hash table, 1 call, 1 death; 515,343 states | holds |
| `FpmPool` | `ImplementsPool`, `PoolBounded`, `LeavingIsTimed`, `DeadAreNoticed`, `StaticIsFull`, `OnlyEscalates`, `LeavingEnds`, `PoolRefills` | 2 children, all three styles, 1 crash or failed fork; 566,998 states | holds |

Why the instances are large enough: a race of this code needs two transactions
and one row, a deadlock two rows, and a collision of numbers two orders; there
are as many numbers as requests, so that all orders can commit and any two can
collide. A third checkout would only wait behind the other two: a request that
waits for a number holds no row yet, so no circle goes through it, and two
products have no longer circles; what a third order could sell or restock, the
seller does. Types, isolation, numbers, answers and the refinement are proved for
any number of requests. A lost update of a review takes three requests (write,
change, delete), and a collision of inserts two. A deactivation that meets a login
or a profile takes four requests (register, the administrator's login, the
deactivation, the other one).
An update that crosses the prices sends one field, and one that was compared with a
row that is no more takes a second update.
A restart next to a reader takes two workers, and so does compiling one file
twice; the edit makes a script outdated, the second block is used up by the
second version, so that running out of memory, waste at its limit, a reset and a
restart forced with SIGKILL all happen within the bounds, and one death reaches
every step, also those under byte 0. In `OpcacheFiles` two files share one block
and one entry, so that memory and the hash table fill up, and a restart gives the
block of one file to the other, which is what an old reader would execute; the
files do not change there, so that the run stays small enough for liveness. Of FPM
the run has one failure; with two (a crash that meets a failed fork, or another
crash) all but the two liveness properties were checked as well, and hold, on
1,372,688 states. With two children FPM has one that is retired next to one that is
spared, two SIGCHLDs that fall together, a fork that fails half way through, and
a reload after a crash while another child ignores its signals; with
`MinSpare = 1` the limit on the number of forks in `Shortfall` is never the one
that counts, and `PoolCorrect` proves it for all values.
Carts with opposite orders, with one product on two lines, and with a first line
repeated after another one cover the ways two loops can meet. Requests and
numbers are interchangeable, which the symmetry uses where no liveness is
checked. Deadlock checking is off where the system may rest (all requests
answered); a circle of waiting requests is `Deadlocked`, and is what
`DeadlockNeedsDisagreement` and `EveryRequestEnds` are about.

Fairness. `EveryRequestEnds` assumes that a worker goes on with its request
(`WF(Step(r))`) and that PostgreSQL's deadlock detector ends one victim of a
lasting circle (`WF(DeadlockVictim(r))`). Nothing forces customers, sellers,
failures or crashes. `MortalKeyExpires` and `BlockedClientRecovers` assume that
the clock ticks and a request begun is finished; nobody has to send another.

`RestartHappens` assumes that a worker goes on with what it has begun and that
requests keep coming (`WF(Progress(p))`), because a restart is the work of the
next request, and that a worker waiting for byte 0 gets it although others come
and go (`SF(UnderByte0(p))`): the kernel wakes the waiters of `F_SETLKW` in the
order they came. Nobody has to edit a file, call reset, kill or die. `LeavingEnds`
and `PoolRefills` assume that the master's event loop gets to a pending SIGCHLD,
a due timer and its maintenance, that waitpid gets to every dead child, and that
a SIGKILL works. Nothing else is asked of the children: they may block SIGQUIT
and SIGTERM, and a script may run for ever.

What the violations show. Those of the shop are about the handlers as the tests in
`tests/Feature` call them; `bootstrap/app.php` does not register `routes/api.php`.

* `OversellByRace`: two orders read a stock of 1 and both take it
  (OrderService.php:28 and :76). It needs an order that can be stored, which is not
  so as committed (`bindable`, section 2): every order is answered 400 before it
  gets there, and the race is what is left once the address has its cast. One cart
  that names a product twice does the same alone: give `Carts` the single cart
  `<<One(p1), One(p1)>>` with one request.
* `LimiterImmortal`: a key that expires between `get` and `increment` comes back
  without a time to live, and its client stays blocked.

More disagreements can be seen by changing a constant or adding a line. Of the
shop: `AddressAccepted` of Checkout is violated with `Bindable = {FALSE}`: the
order of tests/Feature/OrderTest.php:35 expects a 201 and is answered 400,
because Order.php:32-39 has no cast for the address. `FreeShippingOver100` of
Pricing is violated with quantities 1 and 3 and no editor: three units of a
discounted article are charged as one (OrderService.php:34), so that the comment
at :46 does not hold of the goods. `DiscountBelowPrice` of Pricing is violated by a
seller who lowers the price alone, below the stored discount: `lt:price`
(UpdateProductRequest.php:20) is not applied to a field that is not sent. It is also
violated by two overlapping updates that each leave out the column that equals the
one they loaded, and by a discount of 4.999 for a price of 5.00, which is less when
it is compared and the same when it is stored; `CrossedOnlyUnseen` says that nothing
else gets the discount *above* the price. `OnlyOpenOrdersCancelled` of OrderLifecycle
is violated, also with `AbilitiesDefined = FALSE`, by two cancellations that load a
pending order: both are answered "Order cancelled successfully", the second one when
the order is cancelled already and was to be refused (OrderController.php:71-77); with
the ability, an order shipped in between is cancelled in the same way. With
`store = "file"` `CounterBounded` and `NeverBlockedEarly` do not hold, which is why they name
Redis; `admitted <= Max` does not hold with either store; an administrator who
sets the status that was loaded is told "updated" though a cancellation came
between (`Answered(r, "updated") => status' = wanted[r]`); with
`AbilitiesDefined = FALSE` administrators are answered `forbidden`; the invariant
`RegistrationsSucceed` of Accounts (`AuthTest::test_user_can_register`,
tests/Feature/AuthTest.php:21) is violated with `hasTokens = FALSE`: the account
exists and the answer is an error 500; and tokens of deactivated accounts go on
working (`\A t \in tokens : active[email[t]]` does not hold).

Of PHP:

* `RunsItsOwnScripts` is violated without `~exposed[p]`. The comment at
  ZendAccelerator.c:3587 says that a restart does not begin any more once a reader
  has its lock and has seen none under way; but the one that restarts looks for
  readers (:2715) before it raises the flag (:292), and a lock taken in between is
  seen by nobody. `persistent_compile_file` has a wider gap: it looks a script up
  and takes its lock later (:2106).
* What a worker leaves behind that dies under byte 0 nobody mends, and each property
  names the deaths it does not survive:
  * while it empties the segment (`Wiping`): the switch is off and no restart
    scheduled, and the cache stays off until FPM is restarted.
    `SwitchFollowsRestart`, `ExhaustedIsScheduled`, `WasteIsCounted` and
    `OneScriptPerFile` ask that nobody did, because what the segment holds then is
    neither the old state nor the new one.
  * while it schedules a restart, after :3548 and before :3551 (`TurningOff`): the
    restart is scheduled and the cache still on. Nobody schedules again, since one
    is pending; requests go on using the cache and may keep the restart waiting for
    ever (the exception of `RestartHappens`), and when it comes, a death before :3550
    makes it restore the switch of the restart before it. If there was none, that
    is FALSE (shared memory starts zeroed), and the cache is off for good.
    `SwitchFollowsRestart` asks that nobody died there.
  * after it has noticed that a restart is due and before :3548: it is left to the
    next worker that runs out of memory or discards. The exception of
    `ExhaustedIsScheduled`.
  * while it discards or stores a script (:1388-1390, :1692): that one script is
    missing from the waste. `WasteIsCounted` allows one per death.
  * between the copy of a script and its entry in the hash: the block is
    lost until the next restart, and the next one to compile the file stores it
    again. The exception of `OneScriptPerFile`.
* A script discarded between another worker's lookup and its validation has the
  timestamp 0, which passes for that of a preloaded script (:1176): the outdated
  version is served once more. It is the exception in `HitIsCurrent`.
* On demand, "if there is at least on idle child, it will handle the connection"
  (fpm_process_ctl.c:541) trusts the scoreboard: a child that looks idle may be
  dead or leaving, and then the connection waits until the next one comes,
  because the event is edge-triggered.
* `process_control_timeout` is 0 by default, so a "graceful" stop or reload
  (php-fpm.8.in:165 and :169) sends SIGTERM right after SIGQUIT, and SIGKILL a
  second later: `ControlTimeout` may fire at once.
* A static pool in which a fork failed stays short until the next child dies: no
  maintenance looks at it, which is why `StaticIsFull` asks for `failedForks = 0`.
  Crashes it survives. A child retired for being idle that has to be killed with SIGKILL is replaced,
  because only exits are looked at (fpm_children.c; `Restarted`).

Some things the code does wrong every time, without any interleaving, are listed
here because no module is needed to see them: AdminController.php:96 asks for
abilities that nobody defines; ReviewController.php:36 looks for a
`payment_status` that no code sets; the `orWhere` of ProductController.php:24 is
not grouped, so that a search ignores the filters before it; routes/api.php:49-51
registers `/wishlist/{product}` before `/wishlist/clear`, and routes/api.php:39
`/orders/{order}` before `/orders/statistics` (:61), so that neither is ever
reached; OrderService.php:26 does not look at `is_active`.

Each property of a passing run is broken by a plausible bug of the code: the
definitions marked "A bug:" next to the ones they would replace (locks taken in
another order, the model written back instead of a relative decrement, the order
created outside the transaction, a test weakened by one, a loop left early).

The type invariants of the other modules are not part of the runs: TLAPS proves
them for all instances (section 4). Opcache's is, because it says that no block
beyond the segment is ever given out.

## 4. Proofs

All proofs are for every number of requests, products, carts, numbers, workers,
prices and limits that satisfy the modules' assumptions.

* `CheckoutProofs`
  * `TypeCorrect`: types need `Positions`, that the indices of a request point
    into its cart; the two are inductive together.
  * `TransactionsIsolated`: `Isolation`. What a transaction has done to the
    stock is what its item rows say (less the line it is taking), on rows it
    holds. Everything about the stock rests on it: neither the ledger nor the
    refinement is inductive without knowing what a lock holder has pending.
  * `OrderNumbersUnique`: from `NumbersDiffer`, which speaks of inserted *and*
    committed rows; uniqueness among committed ones alone is not inductive.
  * `AnswersTruthful`: inductive with types and isolation.
  * `CheckoutImplementsInventory`: every statement is a stutter of Inventory,
    except COMMIT (heard or not), which is `Place`, and a seller's write, which
    is `Adjust`. The step uses `Isolation` to show that publishing subtracts
    exactly the order's items.
  * `OrdersAreWhole`: `WholeOrders`, from `ItemsFilled`: the item rows of a
    request are the units of the lines its loop has passed, of the committed ones
    the whole cart. Sums over lines are `MapThenSumSet`; the proofs use the
    lemmas that a sum over no line is 0 and that one more line adds its units.
  * `StockIsLedger`: `LedgerBalanced` where sellers write no quantity
    (`Restocks = {}` or no edits), for finitely many requests. COMMIT is the only step
    that changes a sum (`Sold`), by one order, and `Isolation` says that it takes
    the same from the stock. With sellers the ledger is what
    `ImplementsInventory` says it is.
  * `NoStandstill`, for finitely many requests: among open transactions that wait
    for nobody outside, one can execute its next statement or is on a circle the
    detector ends. It is the smallest closed group that gives the circle.
  * `NoEndlessRequest`: a measure, `Remaining`, that every own statement of a
    request lowers and no other step raises. With `NoStandstill` it is all of
    `EveryRequestEnds` that does not need fairness.
  * `NoOversellAlone`: from `LinesChecked` (what was read covered its line) and
    `LinesWritten` (a cart of different products has written exactly its lines).
  * `DeadlocksDisagree`, for finitely many products: from `LocksPassed` (a row is
    locked by a request that is past a line with its product). Who is waited for
    has inserted its order, so everybody on a circle waits for a row; where the
    carts agree, each waits for a product that ranks below the one its holder
    waits for, and the least of these ranks has nothing below it.
* `RateLimiterProofs`: `OvershootBounded` and `BlockedOnlyAtLimit` from
  `Counted`: the counter *plus* the workers about to raise it is below the limit
  plus the workers, and every unit of it is a request let through.
  `LetThroughBounded`: with Redis, while a key lives no more than
  W x (limit + W - 1) requests of W workers get through. `admitted` alone is not
  inductive, because a worker that found no key may `put` a 1 over the count much
  later; `Spent` sets a full count aside for every worker that may still do so.
  `ShutOutForGood`: a client at a full key without an end stays turned away for
  ever, with both stores; it is why `BlockedClientRecovers` fails for every value
  of the constants with which such a key can come about.
* `PricingProofs`: `OrdersAddUp` (rounding tax and rounding the total agree, the
  lemma `RoundingAgrees`). `CrossingsUnseen`, for any number of updates: what is in
  flight has passed the validation (`EditsValid`), and an update that sends a
  discount and finds the row it loaded leaves it at most at the price
  (`ComparedInOrder`), since rounding keeps the order (`RoundingMonotone`).
  `SubtotalsAddUp`: `ItemsAddUp` for orders of any length. The sum is a recursive
  function on indices (`AddedUp`); that there is such a function, and that its values
  do not depend on what comes after the index, is shown with a least
  counterexample, since induction is not at hand.
* `OrderLifecycleProofs`: `CancelsTruthful`, `ReopenedByAdmin`, the latter from
  `Unanswered`: a request has no answer before its last step.
* `ReviewsProofs`: `NoDuplicates` (only `Insert` adds rows, lemma `RowsAppear`,
  and the index is asked in the same step), `NoInnocentLosers` and
  `DeletedForGood` from `Served`: every row belongs to a request answered
  "created", and answers come last and stay.
* `AccountsProofs`: `AccountsBelong` from `Owned` (who has a token, or is about
  to get one, knows the password) and the lemma `PasswordsStay`; `NoNewAccess`
  and `SwitchedByAdmins` from it, the latter with `ActiveByDefault`, because
  inserting a user writes `is_active` too; `LogoutsAreOwn` from `GoneByLogout`,
  which says of missing tokens what the property says of refused requests.
* `OpcacheProofs`, for any number of workers, files, blocks and bounds
  * `OpcacheTypes`: types need `Locks` and `Working`. `Locks` says that byte 0 is
    held exactly by a worker in the middle of a restart, of killing or of
    publishing; everything after it uses it to know that only one worker is there.
  * `SwitchCorrect`, `ExhaustedCorrect`: the first from `SwitchInv`. While a restart
    is scheduled or under way the remembered switch is what it has to be restored to,
    unless somebody is about to remember it; and scheduling cannot happen while the
    segment is emptied, because both need byte 0. Workers may die anywhere in both
    theorems. What a death in the middle of that very change leaves behind is in the
    hypothesis `Whole(...)` of the property (section 3), and `StopLoses` says that a
    death elsewhere leaves nothing behind.
  * `TimestampCorrect`, `HitCorrect`: from `DatesInv`. A script that is stored or
    about to be stored was read from disk no earlier than its timestamp says.
  * `ScriptsCorrect`: from `OwnInv`. Who reads the segment holds byte 1, so that
    whoever is in the middle of a request when a restart begins is exposed (`Own`);
    and an entry of the hash leads to the script of its own file (`SegmentInv`), also
    while a script is being copied in.
  * `WasteCorrect`: from `WasteInv`, which speaks of more blocks than the property:
    one whose size was never set (`Claimed`) will count nothing when it is discarded.
    The worker at `wasting` owes the size of the block it has marked (`Owed`), and a
    death in the middle of a discard or a store takes one block out of the count
    (`Torn`), no more, because only one worker at a time is in the middle of one.
  * `ReadersDwindle`: from `CachedInv`. Who holds a read lock or works on the cache
    belongs to a request that found the switch on when it began (`Cached`), and
    while a restart is scheduled no request joins them: its wait is for a set that
    only shrinks.
  * `OneScriptCorrect`: from `OneInv`: a usable script is the one its file's entry
    in the hash leads to, or the one a worker is about to link.
* `FpmProofs`, for any pool: one inductive invariant, `FpmInvariant`, whose parts
  need each other. `NobodyLeftBehind` needs the counter to agree with the list
  (`PoolBounded`), `LeavingIsTimed` goes with `TimerSet` (the timer is armed only
  while leaving), `PoolBounded` needs `NotStarted` (no children before the start), and the
  bookkeeping of retired and quitting children needs that they are alive or in
  the list (`QuitsAlive`). `EscalationCorrect` follows from it step by step.
  * `FpmImplementsPool`: `ImplementsPool`, action by action. The invariant gives
    what ProcessPool's guards ask for: a forked pid is on no list and its addition
    stays within the limit, who is buried is dead, and the counter the master
    tests before it goes is that of the list.
  * `LeavingOnlyShrinks`, `NobodyEscapes`, `LeavingGoesOn`: on the way out nobody
    comes to life; once SIGKILL was sent every living child has it pending; and
    until the master is gone it can signal harder, look at a SIGCHLD, reap, or see
    a child die of SIGKILL. Each of these can happen only so often when nobody
    joins: they are the part of `LeavingEnds` that does not need fairness.
  * `LackIsSeen`: a dynamic pool below `pm.min_spare_servers` children has a fork
    due, from `RateOn` (the rate is never 0). The hypotheses are the bounds
    fpm_conf.c:909-916 checks, and that there are pids enough. It is the same part of
    `PoolRefills`.

Only model-checked: `EveryRequestEnds`, `MortalKeyExpires`, `RestartHappens`,
`LeavingEnds` and `PoolRefills`. They are liveness under fairness, which needs
ENABLED. What is proved of the first, the third and the last two is their safety
half, as said above: that there is always a step to take, that what is left to
do only gets less, or that nothing is added to it. Every other property of a
passing run is a theorem; `LedgerBalanced` and `DeadlockNeedsDisagreement` with the
assumptions named above.

## 5. Not modelled

Of the shop:

* views, logging and headers, configuration values, seeders, and the models
  nobody writes: no state, or used once by one process;
* routing and authorization as such: they have no state, and what they do to an
  endpoint is a guard of its action; what they do wrong is listed in section 3;
* the listing of products and the SKU: one query, and one insert against a unique
  index that behaves like the one of reviews. Whether two calls of `uniqid()` fall
  together is a matter of time alone;
* Checkout and OrderLifecycle composed: an order is not visible to the other
  endpoints before it is committed, and cancelling does not touch the stock, so
  that the composition has no step the parts do not have;
* MySQL, which README.md of the repository names: the configuration says
  PostgreSQL, and InnoDB takes other locks;
* `WishlistController::clear`, because no request reaches it: `POST
  /wishlist/clear` matches `/wishlist/{product}` first (routes/api.php:49, :51);
* `is_verified_purchase`, because nothing sets `payment_status` to completed
  (ReviewController.php:36), so that it never varies.

Of PHP:

* of the opcode cache: the file cache, preloading, the JIT, cache keys other than
  the file's name, permissions, the interned strings and the inheritance cache,
  which share the segment and are emptied with it, and Windows' locks;
* of FPM: several pools and `process.max`, tracing for the slow log, the locks
  around the scoreboard's counters, connections and the backlog, and reopening
  the logs on SIGUSR1;
* everything else in `php-8.5.5/`: the compiler, the virtual machine and the
  extensions run inside one process and are PHP's logic, not the shop's. They are
  by far the largest part of the repository, and the modules cover next to nothing
  of their lines.

To run: `tlc -config <run>.cfg <module>` with the module PROJECT.json gives for
the run (`MCCheckout`, `MCRateLimiter`, `MCOrderLifecycle`, `MCReviews`,
`MCAccounts`, `MCOpcache`, `MCFpm`, `Pricing`), and
`tlapm <module>Proofs.tla`.
