# A TLA+ model of taoxi-server

`taoxi-server` is the back end of a game: an HTTP API process (login, items,
payment, configuration), a gate and a player actor process. This directory keeps
formal models of the parts that hold state, the TLC configurations that check them
on small instances, and TLAPS proofs of the properties that matter most for every
size of the system.

## The system and what is modelled

| Part | Code | Modules | State |
|---|---|---|---|
| payment orders: create, upload receipt, process | `app/Api/payment/internal/service` | `Payment`, `PaymentProperties` | modelled |
| the `payment_order` table | `payment/internal/store` | `OrderStore` | modelled |
| timeout scan, Google RTDN puller and channel | `service/order_cron.go`, `rtdn_google.go`, `channel_google.go` | `Payment` | modelled |
| grant and revoke tasks, enqueueing | `service/task.go`, `pkg/asynqx` | `Payment` | modelled; server start and stop are not |
| the player's payment lock | `pkg/middleware/limit` | `Payment` | modelled |
| what an order promises | table in `service/order_process.go` | `OrderContract` | abstract specification |
| items store | `items/internal/store/store.go` | `Bag`, `Items`, `ItemsProperties` | modelled |
| what the items store promises to tasks | | `RewardLedger` | abstract specification |
| versioned cache, as the items service uses it | `pkg/cachex`, `items/internal/service`, `items/internal/store/cache.go` | `VersionedCache` | modelled |
| accounts and identities | `login/internal/store/store.go`, `login/internal/service` | `Accounts`, `AccountsProperties` | modelled |
| what the login store promises | | `AccountDirectory` | abstract specification |
| data access of the six tables | the `ent` packages of login, items and payment | `Ent`, `EntSchema` | partly |
| rate limiter | `pkg/middleware/limit` | `Limiter` | modelled |
| player actor, its state, offline calculation, diff manager | `app/Player`, `pb/player/actor`, `internal/util`, `internal/diff_manager` | `Player` | modelled |
| tokens, state machine helper, router, gate, push, deployment, messages | | | not modelled, see the end |

`PROJECT.json` has the full list of components with the reasons, the source lines
of every definition, the hazards of the code, the runs, the deliberately wrong
variants each property is known to detect, the findings and the theorems.

### How the parts interact

A player logs in, which finds or creates an account. The player creates an order,
pays Google for it and uploads the receipt. The same purchase also reaches the
server as a real-time developer notification (RTDN) that the puller reads from
Pub/Sub, and the order is also visited by the timeout scan. All three end in
`ProcessOrderWithoutLock`, which reads the order and Google's answer, queues a task
that grants (or revokes) the rewards, changes the row and tells Google to consume
the purchase. The tasks run in the items service, which makes them idempotent with
nonce rows, commits, and invalidates the cached bag on every node.

The models meet at two interfaces. `Payment` treats a task as one step that takes
effect at most once per nonce and is told success only when it did; `RewardLedger`
states that, and `Items` is shown to implement it. `VersionedCache` treats a
transaction on the bag as one commit followed by `Invalidate`; `Items` shows that a
transaction is one commit.

## Payment

`OrderStore` has one pair of operators per SQL statement: the `WHERE` clause and
the row afterwards. `Payment` has a job record per worker (client request, cron,
puller) that holds what the Go code keeps in local variables, and a program
counter. Every call to MySQL, Redis, Google or the queue is a step of its own, so
anything may happen between a read and the write that depends on it.

| Variable | Meaning |
|---|---|
| `orders`, `issued` | table rows; order ids a client has been told |
| `tokens`, `rtdn` | Google's purchases and the notifications not yet acknowledged (external) |
| `lock` | Redis leases, keyed as the code computes the key (external) |
| `job` | what each worker is doing |
| `queue`, `granted`, `revoked` | tasks not completed; rewards applied under each nonce |
| `config`, `reloads`, `faults` | product configuration in force; counters of the bounds |

Failures: any call may fail (`Fail`), a process may die between two calls and
leave its lease behind (`Crash`, `OrphanLeaseExpires`), a lease may run out under
its holder (`LeaseLost`), an enqueue without a queue client panics (`Panic`), tasks
and notifications are delivered at least once, in any order, and the product
configuration may be reloaded at any time.

Rewards are versions of a rewards list; a purchase token stands for the
credential, its hash and the third-party order id Google gives it. Logging,
prices, formats and signatures are left out. Two simplifications: an error of
`TryLock` is treated as a lock that is taken (the caller leaves in both cases), and
a notification that was acknowledged is not delivered again (a redelivery would
only repeat what an earlier one may do).

`QueueClients` are the workers whose process has a queue client. No code of the
repository calls `asynqx.InitClient`; the liveness run assumes that it was called,
the safety run leaves it out for client requests, whose enqueue then panics, and
`PurchasedIsGranted` holds nevertheless. A retried grant reads the product's rewards again and overwrites
the snapshot in the row, while the task keeps the rewards it was queued with: the
two may differ after a reload, and no property claims that they agree.

Steps that are one in the model and two in the code: the `TryLock` of an expired order
and the SELECT behind it, the read of the product's configuration and the UPDATE of
the snapshot. Between the first two, another worker either leaves the lock alone, and
its step may as well come first, or finds it taken and changes nothing. Between the
other two, another handler may write a newer snapshot that the UPDATE then overwrites by
an older one; the model leaves that out, and no property is about the version of the
snapshot. A scan that has lost its lease ends at
its next order; the code learns of the loss from `lease.Err()` a little later, and the
orders it still visits meanwhile are visits a scan of another node may make.

`OrderContract` is the abstract specification of one order: how its phase may move,
that it is paid only after its grant is submitted, that an order that was paid is
refunded only after its revocation is submitted, that both are carried out once and
the revocation after the grant. An order that was never marked paid is promised less:
when its purchase is found cancelled it becomes *void*. A handler that enqueued the
grant and failed before `MarkOrderPurchased` leaves such an order behind; its grant may
still be delivered and no revocation is ever submitted, so the player keeps the goods.
The contract allows that because the code does it, and the hazard list has it as one no
property covers.

`ExpiredIsSettled` (an expired Pending order does not stay Pending) has two conditions,
and TLC finds it violated without either: from some point on every order's product is
sold, and every bound order is bound to a purchase of its own product. The scan of a paid
order whose product left the configuration fails each time, and so does that of an order
bound to a purchase of another product, because the credential is bound before the
products are compared. `PurchaseIsDelivered` needs the first condition only, since it is
about a purchase of the order's product; it includes orders a timeout has closed.

## Items

`Items` models the rows of one player and the transactions of `AddItem`, `AddItems`
and `RevokeItems`. A transaction works on its own copy of the rows (`job[w].rows`);
lock, nonce, each reward and each deducted row are steps, and only `Commit` makes
them visible. `lockUID` comes before the first read, so the snapshot MySQL takes is
as new as the lock; the model takes the copy at that step. `Commit` may lose its
answer, any statement may fail, tasks run again whatever they returned, the clock
moves between statements and the configuration may lose an item type. `AddItem`
has no caller in the repository; it is modelled because the interface offers it. A
nil reward is the reward of `NoItem`: the code returns an error for it, which rolls the
transaction back. An item's stack mode is fixed; a reload that changes it between two
grants is not modelled.

Stacking by count and by time, merging of time rows and the order of deduction are
operators on the rows, in `Bag` (`AddItemUnlimited`, `AddItemTimeStack`, `Revocable`,
`Deduction`). Each player's rows and lock are separate, so one player is enough.
`RowIds` bounds the primary keys: an insert needs a free one (`Room`), and the run has
more of them than its orders can use.

## Versioned cache

`VersionedCache` models one key: the transactions committed on a bag (`db`), the
version key in Redis (`remote`), the entry and the singleflight call of every node
(`local`, `flight`) and the goroutines that call `Get` or write and call `Invalidate`
(`call`). `pub` is history: the newest transaction published when a version was
reached. Each call to Redis, ristretto, singleflight and the database is a step.

`LocalExpires` covers the local TTL and everything else that makes ristretto lose an
entry (its sets are asynchronous and may be dropped). `VersionExpires` models the
24-hour TTL of the version key: it is enabled only when everything in memory was
read after the last increment, because local entries live five minutes and
requests shorter still. A flight's `SetWithTTL` and its end are one step: a call that joins
between them gets what it gets by joining just before. `NodeRestarts` empties a process, also between the commit
of a writer and its increment.

## Accounts

`Accounts` models `FindOrCreateAccount`, `BindIdentity`, `UnbindIdentity` and
`DeleteAccount` statement by statement. `account` and `owner` are what is committed;
`rowLock` is the lock of an account row, `keyLock` the lock of an entry of the unique
index over login type, app id and open id, which makes an insert of the same entry
wait. A transaction writes when it commits, and statements may fail or lose their
answer. An identity stands for its login type, app id and open id, `Kind` for the
first two. Binding an identity the account already has succeeds without a write; the
model ends it like a refusal, since neither changes anything. Checking a credential with its provider happens before and has no state.

`AccountDirectory` says what the requests amount to: register, login, bind, unbind
and delete, each of them atomic.

## Data access

The `ent` packages are generated, and have the same code for every table up to the
columns it names. `EntSchema` reads off, file by file, which columns a switch, a chain
of setters, a list of defaults or checks or a predicate file names; `Ent` has the
control once, for the record of any table: mutations and what `Set`, `Add`, `Append`,
`Clear` and `Reset` do to them, defaults, validators, the statement `Save` makes,
upserts, bulk creates, deletes, transactions and queries. A value is a number and a
text is its length, so that order, prefixes and concatenation are those of texts.
MySQL is external: keys with a null do not collide, `SET` clauses are evaluated from
left to right.

The table is chosen in `Init` (`entity`), and so are the rows it starts with. `Tried`
picks one column of every kind: two columns of which the generated code says the
same (`Profile` in `MCEnt`) are interchangeable in every action. Predicates are tried
for every operator on one nullable and one other column, plain and negated.

Bounds, all in the guards: one builder at a time; its calls are about one column;
`Where` comes first and uses equality and null checks; `Begin`, `Where`, `Order`,
`ForUpdate` and `Clone` cost a call like a setter (`MaxCalls`); `MaxTrips` statements
and `MaxFaults` failures; an upsert that succeeded is not executed again; one
session, since isolation is the subject of `Items` and `Accounts`. The run does not
check for deadlock because it stops at these bounds.

`QueryAnswers` says what a query returns, for builders that are cloned or used again as
well; the complete list is claimed for fresh builders only, because a builder used
again keeps the limit an earlier `First` or `Only` set. It says that a statement locks
when its own builder was told to. Writes are mapped to the code of the item table and
queries to that of the order table, one table each, the others being the same code.

Three things a reader of the code may not expect, which the model has because the
code has them: a nullable immutable column can be cleared by name (`ImmutableKept`
makes that exception); validators of an update look at values that were set and
not at what an addition makes of them; `Clone` forgets
`ForUpdate`, although its comment says it copies the builder with all associated steps.
No code of the repository clones a locking query, and nothing is claimed of one.

## Rate limiter

`Limiter` is the counter of one key. Reading it and changing it are two calls of the
cache (go-cache, external: an entry lives `Sec` ticks from its `Set`, an increment does
not prolong it). `passed` and `overlap` are history: the requests let through since
there was no entry, and whether one read the counter between the two calls of
another. Requests that do not overlap keep the limit (`LimitKept`); overlapping ones
may exceed it and start the counter over, by no more than `Overshoot` allows. The
comment above the handler promises the limit without that exception. The early 400
answer to a request without header, which touches no counter, is left out.

## Player

`Player` is the actor of one player on the nodes that may own it. External are the
actor runtime, which starts, updates and stops it, the guard that lets one node own
it (a lease that may be lost, `GuardLost`), Redis and the clock. The state tracks its
dirty fields; `Save` reads the length of the Redis list and then appends a difference
or replaces the list by a snapshot; `Load` folds the list. The repository calls
neither `Save` nor `SetUid` yet, so the model lets the owner call them whenever the
actor is not busy, the way their interfaces ask for. `Player.update` reports no
update of its own yet; `Reported` lets the parts of a player report any of a set of
lists, which is what `MinNextUpdate` and `RunOffline` are written for. The runtime counts
its first delta from the end of the start (external). A tick is a whole number of
milliseconds: the fraction that `UnixMilli` drops is left out. Taking the guard and reading the list are
one step: no other node's guard can come between them, and a write of a node that lost
its guard may come before or after.

`stored` and `contended` are history: what `Load` may return, and whether a node went
on without the guard. `SavedIsLoaded` is claimed only while none did: two nodes that
write at once may mix their differences, and only `ListShape` holds then.

## Runs

| Run | Instance | What it shows |
|---|---|---|
| `payment_safety` | one order, one token, a client without and a puller with queue client, one failure, one reload (product changed or removed), one cancellation | `PurchasedIsGranted`, `RefundedIsRevoked`, `ConsumedIsGranted`, `RefundIsReal`, the contract |
| `payment_players` | two players, two products, two orders, two clients and the puller | `OnePendingOrder`, `CredentialUsedOnce`, `GrantIsCharged` |
| `payment_live` | one order, two products, one token, client, scan and puller, one failure or two reloads (a product may go and come back), fairness | `TypeOK`, `PurchaseIsDelivered`, `ExpiredIsSettled` |
| `payment_refund_missed` | violation | a refund is acknowledged while an upload still marks the order Purchased; nothing revokes afterwards. Client requests lock `payment:{0}:user_lock`, not the player's key |
| `payment_reused_order` | violation, fairness | an order bound to a declined purchase stays Pending, so `create_order` hands it out again; a second purchase for it is never delivered |
| `cache_fresh` | two nodes, two readers, two writers, two writes, one expiry of the key, one failure, fairness | `EntryCovers` and `FreshRead` until the version key first runs out; `GetReturns`; `Converges`: whatever failed, stale entries do not last |
| `cache_read_after_write` | violation, one node | a `Get` after `Invalidate` joins a load that read the database before the write |
| `items` | two goroutines, two orders and an `AddItem` with overlapping rewards, five row ids, three ticks | rows add up to what was committed (`LedgerBalances`), `UsedWithinCount`, one row per expiry, one live time row, `TimeIsAdded`, `RevokeTakes`, `ImplementsLedger` |
| `accounts` | two requests, two accounts, three identities of two kinds, fairness | `DirectoryInv`, `ActiveHasIdentity`, `RefusalIsTrue`, `ImplementsDirectory`, `CallsReturn` |
| `ent` | six tables, two ids, two calls, two statements, one failure | `RowsWhole`, `ImmutableKept`, `UpdateMeansCalls`, `OldPrecedesSave`, `QueryAnswers` |
| `limiter` | three requests, limit two, two ticks, fairness | `LimitKept`, `Overshoot`, `NotLockedOut` |
| `player` | two nodes, compaction at two, clock to three, one `SetUid`, two failures, fairness | `ListShape`, `SavedIsLoaded`, `TimeAccounted`, `StartEnds` |

The bounds are small because few things interact: an order, its token and its
callers; two transactions that compete for a row; a reader, a writer and a version.
Two orders are needed only where rows compete (reuse, credentials), one failure is
"one step of several fails", and the proofs cover any number where there are any.
Two requests of the login store are enough for every pair of its transactions,
which hold at most one account row each. Two nodes and compaction at two let a
node append to a list that another has just compacted. The scan's batch is one with
one order: that a batch of failing orders delays those behind it is a hazard no
property covers.

`payment_live` starts with one of its two products on sale (`LiveInit`), and a behaviour has
either a failure or reloads (`FailureOrReload`), which keeps the evaluation of liveness
within minutes. It has one order and one token:
with more purchases by one player, other handlers could keep the player's lock busy, and
the fairness assumed here would not be enough.

`payment_safety` does not check for deadlock: without a scan and with every bound used
up no request is left that could do anything. The same holds for `player`, whose clock
and failures are bounded, and for `ent`. All other runs check it.

## Fairness

- `payment_live`: a handler that has started runs on, the two cron entries fire again
  and again, a task is retried until it succeeds and the lease of a dead process runs
  out. Players and Google owe nothing. Retries of asynq are bounded by its retry
  limit; the model has none, so the result is about tasks that are not archived.
- `cache_fresh`: goroutines and flights run on and entries reach their TTL.
- `accounts`: strong fairness of each request's next statement. InnoDB serves the
  waiters of a lock in turn, so a request that can get its lock again and again gets
  it.
- `limiter`: handlers run on, the device asks again and time passes.
- `player`: a start that has begun goes on.

## Proofs

All theorems hold for every value of the constants that satisfies the named
assumptions (`OrderStoreAssumption`, `PaymentAssumption`, `VersionedCacheAssumption`,
`BagAssumption`, `ItemsAssumption`, `AccountsAssumption`, `LimiterAssumption`,
`PlayerAssumption`: disjoint roles, null values outside their sets, finite sets of nodes,
requests and rows, lists of well-formed rewards and updates, bounds that are natural
numbers); nothing else is assumed, and TLC evaluates each of them in a run.

*Payment.* `PurchasedIsGranted` and its companions are not inductive: whether
`MarkOrderPurchased` may run depends on what a handler saw several steps earlier.
`Inductive` (in `PaymentProperties`) therefore says what rows, purchases and tasks
say of each other (`RowOK`, `TokenOK`) and what a handler may rely on at each
program point although others ran in between (`JobOK`). The facts it rests on are
monotone: a credential is never replaced, a charge never taken back, a cancellation
is final, and a submitted grant stays submitted. `PaymentSteps` has the lemmas on
jobs and rows and the steps that take an order from Created to purchased,
`PaymentProofs` those that close an order, the queue, the tasks, Google and the
failures. It concludes `Spec => []P` for `TypeOK`, `PurchasedIsGranted`,
`RefundedIsRevoked`, `ConsumedIsGranted`, `GrantIsCharged`, `RefundIsReal` and
`CredentialUsedOnce`, and that every step is a step of `OrderContract` or a stutter.

`OnePendingOrder` is different: it is what the lease of `create_order` is for, and the
code does not keep it when that lease runs out under its holder. The theorem is about
`LeasesHold`, the behaviours of the service in which no such step happens; every other
failure, death and reload stays. `LeaseInv` says that a client at work holds the lease
and that one about to insert has found no Pending order of this player and product.
No other step makes an order Pending, so what it found is still true when it inserts.

*Versioned cache.* `CacheInv` says that published data only grows with the version,
and what an entry, a flight at each of its steps and a waiting call cover.
`VersionedCacheProofs` shows that commits and increments only let what is covered
grow (`Persists`), that every step of a call or a flight re-establishes its part, and
concludes `EntryCovers` and `FreshRead`.

*Items.* `BagInv` says of the committed rows and of the copy of every open transaction
that no row is used beyond its count and no two rows of a count-stacked item share
an expiry, that a transaction past its first step holds the player's lock, and that
the nonces it has looked at are still as it found them. The lock is what makes the
last part inductive: nobody else can commit a nonce. `ItemsProofs` concludes
`UsedWithinCount`, `OneRowPerExpiry` and `ImplementsLedger`.

`LedgerBalances` sums rows and rewards. `LedgerInv` adds to it that the copy of an open
transaction differs from the committed rows by exactly what its call has done so far
(`Balance`), that an `AddItem` call is open once, and that a time-stacked item has one
live row in either. `BagLemmas` has what each operator on rows does to the sums of an
item's counts and used counts, how a sum changes with one row, and what `Deduction` takes
from a sorted list of rows. From these follow `LedgerBalances`, `OneLiveTimeRow`, and
the action properties `TimeIsAdded` and `RevokeTakes`.

*Accounts.* `DirectoryInv` adds to the tables what each transaction may still rely on:
the locked account is active until it ends, an identity it is about to insert is no
second one of its kind, and another identity remains when one is unbound.
`AccountsProofs` proves it inductive, and from it `ActiveHasIdentity`, `RefusalIsTrue`
and that every step is a step of `AccountDirectory` or a stutter.

*Rate limiter.* `LimitKept` needs to know that, while nothing has overlapped, at most
one handler is between its calls, that one that is about to `Set` still finds no entry
and that the counter is the number of requests passed (`Apart`, in `LimitInv`).
`LimiterProofs` concludes `LimitKept`. For requests that do overlap, `Bounded` weighs what
has passed, what may still pass under the counter as it is (`Remaining`) and what may
pass after each `Set` that is still to come (`Starts`); no step makes the sum grow
beyond its first value, which is the bound of `Overshoot`.

*Player.* `Save` decides by a length that may be old when it writes. `ListInv` therefore
counts the append that every node in that position is still going to make
(`Appending`) to the length of the list, and says that a node that saw a list with
a head may rely on it: a list is replaced, never emptied. `PlayerProofs` concludes
`ListShape`, with and without the guard.

`TimeInv` gives everything its type, in particular that no stored or loaded time is
ahead of the clock, and says of a start that what was handed out and what remains add
up. `SaveInv` says that, as long as nobody works without the guard, the fields an actor
has not marked dirty are those `Load` would return: a difference of the dirty fields
then completes the list, whether an earlier difference arrived or only its answer was
lost. `TimeAccounted` and `SavedIsLoaded` follow. They rest on what `Load` makes of a list
with one more entry (`LoadedAppend`) and of a snapshot (`LoadedFull`), for lists of any
length.

*Induction over data.* The sums of `BagLemmas` and the folds of `PlayerProofs` need
induction, and the induction rules of the library take an operator the provers cannot
instantiate. Both modules argue with sets instead: a set of numbers that holds 0 and
with each number the next holds them all, because otherwise there were a least one
missing (`LeastNat`, `LeastNumber`; from `WFMin`, which is about sets). `FoldExists` and
`FoldsAgree` show in this way that the function behind a fold exists and is the only
one. `Player` takes its fold from `Folds` rather than `SequencesExt`, because the prover
carries every definition of an extended module into each of its steps.

Only model-checked: all liveness (`PurchaseIsDelivered`, `ExpiredIsSettled`, `GetReturns`,
`Converges`, `CallsReturn`, `NotLockedOut`, `StartEnds`), since fairness is out of the
prover's reach; and the properties of `Ent`, whose schemas are concrete tables with
nothing to generalise over. The three violations are counterexamples of TLC.

## Not modelled

- Tokens and authentication (`pkg/jwt`, `pkg/middleware/auth`): no state between
  requests; what a token proves rests on the signature.
- State machine helper (`internal/fsm`): used only by the mock client, whose states
  switch from no callback.
- Message router: a table filled at start and read afterwards.
- Request pipeline (`pkg/middleware/inout`): only the order in which it computes lock
  key and uid is in `Payment`; the rest is parsing and formatting.
- Gate, push, client configuration, deployment, start-up and the mock client: wiring
  of libraries and selection of an address.
- Generated messages: encoding without state of its own.
- Of the generated data access: hooks, interceptors, `GroupBy`, `Select` and
  aggregates, which no code of the repository uses, and formatting (`String`).
- Parsing of configurations, and the start, stop and retry delays of the task server.

## Running

    tlc -workers 2 -config PaymentSafety.cfg MCPayment
    tlc -workers 2 -config CacheFresh.cfg MCVersionedCache
    tlc -workers 2 -config Items.cfg MCItems
    tlc -workers 2 -config Accounts.cfg MCAccounts
    tlc -workers 2 -config Ent.cfg MCEnt
    tlc -workers 2 -config Limiter.cfg Limiter
    tlc -workers 2 -config Player.cfg MCPlayer
    tlapm PaymentProofs.tla

`PROJECT.json` pairs every run with its module and configuration; the modules with
proofs are `PaymentSteps`, `BagLemmas` and the ones named `...Proofs`. Each takes
a few minutes from nothing, `PaymentProofs` about ten.
