------------------------------ MODULE Payment -------------------------------
(***************************************************************************)
(* The payment service: the client's create_order and upload_receipt, the  *)
(* timeout scan, the Google RTDN (real-time developer notification)        *)
(* puller, the order pipeline they share, and the two asynq tasks that     *)
(* grant and revoke rewards.  Every call to MySQL, Redis, Google or the    *)
(* task queue is a step of its own, so steps of different workers          *)
(* interleave between any two calls; a job's record holds what the Go code *)
(* keeps in local variables, stale as it may be.                           *)
(*                                                                         *)
(* External parts are modelled from how the code uses them: Google Play    *)
(* (tokens, rtdn), Redis leases (lock), the asynq queue (queue) and the    *)
(* nonce rows of the items service (granted, revoked).                     *)
(***************************************************************************)
EXTENDS OrderStore, FiniteSets

CONSTANTS
    Clients,      \* goroutines serving client requests
    Crons,        \* goroutines running CheckExpiredPendingOrders
    Pullers,      \* goroutines running CheckGoogleRTDN
    NoWorker,
    Uid0,         \* the key payment:{0}:user_lock
    ScanKey,      \* payment:{cron}:timeout_scan_lock
    Configs,      \* rewards a (re)loaded config may give a product; NoReward: product gone
    ExpiredOrderBatch,
    QueueClients, \* workers in whose process asynqx.InitClient has run
    MaxReloads, MaxFaults, MaxCancels   \* bounds on config reloads, failures, Google's cancellations

Workers == Clients \cup Crons \cup Pullers

LockKeys == Users \cup {Uid0, ScanKey}

ASSUME PaymentAssumption ==
    /\ Clients \cap Crons = {} /\ Clients \cap Pullers = {} /\ Crons \cap Pullers = {}
    /\ NoWorker \notin Workers
    /\ Uid0 \notin Users /\ ScanKey \notin Users /\ Uid0 # ScanKey
    /\ Configs \subseteq Rewards \cup {NoReward}
    /\ ExpiredOrderBatch \in Nat \ {0}
    /\ QueueClients \subseteq Workers
    /\ MaxReloads \in Nat /\ MaxFaults \in Nat /\ MaxCancels \in Nat

VARIABLES
    orders,   \* the payment_order table
    issued,   \* orders whose id create_order has returned to a client
    tokens,   \* Google's purchases
    rtdn,     \* Pub/Sub messages not yet acknowledged
    lock,     \* holder of each Redis lease
    job,      \* what each worker is doing
    queue,    \* asynq tasks that have not completed
    granted,  \* rewards added under the nonce "grant of order o"
    revoked,  \* rewards taken back under the nonce "refund of order o"
    config,   \* the product configuration in force
    reloads, faults

vars == <<orders, issued, tokens, rtdn, lock, job, queue, granted, revoked,
          config, reloads, faults>>

TPStatus == {"None", "Pending", "Purchased", "Cancelled"}

\* What Google knows of a purchase.  "charged" stands for a completion time
\* and an order id: the purchase has been PURCHASED at some moment.  "order"
\* is the order id sealed in the obfuscated profile, "product" the Google
\* product that was bought.
Purchase ==
    [state : TPStatus, charged : BOOLEAN, consumed : BOOLEAN,
     order : Orders \cup {NoOrder}, product : Products \cup {NoProduct}]

NoPurchase ==
    [state |-> "None", charged |-> FALSE, consumed |-> FALSE,
     order |-> NoOrder, product |-> NoProduct]

\* A purchase is started, charged, cancelled and consumed.
Buy(o, p) == [NoPurchase EXCEPT !.state = "Pending", !.order = o, !.product = p]

Charge(p) == [p EXCEPT !.state = "Purchased", !.charged = TRUE]

Cancel(p) == [p EXCEPT !.state = "Cancelled"]

Consume(p) == [p EXCEPT !.consumed = TRUE]

Message == [token : Tokens, event : {"purchased", "cancelled"}]

Task == [kind : {"grant", "revoke"}, order : Orders, rewards : Rewards \cup {NoReward}]

PC == {"idle", "find", "insert", "reply", "scan", "reread", "close", "pulled",
       "query", "lock", "bind", "load", "snapshot", "grant", "purchase",
       "complete", "cancel", "revoke", "refund", "done"}

\* Local variables of a handler.  tp, charged and consumed are Google's answer
\* to QueryOrder; rewards is what the handler will store or enqueue.
Job ==
    [pc : PC,
     uid : Users \cup {NoUser}, product : Products \cup {NoProduct},
     order : Orders \cup {NoOrder}, token : Tokens \cup {NoToken},
     rewards : Rewards \cup {NoReward},
     tp : TPStatus, charged : BOOLEAN, consumed : BOOLEAN,
     batch : SUBSET Orders,
     msg : SUBSET Message, msgs : SUBSET Message, acks : SUBSET Message]

NoJob ==
    [pc |-> "idle", uid |-> NoUser, product |-> NoProduct, order |-> NoOrder,
     token |-> NoToken, rewards |-> NoReward,
     tp |-> "None", charged |-> FALSE, consumed |-> FALSE,
     batch |-> {}, msg |-> {}, msgs |-> {}, acks |-> {}]

-----------------------------------------------------------------------------
(* What a handler remembers after each of its calls *)

At(j, pc) == [j EXCEPT !.pc = pc]

Creating(u, p, r) ==
    [NoJob EXCEPT !.pc = "find", !.uid = u, !.product = p, !.rewards = r]

Uploading(u, t) == [NoJob EXCEPT !.pc = "query", !.uid = u, !.token = t]

Scanning(S) == [NoJob EXCEPT !.pc = "scan", !.batch = S]

Visiting(o, u, S) ==
    [NoJob EXCEPT !.pc = "reread", !.order = o, !.uid = u, !.batch = S]

Pulled(S, A) == [NoJob EXCEPT !.pc = "pulled", !.msgs = S, !.acks = A]

Handling(m, S, A) ==
    [NoJob EXCEPT !.pc = "query", !.token = m.token, !.msg = {m}, !.msgs = S, !.acks = A]

WithOrder(j, o) == [j EXCEPT !.pc = "reply", !.order = o]

WithToken(j, t) == [j EXCEPT !.pc = "query", !.token = t]

WithAnswer(j, pc, u, p) ==
    [j EXCEPT !.pc = pc, !.uid = u, !.order = p.order, !.tp = p.state,
              !.charged = p.charged, !.consumed = p.consumed]

WithRewards(j, pc, r) ==
    [j EXCEPT !.pc = pc, !.rewards = r, !.tp = "None", !.charged = FALSE]

-----------------------------------------------------------------------------
TypeOK ==
    /\ orders \in [Orders -> OrderRow]
    /\ issued \subseteq Orders
    /\ tokens \in [Tokens -> Purchase]
    /\ rtdn \subseteq Message
    /\ lock \in [LockKeys -> Workers \cup {NoWorker}]
    /\ job \in [Workers -> Job]
    /\ queue \subseteq Task
    /\ granted \in [Orders -> Rewards \cup {NoReward}]
    /\ revoked \in [Orders -> Rewards \cup {NoReward}]
    /\ config \in [Products -> Rewards \cup {NoReward}]
    /\ reloads \in 0 .. MaxReloads
    /\ faults \in 0 .. MaxFaults

Init ==
    /\ orders = [o \in Orders |-> NoRow]
    /\ issued = {}
    /\ tokens = [t \in Tokens |-> NoPurchase]
    /\ rtdn = {}
    /\ lock = [k \in LockKeys |-> NoWorker]
    /\ job = [w \in Workers |-> NoJob]
    /\ queue = {}
    /\ granted = [o \in Orders |-> NoReward]
    /\ revoked = [o \in Orders |-> NoReward]
    /\ config \in [Products -> Configs]
    /\ reloads = 0
    /\ faults = 0

-----------------------------------------------------------------------------
(* Redis leases *)

\* LockUser computes the key from the Uid of the request header, which only
\* the handler behind it fills in: the key is that of uid 0 for every player.
LockUserKey(u) == Uid0

\* The leases worker w believes it holds.
Holds(w) ==
    LET j == job[w] IN
    IF j.pc = "idle" THEN {}
    ELSE IF w \in Clients THEN {LockUserKey(j.uid)}
    ELSE IF w \in Crons THEN {ScanKey} \cup (IF j.pc = "scan" THEN {} ELSE {j.uid})
    ELSE IF j.pc \in {"pulled", "query", "lock"} THEN {} ELSE {j.uid}

\* Unlock deletes a key only if it still carries the caller's lease.
Release(w, keys) ==
    [k \in LockKeys |-> IF k \in keys /\ lock[k] = w THEN NoWorker ELSE lock[k]]

\* SET without NX.
AcquireAnyway(w, key) == lock' = [lock EXCEPT ![key] = w]

Acquire(w, key) ==
    /\ lock[key] = NoWorker
    /\ lock' = [lock EXCEPT ![key] = w]

-----------------------------------------------------------------------------
(* How a handler moves on and how it returns *)

Goto(w, pc) == job' = [job EXCEPT ![w] = At(@, pc)]

\* Leave that acknowledges the message whether or not it was handled.
LeaveAcknowledged(w, ok) ==
    LET j == job[w] IN
    /\ lock' = Release(w, Holds(w) \ {ScanKey})
    /\ job' = [job EXCEPT ![w] =
           IF w \in Clients THEN NoJob
           ELSE IF w \in Crons THEN Scanning(j.batch)
           ELSE Pulled(j.msgs, j.acks \cup j.msg)]

\* The handler is through with its order: the client request ends, the scan
\* turns to the next order, the puller to the next message, which it will
\* acknowledge only if this one was handled without an error.
Leave(w, ok) ==
    LET j == job[w] IN
    /\ lock' = Release(w, Holds(w) \ {ScanKey})
    /\ job' = [job EXCEPT ![w] =
           IF w \in Clients THEN NoJob
           ELSE IF w \in Crons THEN Scanning(j.batch)
           ELSE Pulled(j.msgs, j.acks \cup (IF ok THEN j.msg ELSE {}))]

\* ... with an error, which the timeout scan counts in retry_times unless it
\* comes from the two statements of its own.
Error(w) ==
    /\ Leave(w, FALSE)
    /\ orders' = IF w \in Crons /\ job[w].pc \notin {"reread", "close"}
                 THEN [orders EXCEPT ![job[w].order] = AddRetryTimes(@)]
                 ELSE orders
    /\ UNCHANGED <<issued, tokens, rtdn, queue, granted, revoked, config, reloads>>

\* A panic unwinds the whole handler; the deferred unlocks run.
Panic(w) ==
    /\ lock' = Release(w, Holds(w))
    /\ job' = [job EXCEPT ![w] = NoJob]
    /\ UNCHANGED <<orders, issued, tokens, rtdn, queue, granted, revoked, config, reloads>>

-----------------------------------------------------------------------------
(* create_order *)

StartCreateOrder(w, u, p) ==
    /\ job[w].pc = "idle"
    /\ config[p] # NoReward
    /\ Acquire(w, LockUserKey(u))
    /\ job' = [job EXCEPT ![w] = Creating(u, p, config[p])]
    /\ UNCHANGED <<orders, issued, tokens, rtdn, queue, granted, revoked, config, reloads, faults>>

PendingOrders(u, p) ==
    {o \in Orders : orders[o].status = "Pending" /\ orders[o].uid = u /\ orders[o].product = p}

\* FindPendingOrder: the newest Pending order is used again, whatever
\* credential it is already bound to.
FindPendingOrder(w) ==
    LET j == job[w]
        pending == PendingOrders(j.uid, j.product) IN
    /\ j.pc = "find"
    /\ \/ /\ pending = {}
          /\ Goto(w, "insert")
       \/ \E o \in pending :
             /\ \A x \in pending : x <= o
             /\ job' = [job EXCEPT ![w] = WithOrder(@, o)]
    /\ UNCHANGED <<orders, issued, tokens, rtdn, lock, queue, granted, revoked, config, reloads, faults>>

\* With every key of Orders in use (a bound of the model) the insert fails.
InsertOrder(w) ==
    LET j == job[w]
        free == {o \in Orders : orders[o].status = "None"} IN
    /\ j.pc = "insert"
    /\ \/ \E o \in free :
             /\ \A x \in free : o <= x
             /\ orders' = [orders EXCEPT ![o] = CreateOrder(j.uid, j.product, j.rewards)]
             /\ job' = [job EXCEPT ![w] = WithOrder(@, o)]
             /\ UNCHANGED <<issued, tokens, rtdn, lock, queue, granted, revoked, config, reloads>>
       \/ free = {} /\ Error(w)
    /\ UNCHANGED faults

ReplyCreateOrder(w) ==
    /\ job[w].pc = "reply"
    /\ issued' = issued \cup {job[w].order}
    /\ Leave(w, TRUE)
    /\ UNCHANGED <<orders, tokens, rtdn, queue, granted, revoked, config, reloads, faults>>

-----------------------------------------------------------------------------
(* upload_receipt: any player logged in on the device may upload the token *)

StartUploadReceipt(w, u, t) ==
    /\ job[w].pc = "idle"
    /\ tokens[t].state # "None"
    /\ Acquire(w, LockUserKey(u))
    /\ job' = [job EXCEPT ![w] = Uploading(u, t)]
    /\ UNCHANGED <<orders, issued, tokens, rtdn, queue, granted, revoked, config, reloads, faults>>

-----------------------------------------------------------------------------
(* The timeout scan *)

ExpiredOrders == {o \in Orders : ExpiredPending(orders[o])}

\* FindExpiredPendingOrders: the first ExpiredOrderBatch of them by id.
IsBatch(S) ==
    /\ S \subseteq ExpiredOrders
    /\ \A x \in S, y \in ExpiredOrders \ S : x < y
    /\ S = ExpiredOrders \/ Cardinality(S) = ExpiredOrderBatch
    /\ Cardinality(S) <= ExpiredOrderBatch

CheckExpiredPendingOrders(w) ==
    /\ job[w].pc = "idle"
    /\ Acquire(w, ScanKey)
    /\ \E S \in SUBSET ExpiredOrders :
          /\ IsBatch(S)
          /\ job' = [job EXCEPT ![w] = Scanning(S)]
    /\ UNCHANGED <<orders, issued, tokens, rtdn, queue, granted, revoked, config, reloads, faults>>

\* The loop ends with the list, or early when the scan's own lease is lost.
EndScan(w) ==
    /\ job[w].pc = "scan"
    /\ job[w].batch = {} \/ lock[ScanKey] # w
    /\ lock' = Release(w, {ScanKey})
    /\ job' = [job EXCEPT ![w] = NoJob]
    /\ UNCHANGED <<orders, issued, tokens, rtdn, queue, granted, revoked, config, reloads, faults>>

\* One iteration starts: TryLock on the player, skipping the order if it is taken.
ScanNext(w) ==
    LET j == job[w] IN
    /\ j.pc = "scan"
    /\ lock[ScanKey] = w
    /\ \E o \in j.batch :
          /\ \A x \in j.batch : o <= x
          /\ \/ /\ Acquire(w, orders[o].uid)
                /\ job' = [job EXCEPT ![w] = Visiting(o, orders[o].uid, j.batch \ {o})]
             \/ /\ lock[orders[o].uid] # NoWorker
                /\ job' = [job EXCEPT ![w] = Scanning(j.batch \ {o})]
                /\ UNCHANGED lock
    /\ UNCHANGED <<orders, issued, tokens, rtdn, queue, granted, revoked, config, reloads, faults>>

\* The scan that leaves an order without a credential alone.
RereadBoundOrder(w) ==
    LET j == job[w]
        row == orders[j.order] IN
    /\ j.pc = "reread"
    /\ \/ ~(ExpiredPending(row) /\ row.cred # NoToken) /\ Leave(w, TRUE)
       \/ /\ ExpiredPending(row) /\ row.cred # NoToken
          /\ job' = [job EXCEPT ![w] = WithToken(@, row.cred)]
          /\ UNCHANGED lock
    /\ UNCHANGED <<orders, issued, tokens, rtdn, queue, granted, revoked, config, reloads, faults>>

\* GetExpiredPendingOrder under the lock; an order without a credential is closed.
RereadOrder(w) ==
    LET j == job[w]
        row == orders[j.order] IN
    /\ j.pc = "reread"
    /\ \/ ~ExpiredPending(row) /\ Leave(w, TRUE)
       \/ ExpiredPending(row) /\ row.cred = NoToken /\ Goto(w, "close") /\ UNCHANGED lock
       \/ /\ ExpiredPending(row) /\ row.cred # NoToken
          /\ job' = [job EXCEPT ![w] = WithToken(@, row.cred)]
          /\ UNCHANGED lock
    /\ UNCHANGED <<orders, issued, tokens, rtdn, queue, granted, revoked, config, reloads, faults>>

CloseOrder(w) ==
    /\ job[w].pc = "close"
    /\ orders' = [orders EXCEPT ![job[w].order] = MarkOrderTimeout(@)]
    /\ Leave(w, TRUE)
    /\ UNCHANGED <<issued, tokens, rtdn, queue, granted, revoked, config, reloads, faults>>

-----------------------------------------------------------------------------
(* The RTDN puller *)

CheckGoogleRTDN(w) ==
    /\ job[w].pc = "idle"
    /\ \E S \in SUBSET rtdn \ {{}} :
          job' = [job EXCEPT ![w] = Pulled(S, {})]
    /\ UNCHANGED <<orders, issued, tokens, rtdn, lock, queue, granted, revoked, config, reloads, faults>>

HandleRTDN(w) ==
    LET j == job[w] IN
    /\ j.pc = "pulled"
    /\ \E m \in j.msgs :
          job' = [job EXCEPT ![w] = Handling(m, j.msgs \ {m}, j.acks)]
    /\ UNCHANGED <<orders, issued, tokens, rtdn, lock, queue, granted, revoked, config, reloads, faults>>

Acknowledge(w) ==
    /\ job[w].pc = "pulled" /\ job[w].msgs = {}
    /\ rtdn' = rtdn \ job[w].acks
    /\ job' = [job EXCEPT ![w] = NoJob]
    /\ UNCHANGED <<orders, issued, tokens, lock, queue, granted, revoked, config, reloads, faults>>

\* The puller takes the player's lock after it has queried Google.
LockOrderUser(w) ==
    LET u == job[w].uid IN
    /\ job[w].pc = "lock"
    /\ \/ /\ Acquire(w, u)
          /\ Goto(w, "bind")
          /\ UNCHANGED <<orders, issued, tokens, rtdn, queue, granted, revoked, config, reloads>>
       \/ lock[u] # NoWorker /\ Error(w)
    /\ UNCHANGED faults

-----------------------------------------------------------------------------
(* What the three callers share: query Google, bind, decide *)

\* GoogleChannel.QueryOrder.  The puller learns the player from the answer.
QueryOrder(w) ==
    LET j == job[w]
        p == tokens[j.token] IN
    /\ j.pc = "query"
    /\ job' = [job EXCEPT ![w] =
                  IF w \in Pullers THEN WithAnswer(@, "lock", orders[p.order].uid, p)
                                   ELSE WithAnswer(@, "bind", j.uid, p)]
    /\ UNCHANGED <<orders, issued, tokens, rtdn, lock, queue, granted, revoked, config, reloads, faults>>

\* FindOrBind that takes the player's Pending order instead of the sealed one.
BindPendingOrder(w) ==
    LET j == job[w] IN
    /\ j.pc = "bind"
    /\ \/ \E o \in PendingOrders(j.uid, tokens[j.token].product) :
             /\ orders' = [orders EXCEPT ![o] = BindOrder(@, j.token, j.charged)]
             /\ job' = [job EXCEPT ![w] = At([@ EXCEPT !.order = o], "load")]
             /\ UNCHANGED <<issued, tokens, rtdn, lock, queue, granted, revoked, config, reloads>>
       \/ PendingOrders(j.uid, tokens[j.token].product) = {} /\ Error(w)
    /\ UNCHANGED faults

\* GoogleChannel.FindOrBind and the UPDATE of FindAndBindOrder: the purchase
\* must be the caller's own.
FindOrBind(w) ==
    LET j == job[w] IN
    /\ j.pc = "bind"
    /\ \/ /\ orders[j.order].uid = j.uid
          /\ orders' = [orders EXCEPT ![j.order] = BindOrder(@, j.token, j.charged)]
          /\ Goto(w, "load")
          /\ UNCHANGED <<issued, tokens, rtdn, lock, queue, granted, revoked, config, reloads>>
       \/ orders[j.order].uid # j.uid /\ Error(w)
    /\ UNCHANGED faults

\* The table of ProcessOrderWithoutLock: the step that the pair of internal
\* and third party status leads to, one operator per internal status.  "done"
\* returns without doing anything, "rejected" returns an error.

\* A purchase that is not paid yet is treated as declined, or as paid.
DeclineUnpaid(tp) == IF tp = "Purchased" THEN "snapshot" ELSE "cancel"

GrantUnpaid(tp) == IF tp = "Cancelled" THEN "cancel" ELSE "snapshot"

PendingOrder(tp) ==
    CASE tp = "Pending"   -> "waiting"
      [] tp = "Purchased" -> "snapshot"
      [] tp = "Cancelled" -> "cancel"
      [] OTHER            -> "rejected"

\* The row is marked refunded and the revocation forgotten.
RefundOnly(tp) ==
    CASE tp = "Purchased" -> "complete" [] tp = "Cancelled" -> "refund" [] OTHER -> "done"

PurchasedOrder(tp) ==
    CASE tp = "Pending"   -> "done"
      [] tp = "Purchased" -> "complete"
      [] tp = "Cancelled" -> "revoke"
      [] OTHER            -> "rejected"

\* A purchase paid after the timeout is consumed and not delivered.
ConsumeLate(reason, tp) == IF tp = "Purchased" THEN "complete" ELSE "done"

CancelledOrder(reason, tp) ==
    CASE tp = "Purchased" -> IF reason = "timeout" THEN "snapshot" ELSE "rejected"
      [] tp \in {"Pending", "Cancelled"} -> "done"
      [] OTHER            -> "rejected"

ProcessOrder(status, reason, tp) ==
    CASE status = "Pending"   -> PendingOrder(tp)
      [] status = "Purchased" -> PurchasedOrder(tp)
      [] status = "Cancelled" -> CancelledOrder(reason, tp)
      [] OTHER                -> "rejected"

\* The answer is for this row and its product; a mutant forgets the product.
AnyProduct(row, j) == BoundTo(row, j.token, j.charged)

Matches(row, j) ==
    BoundTo(row, j.token, j.charged) /\ tokens[j.token].product = row.product

\* FindAndBindOrder reads the row back and checks it, the caller compares the
\* product, and ProcessOrderWithoutLock decides on the row as read here.  A
\* purchase that is still Pending closes the order in the timeout scan and is
\* an error for the other two callers.  Of Google's answer only "consumed" is
\* looked at after this.
LoadOrder(w) ==
    LET j == job[w]
        row == orders[j.order]
        step == ProcessOrder(row.status, row.reason, j.tp)
        next == IF step = "waiting" THEN "close" ELSE step IN
    /\ j.pc = "load"
    /\ \/ /\ Matches(row, j)
          /\ step # "rejected" /\ (step = "waiting" => w \in Crons)
          /\ job' = [job EXCEPT ![w] = WithRewards(@, next, row.rewards)]
          /\ UNCHANGED <<orders, issued, tokens, rtdn, lock, queue, granted, revoked, config, reloads>>
       \/ /\ ~Matches(row, j) \/ step = "rejected" \/ (step = "waiting" /\ w \notin Crons)
          /\ Error(w)
    /\ UNCHANGED faults

-----------------------------------------------------------------------------
(* The pipelines *)

\* stepGrantRewards that has nothing to grant when the product is gone.
SnapshotIfSold(w) ==
    LET j == job[w]
        r == config[orders[j.order].product] IN
    /\ j.pc = "snapshot"
    /\ job' = [job EXCEPT ![w] = WithRewards(@, IF r = NoReward THEN "purchase" ELSE "grant", r)]
    /\ UNCHANGED <<orders, issued, tokens, rtdn, lock, queue, granted, revoked, config, reloads, faults>>

\* stepGrantRewards, first half: the rewards of the configuration in force
\* now replace the snapshot taken when the order was created.
SnapshotRewards(w) ==
    LET j == job[w]
        r == config[orders[j.order].product] IN
    /\ j.pc = "snapshot"
    /\ \/ /\ r # NoReward
          /\ orders' = [orders EXCEPT ![j.order] = UpdateOrderRewards(@, r)]
          /\ job' = [job EXCEPT ![w] = WithRewards(@, "grant", r)]
          /\ UNCHANGED <<issued, tokens, rtdn, lock, queue, granted, revoked, config, reloads>>
       \/ r = NoReward /\ Error(w)
    /\ UNCHANGED faults

\* asynqx.Enqueue.  The task id is derived from the order, so a second task
\* of the kind is refused while the first one has not completed; Enqueue lets
\* that error (ErrTaskIDConflict) through.  Without InitClient the client is
\* nil and the call panics.
TaskPending(kind, o) == \E task \in queue : task.kind = kind /\ task.order = o

\* Enqueue whose error is dropped by the caller.
EnqueueUnchecked(w, kind, next) ==
    LET j == job[w] IN
    /\ queue' = IF w \in QueueClients /\ ~TaskPending(kind, j.order)
                THEN queue \cup {[kind |-> kind, order |-> j.order, rewards |-> j.rewards]}
                ELSE queue
    /\ Goto(w, next)
    /\ UNCHANGED <<orders, issued, tokens, rtdn, lock, granted, revoked, config, reloads, faults>>

Enqueue(w, kind, next) ==
    LET j == job[w] IN
    /\ \/ /\ w \in QueueClients /\ ~TaskPending(kind, j.order)
          /\ queue' = queue \cup {[kind |-> kind, order |-> j.order, rewards |-> j.rewards]}
          /\ Goto(w, next)
          /\ UNCHANGED <<orders, issued, tokens, rtdn, lock, granted, revoked, config, reloads>>
       \/ w \in QueueClients /\ TaskPending(kind, j.order) /\ Error(w)
       \/ w \notin QueueClients /\ Panic(w)
    /\ UNCHANGED faults

EnqueueGrant(w) == job[w].pc = "grant" /\ Enqueue(w, "grant", "purchase")

EnqueueRevoke(w) == job[w].pc = "revoke" /\ Enqueue(w, "revoke", "refund")

\* A conditional status change; no row affected is an error.
MarkPurchased(w) ==
    LET o == job[w].order IN
    /\ job[w].pc = "purchase"
    /\ \/ /\ Purchasable(orders[o])
          /\ orders' = [orders EXCEPT ![o] = MarkOrderPurchased(@)]
          /\ Goto(w, "complete")
          /\ UNCHANGED <<issued, tokens, rtdn, lock, queue, granted, revoked, config, reloads>>
       \/ ~Purchasable(orders[o]) /\ Error(w)
    /\ UNCHANGED faults

MarkCancelled(w) ==
    LET o == job[w].order IN
    /\ job[w].pc = "cancel"
    /\ \/ /\ Cancellable(orders[o])
          /\ orders' = [orders EXCEPT ![o] = MarkOrderCancelled(@)]
          /\ Goto(w, "done")
          /\ UNCHANGED <<issued, tokens, rtdn, lock, queue, granted, revoked, config, reloads>>
       \/ ~Cancellable(orders[o]) /\ Error(w)
    /\ UNCHANGED faults

MarkRefunded(w) ==
    LET o == job[w].order IN
    /\ job[w].pc = "refund"
    /\ \/ /\ Refundable(orders[o])
          /\ orders' = [orders EXCEPT ![o] = MarkOrderRefunded(@)]
          /\ Goto(w, "done")
          /\ UNCHANGED <<issued, tokens, rtdn, lock, queue, granted, revoked, config, reloads>>
       \/ ~Refundable(orders[o]) /\ Error(w)
    /\ UNCHANGED faults

\* GoogleChannel.Complete: nothing to do if the answer already said consumed;
\* Google refuses to consume what is consumed or not purchased, and the code
\* asks again whether it is consumed before it reports the error.
CompletePurchase(w) ==
    LET j == job[w]
        p == tokens[j.token] IN
    /\ j.pc = "complete"
    /\ \/ /\ j.consumed \/ p.consumed
          /\ Goto(w, "done")
          /\ UNCHANGED <<orders, issued, tokens, rtdn, lock, queue, granted, revoked, config, reloads>>
       \/ /\ ~j.consumed /\ ~p.consumed /\ p.state = "Purchased"
          /\ tokens' = [tokens EXCEPT ![j.token] = Consume(@)]
          /\ Goto(w, "done")
          /\ UNCHANGED <<orders, issued, rtdn, lock, queue, granted, revoked, config, reloads>>
       \/ /\ ~j.consumed /\ ~p.consumed /\ p.state # "Purchased"
          /\ Error(w)
    /\ UNCHANGED faults

ReturnOK(w) ==
    /\ job[w].pc = "done"
    /\ Leave(w, TRUE)
    /\ UNCHANGED <<orders, issued, tokens, rtdn, queue, granted, revoked, config, reloads, faults>>

-----------------------------------------------------------------------------
(* The asynq server runs a task at least once: a worker may die after the  *)
(* items transaction has committed and before the task is removed.         *)

TaskEnds(task) == queue' \in {queue, queue \ {task}}

\* processGrantTask that gives up on the first failure.
GrantTaskSkipsRetry(task) ==
    /\ task.kind = "grant"
    /\ queue' = queue \ {task}
    /\ UNCHANGED <<orders, issued, tokens, rtdn, lock, job, granted, revoked, config, reloads, faults>>

\* processGrantTask: AddItems writes the nonce and the items in one
\* transaction and does nothing if the nonce is there.
ProcessGrantTask(task) ==
    /\ task.kind = "grant"
    /\ granted' = IF granted[task.order] = NoReward
                  THEN [granted EXCEPT ![task.order] = task.rewards]
                  ELSE granted
    /\ TaskEnds(task)
    /\ UNCHANGED <<orders, issued, tokens, rtdn, lock, job, revoked, config, reloads, faults>>

\* processRevokeTask that does not look for the grant nonce.
RevokeUngranted(task) ==
    /\ task.kind = "revoke"
    /\ revoked' = [revoked EXCEPT ![task.order] = task.rewards]
    /\ TaskEnds(task)
    /\ UNCHANGED <<orders, issued, tokens, rtdn, lock, job, granted, config, reloads, faults>>

\* processRevokeTask: until the grant nonce exists RevokeItems fails and the
\* task is retried.
ProcessRevokeTask(task) ==
    /\ task.kind = "revoke"
    /\ granted[task.order] # NoReward
    /\ revoked' = IF revoked[task.order] = NoReward
                  THEN [revoked EXCEPT ![task.order] = task.rewards]
                  ELSE revoked
    /\ TaskEnds(task)
    /\ UNCHANGED <<orders, issued, tokens, rtdn, lock, job, granted, config, reloads, faults>>

-----------------------------------------------------------------------------
(* Google Play *)

Live(p) == p.state = "Pending" \/ (p.state = "Purchased" /\ ~p.consumed)

\* The player buys a product for an order create_order has returned.  Google
\* sells a product again only once the earlier purchase is consumed or over.
StartPurchase(t, o, p) ==
    /\ o \in issued
    /\ tokens[t].state = "None"
    /\ \A x \in Tokens : Live(tokens[x]) =>
          ~(tokens[x].product = p /\ orders[tokens[x].order].uid = orders[o].uid)
    /\ tokens' = [tokens EXCEPT ![t] = Buy(o, p)]
    /\ UNCHANGED <<orders, issued, rtdn, lock, job, queue, granted, revoked, config, reloads, faults>>

GooglePurchased(t) ==
    /\ tokens[t].state = "Pending"
    /\ tokens' = [tokens EXCEPT ![t] = Charge(@)]
    /\ rtdn' = rtdn \cup {[token |-> t, event |-> "purchased"]}
    /\ UNCHANGED <<orders, issued, lock, job, queue, granted, revoked, config, reloads, faults>>

\* Declined, cancelled or refunded.
GoogleCancelled(t) ==
    /\ tokens[t].state \in {"Pending", "Purchased"}
    /\ Cardinality({x \in Tokens : tokens[x].state = "Cancelled"}) < MaxCancels
    /\ tokens' = [tokens EXCEPT ![t] = Cancel(@)]
    /\ rtdn' = rtdn \cup {[token |-> t, event |-> "cancelled"]}
    /\ UNCHANGED <<orders, issued, lock, job, queue, granted, revoked, config, reloads, faults>>

-----------------------------------------------------------------------------
(* Time, configuration and failures *)

\* pendingOrderTimeout passes; only Pending orders ever look at their age.
OrderExpires(o) ==
    /\ orders[o].status = "Pending" /\ ~orders[o].expired
    /\ orders' = [orders EXCEPT ![o] = Age(@)]
    /\ UNCHANGED <<issued, tokens, rtdn, lock, job, queue, granted, revoked, config, reloads, faults>>

\* The watched configuration value changes.
ReloadConfig(p, r) ==
    /\ reloads < MaxReloads /\ r # config[p]
    /\ config' = [config EXCEPT ![p] = r]
    /\ reloads' = reloads + 1
    /\ UNCHANGED <<orders, issued, tokens, rtdn, lock, job, queue, granted, revoked, faults>>

\* The call a handler is about to make fails, or the call it has just made
\* took effect but reported an error, or its context is over.
Fail(w) ==
    /\ faults < MaxFaults
    /\ faults' = faults + 1
    /\ \/ job[w].pc \notin {"idle", "scan", "pulled"} /\ Error(w)
       \/ job[w].pc = "scan" /\ Panic(w)
       \/ job[w].pc = "pulled" /\ job[w].msgs = {} /\ Panic(w)

\* The process dies: its local state is gone, its leases stay for a while.
Crash(w) ==
    /\ faults < MaxFaults
    /\ job[w].pc # "idle"
    /\ faults' = faults + 1
    /\ job' = [job EXCEPT ![w] = NoJob]
    /\ UNCHANGED <<orders, issued, tokens, rtdn, lock, queue, granted, revoked, config, reloads>>

\* A lease whose holder has gone runs out.
OrphanLeaseExpires(k) ==
    /\ lock[k] # NoWorker
    /\ k \notin Holds(lock[k])
    /\ lock' = [lock EXCEPT ![k] = NoWorker]
    /\ UNCHANGED <<orders, issued, tokens, rtdn, job, queue, granted, revoked, config, reloads, faults>>

\* A lease runs out although its holder is at work: the holder was paused or
\* could not reach Redis to renew it.
LeaseLost(k) ==
    /\ faults < MaxFaults
    /\ lock[k] # NoWorker
    /\ k \in Holds(lock[k])
    /\ faults' = faults + 1
    /\ lock' = [lock EXCEPT ![k] = NoWorker]
    /\ UNCHANGED <<orders, issued, tokens, rtdn, job, queue, granted, revoked, config, reloads>>

-----------------------------------------------------------------------------
ClientStart(w) ==
    \E u \in Users :
        \/ \E p \in Products : StartCreateOrder(w, u, p)
        \/ \E t \in Tokens : StartUploadReceipt(w, u, t)

ClientStep(w) == FindPendingOrder(w) \/ InsertOrder(w) \/ ReplyCreateOrder(w)

CronStep(w) == EndScan(w) \/ ScanNext(w) \/ RereadOrder(w) \/ CloseOrder(w)

PullerStep(w) == HandleRTDN(w) \/ Acknowledge(w) \/ LockOrderUser(w)

OrderStep(w) ==
    \/ QueryOrder(w) \/ FindOrBind(w) \/ LoadOrder(w)
    \/ SnapshotRewards(w) \/ EnqueueGrant(w) \/ MarkPurchased(w) \/ CompletePurchase(w)
    \/ MarkCancelled(w) \/ EnqueueRevoke(w) \/ MarkRefunded(w) \/ ReturnOK(w)

\* A handler that has started takes its next step.
Step(w) ==
    \/ w \in Clients /\ ClientStep(w)
    \/ w \in Crons /\ CronStep(w)
    \/ w \in Pullers /\ PullerStep(w)
    \/ OrderStep(w)

RunTask == \E task \in queue : ProcessGrantTask(task) \/ ProcessRevokeTask(task)

Google ==
    \E t \in Tokens :
        \/ \E o \in Orders, p \in Products : StartPurchase(t, o, p)
        \/ GooglePurchased(t)
        \/ GoogleCancelled(t)

Environment ==
    \/ \E o \in Orders : OrderExpires(o)
    \/ \E p \in Products, r \in Configs : ReloadConfig(p, r)
    \/ \E w \in Workers : Fail(w) \/ Crash(w)
    \/ \E k \in LockKeys : OrphanLeaseExpires(k) \/ LeaseLost(k)

Next ==
    \/ \E w \in Clients : ClientStart(w)
    \/ \E w \in Crons : CheckExpiredPendingOrders(w)
    \/ \E w \in Pullers : CheckGoogleRTDN(w)
    \/ \E w \in Workers : Step(w)
    \/ RunTask
    \/ Google
    \/ Environment

Spec == Init /\ [][Next]_vars

\* Handlers that have started run on, the two cron entries fire again and
\* again, the task server retries every task that can succeed, and the lease
\* of a dead process runs out.  Players and Google owe nothing.
CompleteTask(kind, o) ==
    \E task \in queue :
        /\ task.kind = kind /\ task.order = o
        /\ ProcessGrantTask(task) \/ ProcessRevokeTask(task)
        /\ queue' = queue \ {task}

\* A worker other than a client starts again whenever it is idle.
Proceed(w) ==
    \/ Step(w)
    \/ w \in Crons /\ CheckExpiredPendingOrders(w)
    \/ w \in Pullers /\ CheckGoogleRTDN(w)

Fairness ==
    /\ \A w \in Workers : WF_vars(Proceed(w))
    /\ \A kind \in {"grant", "revoke"}, o \in Orders : WF_vars(CompleteTask(kind, o))
    /\ WF_vars(\E k \in LockKeys : OrphanLeaseExpires(k))

FairSpec == Spec /\ Fairness

=============================================================================
