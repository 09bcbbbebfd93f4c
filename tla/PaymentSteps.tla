---------------------------- MODULE PaymentSteps ----------------------------
(***************************************************************************)
(* What the operators of the payment model return (job records, rows of    *)
(* the order table, purchases, the ways a handler returns), and that the   *)
(* inductive invariant is kept by the steps that change no row of the      *)
(* order table beyond its age and retry counter and by the statements that *)
(* take an order from Created to purchased.                                *)
(***************************************************************************)
EXTENDS PaymentProperties, TLAPS

-----------------------------------------------------------------------------
(* What the operators on rows, purchases and jobs return *)

\* A handler that starts: nothing is remembered but what it was called with.
LEMMA StartingJobs ==
    /\ NoJob \in Job /\ NoJob.pc = "idle" /\ NoJob.msgs = {}
    /\ \A u \in Users, p \in Products, r \in Rewards \cup {NoReward} :
          /\ Creating(u, p, r) \in Job
          /\ Creating(u, p, r).pc = "find" /\ Creating(u, p, r).msgs = {}
          /\ Creating(u, p, r).product = p /\ Creating(u, p, r).rewards = r
    /\ \A u \in Users, t \in Tokens :
          /\ Uploading(u, t) \in Job
          /\ Uploading(u, t).pc = "query" /\ Uploading(u, t).msgs = {}
          /\ Uploading(u, t).token = t
<1>1. NoJob \in Job /\ NoJob.pc = "idle" /\ NoJob.msgs = {}
  BY Zenon DEF NoJob, Job, PC, TPStatus
<1>2. ASSUME NEW u \in Users, NEW p \in Products, NEW r \in Rewards \cup {NoReward}
      PROVE  /\ Creating(u, p, r) \in Job
             /\ Creating(u, p, r).pc = "find" /\ Creating(u, p, r).msgs = {}
             /\ Creating(u, p, r).product = p /\ Creating(u, p, r).rewards = r
  BY Zenon DEF Creating, NoJob, Job, PC, TPStatus
<1>3. ASSUME NEW u \in Users, NEW t \in Tokens
      PROVE  /\ Uploading(u, t) \in Job
             /\ Uploading(u, t).pc = "query" /\ Uploading(u, t).msgs = {}
             /\ Uploading(u, t).token = t
  BY Zenon DEF Uploading, NoJob, Job, PC, TPStatus
<1> QED
  BY <1>1, <1>2, <1>3, Zenon

\* The timeout scan between two orders ...   
LEMMA ScanJobs ==
    ASSUME NEW S \in SUBSET Orders
    PROVE  Scanning(S) \in Job /\ Scanning(S).pc = "scan" /\ Scanning(S).msgs = {}
BY Zenon DEF Scanning, NoJob, Job, PC, TPStatus

\* ... and at the start of one.
LEMMA VisitJob ==
    ASSUME NEW S \in SUBSET Orders, NEW o \in Orders, NEW u \in Users \cup {NoUser}
    PROVE  /\ Visiting(o, u, S) \in Job /\ Visiting(o, u, S).order = o
           /\ Visiting(o, u, S).pc = "reread" /\ Visiting(o, u, S).msgs = {}
BY Zenon DEF Visiting, NoJob, Job, PC, TPStatus

\* The puller between two messages and at the start of one.
LEMMA PullJobs ==
    ASSUME NEW S \in SUBSET Message, NEW A \in SUBSET Message
    PROVE  /\ Pulled(S, A) \in Job /\ Pulled(S, A).pc = "pulled" /\ Pulled(S, A).msgs = S
           /\ \A m \in Message :
                 /\ Handling(m, S, A) \in Job
                 /\ Handling(m, S, A).pc = "query" /\ Handling(m, S, A).msgs = S
                 /\ Handling(m, S, A).token = m.token
<1>1. Pulled(S, A) \in Job /\ Pulled(S, A).pc = "pulled" /\ Pulled(S, A).msgs = S
  BY Zenon DEF Pulled, NoJob, Job, PC, TPStatus
<1>2. ASSUME NEW m \in Message
      PROVE  /\ Handling(m, S, A) \in Job
             /\ Handling(m, S, A).pc = "query" /\ Handling(m, S, A).msgs = S
             /\ Handling(m, S, A).token = m.token
  <2>1. m.token \in Tokens /\ {m} \in SUBSET Message
    BY Zenon DEF Message
  <2> QED
    BY <2>1, Zenon DEF Handling, NoJob, Job, PC, TPStatus
<1> QED
  BY <1>1, <1>2, Zenon

\* A handler that moves on changes its program point and keeps the rest.
LEMMA AtJob ==
    ASSUME NEW j \in Job, NEW pc \in PC
    PROVE  /\ At(j, pc) \in Job /\ At(j, pc).pc = pc
           /\ At(j, pc).order = j.order /\ At(j, pc).token = j.token
           /\ At(j, pc).rewards = j.rewards /\ At(j, pc).product = j.product
           /\ At(j, pc).tp = j.tp /\ At(j, pc).msgs = j.msgs
BY Zenon DEF At, Job

\* create_order has found or inserted its order.
LEMMA WithOrderJob ==
    ASSUME NEW j \in Job, NEW o \in Orders
    PROVE  /\ WithOrder(j, o) \in Job /\ WithOrder(j, o).pc = "reply"
           /\ WithOrder(j, o).order = o /\ WithOrder(j, o).msgs = j.msgs
BY Zenon DEF WithOrder, Job, PC

\* The timeout scan turns to the purchase its order is bound to.
LEMMA WithTokenJob ==
    ASSUME NEW j \in Job, NEW t \in Tokens
    PROVE  /\ WithToken(j, t) \in Job /\ WithToken(j, t).pc = "query"
           /\ WithToken(j, t).token = t /\ WithToken(j, t).msgs = j.msgs
BY Zenon DEF WithToken, Job, PC

\* Google's answer is remembered as it was given.
LEMMA WithAnswerJob ==
    ASSUME NEW j \in Job, NEW pc \in PC, NEW u \in Users \cup {NoUser}, NEW p \in Purchase
    PROVE  /\ WithAnswer(j, pc, u, p) \in Job /\ WithAnswer(j, pc, u, p).pc = pc
           /\ WithAnswer(j, pc, u, p).order = p.order
           /\ WithAnswer(j, pc, u, p).tp = p.state
           /\ WithAnswer(j, pc, u, p).token = j.token
           /\ WithAnswer(j, pc, u, p).msgs = j.msgs
BY ZenonT(60) DEF WithAnswer, Job, Purchase

\* The decision keeps order and token and remembers the row's rewards.
LEMMA WithRewardsJob ==
    ASSUME NEW j \in Job, NEW pc \in PC, NEW r \in Rewards \cup {NoReward}
    PROVE  /\ WithRewards(j, pc, r) \in Job /\ WithRewards(j, pc, r).pc = pc
           /\ WithRewards(j, pc, r).rewards = r
           /\ WithRewards(j, pc, r).order = j.order
           /\ WithRewards(j, pc, r).token = j.token
           /\ WithRewards(j, pc, r).msgs = j.msgs
BY ZenonT(60) DEF WithRewards, Job, TPStatus

\* Two rows that differ at most in what no decision on the order looks at.
Alike(r, s) ==
    /\ s.status = r.status /\ s.reason = r.reason /\ s.paid = r.paid
    /\ s.cred = r.cred /\ s.tpid = r.tpid
    /\ s.product = r.product /\ s.rewards = r.rewards

\* The age and the retry counter of a row touch nothing else.
LEMMA IdleRows ==
    ASSUME NEW row \in OrderRow
    PROVE  /\ Age(row) \in OrderRow /\ Alike(row, Age(row))
           /\ AddRetryTimes(row) \in OrderRow /\ Alike(row, AddRetryTimes(row))
<1>1. Age(row) \in OrderRow /\ Alike(row, Age(row))
  BY Zenon DEF Age, Alike, OrderRow
<1> DEFINE n == IF row.retry < RetryCap THEN row.retry + 1 ELSE row.retry
<1>2. n \in 0 .. RetryCap
  BY OrderStoreAssumption DEF OrderRow
<1>3. AddRetryTimes(row) = [row EXCEPT !.retry = n]
  BY Zenon DEF AddRetryTimes
<1> HIDE DEF n
<1>4. AddRetryTimes(row) \in OrderRow /\ Alike(row, AddRetryTimes(row))
  BY <1>2, <1>3, Zenon DEF Alike, OrderRow
<1> QED
  BY <1>1, <1>4, Zenon

\* A new row is a row of the table.
LEMMA CreateOrderType ==
    ASSUME NEW u \in Users \cup {NoUser}, NEW p \in Products \cup {NoProduct},
           NEW r \in Rewards \cup {NoReward}
    PROVE  CreateOrder(u, p, r) \in OrderRow
<1>1. 0 \in 0 .. RetryCap
  BY OrderStoreAssumption
<1> QED
  BY <1>1, Zenon DEF CreateOrder, NoRow, OrderRow, OrderStatus, CancelReason

\* A new row is Pending, unpaid and bound to nothing.
LEMMA CreateOrderState ==
    ASSUME NEW u, NEW p, NEW r
    PROVE  /\ CreateOrder(u, p, r).status = "Pending" /\ CreateOrder(u, p, r).reason = "none"
           /\ CreateOrder(u, p, r).paid = FALSE
           /\ CreateOrder(u, p, r).cred = NoToken /\ CreateOrder(u, p, r).tpid = NoToken
BY Zenon DEF CreateOrder, NoRow

\* A new row holds the product and the rewards it is created with.
LEMMA CreateOrderGoods ==
    ASSUME NEW u, NEW p, NEW r
    PROVE  CreateOrder(u, p, r).product = p /\ CreateOrder(u, p, r).rewards = r
BY Zenon DEF CreateOrder, NoRow

\* Binding never replaces a credential, and the order id follows it.
LEMMA BindOrderRow ==
    ASSUME NEW row \in OrderRow, NEW t \in Tokens, NEW hasId \in BOOLEAN,
           row.tpid # NoToken => row.tpid = row.cred
    PROVE  LET new == BindOrder(row, t, hasId) IN
           /\ new \in OrderRow
           /\ new.status = row.status /\ new.reason = row.reason /\ new.paid = row.paid
           /\ new.product = row.product /\ new.rewards = row.rewards
           /\ new.cred = row.cred \/ (row.cred = NoToken /\ new.cred = t)
           /\ new.tpid # NoToken => new.tpid = new.cred
<1>1. CASE ~Bindable(row, t, hasId)
  BY <1>1, Zenon DEF BindOrder
<1>2. CASE Bindable(row, t, hasId)
  <2> DEFINE id == IF hasId THEN t ELSE row.tpid
  <2>1. id \in Tokens \cup {NoToken} /\ (id # NoToken => id = t)
    BY <1>2, OrderStoreAssumption, Zenon DEF Bindable, OrderRow
  <2>2. BindOrder(row, t, hasId) = [row EXCEPT !.cred = t, !.tpid = id]
    BY <1>2, Zenon DEF BindOrder
  <2>3. row.cred \in {NoToken, t}
    BY <1>2, Zenon DEF Bindable
  <2> HIDE DEF id
  <2>4. PICK new : new = [row EXCEPT !.cred = t, !.tpid = id]
    BY Zenon
  <2>5. new \in OrderRow
    BY <2>1, <2>4, Zenon DEF OrderRow
  <2>6. new.cred = t /\ new.tpid = id
    BY <2>4, Zenon DEF OrderRow
  <2>7. /\ new.status = row.status /\ new.reason = row.reason /\ new.paid = row.paid
        /\ new.product = row.product /\ new.rewards = row.rewards
    BY <2>4, Zenon DEF OrderRow
  <2> QED
    BY <2>1, <2>2, <2>3, <2>4, <2>5, <2>6, <2>7, Zenon
<1> QED
  BY <1>1, <1>2, Zenon

\* The status changes keep the binding, the product and the rewards.
LEMMA PurchasedRow ==
    ASSUME NEW row \in OrderRow, NEW new, new = MarkOrderPurchased(row)
    PROVE  /\ new \in OrderRow /\ new.status = "Purchased" /\ new.reason = "none" /\ new.paid
           /\ new.cred = row.cred /\ new.tpid = row.tpid
           /\ new.product = row.product /\ new.rewards = row.rewards
BY Zenon DEF MarkOrderPurchased, OrderRow, OrderStatus, CancelReason

\* MarkOrderRefunded and MarkOrderCancelled write the same columns.
LEMMA RefundedRow ==
    ASSUME NEW row \in OrderRow, NEW new,
           new = MarkOrderRefunded(row) \/ new = MarkOrderCancelled(row)
    PROVE  /\ new \in OrderRow /\ new.status = "Cancelled" /\ new.reason = "refund"
           /\ new.paid = row.paid /\ new.cred = row.cred /\ new.tpid = row.tpid
           /\ new.product = row.product /\ new.rewards = row.rewards
BY Zenon DEF MarkOrderRefunded, MarkOrderCancelled, OrderRow, OrderStatus, CancelReason

\* MarkOrderTimeout leaves the row alone or closes a Pending one.
LEMMA TimeoutRow ==
    ASSUME NEW row \in OrderRow, NEW new, new = MarkOrderTimeout(row)
    PROVE  \/ new = row
           \/ /\ row.status = "Pending" /\ new.status = "Cancelled" /\ new.reason = "timeout"
              /\ new \in OrderRow
              /\ new.paid = row.paid /\ new.cred = row.cred /\ new.tpid = row.tpid
              /\ new.product = row.product /\ new.rewards = row.rewards
<1>1. CASE ~ExpiredPending(row)
  BY <1>1, Zenon DEF MarkOrderTimeout
<1>2. CASE ExpiredPending(row)
  BY <1>2, Zenon DEF MarkOrderTimeout, ExpiredPending, OrderRow, OrderStatus, CancelReason
<1> QED
  BY <1>1, <1>2, Zenon

\* A new snapshot of the rewards changes nothing else.
LEMMA RewardsRow ==
    ASSUME NEW row, row \in OrderRow, NEW r, r \in Rewards \cup {NoReward}, NEW new,
           new = UpdateOrderRewards(row, r)
    PROVE  /\ new \in OrderRow /\ new.status = row.status /\ new.reason = row.reason
           /\ new.paid = row.paid /\ new.cred = row.cred /\ new.tpid = row.tpid
           /\ new.product = row.product /\ new.rewards = r
BY Zenon DEF UpdateOrderRewards, OrderRow

\* What Google does to a purchase.
LEMMA Purchases ==
    /\ \A o \in Orders, p \in Products :
          /\ Buy(o, p) \in Purchase /\ Buy(o, p).state = "Pending"
          /\ Buy(o, p).order = o /\ Buy(o, p).product = p
          /\ ~Buy(o, p).charged /\ ~Buy(o, p).consumed
    /\ \A p \in Purchase :
          /\ Charge(p) \in Purchase /\ Charge(p).state = "Purchased" /\ Charge(p).charged
          /\ Charge(p).order = p.order /\ Charge(p).product = p.product
          /\ Charge(p).consumed = p.consumed
    /\ \A p \in Purchase :
          /\ Cancel(p) \in Purchase /\ Cancel(p).state = "Cancelled"
          /\ Cancel(p).charged = p.charged /\ Cancel(p).consumed = p.consumed
          /\ Cancel(p).order = p.order /\ Cancel(p).product = p.product
    /\ \A p \in Purchase :
          /\ Consume(p) \in Purchase /\ Consume(p).consumed
          /\ Consume(p).state = p.state /\ Consume(p).charged = p.charged
          /\ Consume(p).order = p.order /\ Consume(p).product = p.product
<1>1. ASSUME NEW o \in Orders, NEW p \in Products
      PROVE  /\ Buy(o, p) \in Purchase /\ Buy(o, p).state = "Pending"
             /\ Buy(o, p).order = o /\ Buy(o, p).product = p
             /\ ~Buy(o, p).charged /\ ~Buy(o, p).consumed
  BY Zenon DEF Buy, NoPurchase, Purchase, TPStatus
<1>2. ASSUME NEW p \in Purchase
      PROVE  /\ Charge(p) \in Purchase /\ Charge(p).state = "Purchased" /\ Charge(p).charged
             /\ Charge(p).order = p.order /\ Charge(p).product = p.product
             /\ Charge(p).consumed = p.consumed
  BY Zenon DEF Charge, Purchase, TPStatus
<1>3. ASSUME NEW p \in Purchase
      PROVE  /\ Cancel(p) \in Purchase /\ Cancel(p).state = "Cancelled"
             /\ Cancel(p).charged = p.charged /\ Cancel(p).consumed = p.consumed
             /\ Cancel(p).order = p.order /\ Cancel(p).product = p.product
  BY Zenon DEF Cancel, Purchase, TPStatus
<1>4. ASSUME NEW p \in Purchase
      PROVE  /\ Consume(p) \in Purchase /\ Consume(p).consumed
             /\ Consume(p).state = p.state /\ Consume(p).charged = p.charged
             /\ Consume(p).order = p.order /\ Consume(p).product = p.product
  BY Zenon DEF Consume, Purchase
<1> QED
  BY <1>1, <1>2, <1>3, <1>4, Zenon

-----------------------------------------------------------------------------
(* Types *)

\* The fields of records of each kind.
LEMMA Fields ==
    /\ \A j \in Job :
          /\ j.pc \in PC /\ j.uid \in Users \cup {NoUser} /\ j.product \in Products \cup {NoProduct}
          /\ j.order \in Orders \cup {NoOrder} /\ j.token \in Tokens \cup {NoToken}
          /\ j.rewards \in Rewards \cup {NoReward} /\ j.tp \in TPStatus
          /\ j.charged \in BOOLEAN /\ j.consumed \in BOOLEAN
          /\ j.batch \in SUBSET Orders
          /\ j.msg \in SUBSET Message /\ j.msgs \in SUBSET Message /\ j.acks \in SUBSET Message
    /\ \A row \in OrderRow :
          /\ row.uid \in Users \cup {NoUser} /\ row.product \in Products \cup {NoProduct}
          /\ row.cred \in Tokens \cup {NoToken} /\ row.rewards \in Rewards \cup {NoReward}
          /\ row.status \in OrderStatus /\ row.paid \in BOOLEAN
    /\ \A p \in Purchase :
          /\ p.state \in TPStatus /\ p.charged \in BOOLEAN /\ p.consumed \in BOOLEAN
          /\ p.order \in Orders \cup {NoOrder} /\ p.product \in Products \cup {NoProduct}
    /\ \A m \in Message : m.token \in Tokens
    /\ \A task \in Task :
          /\ task.kind \in {"grant", "revoke"} /\ task.order \in Orders
          /\ task.rewards \in Rewards \cup {NoReward}
<1>1. ASSUME NEW j \in Job
      PROVE  /\ j.pc \in PC /\ j.uid \in Users \cup {NoUser}
             /\ j.product \in Products \cup {NoProduct}
             /\ j.order \in Orders \cup {NoOrder} /\ j.token \in Tokens \cup {NoToken}
             /\ j.rewards \in Rewards \cup {NoReward} /\ j.tp \in TPStatus
             /\ j.charged \in BOOLEAN /\ j.consumed \in BOOLEAN
             /\ j.batch \in SUBSET Orders
             /\ j.msg \in SUBSET Message /\ j.msgs \in SUBSET Message /\ j.acks \in SUBSET Message
  BY Zenon DEF Job
<1> QED
  BY <1>1, Zenon DEF OrderRow, Purchase, Message, Task

\* Giving leases back keeps the type of lock.
LEMMA ReleaseType ==
    ASSUME lock \in [LockKeys -> Workers \cup {NoWorker}], NEW w \in Workers, NEW keys
    PROVE  Release(w, keys) \in [LockKeys -> Workers \cup {NoWorker}]
BY Zenon DEF Release

\* Points at which a handler holds nothing of an order.
Resting == {"idle", "scan", "pulled"}

\* A handler that is through with its order rests.
LEMMA LeaveJob ==
    ASSUME TypeOK, NEW w \in Workers, NEW ok \in BOOLEAN, Leave(w, ok)
    PROVE  /\ lock' \in [LockKeys -> Workers \cup {NoWorker}]
           /\ job' \in [Workers -> Job]
           /\ \A x \in Workers \ {w} : job'[x] = job[x]
           /\ job'[w].pc \in Resting /\ job'[w].msgs \subseteq job[w].msgs
<1>1. lock' \in [LockKeys -> Workers \cup {NoWorker}]
  BY ReleaseType, Zenon DEF Leave, TypeOK
<1> DEFINE acked == job[w].acks \cup (IF ok THEN job[w].msg ELSE {})
           new == IF w \in Clients THEN NoJob
                  ELSE IF w \in Crons THEN Scanning(job[w].batch)
                  ELSE Pulled(job[w].msgs, acked)
<1>2. job[w] \in Job
  BY Zenon DEF TypeOK
<1>3. acked \in SUBSET Message
  BY <1>2, Fields, Zenon
<1>4. job' = [job EXCEPT ![w] = new]
  BY Zenon DEF Leave
<1> HIDE DEF acked
<1>5. new \in Job /\ new.pc \in Resting /\ new.msgs \subseteq job[w].msgs
  <2>1. job[w].batch \in SUBSET Orders /\ job[w].msgs \in SUBSET Message
    BY <1>2, Fields, Zenon
  <2>2. CASE w \in Clients
    BY <2>2, StartingJobs, Zenon DEF Resting
  <2>3. CASE w \notin Clients /\ w \in Crons
    BY <2>1, <2>3, ScanJobs, Zenon DEF Resting
  <2>4. CASE w \notin Clients /\ w \notin Crons
    BY <1>3, <2>1, <2>4, PullJobs, Zenon DEF Resting
  <2> QED
    BY <2>2, <2>3, <2>4, Zenon
<1> HIDE DEF new
<1> QED
  BY <1>1, <1>4, <1>5, Zenon DEF TypeOK

\* So does one whose call failed; of the table only a retry counter moves.
LEMMA ErrorJob ==
    ASSUME TypeOK, NEW w \in Workers, Error(w)
    PROVE  /\ lock' \in [LockKeys -> Workers \cup {NoWorker}]
           /\ job' \in [Workers -> Job]
           /\ \A x \in Workers \ {w} : job'[x] = job[x]
           /\ job'[w].pc \in Resting /\ job'[w].msgs \subseteq job[w].msgs
           /\ orders' \in [Orders -> OrderRow]
           /\ \A o \in Orders : Alike(orders[o], orders'[o])
           /\ UNCHANGED <<issued, tokens, rtdn, queue, granted, revoked, config, reloads>>
<1>1. Leave(w, FALSE)
  BY Zenon DEF Error
<1>2. /\ orders' \in [Orders -> OrderRow]
      /\ \A o \in Orders : Alike(orders[o], orders'[o])
  <2>1. CASE orders' = orders
    BY <2>1, Zenon DEF TypeOK, Alike
  <2>2. CASE orders' = [orders EXCEPT ![job[w].order] = AddRetryTimes(@)]
    <3>1. \A o \in Orders : orders'[o] = IF o = job[w].order THEN AddRetryTimes(orders[o]) ELSE orders[o]
      BY <2>2, Zenon DEF TypeOK
    <3>2. \A o \in Orders : orders[o] \in OrderRow /\ Alike(orders[o], orders[o])
      BY Zenon DEF TypeOK, Alike
    <3>3. \A o \in Orders : orders'[o] \in OrderRow /\ Alike(orders[o], orders'[o])
      BY <3>1, <3>2, IdleRows, Zenon
    <3> QED
      BY <2>2, <3>3, Zenon DEF TypeOK
  <2> QED
    BY <2>1, <2>2, Zenon DEF Error
<1>3. UNCHANGED <<issued, tokens, rtdn, queue, granted, revoked, config, reloads>>
  BY Zenon DEF Error
<1> QED
  BY <1>1, <1>2, <1>3, LeaveJob, Zenon

\* A panic leaves the worker idle.
LEMMA PanicJob ==
    ASSUME TypeOK, NEW w \in Workers, Panic(w)
    PROVE  /\ lock' \in [LockKeys -> Workers \cup {NoWorker}]
           /\ job' = [job EXCEPT ![w] = NoJob] /\ job' \in [Workers -> Job]
           /\ UNCHANGED <<orders, issued, tokens, rtdn, queue, granted, revoked, config, reloads>>
BY ReleaseType, StartingJobs, Zenon DEF Panic, TypeOK

-----------------------------------------------------------------------------
(* What no step takes back, and what that means for handlers at work *)

IInv == TypeOK /\ Inductive

\* Purchases and orders keep their identity, bindings are for ever, a charge,
\* a cancellation and a payment stay known, and a submitted task stays
\* submitted or carried out.
Grows ==
    /\ \A t \in Tokens : tokens[t].state # "None" =>
          /\ tokens'[t].state # "None"
          /\ tokens'[t].order = tokens[t].order /\ tokens'[t].product = tokens[t].product
          /\ tokens[t].charged => tokens'[t].charged
          /\ tokens[t].state = "Cancelled" => tokens'[t].state = "Cancelled"
    /\ \A o \in Orders : orders[o].status # "None" =>
          /\ orders'[o].status # "None" /\ orders'[o].product = orders[o].product
          /\ orders[o].cred # NoToken => orders'[o].cred = orders[o].cred
          /\ orders[o].paid => orders'[o].paid
          /\ orders[o].status = "Purchased" =>
                orders'[o].status = "Purchased" \/ RevokeSubmitted(o)'
    /\ \A o \in Orders : GrantSubmitted(o) => GrantSubmitted(o)'
    /\ \A o \in Orders : RevokeSubmitted(o) => RevokeSubmitted(o)'

\* What a handler relies on survives the steps of the others.
LEMMA JobStable ==
    ASSUME IInv, Grows, NEW w \in Workers, job'[w] = job[w]
    PROVE  JobOK(job[w])'
<1>1. PICK j : j = job[w]
  BY Zenon
<1>2. JobOK(j) /\ job'[w] = j
  BY <1>1, Zenon DEF IInv, Inductive
<1>3. \A t : Started(t) => Started(t)'
  BY Zenon DEF Grows, Started
<1>4. ASSUME Started(j.token), tokens[j.token].order = j.order
      PROVE  /\ j.token \in Tokens /\ tokens[j.token].state # "None"
             /\ j.order \in Orders /\ orders[j.order].status # "None"
  BY <1>4, Zenon DEF IInv, Inductive, TokenOK, Started, Exists
<1>5. ASSUME Started(j.token), tokens[j.token].order = j.order
      PROVE  /\ tokens'[j.token].order = j.order
             /\ tokens[j.token].charged => tokens'[j.token].charged
             /\ tokens[j.token].state = "Cancelled" => tokens'[j.token].state = "Cancelled"
             /\ PaidBy(j.order, j.token) => PaidBy(j.order, j.token)'
             /\ RefundedBy(j.order, j.token) => RefundedBy(j.order, j.token)'
             /\ orders[j.order].paid => orders'[j.order].paid
             /\ orders[j.order].status = "Purchased" \/ RevokeSubmitted(j.order) =>
                   orders'[j.order].status = "Purchased" \/ RevokeSubmitted(j.order)'
             /\ GrantSubmitted(j.order) => GrantSubmitted(j.order)'
             /\ RevokeSubmitted(j.order) => RevokeSubmitted(j.order)'
  BY <1>4, <1>5, OrderStoreAssumption, Zenon DEF Grows, PaidBy, RefundedBy
<1>6. JobOK(j)'
  BY <1>2, <1>3, <1>5 DEF JobOK, Grows, Exists
<1> QED
  BY <1>2, <1>6, ZenonT(60) DEF JobOK, Started, Exists, PaidBy, RefundedBy, GrantSubmitted,
                    RevokeSubmitted, TaskPending

\* A handler between orders, or at its end, relies on nothing but its unread
\* messages; one that is about to query Google on the purchase it asks about.
LEMMA FreeJob ==
    ASSUME NEW j, \A m \in j.msgs : Started(m.token)
    PROVE  /\ j.pc \in {"idle", "scan", "pulled", "close", "done"} => JobOK(j)
           /\ j.pc = "query" /\ Started(j.token) => JobOK(j)
           /\ j.pc = "reread" /\ j.order \in Orders => JobOK(j)
BY Zenon DEF JobOK

\* create_order relies on the product it was asked for and its rewards.
LEMMA CreatingJob ==
    ASSUME NEW j, j.msgs = {}, j.pc = "find", j.product \in Products, j.rewards # NoReward
    PROVE  JobOK(j)
BY Zenon DEF JobOK

\* A handler that rests relies on nothing but its unread messages.
LEMMA RestingJob ==
    ASSUME IInv, Grows, NEW w \in Workers,
           job'[w].pc \in Resting, job'[w].msgs \subseteq job[w].msgs
    PROVE  JobOK(job[w])'
<1>1. \A m \in job'[w].msgs : Started(m.token)'
  BY Zenon DEF IInv, Inductive, JobOK, Grows, Started
<1> QED
  BY <1>1, Zenon DEF JobOK, Resting, Started

\* A step that leaves rows alike, and purchases and tasks as they are, keeps
\* the invariant of the tables.
LEMMA QuietTables ==
    ASSUME IInv, \A o \in Orders : Alike(orders[o], orders'[o]),
           UNCHANGED <<tokens, queue, granted, revoked>>
    PROVE  /\ Grows
           /\ \A o \in Orders : RowOK(o)'
           /\ \A t \in Tokens : TokenOK(t)'
           /\ (\A task \in queue : task.rewards # NoReward)'
<1>1. \A o \in Orders : /\ GrantSubmitted(o)' <=> GrantSubmitted(o)
                        /\ RevokeSubmitted(o)' <=> RevokeSubmitted(o)
  BY Zenon DEF GrantSubmitted, RevokeSubmitted, TaskPending
<1>2. Grows
  BY <1>1, Zenon DEF Grows, Alike
<1>3. ASSUME NEW o \in Orders PROVE RowOK(o)'
  <2>1. RowOK(o) /\ Alike(orders[o], orders'[o])
    BY Zenon DEF IInv, Inductive
  <2> QED
    BY <1>1, <2>1 DEF RowOK, Alike, Started, PaidBy, RefundedBy
<1>4. ASSUME NEW t \in Tokens PROVE TokenOK(t)'
  <2>1. TokenOK(t)
    BY Zenon DEF IInv, Inductive
  <2> QED
    BY <2>1, Zenon DEF TokenOK, Alike, Exists
<1> QED
  BY <1>2, <1>3, <1>4, Zenon DEF IInv, Inductive

\* Such a step keeps the whole invariant if what each handler newly relies on
\* holds.
LEMMA QuietStep ==
    ASSUME IInv, TypeOK', \A o \in Orders : Alike(orders[o], orders'[o]),
           UNCHANGED <<tokens, queue, granted, revoked>>,
           \A o \in issued' : o \in issued \/ Exists(o),
           rtdn' \subseteq rtdn,
           \A w \in Workers : job'[w] = job[w] \/ JobOK(job[w])'
    PROVE  IInv'
<1>1. /\ Grows
      /\ \A o \in Orders : RowOK(o)'
      /\ \A t \in Tokens : TokenOK(t)'
      /\ (\A task \in queue : task.rewards # NoReward)'
  BY QuietTables, Zenon
<1>2. \A w \in Workers : JobOK(job[w])'
  BY <1>1, JobStable, Zenon
<1>3. (\A o \in issued : Exists(o))'
  BY Zenon DEF IInv, Inductive, Exists, Alike
<1>4. (\A m \in rtdn : Started(m.token))'
  BY Zenon DEF IInv, Inductive, Started
<1> QED
  BY <1>1, <1>2, <1>3, <1>4, Zenon DEF IInv, Inductive

-----------------------------------------------------------------------------
(* Steps that change no row beyond its retry counter *)

\* A handler that returns with an error keeps the invariant.
LEMMA ErrorStep ==
    ASSUME IInv, NEW w \in Workers, Error(w), faults' \in 0 .. MaxFaults
    PROVE  IInv'
<1>1. TypeOK
  BY Zenon DEF IInv
<1>2. TypeOK'
  BY <1>1, ErrorJob, Zenon DEF TypeOK
<1>3. /\ \A o \in Orders : Alike(orders[o], orders'[o])
      /\ UNCHANGED <<issued, tokens, rtdn, queue, granted, revoked>>
      /\ \A x \in Workers \ {w} : job'[x] = job[x]
      /\ job'[w].pc \in Resting /\ job'[w].msgs \subseteq job[w].msgs
  BY <1>1, ErrorJob, Zenon
<1>4. JobOK(job[w])'
  BY <1>3, QuietTables, RestingJob, Zenon
<1> QED
  BY <1>2, <1>3, <1>4, QuietStep, Zenon

\* So does one that panics on the nil queue client.
LEMMA PanicStep ==
    ASSUME IInv, NEW w \in Workers, Panic(w), faults' \in 0 .. MaxFaults
    PROVE  IInv'
<1>1. TypeOK
  BY Zenon DEF IInv
<1>2. TypeOK'
  BY <1>1, PanicJob, Zenon DEF TypeOK
<1>3. /\ \A o \in Orders : Alike(orders[o], orders'[o])
      /\ UNCHANGED <<issued, tokens, rtdn, queue, granted, revoked>>
      /\ \A x \in Workers \ {w} : job'[x] = job[x]
      /\ job'[w].pc \in Resting /\ job'[w].msgs \subseteq job[w].msgs
  <2>1. /\ orders' = orders /\ job' = [job EXCEPT ![w] = NoJob]
        /\ UNCHANGED <<issued, tokens, rtdn, queue, granted, revoked>>
    BY <1>1, PanicJob, Zenon
  <2>2. \A o \in Orders : Alike(orders[o], orders'[o])
    BY <2>1, Zenon DEF Alike
  <2>3. job'[w] = NoJob /\ \A x \in Workers \ {w} : job'[x] = job[x]
    BY <1>1, <2>1, Zenon DEF TypeOK
  <2>4. NoJob.pc \in Resting /\ NoJob.msgs \subseteq job[w].msgs
    BY StartingJobs, Zenon DEF Resting
  <2> QED
    BY <2>1, <2>2, <2>3, <2>4, Zenon
<1>4. JobOK(job[w])'
  BY <1>3, QuietTables, RestingJob, Zenon
<1> QED
  BY <1>2, <1>3, <1>4, QuietStep, Zenon

\* So does one that is through with its order.
LEMMA LeaveStep ==
    ASSUME IInv, NEW w \in Workers, NEW ok \in BOOLEAN, Leave(w, ok),
           UNCHANGED <<orders, tokens, queue, granted, revoked, config, reloads, faults>>,
           issued' \subseteq Orders, \A o \in issued' : o \in issued \/ Exists(o),
           rtdn' \subseteq rtdn
    PROVE  IInv'
<1>1. TypeOK
  BY Zenon DEF IInv
<1>2. TypeOK'
  BY <1>1, LeaveJob, Zenon DEF TypeOK
<1>3. /\ \A o \in Orders : Alike(orders[o], orders'[o])
      /\ \A x \in Workers \ {w} : job'[x] = job[x]
      /\ job'[w].pc \in Resting /\ job'[w].msgs \subseteq job[w].msgs
  BY <1>1, LeaveJob, Zenon DEF Alike
<1>4. JobOK(job[w])'
  BY <1>3, QuietTables, RestingJob, Zenon
<1> QED
  BY <1>2, <1>3, <1>4, QuietStep, Zenon

\* What a handler relies on stays true when no table changes.
LEMMA SameJob ==
    ASSUME NEW w, NEW j, job'[w] = j, JobOK(j), orders' = orders, tokens' = tokens,
           \A x : (Started(x)' <=> Started(x)) /\ (Exists(x)' <=> Exists(x)),
           \A o, t : (PaidBy(o, t)' <=> PaidBy(o, t)) /\ (RefundedBy(o, t)' <=> RefundedBy(o, t)),
           \A o : /\ GrantSubmitted(o)' <=> GrantSubmitted(o)
                  /\ RevokeSubmitted(o)' <=> RevokeSubmitted(o)
    PROVE  JobOK(job[w])'
<1>1. /\ \A m \in j.msgs : Started(m.token)'
      /\ j.pc \in {"find", "insert"} => j.product \in Products /\ j.rewards # NoReward
      /\ j.pc = "reply" => Exists(j.order)'
      /\ j.pc = "reread" => j.order \in Orders
      /\ j.pc = "query" => Started(j.token)'
  BY Zenon DEF JobOK
<1>2. j.pc \in {"lock", "bind", "load"} =>
         /\ Started(j.token)' /\ tokens'[j.token].order = j.order
         /\ j.tp = "Purchased" => tokens'[j.token].charged
         /\ j.tp = "Cancelled" => tokens'[j.token].state = "Cancelled"
  BY Zenon DEF JobOK
<1>3. /\ j.pc \in {"snapshot", "grant", "purchase", "complete"} =>
            Started(j.token)' /\ tokens'[j.token].order = j.order /\ PaidBy(j.order, j.token)'
      /\ j.pc \in {"cancel", "revoke", "refund"} =>
            Started(j.token)' /\ tokens'[j.token].order = j.order /\ RefundedBy(j.order, j.token)'
  BY Zenon DEF JobOK
<1>4. /\ j.pc \in {"grant", "revoke"} => j.rewards # NoReward
      /\ j.pc = "purchase" => GrantSubmitted(j.order)'
      /\ j.pc = "complete" => orders'[j.order].paid
      /\ j.pc = "revoke" => orders'[j.order].status = "Purchased" \/ RevokeSubmitted(j.order)'
      /\ j.pc = "refund" => RevokeSubmitted(j.order)'
  BY Zenon DEF JobOK
<1> QED
  BY <1>1, <1>2, <1>3, <1>4, ZenonT(60) DEF JobOK

\* A step of one handler that touches no table, for a new job record that is
\* well typed and may rely on what it relies on.
LEMMA JobStep ==
    ASSUME IInv, NEW w \in Workers, NEW j \in Job, job' = [job EXCEPT ![w] = j],
           JobOK(j),
           lock' \in [LockKeys -> Workers \cup {NoWorker}],
           UNCHANGED <<orders, issued, tokens, queue, granted, revoked, config, reloads>>,
           faults' \in 0 .. MaxFaults, rtdn' \subseteq rtdn
    PROVE  IInv'
<1>1. TypeOK'
  BY Zenon DEF IInv, TypeOK
<1>2. job'[w] = j /\ \A x \in Workers \ {w} : job'[x] = job[x]
  BY Zenon DEF IInv, TypeOK
<1>3. JobOK(job[w])'
  <2>1. \A x : (Started(x)' <=> Started(x)) /\ (Exists(x)' <=> Exists(x))
    BY Zenon DEF Started, Exists
  <2>2. \A o, t : (PaidBy(o, t)' <=> PaidBy(o, t)) /\ (RefundedBy(o, t)' <=> RefundedBy(o, t))
    BY Zenon DEF PaidBy, RefundedBy
  <2>3. \A o : /\ GrantSubmitted(o)' <=> GrantSubmitted(o)
               /\ RevokeSubmitted(o)' <=> RevokeSubmitted(o)
    BY Zenon DEF GrantSubmitted, RevokeSubmitted, TaskPending
  <2> QED
    BY <1>2, <2>1, <2>2, <2>3, SameJob, Zenon
<1>4. \A o \in Orders : Alike(orders[o], orders'[o])
  BY Zenon DEF Alike
<1> QED
  BY <1>1, <1>2, <1>3, <1>4, QuietStep, Zenon

\* Starting create_order, upload_receipt, a scan or a pull.
LEMMA StartSteps ==
    ASSUME IInv, NEW w \in Workers,
           ClientStart(w) \/ CheckExpiredPendingOrders(w) \/ CheckGoogleRTDN(w)
    PROVE  IInv'
<1>1. TypeOK /\ faults \in 0 .. MaxFaults
  BY Zenon DEF IInv, TypeOK
<1>2. ASSUME NEW u \in Users, NEW p \in Products, StartCreateOrder(w, u, p)
      PROVE  IInv'
  <2>1. config[p] \in Rewards \cup {NoReward} /\ config[p] # NoReward
    BY <1>1, <1>2, Zenon DEF TypeOK, StartCreateOrder
  <2>2. Creating(u, p, config[p]) \in Job /\ JobOK(Creating(u, p, config[p]))
    <3>1. PICK r : r = config[p]
      BY Zenon
    <3>2. /\ Creating(u, p, r) \in Job
          /\ Creating(u, p, r).pc = "find" /\ Creating(u, p, r).msgs = {}
          /\ Creating(u, p, r).product = p /\ Creating(u, p, r).rewards = r
      BY <2>1, <3>1, StartingJobs
    <3> QED
      BY <2>1, <3>1, <3>2, CreatingJob, Zenon
  <2> QED
    BY <1>1, <1>2, <2>2, JobStep, Zenon DEF StartCreateOrder, Acquire, TypeOK
<1>3. ASSUME NEW u \in Users, NEW t \in Tokens, StartUploadReceipt(w, u, t)
      PROVE  IInv'
  <2>1. Uploading(u, t) \in Job /\ JobOK(Uploading(u, t))
    BY <1>3, StartingJobs, FreeJob DEF Started, StartUploadReceipt
  <2> QED
    BY <1>1, <1>3, <2>1, JobStep, Zenon DEF StartUploadReceipt, Acquire, TypeOK
<1>4. CASE CheckExpiredPendingOrders(w)
  <2>1. PICK S \in SUBSET ExpiredOrders : job' = [job EXCEPT ![w] = Scanning(S)]
    BY <1>4, Zenon DEF CheckExpiredPendingOrders
  <2>2. S \in SUBSET Orders
    BY Zenon DEF ExpiredOrders
  <2>3. Scanning(S) \in Job /\ JobOK(Scanning(S))
    BY <2>2, ScanJobs, FreeJob, Zenon
  <2> QED
    BY <1>1, <1>4, <2>1, <2>3, JobStep, Zenon DEF CheckExpiredPendingOrders, Acquire, TypeOK
<1>5. CASE CheckGoogleRTDN(w)
  <2>1. PICK S \in SUBSET rtdn : job' = [job EXCEPT ![w] = Pulled(S, {})]
    BY <1>5, Zenon DEF CheckGoogleRTDN
  <2>2. S \in SUBSET Message /\ {} \in SUBSET Message /\ \A m \in S : Started(m.token)
    BY <1>1, Zenon DEF TypeOK, IInv, Inductive
  <2>3. Pulled(S, {}) \in Job /\ JobOK(Pulled(S, {}))
    <3>1. /\ Pulled(S, {}) \in Job
          /\ Pulled(S, {}).pc = "pulled" /\ Pulled(S, {}).msgs = S
      BY <2>2, PullJobs
    <3> QED
      BY <2>2, <3>1, FreeJob, Zenon
  <2> QED
    BY <1>1, <1>5, <2>1, <2>3, JobStep, Zenon DEF CheckGoogleRTDN, TypeOK
<1> QED
  BY <1>2, <1>3, <1>4, <1>5, Zenon DEF ClientStart

\* create_order up to and after the insert.
LEMMA CreateOrderSteps ==
    ASSUME IInv, NEW w \in Workers, FindPendingOrder(w) \/ ReplyCreateOrder(w)
    PROVE  IInv'
<1>1. TypeOK /\ faults \in 0 .. MaxFaults /\ job[w] \in Job /\ JobOK(job[w])
  BY Zenon DEF IInv, TypeOK, Inductive
<1>2. ASSUME FindPendingOrder(w), job' = [job EXCEPT ![w] = At(@, "insert")]
      PROVE  IInv'
  <2>1. job[w].pc = "find" /\ "insert" \in PC
    BY <1>2, Zenon DEF FindPendingOrder, PC
  <2>2. At(job[w], "insert") \in Job /\ JobOK(At(job[w], "insert"))
    BY <1>1, <2>1, AtJob, Zenon DEF JobOK
  <2> QED
    BY <1>1, <1>2, <2>2, JobStep, Zenon DEF FindPendingOrder, TypeOK
<1>3. ASSUME FindPendingOrder(w), NEW o \in PendingOrders(job[w].uid, job[w].product),
             job' = [job EXCEPT ![w] = WithOrder(@, o)]
      PROVE  IInv'
  <2>1. Exists(o) /\ o \in Orders
    BY Zenon DEF PendingOrders, Exists
  <2>2. WithOrder(job[w], o) \in Job /\ JobOK(WithOrder(job[w], o))
    BY <1>1, <2>1, WithOrderJob, Zenon DEF JobOK
  <2> QED
    BY <1>1, <1>3, <2>2, JobStep, Zenon DEF FindPendingOrder, TypeOK
<1>4. CASE ReplyCreateOrder(w)
  <2>1. Exists(job[w].order)
    BY <1>1, <1>4, Zenon DEF ReplyCreateOrder, JobOK
  <2>2. issued' \subseteq Orders /\ \A o \in issued' : o \in issued \/ Exists(o)
    BY <1>1, <1>4, <2>1, Zenon DEF ReplyCreateOrder, TypeOK, Exists
  <2> QED
    BY <1>4, <2>2, LeaveStep, Zenon DEF ReplyCreateOrder
<1> QED
  BY <1>2, <1>3, <1>4, Zenon DEF FindPendingOrder, Goto

\* The timeout scan, but for the statement that closes an order.
LEMMA ScanSteps ==
    ASSUME IInv, NEW w \in Workers, EndScan(w) \/ ScanNext(w) \/ RereadOrder(w)
    PROVE  IInv'
<1>1. TypeOK /\ faults \in 0 .. MaxFaults /\ job[w] \in Job /\ JobOK(job[w])
  BY Zenon DEF IInv, TypeOK, Inductive
<1>2. CASE EndScan(w)
  <2>1. NoJob \in Job /\ JobOK(NoJob)
    BY StartingJobs, FreeJob, Zenon
  <2>2. lock' \in [LockKeys -> Workers \cup {NoWorker}]
    <3>1. lock \in [LockKeys -> Workers \cup {NoWorker}]
      BY <1>1, Zenon DEF TypeOK
    <3> QED
      BY <1>2, <3>1, ReleaseType, Zenon DEF EndScan
  <2> QED
    BY <1>1, <1>2, <2>1, <2>2, JobStep, Zenon DEF EndScan
<1>3. ASSUME ScanNext(w), NEW o \in job[w].batch,
             job' = [job EXCEPT ![w] = Visiting(o, orders[o].uid, job[w].batch \ {o})],
             Acquire(w, orders[o].uid)
      PROVE  IInv'
  <2> DEFINE j == Visiting(o, orders[o].uid, job[w].batch \ {o})
  <2>1. o \in Orders /\ job[w].batch \ {o} \in SUBSET Orders /\ orders[o] \in OrderRow
    BY <1>1, Fields, Zenon DEF TypeOK
  <2>2. orders[o].uid \in Users \cup {NoUser}
    BY <2>1, Fields, Zenon
  <2>3. j \in Job /\ j.pc = "reread" /\ j.msgs = {} /\ j.order = o
    <3>1. PICK u \in Users \cup {NoUser} : u = orders[o].uid
      BY <2>2, Zenon
    <3>2. PICK S \in SUBSET Orders : S = job[w].batch \ {o}
      BY <2>1, Zenon
    <3>3. o \in Orders
      BY <2>1, Zenon
    <3>4. /\ Visiting(o, u, S) \in Job /\ Visiting(o, u, S).order = o
          /\ Visiting(o, u, S).pc = "reread" /\ Visiting(o, u, S).msgs = {}
      BY <3>3, VisitJob, Zenon
    <3> QED
      BY <3>1, <3>2, <3>4, Zenon
  <2>4. lock' \in [LockKeys -> Workers \cup {NoWorker}]
    BY <1>1, <1>3, Zenon DEF Acquire, TypeOK
  <2>5. job' = [job EXCEPT ![w] = j]
    BY <1>3, Zenon
  <2> HIDE DEF j
  <2>6. JobOK(j)
    BY <2>1, <2>3, FreeJob, Zenon
  <2> QED
    BY <1>1, <1>3, <2>3, <2>4, <2>5, <2>6, JobStep, Zenon DEF ScanNext
<1>4. ASSUME ScanNext(w), NEW o \in job[w].batch,
             job' = [job EXCEPT ![w] = Scanning(job[w].batch \ {o})], UNCHANGED lock
      PROVE  IInv'
  <2>1. job[w].batch \ {o} \in SUBSET Orders
    BY <1>1, Fields, Zenon
  <2>2. Scanning(job[w].batch \ {o}) \in Job /\ JobOK(Scanning(job[w].batch \ {o}))
    BY <2>1, ScanJobs, FreeJob, Zenon
  <2>3. lock' \in [LockKeys -> Workers \cup {NoWorker}]
    BY <1>1, <1>4, Zenon DEF TypeOK
  <2> QED
    BY <1>1, <1>4, <2>2, <2>3, JobStep, Zenon DEF ScanNext
<1>5. CASE RereadOrder(w) /\ Leave(w, TRUE)
  BY <1>1, <1>5, LeaveStep, Zenon DEF RereadOrder, TypeOK
<1>6. CASE RereadOrder(w) /\ Goto(w, "close") /\ UNCHANGED lock
  <2>1. job[w].pc = "reread" /\ "close" \in PC
    BY <1>6, Zenon DEF RereadOrder, PC
  <2>2. \A m \in job[w].msgs : Started(m.token)
    BY <1>1, Zenon DEF JobOK
  <2>3. At(job[w], "close") \in Job /\ JobOK(At(job[w], "close"))
    BY <1>1, <2>1, <2>2, AtJob, FreeJob, Zenon
  <2> QED
    BY <1>1, <1>6, <2>3, JobStep, Zenon DEF RereadOrder, Goto, TypeOK
<1>7. ASSUME RereadOrder(w), UNCHANGED lock, ExpiredPending(orders[job[w].order]),
             orders[job[w].order].cred # NoToken,
             job' = [job EXCEPT ![w] = WithToken(@, orders[job[w].order].cred)]
      PROVE  IInv'
  <2> DEFINE t == orders[job[w].order].cred
  <2>1. job[w].order \in Orders
    BY <1>1, <1>7, Zenon DEF JobOK, RereadOrder
  <2>2. t \in Tokens /\ Started(t)
    BY <1>7, <2>1, Zenon DEF IInv, Inductive, RowOK, Started
  <2> HIDE DEF t
  <2>3. WithToken(job[w], t) \in Job /\ JobOK(WithToken(job[w], t))
    <3>1. \A m \in job[w].msgs : Started(m.token)
      BY <1>1, Zenon DEF JobOK
    <3> QED
      BY <1>1, <2>2, <3>1, WithTokenJob, FreeJob, Zenon
  <2>4. lock' \in [LockKeys -> Workers \cup {NoWorker}]
    BY <1>1, <1>7, Zenon DEF TypeOK
  <2>5. job' = [job EXCEPT ![w] = WithToken(job[w], t)]
    BY <1>7, Zenon DEF t
  <2> QED
    BY <1>1, <1>7, <2>3, <2>4, <2>5, JobStep, Zenon DEF RereadOrder
<1> QED
  BY <1>2, <1>3, <1>4, <1>5, <1>6, <1>7, Zenon DEF ScanNext, RereadOrder

\* The puller between messages, its lock, the query, and the return of any
\* handler that is done.
LEMMA PullSteps ==
    ASSUME IInv, NEW w \in Workers,
           HandleRTDN(w) \/ Acknowledge(w) \/ LockOrderUser(w) \/ ReturnOK(w)
    PROVE  IInv'
<1>1. TypeOK /\ faults \in 0 .. MaxFaults /\ job[w] \in Job /\ JobOK(job[w])
  BY Zenon DEF IInv, TypeOK, Inductive
<1>2. ASSUME HandleRTDN(w), NEW m \in job[w].msgs,
             job' = [job EXCEPT ![w] = Handling(m, job[w].msgs \ {m}, job[w].acks)]
      PROVE  IInv'
  <2> DEFINE j == Handling(m, job[w].msgs \ {m}, job[w].acks)
  <2>1. /\ m \in Message /\ job[w].msgs \ {m} \in SUBSET Message /\ job[w].acks \in SUBSET Message
        /\ \A x \in job[w].msgs : Started(x.token)
    BY <1>1, Fields, Zenon DEF JobOK
  <2>2. j \in Job /\ JobOK(j)
    BY <2>1, PullJobs, FreeJob, SMTT(60)
  <2> HIDE DEF j
  <2>3. job' = [job EXCEPT ![w] = j]
    BY <1>2, Zenon DEF j
  <2>4. lock' \in [LockKeys -> Workers \cup {NoWorker}]
    BY <1>1, <1>2, Zenon DEF TypeOK, HandleRTDN
  <2> QED
    BY <1>1, <1>2, <2>2, <2>3, <2>4, JobStep, Zenon DEF HandleRTDN
<1>3. CASE Acknowledge(w)
  <2>1. NoJob \in Job /\ JobOK(NoJob)
    BY StartingJobs, FreeJob, Zenon
  <2> QED
    BY <1>1, <1>3, <2>1, JobStep, Zenon DEF Acknowledge, TypeOK
<1>4. ASSUME job[w].pc = "lock", Acquire(w, job[w].uid), Goto(w, "bind"), faults' = faults,
             UNCHANGED <<orders, issued, tokens, rtdn, queue, granted, revoked, config, reloads>>
      PROVE  IInv'
  <2>1. job[w].pc = "lock" /\ "bind" \in PC
    BY <1>4, Zenon DEF PC
  <2>2. At(job[w], "bind") \in Job /\ JobOK(At(job[w], "bind"))
    BY <1>1, <2>1, AtJob, Zenon DEF JobOK
  <2>3. /\ lock' \in [LockKeys -> Workers \cup {NoWorker}]
        /\ job' = [job EXCEPT ![w] = At(job[w], "bind")]
    BY <1>1, <1>4, Zenon DEF Acquire, TypeOK, Goto
  <2> QED
    BY <1>1, <1>4, <2>2, <2>3, JobStep, Zenon
<1>5. CASE LockOrderUser(w) /\ Error(w)
  BY <1>1, <1>5, ErrorStep, Zenon DEF LockOrderUser
<1>6. CASE ReturnOK(w)
  BY <1>1, <1>6, LeaveStep, Zenon DEF ReturnOK, TypeOK
<1> QED
  BY <1>2, <1>3, <1>4, <1>5, <1>6, Zenon DEF HandleRTDN, LockOrderUser

\* Google's answer, as given: what it says of a charge or of a cancellation
\* stays true however late the handler acts on it.
LEMMA QueryStep ==
    ASSUME IInv, NEW w \in Workers, QueryOrder(w)
    PROVE  IInv'
<1>1. TypeOK /\ faults \in 0 .. MaxFaults /\ job[w] \in Job /\ JobOK(job[w])
  BY Zenon DEF IInv, TypeOK, Inductive
<1>2. PICK t : t = job[w].token
  BY Zenon
<1>3. job[w].pc = "query" /\ Started(t) /\ \A m \in job[w].msgs : Started(m.token)
  BY <1>1, <1>2, Zenon DEF QueryOrder, JobOK
<1>4. PICK p : p = tokens[t]
  BY Zenon
<1>5. p \in Purchase /\ TokenOK(t)
  BY <1>1, <1>3, <1>4, Zenon DEF TypeOK, Started, IInv, Inductive
<1>6. Exists(p.order) /\ (p.state = "Purchased" => p.charged)
  BY <1>3, <1>4, <1>5, Zenon DEF TokenOK, Started
<1>7. PICK u : u = IF w \in Pullers THEN orders[p.order].uid ELSE job[w].uid
  BY Zenon
<1>8. u \in Users \cup {NoUser}
  BY <1>1, <1>6, <1>7, Fields, Zenon DEF TypeOK, Exists
<1>9. PICK pc : pc = IF w \in Pullers THEN "lock" ELSE "bind"
  BY Zenon
<1>10. pc \in PC /\ pc \in {"lock", "bind"}
  BY <1>9, Zenon DEF PC
<1>11. PICK j : j = WithAnswer(job[w], pc, u, p)
  BY Zenon
<1>12. /\ j \in Job /\ j.pc = pc /\ j.order = p.order /\ j.tp = p.state
       /\ j.token = t /\ j.msgs = job[w].msgs
  BY <1>1, <1>2, <1>5, <1>8, <1>10, <1>11, WithAnswerJob, SMTT(60)
<1>13. JobOK(j)
  BY <1>3, <1>4, <1>6, <1>10, <1>12, Zenon DEF JobOK
<1>14. job' = [job EXCEPT ![w] = j]
  BY <1>2, <1>4, <1>7, <1>9, <1>11, Zenon DEF QueryOrder
<1>15. /\ UNCHANGED <<orders, issued, tokens, rtdn, lock, queue, granted, revoked, config, reloads>>
       /\ faults' = faults
  BY Zenon DEF QueryOrder
<1> QED
  BY <1>1, <1>12, <1>13, <1>14, <1>15, JobStep, Zenon DEF TypeOK

\* The decision on the row as it is read back: what the pipeline it starts
\* relies on is what ProcessOrderWithoutLock looked at.
LEMMA LoadStep ==
    ASSUME IInv, NEW w \in Workers, LoadOrder(w)
    PROVE  IInv'
<1>1. TypeOK /\ faults \in 0 .. MaxFaults /\ job[w] \in Job /\ JobOK(job[w])
  BY Zenon DEF IInv, TypeOK, Inductive
<1>2. CASE Error(w)
  BY <1>1, <1>2, ErrorStep, Zenon DEF LoadOrder
<1>3. CASE ~Error(w)
  <2>1. PICK t, o : t = job[w].token /\ o = job[w].order
    BY Zenon
  <2>2. PICK row : row = orders[o]
    BY Zenon
  <2>3. PICK step : step = ProcessOrder(row.status, row.reason, job[w].tp)
    BY Zenon
  <2>4. PICK pc : pc = IF step = "waiting" THEN "close" ELSE step
    BY Zenon
  <2>5. PICK j : j = WithRewards(job[w], pc, row.rewards)
    BY Zenon
  <2>6. /\ job[w].pc = "load" /\ step # "rejected"
        /\ row.cred = t /\ tokens[t].product = row.product
        /\ job' = [job EXCEPT ![w] = j]
        /\ UNCHANGED <<orders, issued, tokens, rtdn, lock, queue, granted, revoked, config, reloads>>
        /\ faults' = faults
    BY <1>3, <2>1, <2>2, <2>3, <2>4, <2>5, Zenon DEF LoadOrder, Matches, BoundTo
  <2>7. /\ Started(t) /\ tokens[t].order = o
        /\ job[w].tp = "Purchased" => tokens[t].charged
        /\ job[w].tp = "Cancelled" => tokens[t].state = "Cancelled"
        /\ \A m \in job[w].msgs : Started(m.token)
    BY <1>1, <2>1, <2>6, Zenon DEF JobOK
  <2>8. Exists(o) /\ RowOK(o) /\ row \in OrderRow
    BY <1>1, <2>2, <2>7, Zenon DEF IInv, Inductive, TokenOK, Started, Exists, TypeOK
  <2>9. /\ row.rewards # NoReward /\ row.rewards \in Rewards \cup {NoReward}
        /\ row.status = "Purchased" => row.paid
    BY <2>2, <2>8, Fields, Zenon DEF RowOK, Exists
  <2>10. /\ pc \in {"close", "snapshot", "cancel", "complete", "revoke", "done"} /\ pc \in PC
         /\ pc \in {"snapshot", "complete"} => job[w].tp = "Purchased"
         /\ pc \in {"cancel", "revoke"} => job[w].tp = "Cancelled"
         /\ pc \in {"complete", "revoke"} => row.status = "Purchased"
    BY <2>3, <2>4, <2>6, Zenon DEF ProcessOrder, PendingOrder, PurchasedOrder, CancelledOrder, PC
  <2>11. /\ j \in Job /\ j.pc = pc /\ j.rewards = row.rewards
         /\ j.order = o /\ j.token = t /\ j.msgs = job[w].msgs
    BY <1>1, <2>1, <2>5, <2>9, <2>10, WithRewardsJob, SMTT(60)
  <2>12. JobOK(j)
    BY <2>2, <2>6, <2>7, <2>9, <2>10, <2>11, Zenon DEF JobOK, PaidBy, RefundedBy
  <2> QED
    BY <1>1, <2>6, <2>11, <2>12, JobStep, Zenon DEF TypeOK
<1> QED
  BY <1>2, <1>3, Zenon

\* Failures, lost leases, time and new configurations.
LEMMA EnvironmentSteps ==
    ASSUME IInv, Environment
    PROVE  IInv'
<1>1. TypeOK /\ faults \in 0 .. MaxFaults /\ MaxFaults \in Nat /\ MaxReloads \in Nat
  BY PaymentAssumption, Zenon DEF IInv, TypeOK
<1>2. ASSUME NEW w \in Workers, Fail(w) PROVE IInv'
  <2>1. faults' \in 0 .. MaxFaults
    BY <1>1, <1>2 DEF Fail
  <2> QED
    BY <1>2, <2>1, ErrorStep, PanicStep, Zenon DEF Fail
<1>3. ASSUME NEW w \in Workers, Crash(w) PROVE IInv'
  <2>1. faults' \in 0 .. MaxFaults
    BY <1>1, <1>3 DEF Crash
  <2>2. NoJob \in Job /\ JobOK(NoJob)
    BY StartingJobs, FreeJob, Zenon
  <2> QED
    BY <1>1, <1>3, <2>1, <2>2, JobStep, Zenon DEF Crash, TypeOK
<1>4. ASSUME NEW o \in Orders, OrderExpires(o) PROVE IInv'
  <2>1. \A x \in Orders : orders[x] \in OrderRow /\ Alike(orders[x], orders[x])
    BY <1>1, Zenon DEF TypeOK, Alike
  <2>2. \A x \in Orders : orders'[x] = IF x = o THEN Age(orders[x]) ELSE orders[x]
    BY <1>1, <1>4, Zenon DEF OrderExpires, TypeOK
  <2>3. \A x \in Orders : orders'[x] \in OrderRow /\ Alike(orders[x], orders'[x])
    BY <2>1, <2>2, IdleRows, Zenon
  <2>4. TypeOK'
    BY <1>1, <1>4, <2>3, Zenon DEF OrderExpires, TypeOK
  <2> QED
    BY <1>4, <2>3, <2>4, QuietStep, Zenon DEF OrderExpires
<1>5. ASSUME NEW p \in Products, NEW r \in Configs, ReloadConfig(p, r) PROVE IInv'
  <2>1. r \in Rewards \cup {NoReward} /\ reloads' \in 0 .. MaxReloads
    BY <1>1, <1>5, PaymentAssumption, SMTT(60) DEF ReloadConfig, TypeOK
  <2>2. TypeOK'
    BY <1>1, <1>5, <2>1, Zenon DEF ReloadConfig, TypeOK
  <2>3. \A x \in Orders : Alike(orders[x], orders'[x])
    BY <1>5, Zenon DEF ReloadConfig, Alike
  <2> QED
    BY <1>5, <2>2, <2>3, QuietStep, Zenon DEF ReloadConfig
<1>6. ASSUME NEW k \in LockKeys, OrphanLeaseExpires(k) \/ LeaseLost(k) PROVE IInv'
  <2>1. /\ faults' \in 0 .. MaxFaults /\ lock' = [lock EXCEPT ![k] = NoWorker]
        /\ UNCHANGED <<orders, issued, tokens, rtdn, job, queue, granted, revoked, config, reloads>>
    BY <1>1, <1>6 DEF OrphanLeaseExpires, LeaseLost
  <2>2. TypeOK'
    BY <1>1, <2>1, Zenon DEF TypeOK
  <2>3. \A x \in Orders : Alike(orders[x], orders'[x])
    BY <2>1, Zenon DEF Alike
  <2> QED
    BY <2>1, <2>2, <2>3, QuietStep, Zenon
<1> QED
  BY <1>2, <1>3, <1>4, <1>5, <1>6, Zenon DEF Environment

-----------------------------------------------------------------------------
(* Steps on a row *)

\* A row stays well formed when at most its tasks are submitted, each with
\* good reason.
LEMMA SameRow ==
    ASSUME NEW o, RowOK(o), orders'[o] = orders[o], tokens' = tokens,
           GrantSubmitted(o) => GrantSubmitted(o)', RevokeSubmitted(o) => RevokeSubmitted(o)',
           GrantSubmitted(o)' =>
              GrantSubmitted(o) \/ (orders[o].cred # NoToken /\ PaidBy(o, orders[o].cred)),
           RevokeSubmitted(o)' =>
              RevokeSubmitted(o) \/ (orders[o].cred # NoToken /\ RefundedBy(o, orders[o].cred))
    PROVE  RowOK(o)'
BY Zenon DEF RowOK, Started, PaidBy, RefundedBy

\* A step that writes one row, and of the tables nothing else: the
\* invariant holds after it if the new row is well formed, keeps what Grows
\* says, and the handler may rely on what it relies on next.
LEMMA RowStep ==
    ASSUME IInv, NEW w \in Workers, NEW j \in Job, NEW o \in Orders, NEW row \in OrderRow,
           orders' = [orders EXCEPT ![o] = row],
           job' = [job EXCEPT ![w] = j],
           lock' \in [LockKeys -> Workers \cup {NoWorker}],
           UNCHANGED <<issued, tokens, rtdn, queue, granted, revoked, config, reloads, faults>>,
           row.status # "None",
           orders[o].status # "None" => row.product = orders[o].product,
           orders[o].cred # NoToken => row.cred = orders[o].cred,
           orders[o].paid => row.paid,
           orders[o].status = "Purchased" => row.status = "Purchased" \/ RevokeSubmitted(o),
           RowOK(o)', JobOK(job[w])'
    PROVE  IInv'
<1>1. TypeOK'
  BY Zenon DEF IInv, TypeOK
<1>2. \A x \in Orders : orders'[x] = IF x = o THEN row ELSE orders[x]
  BY Zenon DEF IInv, TypeOK
<1>3. \A x \in Orders : /\ GrantSubmitted(x)' <=> GrantSubmitted(x)
                        /\ RevokeSubmitted(x)' <=> RevokeSubmitted(x)
  BY Zenon DEF GrantSubmitted, RevokeSubmitted, TaskPending
<1>4. Grows
  BY <1>2, <1>3, Zenon DEF Grows
<1>5. ASSUME NEW x \in Orders PROVE RowOK(x)'
  <2>1. CASE x # o
    <3>1. RowOK(x) /\ orders'[x] = orders[x]
      BY <1>2, <2>1, Zenon DEF IInv, Inductive
    <3> QED
      BY <1>3, <3>1, SameRow, Zenon
  <2> QED
    BY <2>1, Zenon
<1>6. ASSUME NEW t \in Tokens PROVE TokenOK(t)'
  <2>1. TokenOK(t) /\ tokens' = tokens
    BY Zenon DEF IInv, Inductive
  <2>2. \A x : Exists(x) => Exists(x)'
    BY <1>2, Zenon DEF Exists
  <2>3. \A x \in Orders : orders[x].cred = t /\ orders[x].paid =>
                             orders'[x].cred = t /\ orders'[x].paid
    BY <1>2, OrderStoreAssumption, Zenon
  <2> QED
    BY <2>1, <2>2, <2>3, Zenon DEF TokenOK, Exists
<1>7. \A x \in Workers : JobOK(job[x])'
  BY <1>4, JobStable, Zenon DEF IInv, TypeOK
<1>8. (\A x \in issued : Exists(x))'
  BY <1>2 DEF IInv, Inductive, Exists
<1>9. (\A m \in rtdn : Started(m.token))' /\ (\A task \in queue : task.rewards # NoReward)'
  BY Zenon DEF IInv, Inductive, Started
<1> QED
  BY <1>1, <1>5, <1>6, <1>7, <1>8, <1>9, Zenon DEF IInv, Inductive

\* CreateOrder: the new row is bound to nothing, and no task can be of it.
LEMMA InsertStep ==
    ASSUME IInv, NEW w \in Workers, InsertOrder(w)
    PROVE  IInv'
<1>1. TypeOK /\ faults \in 0 .. MaxFaults /\ job[w] \in Job /\ JobOK(job[w])
  BY Zenon DEF IInv, TypeOK, Inductive
<1>2. CASE Error(w)
  BY <1>1, <1>2, ErrorStep, Zenon DEF InsertOrder
<1>3. CASE ~Error(w)
  <2>0. PICK row : row = CreateOrder(job[w].uid, job[w].product, job[w].rewards)
    BY Zenon
  <2>1. PICK o \in Orders :
           /\ orders[o].status = "None"
           /\ row = CreateOrder(job[w].uid, job[w].product, job[w].rewards)
           /\ orders' = [orders EXCEPT ![o] = row]
           /\ job' = [job EXCEPT ![w] = WithOrder(@, o)]
           /\ UNCHANGED <<issued, tokens, rtdn, lock, queue, granted, revoked, config, reloads, faults>>
    BY <1>3, <2>0, Zenon DEF InsertOrder
  <2>2. job[w].product \in Products /\ job[w].rewards # NoReward
    BY <1>1, <1>3, Zenon DEF InsertOrder, JobOK
  <2>3. /\ row \in OrderRow /\ row.status = "Pending" /\ row.reason = "none" /\ ~row.paid
        /\ row.cred = NoToken /\ row.tpid = NoToken
        /\ row.product \in Products /\ row.rewards # NoReward
    <3>1. PICK user, prod, rew :
             user = job[w].uid /\ prod = job[w].product /\ rew = job[w].rewards
      BY Zenon
    <3>2. user \in Users \cup {NoUser} /\ prod \in Products \cup {NoProduct}
          /\ rew \in Rewards \cup {NoReward}
      BY <1>1, <3>1, Fields, Zenon
    <3>3. row = CreateOrder(user, prod, rew)
      BY <2>1, <3>1, Zenon
    <3>4. row \in OrderRow
      BY <3>2, <3>3, CreateOrderType, Zenon
    <3>5. /\ row.status = "Pending" /\ row.reason = "none" /\ row.paid = FALSE
          /\ row.cred = NoToken /\ row.tpid = NoToken
      BY <3>3, CreateOrderState, Zenon
    <3>6. row.product = prod /\ row.rewards = rew
      BY <3>3, CreateOrderGoods
    <3> QED
      BY <2>2, <3>1, <3>4, <3>5, <3>6, Zenon
  <2>4. /\ orders[o].cred = NoToken /\ ~orders[o].paid
        /\ ~GrantSubmitted(o) /\ ~RevokeSubmitted(o)
    BY <2>1, Zenon DEF IInv, Inductive, RowOK
  <2>5. orders'[o] = row /\ ~GrantSubmitted(o)' /\ ~RevokeSubmitted(o)'
    BY <1>1, <2>1, <2>4, Zenon DEF TypeOK, GrantSubmitted, RevokeSubmitted, TaskPending
  <2>6. RowOK(o)'
    BY <2>3, <2>5, Zenon DEF RowOK
  <2>7. PICK j : j = WithOrder(job[w], o)
    BY Zenon
  <2>8. j \in Job /\ j.pc = "reply" /\ j.order = o /\ j.msgs = job[w].msgs
    BY <1>1, <2>7, WithOrderJob, Zenon
  <2>9. job' = [job EXCEPT ![w] = j] /\ job'[w] = j
    BY <1>1, <2>1, <2>7, Zenon DEF TypeOK
  <2>10. \A m \in j.msgs : Started(m.token)'
    BY <1>1, <2>1, <2>8, Zenon DEF JobOK, Started
  <2>11. JobOK(job[w])'
    BY <2>3, <2>5, <2>8, <2>9, <2>10, Zenon DEF JobOK, Exists, Started
  <2>12. lock' \in [LockKeys -> Workers \cup {NoWorker}]
    BY <1>1, <2>1, Zenon DEF TypeOK
  <2> QED
    BY <2>1, <2>3, <2>4, <2>6, <2>8, <2>9, <2>11, <2>12, RowStep, Zenon
<1> QED
  BY <1>2, <1>3, Zenon

\* FindAndBindOrder: a row is bound only to a purchase that names it, and once.
LEMMA BindStep ==
    ASSUME IInv, NEW w \in Workers, FindOrBind(w)
    PROVE  IInv'
<1>1. TypeOK /\ faults \in 0 .. MaxFaults /\ job[w] \in Job /\ JobOK(job[w])
  BY Zenon DEF IInv, TypeOK, Inductive
<1>2. CASE Error(w)
  BY <1>1, <1>2, ErrorStep, Zenon DEF FindOrBind
<1>3. CASE ~Error(w)
  <2>1. PICK o, t, row, j :
           /\ o = job[w].order /\ t = job[w].token
           /\ row = BindOrder(orders[o], t, job[w].charged)
           /\ j = At(job[w], "load")
    BY Zenon
  <2>2. /\ job[w].pc = "bind"
        /\ orders' = [orders EXCEPT ![o] = row]
        /\ job' = [job EXCEPT ![w] = j]
        /\ UNCHANGED <<issued, tokens, rtdn, lock, queue, granted, revoked, config, reloads, faults>>
    BY <1>3, <2>1, Zenon DEF FindOrBind, Goto
  <2>3. /\ Started(t) /\ tokens[t].order = o
        /\ job[w].tp = "Purchased" => tokens[t].charged
        /\ job[w].tp = "Cancelled" => tokens[t].state = "Cancelled"
        /\ \A m \in job[w].msgs : Started(m.token)
    BY <1>1, <2>1, <2>2, Zenon DEF JobOK
  <2>4. o \in Orders /\ t \in Tokens /\ orders[o].status # "None" /\ RowOK(o)
        /\ orders[o] \in OrderRow /\ job[w].charged \in BOOLEAN
    BY <1>1, <2>3, Fields, Zenon DEF IInv, Inductive, TokenOK, Started, Exists, TypeOK
  <2>5. /\ row \in OrderRow
        /\ row.status = orders[o].status /\ row.reason = orders[o].reason
        /\ row.paid = orders[o].paid
        /\ row.product = orders[o].product /\ row.rewards = orders[o].rewards
        /\ row.cred = orders[o].cred \/ (orders[o].cred = NoToken /\ row.cred = t)
        /\ row.tpid # NoToken => row.tpid = row.cred
    <3>1. PICK old, h : old = orders[o] /\ h = job[w].charged
      BY Zenon
    <3>2. old \in OrderRow /\ h \in BOOLEAN /\ row = BindOrder(old, t, h)
      BY <2>1, <2>4, <3>1, Zenon
    <3>3. old.tpid # NoToken => old.tpid = old.cred
      BY <2>4, <3>1, Zenon DEF RowOK
    <3> QED
      BY <2>4, <3>1, <3>2, <3>3, BindOrderRow
  <2>6. orders'[o] = row /\ GrantSubmitted(o)' = GrantSubmitted(o)
        /\ RevokeSubmitted(o)' = RevokeSubmitted(o)
    BY <1>1, <2>2, <2>4, Zenon DEF TypeOK, GrantSubmitted, RevokeSubmitted, TaskPending
  <2>7. RowOK(o)'
    <3>1. /\ orders[o].status = "None" => FALSE
          /\ orders[o].product \in Products /\ orders[o].rewards # NoReward
          /\ orders[o].cred # NoToken => Started(orders[o].cred) /\ tokens[orders[o].cred].order = o
      BY <2>4, Zenon DEF RowOK
    <3>2. row.cred # NoToken => Started(row.cred)' /\ tokens'[row.cred].order = o
      BY <2>2, <2>3, <2>5, <3>1, Zenon DEF Started
    <3>3. GrantSubmitted(o) => row.cred # NoToken /\ PaidBy(o, row.cred)'
      BY <2>2, <2>4, <2>5, <2>6, Zenon DEF RowOK, PaidBy
    <3>4. RevokeSubmitted(o) \/ row.reason = "refund" =>
             row.cred # NoToken /\ RefundedBy(o, row.cred)'
      BY <2>2, <2>4, <2>5, <2>6, Zenon DEF RowOK, RefundedBy
    <3>5. /\ row.status = "Purchased" => row.paid
          /\ row.paid =>
                /\ GrantSubmitted(o)
                /\ \/ row.status = "Purchased"
                   \/ row.status = "Cancelled" /\ row.reason = "refund" /\ RevokeSubmitted(o)
      BY <2>4, <2>5, Zenon DEF RowOK
    <3> QED
      BY <2>5, <2>6, <3>1, <3>2, <3>3, <3>4, <3>5, Zenon DEF RowOK, Started, PaidBy, RefundedBy
  <2>8. /\ j \in Job /\ j.pc = "load" /\ j.order = o /\ j.token = t
        /\ j.tp = job[w].tp /\ j.msgs = job[w].msgs
    BY <1>1, <2>1, AtJob DEF PC
  <2>9. job'[w] = j
    BY <1>1, <2>2, Zenon DEF TypeOK
  <2>10. JobOK(job[w])'
    BY <2>2, <2>3, <2>8, <2>9, Zenon DEF JobOK, Started
  <2>11. lock' \in [LockKeys -> Workers \cup {NoWorker}]
    BY <1>1, <2>2, Zenon DEF TypeOK
  <2> QED
    <3>1. /\ row.status # "None" /\ (orders[o].cred # NoToken => row.cred = orders[o].cred)
          /\ orders[o].paid => row.paid
          /\ orders[o].status = "Purchased" => row.status = "Purchased"
          /\ row \in OrderRow /\ row.product = orders[o].product /\ o \in Orders
      BY <2>4, <2>5, Zenon
    <3> QED
      BY <2>2, <2>7, <2>8, <2>10, <2>11, <3>1, RowStep, Zenon
<1> QED
  BY <1>2, <1>3, Zenon

\* A row that keeps its binding and its product is well formed again if what
\* its new status claims is so.
LEMMA KeptBinding ==
    ASSUME IInv, NEW o \in Orders, NEW row \in OrderRow,
           orders' = [orders EXCEPT ![o] = row],
           UNCHANGED <<tokens, queue, granted, revoked>>,
           orders[o].status # "None", row.status # "None",
           row.cred = orders[o].cred, row.tpid = orders[o].tpid,
           row.product = orders[o].product, row.rewards # NoReward,
           row.status = "Purchased" => row.paid,
           row.paid => /\ GrantSubmitted(o)
                       /\ \/ row.status = "Purchased"
                          \/ /\ row.status = "Cancelled" /\ row.reason = "refund"
                             /\ RevokeSubmitted(o),
           row.reason = "refund" => row.cred # NoToken /\ RefundedBy(o, row.cred)
    PROVE  RowOK(o)'
<1>0. RowOK(o)
  BY Zenon DEF IInv, Inductive
<1>1. /\ orders'[o] = row
      /\ GrantSubmitted(o)' = GrantSubmitted(o) /\ RevokeSubmitted(o)' = RevokeSubmitted(o)
  BY Zenon DEF IInv, TypeOK, GrantSubmitted, RevokeSubmitted, TaskPending
<1>2. /\ row.product \in Products
      /\ row.cred # NoToken => Started(row.cred)' /\ tokens'[row.cred].order = o
      /\ row.tpid # NoToken => row.tpid = row.cred
  BY <1>0, Zenon DEF RowOK, Started
<1>3. GrantSubmitted(o) => row.cred # NoToken /\ PaidBy(o, row.cred)'
  <2>1. GrantSubmitted(o) => row.cred # NoToken /\ PaidBy(o, row.cred)
    BY <1>0, Zenon DEF RowOK
  <2>2. PaidBy(o, row.cred) => PaidBy(o, row.cred)'
    BY <1>1, Zenon DEF PaidBy
  <2> QED
    BY <2>1, <2>2, Zenon
<1>4. RevokeSubmitted(o) \/ row.reason = "refund" =>
         row.cred # NoToken /\ RefundedBy(o, row.cred)'
  <2>1. RevokeSubmitted(o) \/ row.reason = "refund" =>
           row.cred # NoToken /\ RefundedBy(o, row.cred)
    BY <1>0, Zenon DEF RowOK
  <2>2. RefundedBy(o, row.cred) => RefundedBy(o, row.cred)'
    BY <1>1, Zenon DEF RefundedBy
  <2> QED
    BY <2>1, <2>2, Zenon
<1> QED
  BY <1>1, <1>2, <1>3, <1>4, Zenon DEF RowOK, Started, PaidBy, RefundedBy

PaidPoints == {"snapshot", "grant", "purchase", "complete"}

RefundPoints == {"cancel", "revoke", "refund"}

\* Handler w has order o and token t in hand, and they belong together.
InHand(w, o, t) ==
    /\ o \in Orders /\ t \in Tokens /\ job[w] \in Job /\ orders[o] \in OrderRow
    /\ orders[o].status # "None" /\ orders[o].cred = t
    /\ orders[o].product \in Products /\ orders[o].rewards # NoReward
    /\ Started(t) /\ tokens[t].order = o /\ RowOK(o)
    /\ \A m \in job[w].msgs : Started(m.token)

\* What a pipeline step knows of its order and of the purchase that pays it.
LEMMA InPipeline ==
    ASSUME IInv, NEW w \in Workers, NEW o, NEW t, o = job[w].order, t = job[w].token,
           job[w].pc \in PaidPoints \cup RefundPoints
    PROVE  /\ InHand(w, o, t)
           /\ job[w].pc \in PaidPoints => PaidBy(o, t)
           /\ job[w].pc \in RefundPoints => RefundedBy(o, t)
<1>1. /\ Started(t) /\ tokens[t].order = o
      /\ job[w].pc \in PaidPoints => PaidBy(o, t)
      /\ job[w].pc \in RefundPoints => RefundedBy(o, t)
      /\ \A m \in job[w].msgs : Started(m.token)
  BY Zenon DEF IInv, Inductive, JobOK, PaidPoints, RefundPoints
<1>2. o \in Orders /\ t \in Tokens /\ orders[o].status # "None"
  BY <1>1, Zenon DEF IInv, Inductive, TokenOK, Started, Exists
<1>3. job[w] \in Job /\ orders[o] \in OrderRow /\ RowOK(o)
  BY <1>2, Zenon DEF IInv, TypeOK, Inductive
<1>4. orders[o].cred = t
  BY <1>1, Zenon DEF PaidBy, RefundedBy
<1> QED
  BY <1>1, <1>2, <1>3, <1>4, Zenon DEF RowOK, InHand

\* Between stepGrantRewards and stepComplete the order is charged.
LEMMA PaidPipeline ==
    ASSUME IInv, NEW w \in Workers, NEW o, NEW t, o = job[w].order, t = job[w].token,
           job[w].pc \in PaidPoints
    PROVE  InHand(w, o, t) /\ PaidBy(o, t)
BY InPipeline, Zenon

\* While an order is cancelled or refunded its purchase is cancelled.
LEMMA RefundPipeline ==
    ASSUME IInv, NEW w \in Workers, NEW o, NEW t, o = job[w].order, t = job[w].token,
           job[w].pc \in RefundPoints
    PROVE  InHand(w, o, t) /\ RefundedBy(o, t)
BY InPipeline, Zenon

\* What stepGrantRewards and stepComplete may rely on.
LEMMA PaidJob ==
    ASSUME NEW w \in Workers, NEW j, NEW o, NEW t, job'[w] = j,
           j.pc \in {"grant", "complete"}, j.order = o, j.token = t,
           Started(t)', tokens'[t].order = o, PaidBy(o, t)',
           j.pc = "grant" => j.rewards # NoReward,
           j.pc = "complete" => orders'[o].paid,
           \A m \in j.msgs : Started(m.token)'
    PROVE  JobOK(job[w])'
BY Zenon DEF JobOK

\* stepGrantRewards stores the rewards of the configuration in force.
LEMMA SnapshotStep ==
    ASSUME IInv, NEW w \in Workers, SnapshotRewards(w)
    PROVE  IInv'
<1>1. TypeOK /\ faults \in 0 .. MaxFaults
  BY Zenon DEF IInv, TypeOK
<1>2. CASE Error(w)
  BY <1>1, <1>2, ErrorStep, Zenon DEF SnapshotRewards
<1>3. CASE ~Error(w)
  <2>1. PICK o, t, old : o = job[w].order /\ t = job[w].token /\ old = orders[o]
    BY Zenon
  <2>2. PICK r, row, j :
           /\ r = config[old.product] /\ row = UpdateOrderRewards(old, r)
           /\ j = WithRewards(job[w], "grant", r)
    BY Zenon
  <2>3. /\ job[w].pc = "snapshot" /\ r # NoReward
        /\ orders' = [orders EXCEPT ![o] = row]
        /\ job' = [job EXCEPT ![w] = j]
        /\ UNCHANGED <<issued, tokens, rtdn, lock, queue, granted, revoked, config, reloads, faults>>
    BY <1>3, <2>1, <2>2, Zenon DEF SnapshotRewards
  <2>4. /\ o \in Orders /\ t \in Tokens /\ job[w] \in Job /\ old \in OrderRow
        /\ old.status # "None" /\ old.cred = t /\ old.product \in Products
        /\ Started(t) /\ tokens[t].order = o /\ PaidBy(o, t) /\ RowOK(o)
        /\ \A m \in job[w].msgs : Started(m.token)
    <3>1. job[w].pc \in PaidPoints
      BY <2>3, Zenon DEF PaidPoints
    <3>2. InHand(w, o, t) /\ PaidBy(o, t)
      BY <2>1, <3>1, PaidPipeline, Zenon
    <3> QED
      BY <2>1, <3>2, Zenon DEF InHand
  <2>5. r \in Rewards \cup {NoReward}
    BY <1>1, <2>2, <2>4, Zenon DEF TypeOK
  <2>6. /\ row \in OrderRow /\ row.status = old.status /\ row.reason = old.reason
        /\ row.paid = old.paid /\ row.cred = old.cred /\ row.tpid = old.tpid
        /\ row.product = old.product /\ row.rewards = r
    <3>1. old \in OrderRow /\ r \in Rewards \cup {NoReward} /\ row = UpdateOrderRewards(old, r)
      BY <2>2, <2>4, <2>5, Zenon
    <3> QED
      BY <3>1, RewardsRow
  <2>7. RowOK(o)'
    <3>1. /\ old.status = "Purchased" => old.paid
          /\ old.paid => /\ GrantSubmitted(o)
                         /\ \/ old.status = "Purchased"
                            \/ /\ old.status = "Cancelled" /\ old.reason = "refund"
                               /\ RevokeSubmitted(o)
          /\ old.reason = "refund" => old.cred # NoToken /\ RefundedBy(o, old.cred)
      BY <2>1, <2>4, Zenon DEF RowOK
    <3> QED
      BY <2>1, <2>3, <2>4, <2>6, <3>1, KeptBinding, Zenon
  <2>8. /\ j \in Job /\ j.pc = "grant" /\ j.order = o /\ j.token = t
        /\ j.rewards = r /\ j.msgs = job[w].msgs
    <3>1. PICK pc \in PC : pc = "grant"
      BY Zenon DEF PC
    <3>2. j = WithRewards(job[w], pc, r) /\ job[w] \in Job
      BY <2>2, <2>4, <3>1, Zenon
    <3>3. j \in Job /\ j.pc = pc /\ j.rewards = r
      BY <2>5, <3>2, WithRewardsJob, Zenon
    <3>4. j.order = job[w].order /\ j.token = job[w].token /\ j.msgs = job[w].msgs
      BY <2>5, <3>2, WithRewardsJob, SMTT(60)
    <3> QED
      BY <2>1, <3>1, <3>3, <3>4, Zenon
  <2>9. /\ job'[w] = j /\ orders'[o] = row /\ tokens' = tokens
        /\ lock' \in [LockKeys -> Workers \cup {NoWorker}]
    BY <1>1, <2>3, <2>4, Zenon DEF TypeOK
  <2>10. JobOK(job[w])'
    <3>1. PaidBy(o, t)' /\ Started(t)' /\ tokens'[t].order = o
      BY <2>1, <2>4, <2>6, <2>9, Zenon DEF PaidBy, Started
    <3>2. \A m \in j.msgs : Started(m.token)'
      BY <2>3, <2>4, <2>8, Zenon DEF Started
    <3> QED
      BY <2>3, <2>6, <2>8, <2>9, <3>1, <3>2, PaidJob, Zenon
  <2> QED
    <3>1. /\ row.status # "None" /\ row.cred = orders[o].cred /\ row.product = orders[o].product
          /\ orders[o].paid => row.paid
          /\ orders[o].status = "Purchased" => row.status = "Purchased"
      BY <2>1, <2>4, <2>6, Zenon
    <3> QED
      BY <2>3, <2>4, <2>6, <2>7, <2>8, <2>9, <2>10, <3>1, RowStep, Zenon
<1> QED
  BY <1>2, <1>3, Zenon

\* MarkOrderPurchased runs only once the grant is submitted.
LEMMA PurchaseStep ==
    ASSUME IInv, NEW w \in Workers, MarkPurchased(w)
    PROVE  IInv'
<1>1. TypeOK /\ faults \in 0 .. MaxFaults
  BY Zenon DEF IInv, TypeOK
<1>2. CASE Error(w)
  BY <1>1, <1>2, ErrorStep, Zenon DEF MarkPurchased
<1>3. CASE ~Error(w)
  <2>1. PICK o, t, old : o = job[w].order /\ t = job[w].token /\ old = orders[o]
    BY Zenon
  <2>2. PICK row, j : row = MarkOrderPurchased(old) /\ j = At(job[w], "complete")
    BY Zenon
  <2>3. /\ job[w].pc = "purchase" /\ Purchasable(old)
        /\ orders' = [orders EXCEPT ![o] = row]
        /\ job' = [job EXCEPT ![w] = j]
        /\ UNCHANGED <<issued, tokens, rtdn, lock, queue, granted, revoked, config, reloads, faults>>
    BY <1>3, <2>1, <2>2, Zenon DEF MarkPurchased, Goto
  <2>4. /\ o \in Orders /\ t \in Tokens /\ job[w] \in Job /\ old \in OrderRow
        /\ old.status # "None" /\ old.cred = t /\ old.product \in Products
        /\ old.rewards # NoReward
        /\ Started(t) /\ tokens[t].order = o /\ PaidBy(o, t)
        /\ \A m \in job[w].msgs : Started(m.token)
    <3>1. job[w].pc \in PaidPoints
      BY <2>3, Zenon DEF PaidPoints
    <3>2. InHand(w, o, t) /\ PaidBy(o, t)
      BY <2>1, <3>1, PaidPipeline, Zenon
    <3> QED
      BY <2>1, <3>2, Zenon DEF InHand
  <2>5. GrantSubmitted(o)
    BY <2>1, <2>3, Zenon DEF IInv, Inductive, JobOK
  <2>6. /\ row \in OrderRow /\ row.status = "Purchased" /\ row.reason = "none" /\ row.paid
        /\ row.cred = old.cred /\ row.tpid = old.tpid
        /\ row.product = old.product /\ row.rewards = old.rewards
    BY <2>2, <2>4, PurchasedRow, Zenon
  <2>7. RowOK(o)'
    BY <2>1, <2>3, <2>4, <2>5, <2>6, KeptBinding, Zenon
  <2>8. /\ j \in Job /\ j.pc = "complete" /\ j.order = o /\ j.token = t
        /\ j.msgs = job[w].msgs
    <3>1. "complete" \in PC
      BY Zenon DEF PC
    <3> QED
      BY <2>1, <2>2, <2>4, <3>1, AtJob, Zenon
  <2>9. /\ job'[w] = j /\ orders'[o] = row /\ tokens' = tokens
        /\ lock' \in [LockKeys -> Workers \cup {NoWorker}]
    BY <1>1, <2>3, <2>4, Zenon DEF TypeOK
  <2>10. JobOK(job[w])'
    <3>1. PaidBy(o, t)' /\ Started(t)' /\ tokens'[t].order = o
      BY <2>1, <2>4, <2>6, <2>9, Zenon DEF PaidBy, Started
    <3>2. \A m \in j.msgs : Started(m.token)'
      BY <2>3, <2>4, <2>8, Zenon DEF Started
    <3> QED
      BY <2>3, <2>6, <2>8, <2>9, <3>1, <3>2, PaidJob, Zenon
  <2> QED
    <3>1. /\ row.status # "None" /\ row.cred = orders[o].cred /\ row.product = orders[o].product
          /\ orders[o].paid => row.paid
          /\ orders[o].status = "Purchased" => row.status = "Purchased"
      BY <2>1, <2>4, <2>6, Zenon
    <3> QED
      BY <2>3, <2>4, <2>6, <2>7, <2>8, <2>9, <2>10, <3>1, RowStep, Zenon
<1> QED
  BY <1>2, <1>3, Zenon

=============================================================================
