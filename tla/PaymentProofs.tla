---------------------------- MODULE PaymentProofs ---------------------------
(***************************************************************************)
(* The inductive invariant is kept by the statements that close an order,  *)
(* by the task queue, by the two tasks and by what happens to a purchase   *)
(* at Google.  So the safety properties of the payment service hold, and   *)
(* it implements OrderContract, for any number of players, products,       *)
(* orders, tokens and workers and any number of failures.  Last, what the  *)
(* lease of create_order is for: a player has one Pending order of a       *)
(* product as long as no lease runs out under its holder.                  *)
(***************************************************************************)
EXTENDS PaymentSteps

-----------------------------------------------------------------------------
(* Steps on a row, on the task queue and at Google *)

\* MarkOrderCancelled touches only orders that were never paid,
\* MarkOrderRefunded runs only once the revocation is submitted.
LEMMA RefundStep ==
    ASSUME IInv, NEW w \in Workers, MarkCancelled(w) \/ MarkRefunded(w)
    PROVE  IInv'
<1>1. TypeOK /\ faults \in 0 .. MaxFaults
  BY Zenon DEF IInv, TypeOK
<1>2. CASE Error(w)
  BY <1>1, <1>2, ErrorStep, Zenon DEF MarkCancelled, MarkRefunded
<1>3. CASE ~Error(w)
  <2>1. PICK o, t, old : o = job[w].order /\ t = job[w].token /\ old = orders[o]
    BY Zenon
  <2>2. PICK row, j : orders' = [orders EXCEPT ![o] = row] /\ j = At(job[w], "done")
                      /\ row = MarkOrderRefunded(old)
    BY <1>3, <2>1, Zenon DEF MarkCancelled, MarkRefunded, MarkOrderCancelled, MarkOrderRefunded
  <2>3. /\ \/ job[w].pc = "cancel" /\ old.status = "Pending"
           \/ job[w].pc = "refund" /\ old.status = "Purchased"
        /\ job' = [job EXCEPT ![w] = j]
        /\ UNCHANGED <<issued, tokens, rtdn, lock, queue, granted, revoked, config, reloads, faults>>
    BY <1>3, <2>1, <2>2, Zenon DEF MarkCancelled, MarkRefunded, Cancellable, Refundable, Goto
  <2>4. /\ o \in Orders /\ t \in Tokens /\ job[w] \in Job /\ old \in OrderRow
        /\ old.cred = t /\ old.rewards # NoReward /\ RowOK(o) /\ RefundedBy(o, t)
        /\ \A m \in job[w].msgs : Started(m.token)
    <3>1. job[w].pc \in RefundPoints
      BY <2>3, Zenon DEF RefundPoints
    <3>2. InHand(w, o, t) /\ RefundedBy(o, t)
      BY <2>1, <3>1, RefundPipeline, Zenon
    <3> QED
      BY <2>1, <3>2, Zenon DEF InHand
  <2>5. job[w].pc = "refund" => RevokeSubmitted(o)
    BY <2>1, Zenon DEF IInv, Inductive, JobOK
  <2>6. /\ row \in OrderRow /\ row.status = "Cancelled" /\ row.reason = "refund"
        /\ row.paid = old.paid /\ row.cred = old.cred /\ row.tpid = old.tpid
        /\ row.product = old.product /\ row.rewards = old.rewards
    BY <2>2, <2>4, RefundedRow, Zenon
  <2>7. /\ old.status = "Pending" => ~old.paid
        /\ old.status = "Purchased" => GrantSubmitted(o)
        /\ old.paid => GrantSubmitted(o)
    BY <2>1, <2>4, Zenon DEF RowOK
  <2>8. RowOK(o)'
    <3>1. /\ row.cred # NoToken /\ RefundedBy(o, row.cred)
          /\ row.paid => GrantSubmitted(o) /\ RevokeSubmitted(o)
      BY <2>3, <2>4, <2>5, <2>6, <2>7, OrderStoreAssumption, Zenon
    <3>2. orders[o].status # "None" /\ row.status # "None" /\ row.status # "Purchased"
      BY <2>1, <2>3, <2>6, Zenon
    <3> QED
      BY <2>1, <2>2, <2>3, <2>4, <2>6, <3>1, <3>2, KeptBinding, Zenon
  <2>9. j \in Job /\ j.pc = "done" /\ j.msgs = job[w].msgs
    BY <2>2, <2>4, AtJob, Zenon DEF PC
  <2>10. job'[w] = j /\ lock' \in [LockKeys -> Workers \cup {NoWorker}]
    BY <1>1, <2>3, Zenon DEF TypeOK
  <2>11. JobOK(job[w])'
    <3>1. \A m \in j.msgs : Started(m.token)'
      BY <2>3, <2>4, <2>9, Zenon DEF Started
    <3> QED
      BY <2>9, <2>10, <3>1, Zenon DEF JobOK, Started
  <2> QED
    <3>1. /\ row.status # "None" /\ row.cred = orders[o].cred /\ row.product = orders[o].product
          /\ orders[o].paid => row.paid
          /\ orders[o].status = "Purchased" => RevokeSubmitted(o)
      BY <2>1, <2>3, <2>5, <2>6, Zenon
    <3> QED
      BY <2>2, <2>3, <2>4, <2>6, <2>8, <2>9, <2>10, <2>11, <3>1, RowStep, Zenon
<1> QED
  BY <1>2, <1>3, Zenon

\* MarkOrderTimeout closes a Pending order, which nobody has been paid for.
LEMMA CloseStep ==
    ASSUME IInv, NEW w \in Workers, CloseOrder(w)
    PROVE  IInv'
<1>1. TypeOK
  BY Zenon DEF IInv
<1>2. PICK o, old, row, j : o = job[w].order /\ old = orders[o] /\ row = MarkOrderTimeout(old)
                            /\ j = job'[w]
  BY Zenon
<1>3. /\ orders' = [orders EXCEPT ![o] = row] /\ Leave(w, TRUE)
      /\ UNCHANGED <<issued, tokens, rtdn, queue, granted, revoked, config, reloads, faults>>
  BY <1>2, Zenon DEF CloseOrder
<1>4. CASE orders' = orders
  BY <1>1, <1>3, <1>4, LeaveStep, Zenon DEF TypeOK
<1>5. CASE orders' # orders
  <2>1. o \in Orders /\ old \in OrderRow /\ row # old
    BY <1>1, <1>2, <1>3, <1>5, Zenon DEF TypeOK
  <2>2. /\ old.status = "Pending" /\ row.status = "Cancelled" /\ row.reason = "timeout"
        /\ row \in OrderRow
        /\ row.paid = old.paid /\ row.cred = old.cred /\ row.tpid = old.tpid
        /\ row.product = old.product /\ row.rewards = old.rewards
    BY <1>2, <2>1, TimeoutRow, SMTT(60)
  <2>3. ~old.paid /\ old.rewards # NoReward
    BY <1>2, <2>1, <2>2, Zenon DEF IInv, Inductive, RowOK
  <2>4. RowOK(o)'
    <3>1. orders[o].status # "None" /\ row.status # "None" /\ row.status # "Purchased"
          /\ row.reason # "refund" /\ ~row.paid /\ row.rewards # NoReward
          /\ row.cred = orders[o].cred /\ row.tpid = orders[o].tpid
          /\ row.product = orders[o].product
      BY <1>2, <2>2, <2>3, Zenon
    <3> QED
      BY <1>3, <2>1, <2>2, <3>1, KeptBinding, Zenon
  <2>5. /\ lock' \in [LockKeys -> Workers \cup {NoWorker}]
        /\ job' \in [Workers -> Job]
        /\ \A x \in Workers \ {w} : job'[x] = job[x]
        /\ j.pc \in Resting /\ j.msgs \subseteq job[w].msgs
    BY <1>1, <1>2, <1>3, LeaveJob, Zenon
  <2>6. j \in Job /\ job' = [job EXCEPT ![w] = j]
    BY <1>1, <1>2, <2>5, Zenon DEF TypeOK
  <2>7. JobOK(job[w])'
    <3>1. \A m \in job[w].msgs : Started(m.token)
      BY Zenon DEF IInv, Inductive, JobOK
    <3>2. \A m \in j.msgs : Started(m.token)'
      BY <1>3, <2>5, <3>1, Zenon DEF Started
    <3> QED
      BY <1>2, <2>5, <3>2, Zenon DEF JobOK, Started, Resting
  <2> QED
    <3>1. /\ row.status # "None" /\ row.cred = orders[o].cred /\ row.product = orders[o].product
          /\ orders[o].paid => row.paid
          /\ orders[o].status # "Purchased"
      BY <1>2, <2>2, Zenon
    <3> QED
      BY <1>3, <2>1, <2>2, <2>4, <2>5, <2>6, <2>7, <3>1, RowStep, Zenon
<1> QED
  BY <1>4, <1>5, Zenon

-----------------------------------------------------------------------------
(* Steps on the task queue *)

\* A step that touches only tasks and their effects: no submission is lost, and
\* a new one is for an order that is paid for, or whose purchase is cancelled.
LEMMA TaskStep ==
    ASSUME IInv, TypeOK', UNCHANGED <<orders, issued, tokens, rtdn>>,
           \A o \in Orders : GrantSubmitted(o) => GrantSubmitted(o)',
           \A o \in Orders : RevokeSubmitted(o) => RevokeSubmitted(o)',
           \A o \in Orders : GrantSubmitted(o)' =>
              GrantSubmitted(o) \/ (orders[o].cred # NoToken /\ PaidBy(o, orders[o].cred)),
           \A o \in Orders : RevokeSubmitted(o)' =>
              RevokeSubmitted(o) \/ (orders[o].cred # NoToken /\ RefundedBy(o, orders[o].cred)),
           \A task \in queue' : task \in queue \/ task.rewards # NoReward,
           \A w \in Workers : job'[w] = job[w] \/ JobOK(job[w])'
    PROVE  IInv'
<1>1. Grows
  BY Zenon DEF Grows
<1>2. ASSUME NEW o \in Orders PROVE RowOK(o)'
  <2>1. RowOK(o) /\ orders'[o] = orders[o] /\ tokens' = tokens
    BY Zenon DEF IInv, Inductive
  <2> QED
    BY <2>1, SameRow, Zenon
<1>3. \A t \in Tokens : TokenOK(t)'
  BY Zenon DEF IInv, Inductive, TokenOK, Exists
<1>4. \A w \in Workers : JobOK(job[w])'
  BY <1>1, JobStable, Zenon
<1>5. (\A o \in issued : Exists(o))' /\ (\A m \in rtdn : Started(m.token))'
  BY Zenon DEF IInv, Inductive, Exists, Started
<1>6. (\A task \in queue : task.rewards # NoReward)'
  BY Zenon DEF IInv, Inductive
<1> QED
  BY <1>2, <1>3, <1>4, <1>5, <1>6, Zenon DEF IInv, Inductive

\* A task that succeeds leaves its submission on record: the nonce is written
\* before the task leaves the queue.
LEMMA RunTaskStep ==
    ASSUME IInv, RunTask
    PROVE  IInv'
<1>1. PICK task \in queue : ProcessGrantTask(task) \/ ProcessRevokeTask(task)
  BY Zenon DEF RunTask
<1>2. TypeOK
  BY Zenon DEF IInv
<1>3. PICK kind, o, r : kind = task.kind /\ o = task.order /\ r = task.rewards
  BY Zenon
<1>4. /\ kind \in {"grant", "revoke"} /\ o \in Orders /\ r \in Rewards \cup {NoReward}
      /\ r # NoReward /\ TaskPending(kind, o)
  BY <1>1, <1>2, <1>3, Fields, Zenon DEF TypeOK, IInv, Inductive, TaskPending
<1>5. /\ queue' \subseteq queue /\ \A x \in queue \ {task} : x \in queue'
      /\ UNCHANGED <<orders, issued, tokens, rtdn, lock, job, config, reloads, faults>>
  BY <1>1, Zenon DEF ProcessGrantTask, ProcessRevokeTask, TaskEnds
<1>6. /\ granted' \in [Orders -> Rewards \cup {NoReward}]
      /\ \A x \in Orders : granted[x] # NoReward => granted'[x] # NoReward
      /\ \A x \in Orders : granted'[x] # NoReward => granted[x] # NoReward \/ (x = o /\ kind = "grant")
      /\ kind = "grant" => granted'[o] # NoReward
  BY <1>1, <1>2, <1>3, <1>4, Zenon DEF ProcessGrantTask, ProcessRevokeTask, TypeOK
<1>7. /\ revoked' \in [Orders -> Rewards \cup {NoReward}]
      /\ \A x \in Orders : revoked[x] # NoReward => revoked'[x] # NoReward
      /\ \A x \in Orders : revoked'[x] # NoReward => revoked[x] # NoReward \/ (x = o /\ kind = "revoke")
      /\ kind = "revoke" => revoked'[o] # NoReward
  BY <1>1, <1>2, <1>3, <1>4, Zenon DEF ProcessGrantTask, ProcessRevokeTask, TypeOK
<1>8. \A x \in Orders : GrantSubmitted(x) <=> GrantSubmitted(x)'
  BY <1>3, <1>4, <1>5, <1>6, Zenon DEF GrantSubmitted, TaskPending
<1>9. \A x \in Orders : RevokeSubmitted(x) <=> RevokeSubmitted(x)'
  BY <1>3, <1>4, <1>5, <1>7, Zenon DEF RevokeSubmitted, TaskPending
<1>10. TypeOK'
  BY <1>2, <1>5, <1>6, <1>7, Zenon DEF TypeOK
<1> QED
  BY <1>5, <1>8, <1>9, <1>10, TaskStep, Zenon

\* A submission is for the order of the pipeline, with the rewards it read.
LEMMA EnqueueStep ==
    ASSUME IInv, NEW w \in Workers, EnqueueGrant(w) \/ EnqueueRevoke(w)
    PROVE  IInv'
<1>1. TypeOK /\ faults \in 0 .. MaxFaults
  BY Zenon DEF IInv, TypeOK
<1>2. CASE Error(w)
  BY <1>1, <1>2, ErrorStep, Zenon DEF EnqueueGrant, EnqueueRevoke, Enqueue
<1>3. CASE Panic(w)
  BY <1>1, <1>3, PanicStep, Zenon DEF EnqueueGrant, EnqueueRevoke, Enqueue
<1>4. CASE ~Error(w) /\ ~Panic(w)
  <2>1. PICK kind, pc :
           /\ \/ kind = "grant" /\ pc = "purchase" /\ job[w].pc = "grant"
              \/ kind = "revoke" /\ pc = "refund" /\ job[w].pc = "revoke"
           /\ Enqueue(w, kind, pc)
    BY Zenon DEF EnqueueGrant, EnqueueRevoke
  <2>2. PICK o, t, r, task, j :
           /\ o = job[w].order /\ t = job[w].token /\ r = job[w].rewards
           /\ task = [kind |-> kind, order |-> o, rewards |-> r]
           /\ j = At(job[w], pc)
    BY Zenon
  <2>3. /\ queue' = queue \cup {task}
        /\ job' = [job EXCEPT ![w] = j]
        /\ UNCHANGED <<orders, issued, tokens, rtdn, lock, granted, revoked, config, reloads, faults>>
    BY <1>4, <2>1, <2>2, Zenon DEF Enqueue, Goto
  <2>4. /\ o \in Orders /\ t \in Tokens /\ job[w] \in Job /\ orders[o].cred = t
        /\ Started(t) /\ tokens[t].order = o
        /\ kind = "grant" => PaidBy(o, t)
        /\ kind = "revoke" => RefundedBy(o, t)
        /\ \A m \in job[w].msgs : Started(m.token)
    <3>1. o = job[w].order /\ t = job[w].token
      BY <2>2, Zenon
    <3>2. CASE kind = "grant"
      <4>1. job[w].pc \in PaidPoints /\ kind # "revoke"
        BY <2>1, <3>2, Zenon DEF PaidPoints
      <4>2. /\ o \in Orders /\ t \in Tokens /\ job[w] \in Job /\ orders[o].cred = t
            /\ Started(t) /\ tokens[t].order = o /\ PaidBy(o, t)
            /\ \A m \in job[w].msgs : Started(m.token)
        <5>1. InHand(w, o, t) /\ PaidBy(o, t)
          BY <3>1, <4>1, PaidPipeline, Zenon
        <5> QED
          BY <3>1, <5>1, Zenon DEF InHand
      <4> QED
        BY <4>1, <4>2, Zenon
    <3>3. CASE kind = "revoke"
      <4>1. job[w].pc \in RefundPoints /\ kind # "grant"
        BY <2>1, <3>3, Zenon DEF RefundPoints
      <4>2. /\ o \in Orders /\ t \in Tokens /\ job[w] \in Job /\ orders[o].cred = t
            /\ Started(t) /\ tokens[t].order = o /\ RefundedBy(o, t)
            /\ \A m \in job[w].msgs : Started(m.token)
        <5>1. InHand(w, o, t) /\ RefundedBy(o, t)
          BY <3>1, <4>1, RefundPipeline, Zenon
        <5> QED
          BY <3>1, <5>1, Zenon DEF InHand
      <4> QED
        BY <4>1, <4>2, Zenon
    <3> QED
      BY <2>1, <3>2, <3>3, Zenon
  <2>5. r # NoReward /\ r \in Rewards \cup {NoReward}
    BY <2>1, <2>2, <2>4, Fields, Zenon DEF IInv, Inductive, JobOK
  <2>6. task \in Task /\ task.kind = kind /\ task.order = o /\ task.rewards = r
    BY <2>1, <2>2, <2>4, <2>5, Zenon DEF Task
  <2>7. /\ j \in Job /\ j.pc = pc /\ j.order = o /\ j.token = t /\ j.msgs = job[w].msgs
    <3>1. pc \in PC
      BY <2>1, Zenon DEF PC
    <3> QED
      BY <2>2, <2>4, <3>1, AtJob, Zenon
  <2>8. job'[w] = j /\ \A x \in Workers \ {w} : job'[x] = job[x]
    BY <1>1, <2>3, Zenon DEF TypeOK
  <2>9. TypeOK'
    BY <1>1, <2>3, <2>6, <2>7, Zenon DEF TypeOK
  <2>10. /\ \A x \in Orders : GrantSubmitted(x) => GrantSubmitted(x)'
         /\ \A x \in Orders : GrantSubmitted(x)' =>
               GrantSubmitted(x) \/ (x = o /\ kind = "grant")
         /\ kind = "grant" => GrantSubmitted(o)'
    BY <2>3, <2>6, Zenon DEF GrantSubmitted, TaskPending
  <2>11. /\ \A x \in Orders : RevokeSubmitted(x) => RevokeSubmitted(x)'
         /\ \A x \in Orders : RevokeSubmitted(x)' =>
               RevokeSubmitted(x) \/ (x = o /\ kind = "revoke")
         /\ kind = "revoke" => RevokeSubmitted(o)'
    BY <2>3, <2>6, Zenon DEF RevokeSubmitted, TaskPending
  <2>12. JobOK(job[w])'
    <3>1. /\ Started(t)' /\ tokens'[t].order = o
          /\ kind = "grant" => PaidBy(o, t)'
          /\ kind = "revoke" => RefundedBy(o, t)'
      BY <2>3, <2>4, Zenon DEF Started, PaidBy, RefundedBy
    <3>2. \A m \in j.msgs : Started(m.token)'
      BY <2>3, <2>4, <2>7, Zenon DEF Started
    <3>3. CASE kind = "grant"
      <4>1. pc = "purchase" /\ GrantSubmitted(o)' /\ PaidBy(o, t)'
        BY <2>1, <2>10, <3>1, <3>3, Zenon
      <4> QED
        BY <2>7, <2>8, <3>1, <3>2, <4>1, Zenon
           DEF JobOK, Started, PaidBy, GrantSubmitted, TaskPending
    <3>4. CASE kind = "revoke"
      BY <2>1, <2>7, <2>8, <2>11, <3>1, <3>2, <3>4, Zenon
         DEF JobOK, Started, RefundedBy, RevokeSubmitted, TaskPending
    <3> QED
      BY <2>1, <3>3, <3>4, Zenon
  <2>13. /\ kind = "grant" => orders[o].cred # NoToken /\ PaidBy(o, orders[o].cred)
         /\ kind = "revoke" => orders[o].cred # NoToken /\ RefundedBy(o, orders[o].cred)
    BY <2>4, OrderStoreAssumption, Zenon
  <2>14. \A x \in queue' : x \in queue \/ x.rewards # NoReward
    BY <2>3, <2>5, <2>6, Zenon
  <2> QED
    BY <2>3, <2>8, <2>9, <2>10, <2>11, <2>12, <2>13, <2>14, TaskStep, Zenon
<1> QED
  BY <1>2, <1>3, <1>4, Zenon

-----------------------------------------------------------------------------
(* Steps on a purchase *)

\* A step that changes one purchase and of the tables nothing else.
LEMMA PurchaseTableStep ==
    ASSUME IInv, NEW t \in Tokens, NEW p \in Purchase,
           tokens' = [tokens EXCEPT ![t] = p],
           UNCHANGED <<orders, issued, lock, queue, granted, revoked, config, reloads, faults>>,
           p.state # "None",
           tokens[t].state # "None" =>
              /\ p.order = tokens[t].order /\ p.product = tokens[t].product
              /\ tokens[t].charged => p.charged
              /\ tokens[t].state = "Cancelled" => p.state = "Cancelled",
           TokenOK(t)',
           rtdn' \subseteq Message, \A m \in rtdn' : m \in rtdn \/ m.token = t,
           job' \in [Workers -> Job],
           \A w \in Workers : job'[w] = job[w] \/ JobOK(job[w])'
    PROVE  IInv'
<1>1. \A x \in Tokens : tokens'[x] = IF x = t THEN p ELSE tokens[x]
  BY Zenon DEF IInv, TypeOK
<1>2. TypeOK'
  BY Zenon DEF IInv, TypeOK
<1>3. \A o \in Orders : /\ GrantSubmitted(o)' <=> GrantSubmitted(o)
                        /\ RevokeSubmitted(o)' <=> RevokeSubmitted(o)
  BY Zenon DEF GrantSubmitted, RevokeSubmitted, TaskPending
<1>4. Grows
  BY <1>1, <1>3, Zenon DEF Grows
<1>5. ASSUME NEW o \in Orders PROVE RowOK(o)'
  <2>1. RowOK(o) /\ orders'[o] = orders[o]
    BY Zenon DEF IInv, Inductive
  <2>2. PICK c : c = orders[o].cred
    BY Zenon
  <2>3. c # NoToken => Started(c) /\ tokens[c].order = o
    BY <2>1, <2>2, Zenon DEF RowOK
  <2>4. Started(c) =>
           /\ Started(c)' /\ tokens'[c].order = tokens[c].order
           /\ PaidBy(o, c) => PaidBy(o, c)'
           /\ RefundedBy(o, c) => RefundedBy(o, c)'
    BY <2>1, <1>4, Zenon DEF Grows, Started, PaidBy, RefundedBy
  <2> QED
    BY <1>3, <2>1, <2>2, <2>3, <2>4, Zenon DEF RowOK, Started, PaidBy, RefundedBy
<1>6. ASSUME NEW x \in Tokens PROVE TokenOK(x)'
  <2>1. CASE x # t
    <3>1. TokenOK(x) /\ tokens'[x] = tokens[x]
      BY <1>1, <2>1, Zenon DEF IInv, Inductive
    <3> QED
      BY <3>1, Zenon DEF TokenOK, Exists
  <2> QED
    BY <2>1, Zenon
<1>7. \A w \in Workers : JobOK(job[w])'
  BY <1>4, JobStable, Zenon
<1>8. (\A o \in issued : Exists(o))' /\ (\A task \in queue : task.rewards # NoReward)'
  BY Zenon DEF IInv, Inductive, Exists
<1>9. (\A m \in rtdn : Started(m.token))'
  BY <1>1 DEF IInv, Inductive, Started
<1> QED
  BY <1>2, <1>5, <1>6, <1>7, <1>8, <1>9, Zenon DEF IInv, Inductive

\* A started purchase may be consumed once the order it pays for is paid.
LEMMA ConsumedToken ==
    ASSUME NEW t, NEW p, NEW o, TokenOK(t), Started(t), tokens[t].order = o,
           tokens'[t] = p, p.state = tokens[t].state, p.charged = tokens[t].charged,
           p.order = tokens[t].order, orders' = orders, orders[o].cred = t, orders[o].paid
    PROVE  TokenOK(t)'
BY Zenon DEF TokenOK, Exists, Started

\* Complete consumes the purchase of an order that is paid.
LEMMA CompleteStep ==
    ASSUME IInv, NEW w \in Workers, CompletePurchase(w)
    PROVE  IInv'
<1>1. TypeOK /\ faults \in 0 .. MaxFaults
  BY Zenon DEF IInv, TypeOK
<1>2. CASE Error(w)
  BY <1>1, <1>2, ErrorStep, Zenon DEF CompletePurchase
<1>3. CASE ~Error(w)
  <2>1. PICK o, t, old, j : /\ o = job[w].order /\ t = job[w].token /\ old = tokens[t]
                            /\ j = At(job[w], "done")
    BY Zenon
  <2>2. /\ job[w].pc = "complete" /\ job' = [job EXCEPT ![w] = j]
        /\ UNCHANGED <<orders, issued, rtdn, lock, queue, granted, revoked, config, reloads, faults>>
        /\ tokens' = tokens \/ tokens' = [tokens EXCEPT ![t] = Consume(old)]
    BY <1>3, <2>1, Zenon DEF CompletePurchase, Goto
  <2>3. /\ o \in Orders /\ t \in Tokens /\ job[w] \in Job /\ orders[o].cred = t
        /\ Started(t) /\ tokens[t].order = o
        /\ \A m \in job[w].msgs : Started(m.token)
    <3>1. job[w].pc \in PaidPoints
      BY <2>2, Zenon DEF PaidPoints
    <3>2. InHand(w, o, t) /\ PaidBy(o, t)
      BY <2>1, <3>1, PaidPipeline, Zenon
    <3> QED
      BY <2>1, <3>2, Zenon DEF InHand
  <2>4. orders[o].paid /\ TokenOK(t) /\ old \in Purchase
    BY <1>1, <2>1, <2>2, <2>3, ZenonT(40) DEF IInv, Inductive, JobOK, TypeOK
  <2>5. j \in Job /\ j.pc = "done" /\ j.msgs = job[w].msgs
    BY <2>1, <2>3, AtJob DEF PC
  <2>6. /\ job'[w] = j /\ job' \in [Workers -> Job]
        /\ \A x \in Workers \ {w} : job'[x] = job[x]
    BY <1>1, <2>2, <2>5, Zenon DEF TypeOK
  <2>7. CASE tokens' = tokens
    <3>1. JobOK(j)
      BY <2>3, <2>5, FreeJob, Zenon
    <3> QED
      BY <1>1, <2>2, <2>5, <2>7, <3>1, JobStep, Zenon DEF TypeOK
  <2>8. CASE tokens' = [tokens EXCEPT ![t] = Consume(old)]
    <3>1. PICK p : p = Consume(old)
      BY Zenon
    <3>2. /\ p \in Purchase /\ p.consumed /\ p.state = old.state /\ p.charged = old.charged
          /\ p.order = old.order /\ p.product = old.product
      BY <2>4, <3>1, Purchases, Zenon
    <3>3. tokens' = [tokens EXCEPT ![t] = p] /\ tokens'[t] = p
      BY <1>1, <2>3, <2>8, <3>1, Zenon DEF TypeOK
    <3>4. TokenOK(t)'
      BY <2>1, <2>2, <2>3, <2>4, <3>2, <3>3, ConsumedToken, Zenon
    <3>5. JobOK(job[w])'
      <4>1. \A m \in Message : Started(m.token) => Started(m.token)'
        BY <1>1, <2>1, <2>3, <2>8, <3>2, <3>3, Zenon DEF Started, TypeOK
      <4>2. job[w].msgs \in SUBSET Message
        BY <2>3, Fields, Zenon
      <4>3. \A m \in j.msgs : Started(m.token)'
        BY <2>3, <2>5, <4>1, <4>2, Zenon
      <4> QED
        BY <2>5, <2>6, <4>3, Zenon DEF JobOK, Started
    <3>6. p.state # "None"
      BY <2>1, <2>3, <3>2, Zenon DEF Started
    <3>7. rtdn' \subseteq Message /\ rtdn' = rtdn
      BY <1>1, <2>2, Zenon DEF TypeOK
    <3> QED
      <4>1. /\ p.order = tokens[t].order /\ p.product = tokens[t].product
            /\ tokens[t].charged => p.charged
            /\ tokens[t].state = "Cancelled" => p.state = "Cancelled"
        BY <2>1, <3>2, Zenon
      <4>2. /\ \A x \in Workers : job'[x] = job[x] \/ JobOK(job[x])'
            /\ p \in Purchase /\ t \in Tokens
        BY <2>3, <2>6, <3>2, <3>5, Zenon
      <4> QED
        BY <2>2, <2>6, <3>3, <3>4, <3>6, <3>7, <4>1, <4>2, PurchaseTableStep, Zenon
  <2> QED
    BY <2>2, <2>7, <2>8, Zenon
<1> QED
  BY <1>2, <1>3, Zenon

\* What Google does on its own: start, charge, cancel.
LEMMA GoogleStep ==
    ASSUME IInv, Google
    PROVE  IInv'
<1>1. TypeOK
  BY Zenon DEF IInv
<1>2. PICK t \in Tokens :
         \/ \E o \in Orders, p \in Products : StartPurchase(t, o, p)
         \/ GooglePurchased(t)
         \/ GoogleCancelled(t)
  BY Zenon DEF Google
<1>3. PICK old : old = tokens[t]
  BY Zenon
<1>4. old \in Purchase /\ TokenOK(t)
  BY <1>1, <1>3, Zenon DEF TypeOK, IInv, Inductive
<1>5. ASSUME NEW o \in Orders, NEW g \in Products, StartPurchase(t, o, g)
      PROVE  IInv'
  <2>1. PICK p : p = Buy(o, g)
    BY Zenon
  <2>2. /\ p \in Purchase /\ p.state = "Pending" /\ p.order = o
        /\ ~p.charged /\ ~p.consumed
    BY <2>1, Purchases
  <2>3. /\ tokens' = [tokens EXCEPT ![t] = p] /\ tokens[t].state = "None" /\ o \in issued
        /\ UNCHANGED <<orders, issued, rtdn, lock, job, queue, granted, revoked, config, reloads, faults>>
    BY <1>5, <2>1, Zenon DEF StartPurchase
  <2>4. tokens'[t] = p /\ Exists(o)
    BY <1>1, <2>3, Zenon DEF TypeOK, IInv, Inductive
  <2>5. TokenOK(t)'
    BY <2>2, <2>3, <2>4, Zenon DEF TokenOK, Exists
  <2>6. rtdn' \subseteq Message /\ job' \in [Workers -> Job] /\ rtdn' = rtdn /\ job' = job
    BY <1>1, <2>3, Zenon DEF TypeOK
  <2> QED
    BY <2>2, <2>3, <2>5, <2>6, PurchaseTableStep, Zenon
<1>6. ASSUME NEW p, NEW e, e \in {"purchased", "cancelled"},
             old.state # "None", old.state # "Cancelled",
             p \in Purchase, p.state \in {"Purchased", "Cancelled"},
             p.state = "Purchased" => p.charged,
             old.charged => p.charged,
             p.consumed = old.consumed, p.order = old.order, p.product = old.product,
             tokens' = [tokens EXCEPT ![t] = p],
             rtdn' = rtdn \cup {[token |-> t, event |-> e]},
             UNCHANGED <<orders, issued, lock, job, queue, granted, revoked, config, reloads, faults>>
      PROVE  IInv'
  <2>1. tokens'[t] = p
    BY <1>1, <1>6, Zenon DEF TypeOK
  <2>2. TokenOK(t)'
    BY <1>3, <1>4, <1>6, <2>1, Zenon DEF TokenOK, Exists
  <2>3. /\ rtdn' \subseteq Message /\ \A m \in rtdn' : m \in rtdn \/ m.token = t
        /\ job' \in [Workers -> Job] /\ job' = job
    BY <1>1, <1>6 DEF TypeOK, Message
  <2> QED
    BY <1>3, <1>6, <2>2, <2>3, PurchaseTableStep, Zenon
<1>7. CASE GooglePurchased(t)
  <2>1. PICK p : p = Charge(old)
    BY Zenon
  <2>2. /\ p \in Purchase /\ p.state = "Purchased" /\ p.charged
        /\ p.order = old.order /\ p.product = old.product /\ p.consumed = old.consumed
    BY <1>4, <2>1, Purchases, Zenon
  <2> QED
    BY <1>3, <1>6, <1>7, <2>1, <2>2, Zenon DEF GooglePurchased
<1>8. CASE GoogleCancelled(t)
  <2>1. PICK p : p = Cancel(old)
    BY Zenon
  <2>2. /\ p \in Purchase /\ p.state = "Cancelled" /\ p.charged = old.charged
        /\ p.order = old.order /\ p.product = old.product /\ p.consumed = old.consumed
    BY <1>4, <2>1, Purchases, Zenon
  <2> QED
    BY <1>3, <1>6, <1>8, <2>1, <2>2, Zenon DEF GoogleCancelled
<1> QED
  BY <1>2, <1>5, <1>7, <1>8, Zenon

-----------------------------------------------------------------------------
(* The theorems *)

\* Before the first request there is nothing to be wrong about.
LEMMA InitIInv == Init => IInv
<1> SUFFICES ASSUME Init PROVE IInv
  BY Zenon
<1>1. /\ NoRow \in OrderRow /\ NoRow.status = "None" /\ NoRow.paid = FALSE
      /\ NoRow.reason = "none" /\ NoRow.cred = NoToken /\ NoRow.tpid = NoToken
  <2>1. 0 \in 0 .. RetryCap
    BY OrderStoreAssumption
  <2> QED
    BY <2>1, Zenon DEF NoRow, OrderRow, OrderStatus, CancelReason
<1>2. /\ NoPurchase \in Purchase /\ NoPurchase.state = "None"
      /\ NoPurchase.charged = FALSE /\ NoPurchase.consumed = FALSE
  BY Zenon DEF NoPurchase, Purchase, TPStatus
<1>3. NoJob \in Job /\ JobOK(NoJob)
  BY StartingJobs, FreeJob, Zenon
<1>4. TypeOK
  BY <1>1, <1>2, <1>3, PaymentAssumption DEF Init, TypeOK
<1>5. ASSUME NEW o \in Orders PROVE RowOK(o)
  <2>1. orders[o] = NoRow /\ ~GrantSubmitted(o) /\ ~RevokeSubmitted(o)
    BY Zenon DEF Init, GrantSubmitted, RevokeSubmitted, TaskPending
  <2> QED
    BY <1>1, <2>1, Zenon DEF RowOK
<1>6. ASSUME NEW t \in Tokens PROVE TokenOK(t)
  BY <1>2, Zenon DEF Init, TokenOK
<1>7. \A w \in Workers : JobOK(job[w])
  BY <1>3, Zenon DEF Init
<1> QED
  BY <1>4, <1>5, <1>6, <1>7, Zenon DEF IInv, Inductive, Init

\* Every step of every worker, task, purchase and failure keeps the invariant.
LEMMA NextIInv == IInv /\ [Next]_vars => IInv'
<1> SUFFICES ASSUME IInv, [Next]_vars PROVE IInv'
  BY Zenon
<1>1. ASSUME NEW w \in Workers,
             ClientStart(w) \/ CheckExpiredPendingOrders(w) \/ CheckGoogleRTDN(w)
      PROVE  IInv'
  BY <1>1, StartSteps, Zenon
<1>2. ASSUME NEW w \in Workers, ClientStep(w) PROVE IInv'
  BY <1>2, CreateOrderSteps, InsertStep, Zenon DEF ClientStep
<1>3. ASSUME NEW w \in Workers, CronStep(w) PROVE IInv'
  BY <1>3, ScanSteps, CloseStep, Zenon DEF CronStep
<1>4. ASSUME NEW w \in Workers, PullerStep(w) \/ ReturnOK(w) PROVE IInv'
  BY <1>4, PullSteps, Zenon DEF PullerStep
<1>5. ASSUME NEW w \in Workers, OrderStep(w) PROVE IInv'
  BY <1>4, <1>5, QueryStep, BindStep, LoadStep, SnapshotStep, EnqueueStep, PurchaseStep,
     CompleteStep, RefundStep, Zenon DEF OrderStep
<1>6. CASE UNCHANGED vars
  <2>1. /\ TypeOK'
        /\ \A o \in Orders : Alike(orders[o], orders'[o])
        /\ UNCHANGED <<issued, tokens, rtdn, job, queue, granted, revoked>>
    BY <1>6, Zenon DEF vars, IInv, TypeOK, Alike
  <2> QED
    BY <2>1, QuietStep, Zenon
<1>7. ASSUME NEW w \in Workers, Step(w) PROVE IInv'
  BY <1>2, <1>3, <1>4, <1>5, <1>7, Zenon DEF Step
<1> QED
  BY <1>1, <1>6, <1>7, RunTaskStep, GoogleStep, EnvironmentSteps, Zenon DEF Next, Workers

\* The inductive invariant holds in every reachable state, for any number of
\* players, products, orders, tokens and workers and any number of failures.
THEOREM InvariantHolds == Spec => []IInv
BY InitIInv, NextIInv, PTL DEF Spec

\* Every variable of the payment service keeps its type.
THEOREM TypeCorrect == Spec => []TypeOK
<1>1. IInv => TypeOK
  BY Zenon DEF IInv
<1> QED
  BY <1>1, InvariantHolds, PTL

\* An order marked Purchased has its grant in the queue or carried out.
THEOREM PurchasedIsGrantedHolds == Spec => []PurchasedIsGranted
<1>1. IInv => PurchasedIsGranted
  BY Zenon DEF IInv, Inductive, RowOK, PurchasedIsGranted
<1> QED
  BY <1>1, InvariantHolds, PTL

\* A refunded order has its revocation in the queue or carried out.
THEOREM RefundedIsRevokedHolds == Spec => []RefundedIsRevoked
<1>1. IInv => RefundedIsRevoked
  BY Zenon DEF IInv, Inductive, RowOK, RefundedIsRevoked
<1> QED
  BY <1>1, InvariantHolds, PTL

\* A purchase is consumed at Google only once the grant of its order is safe.
THEOREM ConsumedIsGrantedHolds == Spec => []ConsumedIsGranted
<1>1. IInv => ConsumedIsGranted
  <2> SUFFICES ASSUME IInv, NEW t \in Tokens, tokens[t].consumed
               PROVE  LET o == tokens[t].order IN
                      orders[o].cred = t /\ orders[o].paid /\ GrantSubmitted(o)
    BY Zenon DEF ConsumedIsGranted
  <2>1. PICK o : o = tokens[t].order
    BY Zenon
  <2>2. o \in Orders /\ orders[o].cred = t /\ orders[o].paid
    BY <2>1, Zenon DEF IInv, Inductive, TokenOK, Exists
  <2>3. GrantSubmitted(o)
    BY <2>2, Zenon DEF IInv, Inductive, RowOK
  <2> QED
    BY <2>1, <2>2, <2>3, Zenon
<1> QED
  BY <1>1, InvariantHolds, PTL

\* No reward is submitted without a charged purchase of this order and product.
THEOREM GrantIsChargedHolds == Spec => []GrantIsCharged
<1>1. IInv => GrantIsCharged
  BY Zenon DEF IInv, Inductive, RowOK, PaidBy, Bound, GrantIsCharged
<1> QED
  BY <1>1, InvariantHolds, PTL

\* Nothing is taken back unless Google has cancelled the purchase.
THEOREM RefundIsRealHolds == Spec => []RefundIsReal
<1>1. IInv => RefundIsReal
  BY Zenon DEF IInv, Inductive, RowOK, RefundedBy, Bound, RefundIsReal
<1> QED
  BY <1>1, InvariantHolds, PTL

\* The unique indexes on credential and third party order id never refuse.
THEOREM CredentialUsedOnceHolds == Spec => []CredentialUsedOnce
<1>1. IInv => CredentialUsedOnce
  BY DEF IInv, Inductive, RowOK, CredentialUsedOnce
<1> QED
  BY <1>1, InvariantHolds, PTL

-----------------------------------------------------------------------------
(* What the contract sees of a step *)

\* Nothing, if status, reason and payment of a row stay and no task is touched.
LEMMA UnseenStep ==
    ASSUME \A o \in Orders : /\ orders'[o].status = orders[o].status
                             /\ orders'[o].reason = orders[o].reason
                             /\ orders'[o].paid = orders[o].paid,
           UNCHANGED <<queue, granted, revoked>>
    PROVE  UNCHANGED Contract!cvars
<1>1. \A o \in Orders : PhaseOf(orders[o])' = PhaseOf(orders[o])
  BY Zenon DEF PhaseOf
<1>2. Phase' = Phase
  BY <1>1, Zenon DEF Phase
<1>3. Progress("grant", granted)' = Progress("grant", granted)
  BY Zenon DEF Progress, TaskPending
<1>4. Progress("revoke", revoked)' = Progress("revoke", revoked)
  BY Zenon DEF Progress, TaskPending
<1> QED
  BY <1>2, <1>3, <1>4, Zenon DEF Contract!cvars

\* A move of one phase, if one row is written and no task is touched.
LEMMA SeenRow ==
    ASSUME TypeOK, NEW o \in Orders, NEW row, orders' = [orders EXCEPT ![o] = row],
           UNCHANGED <<queue, granted, revoked>>
    PROVE  /\ Phase' = [Phase EXCEPT ![o] = PhaseOf(row)]
           /\ Progress("grant", granted)' = Progress("grant", granted)
           /\ Progress("revoke", revoked)' = Progress("revoke", revoked)
<1>1. \A x \in Orders : orders'[x] = IF x = o THEN row ELSE orders[x]
  BY Zenon DEF TypeOK
<1>2. Phase' = [Phase EXCEPT ![o] = PhaseOf(row)]
  <2>1. Phase' = [x \in Orders |-> PhaseOf(orders'[x])]
    BY Zenon DEF Phase
  <2>2. \A x \in Orders : PhaseOf(orders'[x]) = IF x = o THEN PhaseOf(row) ELSE Phase[x]
    BY <1>1 DEF Phase
  <2>3. DOMAIN Phase = Orders /\ Phase = [x \in Orders |-> Phase[x]]
    BY Zenon DEF Phase
  <2> QED
    BY <2>1, <2>2, <2>3, Zenon
<1>3. Progress("grant", granted)' = Progress("grant", granted)
  BY Zenon DEF Progress, TaskPending
<1>4. Progress("revoke", revoked)' = Progress("revoke", revoked)
  BY Zenon DEF Progress, TaskPending
<1> QED
  BY <1>2, <1>3, <1>4, Zenon

\* What the contract calls submitted is what the properties call submitted.
LEMMA SeenState ==
    ASSUME NEW o \in Orders
    PROVE  /\ Phase[o] = PhaseOf(orders[o])
           /\ Progress("grant", granted)[o] # "none" <=> GrantSubmitted(o)
           /\ Progress("revoke", revoked)[o] # "none" <=> RevokeSubmitted(o)
           /\ Progress("grant", granted)[o] = "done" <=> granted[o] # NoReward
           /\ Progress("revoke", revoked)[o] = "done" <=> revoked[o] # NoReward
<1>1. Phase[o] = PhaseOf(orders[o])
  BY Zenon DEF Phase
<1>2. /\ Progress("grant", granted)[o] # "none" <=> GrantSubmitted(o)
      /\ Progress("grant", granted)[o] = "done" <=> granted[o] # NoReward
  BY Zenon DEF Progress, GrantSubmitted
<1>3. /\ Progress("revoke", revoked)[o] # "none" <=> RevokeSubmitted(o)
      /\ Progress("revoke", revoked)[o] = "done" <=> revoked[o] # NoReward
  BY Zenon DEF Progress, RevokeSubmitted
<1> QED
  BY <1>1, <1>2, <1>3, Zenon

-----------------------------------------------------------------------------
(* The steps the contract sees *)

\* The step of the contract that a new row stands for.
LEMMA SeenMove ==
    ASSUME TypeOK, NEW o \in Orders, NEW row, orders' = [orders EXCEPT ![o] = row],
           UNCHANGED <<queue, granted, revoked>>,
           \/ PhaseOf(row) = "open" /\ PhaseOf(orders[o]) = "none"
           \/ PhaseOf(row) = "closed" /\ PhaseOf(orders[o]) = "open"
           \/ PhaseOf(row) = "void" /\ PhaseOf(orders[o]) = "open"
           \/ PhaseOf(row) = "paid" /\ PhaseOf(orders[o]) \in {"open", "closed"} /\ GrantSubmitted(o)
           \/ PhaseOf(row) = "refunded" /\ PhaseOf(orders[o]) = "paid" /\ RevokeSubmitted(o)
    PROVE  Contract!Next
<1>1. /\ Phase' = [Phase EXCEPT ![o] = PhaseOf(row)]
      /\ Progress("grant", granted)' = Progress("grant", granted)
      /\ Progress("revoke", revoked)' = Progress("revoke", revoked)
  BY SeenRow, Zenon
<1>2. /\ Phase[o] = PhaseOf(orders[o])
      /\ GrantSubmitted(o) => Progress("grant", granted)[o] # "none"
      /\ RevokeSubmitted(o) => Progress("revoke", revoked)[o] # "none"
  BY SeenState, Zenon
<1>3. \/ Contract!Open(o) \/ Contract!Close(o) \/ Contract!Void(o)
      \/ Contract!Pay(o) \/ Contract!Refund(o)
  BY <1>1, <1>2, Zenon DEF Contract!Open, Contract!Close, Contract!Void, Contract!Pay,
                    Contract!Refund, Contract!Move
<1> QED
  BY <1>3, Zenon DEF Contract!Next

\* Inserting a row opens the order; an insert that fails is not seen.
LEMMA InsertSeen ==
    ASSUME IInv, NEW w \in Workers, InsertOrder(w)
    PROVE  Contract!Next \/ UNCHANGED Contract!cvars
<1>1. TypeOK
  BY Zenon DEF IInv
<1>2. CASE Error(w)
  BY <1>1, <1>2, ErrorJob, UnseenStep, Zenon DEF Alike
<1>3. CASE ~Error(w)
  <2>0. PICK row : row = CreateOrder(job[w].uid, job[w].product, job[w].rewards)
    BY Zenon
  <2>1. PICK o \in Orders :
           /\ orders[o].status = "None"
           /\ row = CreateOrder(job[w].uid, job[w].product, job[w].rewards)
           /\ orders' = [orders EXCEPT ![o] = row]
           /\ UNCHANGED <<queue, granted, revoked>>
    BY <1>3, <2>0, Zenon DEF InsertOrder
  <2>2. row.status = "Pending"
    BY <2>1, Zenon DEF CreateOrder, NoRow
  <2>3. PhaseOf(row) = "open" /\ PhaseOf(orders[o]) = "none"
    BY <2>1, <2>2, Zenon DEF PhaseOf
  <2> QED
    BY <1>1, <2>1, <2>3, SeenMove, Zenon
<1> QED
  BY <1>2, <1>3, Zenon

\* Binding a credential and taking a new snapshot of the rewards are not seen.
LEMMA BindUnseen ==
    ASSUME IInv, NEW w \in Workers, FindOrBind(w) \/ SnapshotRewards(w)
    PROVE  UNCHANGED Contract!cvars
<1>1. TypeOK
  BY Zenon DEF IInv
<1>2. CASE Error(w)
  BY <1>1, <1>2, ErrorJob, UnseenStep, Zenon DEF Alike
<1>3. CASE ~Error(w)
  <2>1. PICK o, row :
           /\ orders' = [orders EXCEPT ![o] = row]
           /\ \/ \E t, h : row = BindOrder(orders[o], t, h)
              \/ \E r : row = UpdateOrderRewards(orders[o], r)
           /\ UNCHANGED <<queue, granted, revoked>>
    BY <1>3, Zenon DEF FindOrBind, SnapshotRewards
  <2>2. ASSUME o \in Orders
        PROVE  /\ row.status = orders[o].status /\ row.reason = orders[o].reason
               /\ row.paid = orders[o].paid
    <3>1. orders[o] \in OrderRow
      BY <1>1, <2>2, Zenon DEF TypeOK
    <3>2. ASSUME NEW t, NEW h, row = BindOrder(orders[o], t, h)
          PROVE  /\ row.status = orders[o].status /\ row.reason = orders[o].reason
                 /\ row.paid = orders[o].paid
      BY <3>1, <3>2, Zenon DEF BindOrder, OrderRow
    <3>3. ASSUME NEW r, row = UpdateOrderRewards(orders[o], r)
          PROVE  /\ row.status = orders[o].status /\ row.reason = orders[o].reason
                 /\ row.paid = orders[o].paid
      BY <3>1, <3>3, Zenon DEF UpdateOrderRewards, OrderRow
    <3> QED
      BY <2>1, <3>2, <3>3, Zenon
  <2>3. \A x \in Orders : /\ orders'[x].status = orders[x].status
                          /\ orders'[x].reason = orders[x].reason
                          /\ orders'[x].paid = orders[x].paid
    BY <1>1, <2>1, <2>2, Zenon DEF TypeOK
  <2> QED
    BY <2>1, <2>3, UnseenStep, Zenon
<1> QED
  BY <1>2, <1>3, Zenon

\* The status changes are the contract's Pay, Void, Refund and Close.
LEMMA MarkSeen ==
    ASSUME IInv, NEW w \in Workers,
           MarkPurchased(w) \/ MarkCancelled(w) \/ MarkRefunded(w) \/ CloseOrder(w)
    PROVE  Contract!Next \/ UNCHANGED Contract!cvars
<1>1. TypeOK
  BY Zenon DEF IInv
<1>2. CASE Error(w)
  BY <1>1, <1>2, ErrorJob, UnseenStep, Zenon DEF Alike
<1>3. PICK o, old : o = job[w].order /\ old = orders[o]
  BY Zenon
<1>4. CASE ~Error(w) /\ MarkPurchased(w)
  <2>1. PICK row : row = MarkOrderPurchased(old)
    BY Zenon
  <2>2. /\ job[w].pc = "purchase" /\ Purchasable(old)
        /\ orders' = [orders EXCEPT ![o] = row] /\ UNCHANGED <<queue, granted, revoked>>
    BY <1>3, <1>4, <2>1, Zenon DEF MarkPurchased
  <2>3. o \in Orders /\ old \in OrderRow
    BY <1>3, <2>2, InPipeline, ZenonT(40) DEF InHand, PaidPoints, RefundPoints
  <2>4. GrantSubmitted(o)
    BY <1>3, <2>2, Zenon DEF IInv, Inductive, JobOK
  <2>5. PhaseOf(row) = "paid" /\ PhaseOf(old) \in {"open", "closed"}
    BY <2>1, <2>2, <2>3, PurchasedRow, Zenon DEF PhaseOf, Purchasable
  <2> QED
    BY <1>1, <1>3, <2>2, <2>3, <2>4, <2>5, SeenMove, Zenon
<1>5. CASE ~Error(w) /\ (MarkCancelled(w) \/ MarkRefunded(w))
  <2>1. PICK row : /\ row = MarkOrderRefunded(old)
                   /\ orders' = [orders EXCEPT ![o] = row] /\ UNCHANGED <<queue, granted, revoked>>
    BY <1>3, <1>5, Zenon DEF MarkCancelled, MarkRefunded, MarkOrderCancelled, MarkOrderRefunded
  <2>2. \/ job[w].pc = "cancel" /\ old.status = "Pending"
        \/ job[w].pc = "refund" /\ old.status = "Purchased"
    BY <1>3, <1>5, Zenon DEF MarkCancelled, MarkRefunded, Cancellable, Refundable
  <2>3. o \in Orders /\ old \in OrderRow
    BY <1>3, <2>2, InPipeline, Zenon DEF InHand, PaidPoints, RefundPoints
  <2>4. job[w].pc = "refund" => RevokeSubmitted(o)
    BY <1>3, Zenon DEF IInv, Inductive, JobOK
  <2>5. (old.status = "Purchased" => old.paid) /\ (old.paid => old.status # "Pending")
    BY <1>3, <2>3, Zenon DEF IInv, Inductive, RowOK
  <2>6. row.status = "Cancelled" /\ row.reason = "refund" /\ row.paid = old.paid
    BY <2>1, <2>3, RefundedRow, Zenon
  <2>7. \/ PhaseOf(row) = "void" /\ PhaseOf(old) = "open"
        \/ PhaseOf(row) = "refunded" /\ PhaseOf(old) = "paid" /\ RevokeSubmitted(o)
    <3>1. CASE old.status = "Pending"
      <4>1. ~row.paid
        BY <2>5, <2>6, <3>1, Zenon
      <4>2. PhaseOf(row) = "void"
        BY <2>6, <4>1 DEF PhaseOf
      <4>3. PhaseOf(old) = "open"
        BY <3>1 DEF PhaseOf
      <4> QED
        BY <4>2, <4>3, Zenon
    <3>2. CASE job[w].pc = "refund" /\ old.status = "Purchased"
      <4>1. row.paid /\ RevokeSubmitted(o)
        BY <2>4, <2>5, <2>6, <3>2, Zenon
      <4>2. PhaseOf(row) = "refunded"
        BY <2>6, <4>1 DEF PhaseOf
      <4>3. PhaseOf(old) = "paid"
        BY <3>2 DEF PhaseOf
      <4> QED
        BY <4>1, <4>2, <4>3, Zenon
    <3> QED
      BY <2>2, <3>1, <3>2, Zenon
  <2> QED
    BY <1>1, <1>3, <2>1, <2>3, <2>7, SeenMove, Zenon
<1>6. CASE CloseOrder(w)
  <2>1. PICK row : row = MarkOrderTimeout(old)
    BY Zenon
  <2>2. orders' = [orders EXCEPT ![o] = row] /\ UNCHANGED <<queue, granted, revoked>>
    BY <1>3, <1>6, <2>1, Zenon DEF CloseOrder
  <2>3. CASE orders' = orders
    BY <2>2, <2>3, UnseenStep, Zenon
  <2>4. CASE orders' # orders
    <3>1. o \in Orders /\ old \in OrderRow /\ row # old
      BY <1>1, <1>3, <2>2, <2>4, Zenon DEF TypeOK
    <3>2. PhaseOf(row) = "closed" /\ PhaseOf(old) = "open"
      BY <2>1, <3>1, TimeoutRow DEF PhaseOf
    <3> QED
      BY <1>1, <1>3, <2>2, <3>1, <3>2, SeenMove, Zenon
  <2> QED
    BY <2>3, <2>4, Zenon
<1> QED
  BY <1>2, <1>4, <1>5, <1>6, Zenon

\* Adding or dropping a task of one kind is not seen in the other.
LEMMA OtherKind ==
    ASSUME NEW kind, NEW task, task.kind # kind,
           queue' \in {queue, queue \cup {task}, queue \ {task}}
    PROVE  \A x \in Orders : TaskPending(kind, x)' <=> TaskPending(kind, x)
BY Zenon DEF TaskPending

\* Submitting a task: SubmitGrant or SubmitRevoke, unless it was carried out before.
LEMMA EnqueueSeen ==
    ASSUME IInv, NEW w \in Workers, EnqueueGrant(w) \/ EnqueueRevoke(w)
    PROVE  Contract!Next \/ UNCHANGED Contract!cvars
<1>1. TypeOK
  BY Zenon DEF IInv
<1>2. CASE Error(w)
  BY <1>1, <1>2, ErrorJob, UnseenStep, Zenon DEF Alike
<1>3. CASE Panic(w)
  BY <1>3, UnseenStep, Zenon DEF Panic
<1>4. CASE ~Error(w) /\ ~Panic(w)
  <2>1. PICK kind, pc :
           /\ \/ kind = "grant" /\ pc = "purchase" /\ job[w].pc = "grant"
              \/ kind = "revoke" /\ pc = "refund" /\ job[w].pc = "revoke"
           /\ Enqueue(w, kind, pc)
    BY Zenon DEF EnqueueGrant, EnqueueRevoke
  <2>2. PICK o, task :
           o = job[w].order /\ task = [kind |-> kind, order |-> o, rewards |-> job[w].rewards]
    BY Zenon
  <2>3. /\ ~TaskPending(kind, o) /\ queue' = queue \cup {task}
        /\ UNCHANGED <<orders, granted, revoked>>
    BY <1>4, <2>1, <2>2, Zenon DEF Enqueue
  <2>4. o \in Orders /\ orders[o].status # "None"
    <3>1. job[w].pc \in PaidPoints \cup RefundPoints
      BY <2>1, Zenon DEF PaidPoints, RefundPoints
    <3>2. InHand(w, o, job[w].token)
      BY <2>2, <3>1, InPipeline, Zenon
    <3> QED
      BY <3>2, Zenon DEF InHand
  <2>5. task.kind = kind /\ task.order = o
    BY <2>2, Zenon
  <2>6. /\ TaskPending(kind, o)'
        /\ \A x \in Orders \ {o} : TaskPending(kind, x)' <=> TaskPending(kind, x)
    BY <2>3, <2>5, Zenon DEF TaskPending
  <2>7. Phase' = Phase
    BY <2>3, Zenon DEF Phase
  <2>8. CASE kind = "grant"
    <3>1. Progress("revoke", revoked)' = Progress("revoke", revoked)
      <4>1. \A x \in Orders : TaskPending("revoke", x)' <=> TaskPending("revoke", x)
        BY <2>3, <2>5, <2>8, OtherKind, Zenon
      <4> QED
        BY <2>3, <4>1, Zenon DEF Progress
    <3>2. CASE granted[o] # NoReward
      <4>1. Progress("grant", granted)' = Progress("grant", granted)
        BY <2>3, <2>6, <2>8, <3>2, Zenon DEF Progress
      <4> QED
        BY <2>7, <3>1, <4>1, Zenon DEF Contract!cvars
    <3>3. CASE granted[o] = NoReward
      <4>1. Progress("grant", granted)' = [Progress("grant", granted) EXCEPT ![o] = "submitted"]
        BY <2>3, <2>4, <2>6, <2>8, <3>3, Zenon DEF Progress
      <4>2. Phase[o] # "none" /\ Progress("grant", granted)[o] = "none"
        BY <2>3, <2>4, <2>8, <3>3, Zenon DEF Phase, PhaseOf, Progress
      <4>3. Contract!SubmitGrant(o)
        BY <2>7, <3>1, <4>1, <4>2, Zenon DEF Contract!SubmitGrant
      <4> QED
        BY <2>4, <4>3, Zenon DEF Contract!Next
    <3> QED
      BY <3>2, <3>3, Zenon
  <2>9. CASE kind = "revoke"
    <3>1. Progress("grant", granted)' = Progress("grant", granted)
      <4>1. \A x \in Orders : TaskPending("grant", x)' <=> TaskPending("grant", x)
        BY <2>3, <2>5, <2>9, OtherKind, Zenon
      <4> QED
        BY <2>3, <4>1, Zenon DEF Progress
    <3>2. CASE revoked[o] # NoReward
      <4>1. Progress("revoke", revoked)' = Progress("revoke", revoked)
        BY <2>3, <2>6, <2>9, <3>2, Zenon DEF Progress
      <4> QED
        BY <2>7, <3>1, <4>1, Zenon DEF Contract!cvars
    <3>3. CASE revoked[o] = NoReward
      <4>1. Progress("revoke", revoked)' = [Progress("revoke", revoked) EXCEPT ![o] = "submitted"]
        BY <2>3, <2>4, <2>6, <2>9, <3>3, ZenonT(40) DEF Progress
      <4>2. orders[o].status = "Purchased"
        <5>1. ~RevokeSubmitted(o)
          BY <2>3, <2>9, <3>3, Zenon DEF RevokeSubmitted
        <5> QED
          BY <2>1, <2>2, <2>9, <5>1, SMTT(20) DEF IInv, Inductive, JobOK
      <4>3. Phase[o] = "paid" /\ Progress("revoke", revoked)[o] = "none"
        BY <2>3, <2>4, <2>9, <3>3, <4>2, Zenon DEF Phase, PhaseOf, Progress
      <4>4. Contract!SubmitRevoke(o)
        BY <2>7, <3>1, <4>1, <4>3, Zenon DEF Contract!SubmitRevoke
      <4> QED
        BY <2>4, <4>4, Zenon DEF Contract!Next
    <3> QED
      BY <3>2, <3>3, Zenon
  <2> QED
    BY <2>1, <2>8, <2>9, Zenon
<1> QED
  BY <1>2, <1>3, <1>4, Zenon

\* Running a task: Deliver or TakeBack the first time, nothing the next times.
LEMMA TaskSeen ==
    ASSUME IInv, RunTask
    PROVE  Contract!Next \/ UNCHANGED Contract!cvars
<1>1. PICK task \in queue : ProcessGrantTask(task) \/ ProcessRevokeTask(task)
  BY Zenon DEF RunTask
<1>2. TypeOK
  BY Zenon DEF IInv
<1>3. PICK o, r : o = task.order /\ r = task.rewards
  BY Zenon
<1>4. o \in Orders /\ r # NoReward
  BY <1>1, <1>2, <1>3, Fields, Zenon DEF TypeOK, IInv, Inductive
<1>5. queue' \in {queue, queue \ {task}} /\ orders' = orders
  BY <1>1, Zenon DEF ProcessGrantTask, ProcessRevokeTask, TaskEnds
<1>6. Phase' = Phase
  BY <1>5, Zenon DEF Phase
<1>7. \A kind, x : x # o => (TaskPending(kind, x)' <=> TaskPending(kind, x))
  BY <1>3, <1>5, Zenon DEF TaskPending
<1>8. CASE ProcessGrantTask(task)
  <2>1. /\ task.kind = "grant" /\ revoked' = revoked
        /\ granted' = IF granted[o] = NoReward THEN [granted EXCEPT ![o] = r] ELSE granted
    BY <1>3, <1>8, Zenon DEF ProcessGrantTask
  <2>2. Progress("revoke", revoked)' = Progress("revoke", revoked)
    <3>1. \A x \in Orders : TaskPending("revoke", x)' <=> TaskPending("revoke", x)
      BY <1>5, <2>1, OtherKind, Zenon
    <3> QED
      BY <2>1, <3>1, Zenon DEF Progress
  <2>3. CASE granted[o] # NoReward
    <3>1. Progress("grant", granted)' = Progress("grant", granted)
      BY <1>7, <2>1, <2>3, Zenon DEF Progress
    <3> QED
      BY <1>6, <2>2, <3>1, Zenon DEF Contract!cvars
  <2>4. CASE granted[o] = NoReward
    <3>1. \A x \in Orders : granted'[x] = IF x = o THEN r ELSE granted[x]
      BY <1>2, <2>1, <2>4, Zenon DEF TypeOK
    <3>2. Progress("grant", granted)' = [Progress("grant", granted) EXCEPT ![o] = "done"]
      BY <1>4, <1>7, <3>1, Zenon DEF Progress
    <3>3. TaskPending("grant", o)
      BY <1>1, <1>3, <2>1, Zenon DEF TaskPending
    <3>4. Progress("grant", granted)[o] = "submitted"
      BY <1>4, <2>4, <3>3, Zenon DEF Progress
    <3>5. Contract!Deliver(o)
      BY <1>6, <2>2, <3>2, <3>4, Zenon DEF Contract!Deliver
    <3> QED
      BY <1>4, <3>5, Zenon DEF Contract!Next
  <2> QED
    BY <2>3, <2>4, Zenon
<1>9. CASE ProcessRevokeTask(task)
  <2>1. /\ task.kind = "revoke" /\ granted' = granted /\ granted[o] # NoReward
        /\ revoked' = IF revoked[o] = NoReward THEN [revoked EXCEPT ![o] = r] ELSE revoked
    BY <1>3, <1>9, Zenon DEF ProcessRevokeTask
  <2>2. Progress("grant", granted)' = Progress("grant", granted)
    <3>1. \A x \in Orders : TaskPending("grant", x)' <=> TaskPending("grant", x)
      BY <1>5, <2>1, OtherKind, Zenon
    <3> QED
      BY <2>1, <3>1, Zenon DEF Progress
  <2>3. CASE revoked[o] # NoReward
    <3>1. Progress("revoke", revoked)' = Progress("revoke", revoked)
      BY <1>7, <2>1, <2>3, Zenon DEF Progress
    <3> QED
      BY <1>6, <2>2, <3>1, Zenon DEF Contract!cvars
  <2>4. CASE revoked[o] = NoReward
    <3>1. \A x \in Orders : revoked'[x] = IF x = o THEN r ELSE revoked[x]
      BY <1>2, <2>1, <2>4, Zenon DEF TypeOK
    <3>2. Progress("revoke", revoked)' = [Progress("revoke", revoked) EXCEPT ![o] = "done"]
      BY <1>4, <1>7, <3>1, Zenon DEF Progress
    <3>3. TaskPending("revoke", o)
      BY <1>1, <1>3, <2>1, Zenon DEF TaskPending
    <3>4. Progress("revoke", revoked)[o] = "submitted" /\ Progress("grant", granted)[o] = "done"
      BY <1>4, <2>1, <2>4, <3>3, Zenon DEF Progress
    <3>5. Contract!TakeBack(o)
      BY <1>6, <2>2, <3>2, <3>4, Zenon DEF Contract!TakeBack
    <3> QED
      BY <1>4, <3>5, Zenon DEF Contract!Next
  <2> QED
    BY <2>3, <2>4, Zenon
<1> QED
  BY <1>1, <1>8, <1>9, Zenon

-----------------------------------------------------------------------------
(* The steps the contract does not see, and the theorem *)

\* Steps that leave the table and the tasks as they are, but for ages and
\* retry counters.
LEMMA RestUnseen ==
    ASSUME TypeOK,
           \/ \E w \in Workers :
                 \/ ClientStart(w) \/ FindPendingOrder(w) \/ ReplyCreateOrder(w)
                 \/ CheckExpiredPendingOrders(w) \/ EndScan(w) \/ ScanNext(w) \/ RereadOrder(w)
                 \/ CheckGoogleRTDN(w) \/ PullerStep(w)
                 \/ QueryOrder(w) \/ LoadOrder(w) \/ CompletePurchase(w) \/ ReturnOK(w)
           \/ Google \/ Environment \/ UNCHANGED vars
    PROVE  UNCHANGED Contract!cvars
<1>1. ASSUME NEW w \in Workers, Error(w) PROVE UNCHANGED Contract!cvars
  BY <1>1, ErrorJob, UnseenStep, Zenon DEF Alike
<1>2. CASE UNCHANGED <<orders, queue, granted, revoked>>
  BY <1>2, UnseenStep, Zenon
<1>3. ASSUME NEW w \in Workers,
             \/ ClientStart(w) \/ FindPendingOrder(w) \/ ReplyCreateOrder(w)
             \/ CheckExpiredPendingOrders(w) \/ EndScan(w) \/ ScanNext(w) \/ RereadOrder(w)
             \/ CheckGoogleRTDN(w) \/ QueryOrder(w) \/ ReturnOK(w)
      PROVE  UNCHANGED Contract!cvars
  BY <1>2, <1>3, Zenon DEF ClientStart, StartCreateOrder, StartUploadReceipt, FindPendingOrder,
     ReplyCreateOrder, CheckExpiredPendingOrders, EndScan, ScanNext, RereadOrder,
     CheckGoogleRTDN, QueryOrder, ReturnOK
<1>4. ASSUME NEW w \in Workers, PullerStep(w) \/ LoadOrder(w) \/ CompletePurchase(w)
      PROVE  UNCHANGED Contract!cvars
  BY <1>1, <1>2, <1>4, Zenon DEF PullerStep, HandleRTDN, Acknowledge, LockOrderUser, LoadOrder,
     CompletePurchase
<1>5. CASE Google \/ UNCHANGED vars
  BY <1>2, <1>5, Zenon DEF Google, StartPurchase, GooglePurchased, GoogleCancelled, vars
<1>6. ASSUME NEW o \in Orders, OrderExpires(o) PROVE UNCHANGED Contract!cvars
  <2>1. \A x \in Orders : orders[x] \in OrderRow /\ Alike(orders[x], orders[x])
    BY Zenon DEF TypeOK, Alike
  <2>2. \A x \in Orders : orders'[x] = IF x = o THEN Age(orders[x]) ELSE orders[x]
    BY <1>6, Zenon DEF OrderExpires, TypeOK
  <2>3. \A x \in Orders : Alike(orders[x], orders'[x])
    BY <2>1, <2>2, IdleRows, Zenon
  <2> QED
    BY <1>6, <2>3, UnseenStep, Zenon DEF OrderExpires, Alike
<1>7. ASSUME NEW w \in Workers, Fail(w) \/ Crash(w) PROVE UNCHANGED Contract!cvars
  BY <1>1, <1>2, <1>7, Zenon DEF Fail, Crash, Panic
<1>8. CASE Environment
  BY <1>2, <1>6, <1>7, <1>8, Zenon DEF Environment, ReloadConfig, OrphanLeaseExpires, LeaseLost
<1> QED
  BY <1>3, <1>4, <1>5, <1>8, Zenon

\* Nothing is open, submitted or done at the start.
LEMMA InitSeen == Init => Contract!Init
<1> SUFFICES ASSUME Init PROVE Contract!Init
  BY Zenon
<1>1. \A o \in Orders : PhaseOf(orders[o]) = "none"
  BY Zenon DEF Init, NoRow, PhaseOf
<1>2. Phase = [o \in Orders |-> "none"]
  BY <1>1, Zenon DEF Phase
<1>3. Progress("grant", granted) = [o \in Orders |-> "none"]
  BY Zenon DEF Init, Progress, TaskPending
<1>4. Progress("revoke", revoked) = [o \in Orders |-> "none"]
  BY Zenon DEF Init, Progress, TaskPending
<1> QED
  BY <1>2, <1>3, <1>4, Zenon DEF Contract!Init

\* Every step is a step of the contract or is not seen by it.
LEMMA NextSeen == IInv /\ [Next]_vars => [Contract!Next]_(Contract!cvars)
<1> SUFFICES ASSUME IInv, [Next]_vars
             PROVE  Contract!Next \/ UNCHANGED Contract!cvars
  BY Zenon
<1>1. TypeOK
  BY Zenon DEF IInv
<1>2. ASSUME NEW w \in Workers, Step(w)
      PROVE  Contract!Next \/ UNCHANGED Contract!cvars
  <2>1. CASE InsertOrder(w)
    BY <2>1, InsertSeen, Zenon
  <2>2. CASE FindOrBind(w) \/ SnapshotRewards(w)
    BY <2>2, BindUnseen, Zenon
  <2>3. CASE MarkPurchased(w) \/ MarkCancelled(w) \/ MarkRefunded(w) \/ CloseOrder(w)
    BY <2>3, MarkSeen, Zenon
  <2>4. CASE EnqueueGrant(w) \/ EnqueueRevoke(w)
    BY <2>4, EnqueueSeen, Zenon
  <2>5. CASE \/ FindPendingOrder(w) \/ ReplyCreateOrder(w)
             \/ EndScan(w) \/ ScanNext(w) \/ RereadOrder(w) \/ PullerStep(w)
             \/ QueryOrder(w) \/ LoadOrder(w) \/ CompletePurchase(w) \/ ReturnOK(w)
    BY <1>1, <2>5, RestUnseen, Zenon
  <2> QED
    BY <1>2, <2>1, <2>2, <2>3, <2>4, <2>5, Zenon DEF Step, ClientStep, CronStep, OrderStep
<1>3. ASSUME NEW w \in Workers,
             ClientStart(w) \/ CheckExpiredPendingOrders(w) \/ CheckGoogleRTDN(w)
      PROVE  UNCHANGED Contract!cvars
  BY <1>1, <1>3, RestUnseen, Zenon
<1>4. CASE Google \/ Environment \/ UNCHANGED vars
  BY <1>1, <1>4, RestUnseen, Zenon
<1> QED
  BY <1>2, <1>3, <1>4, TaskSeen, Zenon DEF Next, Workers

\* The payment service implements the contract of an order: its status moves
\* along the contract's phases only, never ahead of the task that the status
\* stands for, and each task takes effect once.
THEOREM ImplementsContractHolds == Spec => ImplementsContract
BY InvariantHolds, InitSeen, NextSeen, PTL DEF Spec, ImplementsContract, Contract!Spec

-----------------------------------------------------------------------------
(* What the lease of create_order is for *)

\* The leases are lost by nobody who is at work.
LeasesHold == Init /\ [][Next /\ ~\E k \in LockKeys : LeaseLost(k)]_vars

\* A client that is at work holds the lease, and one that is about to insert an
\* order has found none that is Pending.
LeaseInv ==
    /\ \A w \in Clients : job[w].pc # "idle" => lock[Uid0] = w
    /\ \A w \in Clients : job[w].pc = "insert" => PendingOrders(job[w].uid, job[w].product) = {}
    /\ OnePendingOrder

\* No order becomes Pending.
KeepsPending(r, s) ==
    s.status = "Pending" => r.status = "Pending" /\ s.uid = r.uid /\ s.product = r.product

NoNewPending == \A o \in Orders : KeepsPending(orders[o], orders'[o])

\* A client that stays at work keeps the lease.
KeepsLease ==
    \A w \in Clients : lock[Uid0] = w /\ job'[w].pc # "idle" => lock'[Uid0] = w

\* A client goes on without inserting an order, or returns, or stands still.
KeepsOn(w) ==
    \/ job'[w] = job[w]
    \/ job'[w].pc = "idle"
    \/ job[w].pc # "idle" /\ job'[w].pc # "insert"

\* Such steps cannot break the invariant.
LEMMA OtherStep ==
    ASSUME LeaseInv, NoNewPending, KeepsLease, \A w \in Clients : KeepsOn(w)
    PROVE  LeaseInv'
<1>0. "insert" # "idle"
  OBVIOUS
<1>1. ASSUME NEW w \in Clients, job'[w].pc # "idle" PROVE lock'[Uid0] = w
  BY <1>1, Zenon DEF LeaseInv, KeepsOn, KeepsLease
<1>2. ASSUME NEW w \in Clients, job'[w].pc = "insert"
      PROVE  (PendingOrders(job[w].uid, job[w].product) = {})'
  <2>1. job'[w] = job[w]
    BY <1>0, <1>2, Zenon DEF KeepsOn
  <2>2. PendingOrders(job[w].uid, job[w].product) = {}
    BY <1>2, <2>1, Zenon DEF LeaseInv
  <2>3. ASSUME NEW o \in Orders, orders'[o].status = "Pending", orders'[o].uid = job'[w].uid,
               orders'[o].product = job'[w].product
        PROVE  o \in PendingOrders(job[w].uid, job[w].product)
    BY <2>1, <2>3, Zenon DEF PendingOrders, NoNewPending, KeepsPending
  <2> QED
    BY <2>2, <2>3, Zenon DEF PendingOrders
<1>3. OnePendingOrder'
  BY ZenonT(40) DEF LeaseInv, OnePendingOrder, NoNewPending, KeepsPending
<1> QED
  BY <1>1, <1>2, <1>3, Zenon DEF LeaseInv

\* What the statements on a row do to its status.
LEMMA RowsKeepPending ==
    \A r \in OrderRow :
        /\ KeepsPending(r, r) /\ KeepsPending(r, MarkOrderTimeout(r))
        /\ KeepsPending(r, MarkOrderPurchased(r)) /\ KeepsPending(r, MarkOrderRefunded(r))
        /\ KeepsPending(r, MarkOrderCancelled(r)) /\ KeepsPending(r, Age(r))
        /\ KeepsPending(r, AddRetryTimes(r))
        /\ \A t, h : KeepsPending(r, BindOrder(r, t, h))
        /\ \A x : KeepsPending(r, UpdateOrderRewards(r, x))
<1> SUFFICES ASSUME NEW r \in OrderRow
    PROVE  /\ KeepsPending(r, r) /\ KeepsPending(r, MarkOrderTimeout(r))
           /\ KeepsPending(r, MarkOrderPurchased(r)) /\ KeepsPending(r, MarkOrderRefunded(r))
           /\ KeepsPending(r, MarkOrderCancelled(r)) /\ KeepsPending(r, Age(r))
           /\ KeepsPending(r, AddRetryTimes(r))
           /\ \A t, h : KeepsPending(r, BindOrder(r, t, h))
           /\ \A x : KeepsPending(r, UpdateOrderRewards(r, x))
  BY Zenon
<1>1. KeepsPending(r, r) /\ KeepsPending(r, MarkOrderTimeout(r))
  BY DEF KeepsPending, MarkOrderTimeout, OrderRow
<1>2. KeepsPending(r, MarkOrderPurchased(r)) /\ KeepsPending(r, MarkOrderRefunded(r))
  BY DEF KeepsPending, MarkOrderPurchased, MarkOrderRefunded, OrderRow
<1>3. KeepsPending(r, MarkOrderCancelled(r)) /\ KeepsPending(r, Age(r))
  BY DEF KeepsPending, MarkOrderCancelled, Age, OrderRow
<1>4. KeepsPending(r, AddRetryTimes(r))
  BY DEF KeepsPending, AddRetryTimes, OrderRow
<1>5. ASSUME NEW t, NEW h PROVE KeepsPending(r, BindOrder(r, t, h))
  BY DEF KeepsPending, BindOrder, OrderRow
<1>6. ASSUME NEW x PROVE KeepsPending(r, UpdateOrderRewards(r, x))
  BY DEF KeepsPending, UpdateOrderRewards, OrderRow
<1> QED
  BY <1>1, <1>2, <1>3, <1>4, <1>5, <1>6, Zenon

\* A step on one row.
LEMMA OneRow ==
    ASSUME TypeOK, NEW o, NEW s, orders' = [orders EXCEPT ![o] = s],
           o \in Orders => KeepsPending(orders[o], s)
    PROVE  NoNewPending
<1>1. \A x \in Orders : orders'[x] = IF x = o THEN s ELSE orders[x]
  BY Zenon DEF TypeOK
<1>2. \A x \in Orders : KeepsPending(orders[x], orders[x])
  BY Zenon DEF KeepsPending
<1> QED
  BY <1>1, <1>2, Zenon DEF NoNewPending

\* No step on a row.
LEMMA NoRowChanged ==
    ASSUME orders' = orders PROVE NoNewPending
BY Zenon DEF NoNewPending, KeepsPending

\* A handler that goes on with its work.
LEMMA GoesOn ==
    ASSUME TypeOK, LeaseInv, NEW w \in Workers, NEW x, job' = [job EXCEPT ![w] = x],
           x.pc # "insert", job[w].pc # "idle" \/ w \notin Clients,
           NoNewPending, KeepsLease
    PROVE  LeaseInv'
<1>1. \A v \in Clients : KeepsOn(v)
  <2>1. job'[w] = x /\ \A v \in Workers \ {w} : job'[v] = job[v]
    BY Zenon DEF TypeOK
  <2> QED
    BY <2>1, Zenon DEF KeepsOn, Workers
<1> QED
  BY <1>1, OtherStep, Zenon

\* A lease that is taken was free, and only what one's own lease is is released.
LEMMA LeasesKept ==
    ASSUME TypeOK, NEW w \in Workers
    PROVE  /\ lock' = lock => KeepsLease
           /\ \A k : Acquire(w, k) => KeepsLease
           /\ \A keys : lock' = Release(w, keys) /\ (w \in Clients => job'[w].pc = "idle") => KeepsLease
<1>1. lock' = lock => KeepsLease
  BY Zenon DEF KeepsLease
<1>2. \A v \in Clients : v # NoWorker
  BY PaymentAssumption, Zenon DEF Workers
<1>3. Uid0 \in LockKeys
  BY Zenon DEF LockKeys
<1>4. ASSUME NEW k, Acquire(w, k) PROVE KeepsLease
  BY <1>2, <1>3, <1>4, Zenon DEF KeepsLease, Acquire, TypeOK
<1>5. ASSUME NEW keys, lock' = Release(w, keys), w \in Clients => job'[w].pc = "idle"
      PROVE  KeepsLease
  BY <1>3, <1>5, Zenon DEF KeepsLease, Release
<1> QED
  BY <1>1, <1>4, <1>5, Zenon

\* A handler that returns.
LEMMA LeaveLease ==
    ASSUME TypeOK, LeaseInv, NEW w \in Workers, NEW ok \in BOOLEAN, Leave(w, ok), NoNewPending
    PROVE  LeaseInv'
<1>1. \A x \in Workers \ {w} : job'[x] = job[x]
  BY LeaveJob, Zenon
<1>2. w \in Clients => job'[w].pc = "idle"
  BY StartingJobs, ZenonT(40) DEF Leave, TypeOK
<1>3. \A v \in Clients : KeepsOn(v)
  BY <1>1, <1>2, Zenon DEF KeepsOn, Workers
<1>4. KeepsLease
  BY <1>2, LeasesKept, Zenon DEF Leave
<1> QED
  BY <1>3, <1>4, OtherStep, Zenon

\* One that returns an error.
LEMMA ErrorLease ==
    ASSUME TypeOK, LeaseInv, NEW w \in Workers, Error(w)
    PROVE  LeaseInv'
<1>1. Leave(w, FALSE)
  BY Zenon DEF Error
<1>2. NoNewPending
  <2>1. CASE orders' = orders
    BY <2>1, NoRowChanged, Zenon
  <2>2. CASE orders' = [orders EXCEPT ![job[w].order] = AddRetryTimes(@)]
    BY <2>2, OneRow, RowsKeepPending, Zenon DEF TypeOK
  <2> QED
    BY <2>1, <2>2, Zenon DEF Error
<1> QED
  BY <1>1, <1>2, LeaveLease, Zenon

\* One that panics.
LEMMA PanicLease ==
    ASSUME TypeOK, LeaseInv, NEW w \in Workers, Panic(w)
    PROVE  LeaseInv'
<1>1. job' = [job EXCEPT ![w] = NoJob] /\ orders' = orders /\ lock' = Release(w, Holds(w))
  BY Zenon DEF Panic
<1>2. job'[w].pc = "idle" /\ \A x \in Workers \ {w} : job'[x] = job[x]
  <2>1. job'[w] = NoJob /\ \A x \in Workers \ {w} : job'[x] = job[x]
    BY <1>1, Zenon DEF TypeOK
  <2>2. NoJob.pc = "idle"
    BY StartingJobs, Zenon
  <2> QED
    BY <2>1, <2>2, Zenon
<1>3. \A v \in Clients : KeepsOn(v)
  BY <1>2, Zenon DEF KeepsOn, Workers
<1> QED
  BY <1>1, <1>2, <1>3, LeasesKept, NoRowChanged, OtherStep, Zenon

\* A client starts: no other is at work.
LEMMA StartLease ==
    ASSUME TypeOK, LeaseInv, NEW w \in Clients, ClientStart(w)
    PROVE  LeaseInv'
<1>1. Uid0 \in LockKeys /\ w \in Workers /\ \A v \in Clients : v # NoWorker /\ v \in Workers
  BY PaymentAssumption, Zenon DEF LockKeys, Workers
<1>2. PICK x : /\ job' = [job EXCEPT ![w] = x] /\ x.pc \in {"find", "query"}
               /\ Acquire(w, Uid0) /\ orders' = orders
  <2>1. ASSUME NEW u \in Users, NEW p \in Products, StartCreateOrder(w, u, p)
        PROVE  \E x : /\ job' = [job EXCEPT ![w] = x] /\ x.pc \in {"find", "query"}
                      /\ Acquire(w, Uid0) /\ orders' = orders
    <3>1. Creating(u, p, config[p]).pc = "find"
      BY DEF Creating, NoJob
    <3> QED
      BY <2>1, <3>1, Zenon DEF StartCreateOrder, LockUserKey
  <2>2. ASSUME NEW u \in Users, NEW t \in Tokens, StartUploadReceipt(w, u, t)
        PROVE  \E x : /\ job' = [job EXCEPT ![w] = x] /\ x.pc \in {"find", "query"}
                      /\ Acquire(w, Uid0) /\ orders' = orders
    <3>1. Uploading(u, t).pc = "query"
      BY DEF Uploading, NoJob
    <3> QED
      BY <2>2, <3>1, Zenon DEF StartUploadReceipt, LockUserKey
  <2> QED
    BY <2>1, <2>2, Zenon DEF ClientStart
<1>3. lock[Uid0] = NoWorker /\ lock'[Uid0] = w
  BY <1>1, <1>2, Zenon DEF Acquire, TypeOK
<1>4. job'[w] = x /\ \A v \in Workers \ {w} : job'[v] = job[v]
  BY <1>1, <1>2, Zenon DEF TypeOK
<1>5. \A v \in Clients : job[v].pc = "idle"
  BY <1>1, <1>3, Zenon DEF LeaseInv
<1>6. x.pc # "insert" /\ "idle" # "insert"
  BY <1>2
<1>7. \A v \in Clients : job'[v].pc # "idle" => lock'[Uid0] = v
  BY <1>1, <1>3, <1>4, <1>5, Zenon
<1>8. \A v \in Clients : job'[v].pc # "insert"
  BY <1>1, <1>4, <1>5, <1>6, Zenon
<1>9. OnePendingOrder'
  BY <1>2, Zenon DEF LeaseInv, OnePendingOrder
<1> QED
  BY <1>7, <1>8, <1>9, Zenon DEF LeaseInv

\* FindPendingOrder: who is about to insert has seen that there is none.
LEMMA FindLease ==
    ASSUME TypeOK, LeaseInv, NEW w \in Clients, FindPendingOrder(w)
    PROVE  LeaseInv'
<1> DEFINE j == job[w]
<1>0. w \in Workers /\ j \in Job /\ j.pc = "find" /\ orders' = orders /\ lock' = lock
  BY Zenon DEF FindPendingOrder, TypeOK, Workers
<1>1. CASE PendingOrders(j.uid, j.product) = {} /\ Goto(w, "insert")
  <2>1. job' = [job EXCEPT ![w] = At(j, "insert")]
    BY <1>1, Zenon DEF Goto
  <2>2. /\ At(j, "insert").uid = j.uid /\ At(j, "insert").product = j.product
    BY <1>0 DEF At, Job
  <2>3. job'[w] = At(j, "insert") /\ \A v \in Workers \ {w} : job'[v] = job[v]
    BY <1>0, <2>1, Zenon DEF TypeOK
  <2>4. j.pc # "idle"
    BY <1>0
  <2>5. lock[Uid0] = w
    BY <2>4, Zenon DEF LeaseInv
  <2>6. \A v \in Clients : job'[v].pc # "idle" => lock'[Uid0] = v
    BY <1>0, <2>3, <2>5, Zenon DEF LeaseInv, Workers
  <2>7. ASSUME NEW v \in Clients, job'[v].pc = "insert"
        PROVE  (PendingOrders(job[v].uid, job[v].product) = {})'
    <3>1. PendingOrders(job'[v].uid, job'[v].product) = {}
      BY <1>0, <1>1, <2>2, <2>3, <2>7, Zenon DEF LeaseInv, Workers
    <3> QED
      BY <1>0, <3>1, Zenon DEF PendingOrders
  <2>8. OnePendingOrder'
    BY <1>0, Zenon DEF LeaseInv, OnePendingOrder
  <2> QED
    BY <2>6, <2>7, <2>8, Zenon DEF LeaseInv
<1>2. ASSUME NEW o \in Orders, job' = [job EXCEPT ![w] = WithOrder(@, o)] PROVE LeaseInv'
  <2>1. WithOrder(j, o).pc = "reply"
    BY <1>0 DEF WithOrder, Job
  <2>2. "reply" # "insert" /\ j.pc # "idle"
    BY <1>0
  <2>3. NoNewPending /\ KeepsLease
    BY <1>0, NoRowChanged, LeasesKept, Zenon
  <2> QED
    BY <1>0, <1>2, <2>1, <2>2, <2>3, GoesOn, Zenon
<1>3. PendingOrders(j.uid, j.product) \subseteq Orders
  BY Zenon DEF PendingOrders
<1> QED
  BY <1>1, <1>2, <1>3, Zenon DEF FindPendingOrder

\* InsertOrder: the order that is opened is the only one.
LEMMA InsertLease ==
    ASSUME TypeOK, LeaseInv, NEW w \in Clients, InsertOrder(w)
    PROVE  LeaseInv'
<1> DEFINE j == job[w]
<1>0. w \in Workers /\ j \in Job /\ j.pc = "insert"
  BY Zenon DEF InsertOrder, TypeOK, Workers
<1>1. ASSUME NEW o \in Orders, orders' = [orders EXCEPT ![o] = CreateOrder(j.uid, j.product, j.rewards)],
             job' = [job EXCEPT ![w] = WithOrder(@, o)], lock' = lock
      PROVE  LeaseInv'
  <2>1. j.pc # "idle" /\ "reply" # "insert" /\ "idle" # "insert"
    BY <1>0
  <2>2. lock[Uid0] = w /\ PendingOrders(j.uid, j.product) = {}
    BY <1>0, <2>1, Zenon DEF LeaseInv
  <2>3. WithOrder(j, o).pc = "reply"
    BY <1>0 DEF WithOrder, Job
  <2>4. job'[w] = WithOrder(j, o) /\ \A v \in Workers \ {w} : job'[v] = job[v]
    BY <1>0, <1>1, Zenon DEF TypeOK
  <2>5. \A v \in Clients \ {w} : job'[v].pc = "idle"
    BY <2>2, <2>4, Zenon DEF LeaseInv, Workers
  <2> DEFINE s == CreateOrder(j.uid, j.product, j.rewards)
  <2>6. s.uid = j.uid /\ s.product = j.product
    BY DEF CreateOrder, NoRow
  <2>7. orders'[o] = s /\ \A x \in Orders \ {o} : orders'[x] = orders[x]
    BY <1>1, Zenon DEF TypeOK
  <2> HIDE DEF s
  <2>8. ASSUME NEW x \in Orders \ {o}, orders[x].status = "Pending"
        PROVE  ~(orders[x].uid = s.uid /\ orders[x].product = s.product)
    BY <2>2, <2>6, <2>8, Zenon DEF PendingOrders
  <2>9. OnePendingOrder'
    <3> SUFFICES ASSUME NEW x \in Orders, NEW y \in Orders, x # y,
                        orders'[x].status = "Pending", orders'[y].status = "Pending",
                        orders'[x].uid = orders'[y].uid,
                        orders'[x].product = orders'[y].product
                 PROVE  FALSE
      BY Zenon DEF OnePendingOrder
    <3>1. CASE x = o
      BY <2>7, <2>8, <3>1, Zenon
    <3>2. CASE y = o
      BY <2>7, <2>8, <3>2, Zenon
    <3>3. CASE x # o /\ y # o
      BY <2>7, <3>3, Zenon DEF LeaseInv, OnePendingOrder
    <3> QED
      BY <3>1, <3>2, <3>3, Zenon
  <2>10. \A v \in Clients : job'[v].pc # "idle" => lock'[Uid0] = v
    BY <1>1, <2>2, <2>5, Zenon
  <2>11. \A v \in Clients : job'[v].pc # "insert"
    BY <2>1, <2>3, <2>4, <2>5, Zenon
  <2> QED
    BY <2>9, <2>10, <2>11, Zenon DEF LeaseInv
<1>2. CASE Error(w)
  BY <1>0, <1>2, ErrorLease, Zenon
<1> QED
  BY <1>1, <1>2, Zenon DEF InsertOrder

\* A handler goes to another point of its code.
LEMMA GotoLease ==
    ASSUME TypeOK, LeaseInv, NEW w \in Workers, NEW pc, Goto(w, pc), pc # "insert",
           job[w].pc # "idle" \/ w \notin Clients, NoNewPending, KeepsLease
    PROVE  LeaseInv'
<1>1. At(job[w], pc).pc = pc
  <2>1. job[w] \in Job
    BY Zenon DEF TypeOK
  <2> QED
    BY <2>1 DEF At, Job
<1> QED
  BY <1>1, GoesOn, Zenon DEF Goto

\* The timeout scan.
LEMMA ScanLease ==
    ASSUME TypeOK, LeaseInv, NEW w \in Crons, CheckExpiredPendingOrders(w) \/ CronStep(w)
    PROVE  LeaseInv'
<1>0. w \in Workers /\ w \notin Clients
  BY PaymentAssumption, Zenon DEF Workers
<1>1. \A S : Scanning(S).pc = "scan"
  BY DEF Scanning, NoJob
<1>2. \A o, u, S : Visiting(o, u, S).pc = "reread"
  BY DEF Visiting, NoJob
<1>3. /\ "scan" # "insert" /\ "reread" # "insert" /\ "idle" # "insert" /\ "close" # "insert"
      /\ "query" # "insert" /\ NoJob.pc = "idle"
  BY DEF NoJob
<1>4. ASSUME NEW x, job' = [job EXCEPT ![w] = x], x.pc # "insert", NoNewPending,
             \/ lock' = lock \/ \E keys : lock' = Release(w, keys)
             \/ \E k : Acquire(w, k)
      PROVE  LeaseInv'
  <2>1. KeepsLease
    BY <1>0, <1>4, LeasesKept, Zenon
  <2> QED
    BY <1>0, <1>4, <2>1, GoesOn, Zenon
<1>5. CASE CheckExpiredPendingOrders(w)
  <2>1. NoNewPending
    BY <1>5, NoRowChanged, Zenon DEF CheckExpiredPendingOrders
  <2> QED
    BY <1>0, <1>1, <1>3, <1>4, <1>5, <2>1, Zenon DEF CheckExpiredPendingOrders
<1>6. CASE EndScan(w)
  <2>1. NoNewPending
    BY <1>6, NoRowChanged, Zenon DEF EndScan
  <2> QED
    BY <1>3, <1>4, <1>6, <2>1, Zenon DEF EndScan
<1>7. CASE ScanNext(w)
  <2>1. NoNewPending
    BY <1>7, NoRowChanged, Zenon DEF ScanNext
  <2>2. PICK o : \/ /\ Acquire(w, orders[o].uid)
                    /\ job' = [job EXCEPT ![w] = Visiting(o, orders[o].uid, job[w].batch \ {o})]
                 \/ /\ job' = [job EXCEPT ![w] = Scanning(job[w].batch \ {o})]
                    /\ lock' = lock
    BY <1>7, Zenon DEF ScanNext
  <2>3. Visiting(o, orders[o].uid, job[w].batch \ {o}).pc # "insert"
    BY <1>2, <1>3, Zenon
  <2>4. Scanning(job[w].batch \ {o}).pc # "insert"
    BY <1>1, <1>3, Zenon
  <2> QED
    BY <1>4, <2>1, <2>2, <2>3, <2>4, Zenon
<1>8. CASE RereadOrder(w)
  <2>1. NoNewPending
    BY <1>8, NoRowChanged, Zenon DEF RereadOrder
  <2>2. CASE Leave(w, TRUE)
    BY <1>0, <2>1, <2>2, LeaveLease, Zenon
  <2>3. CASE Goto(w, "close") /\ UNCHANGED lock
    <3>1. KeepsLease
      BY <1>0, <2>3, LeasesKept, Zenon
    <3> QED
      BY <1>0, <1>3, <2>1, <2>3, <3>1, GotoLease, Zenon
  <2>4. ASSUME NEW t, job' = [job EXCEPT ![w] = WithToken(@, t)], lock' = lock PROVE LeaseInv'
    <3>1. WithToken(job[w], t).pc = "query"
      <4>1. job[w] \in Job
        BY <1>0, Zenon DEF TypeOK
      <4> QED
        BY <4>1 DEF WithToken, Job
    <3> QED
      BY <1>3, <1>4, <2>1, <2>4, <3>1, Zenon
  <2> QED
    BY <1>8, <2>2, <2>3, <2>4, Zenon DEF RereadOrder
<1>9. CASE CloseOrder(w)
  <2>1. NoNewPending
    BY <1>9, OneRow, RowsKeepPending, Zenon DEF CloseOrder, TypeOK
  <2> QED
    BY <1>0, <1>9, <2>1, LeaveLease, Zenon DEF CloseOrder
<1> QED
  BY <1>5, <1>6, <1>7, <1>8, <1>9, Zenon DEF CronStep

\* The puller.
LEMMA PullLease ==
    ASSUME TypeOK, LeaseInv, NEW w \in Pullers, CheckGoogleRTDN(w) \/ PullerStep(w)
    PROVE  LeaseInv'
<1>0. w \in Workers /\ w \notin Clients
  BY PaymentAssumption, Zenon DEF Workers
<1>1. \A S, A : Pulled(S, A).pc = "pulled"
  BY DEF Pulled, NoJob
<1>2. \A m, S, A : Handling(m, S, A).pc = "query"
  BY DEF Handling, NoJob
<1>3. /\ "pulled" # "insert" /\ "query" # "insert" /\ "bind" # "insert" /\ "idle" # "insert"
      /\ NoJob.pc = "idle"
  BY DEF NoJob
<1>4. ASSUME NEW x, job' = [job EXCEPT ![w] = x], x.pc # "insert", orders' = orders, lock' = lock
      PROVE  LeaseInv'
  <2>1. KeepsLease /\ NoNewPending
    BY <1>0, <1>4, LeasesKept, NoRowChanged, Zenon
  <2> QED
    BY <1>0, <1>4, <2>1, GoesOn, Zenon
<1>5. CASE CheckGoogleRTDN(w)
  BY <1>1, <1>3, <1>4, <1>5, Zenon DEF CheckGoogleRTDN
<1>6. CASE HandleRTDN(w)
  BY <1>2, <1>3, <1>4, <1>6, Zenon DEF HandleRTDN
<1>7. CASE Acknowledge(w)
  BY <1>3, <1>4, <1>7, Zenon DEF Acknowledge
<1>8. CASE LockOrderUser(w)
  <2>1. CASE Error(w)
    BY <1>0, <2>1, ErrorLease, Zenon
  <2>2. CASE Acquire(w, job[w].uid) /\ Goto(w, "bind") /\ orders' = orders
    <3>1. KeepsLease
      BY <1>0, <2>2, LeasesKept, Zenon
    <3> QED
      BY <1>0, <1>3, <2>2, <3>1, NoRowChanged, GotoLease, Zenon
  <2> QED
    BY <1>8, <2>1, <2>2, Zenon DEF LockOrderUser
<1> QED
  BY <1>5, <1>6, <1>7, <1>8, Zenon DEF PullerStep

\* What the three callers share.
LEMMA OrderLease ==
    ASSUME TypeOK, LeaseInv, NEW w \in Workers, OrderStep(w)
    PROVE  LeaseInv'
<1>0. job[w] \in Job /\ job[w].pc # "idle"
  <2>1. job[w] \in Job
    BY Zenon DEF TypeOK
  <2> QED
    BY <2>1, ZenonT(40) DEF OrderStep, QueryOrder, FindOrBind, LoadOrder, SnapshotRewards, EnqueueGrant,
                MarkPurchased, CompletePurchase, MarkCancelled, EnqueueRevoke, MarkRefunded, ReturnOK
<1>1. /\ "lock" # "insert" /\ "bind" # "insert" /\ "load" # "insert" /\ "grant" # "insert"
      /\ "purchase" # "insert" /\ "complete" # "insert" /\ "refund" # "insert"
      /\ "done" # "insert"
  OBVIOUS
<1>2. ASSUME NEW x, job' = [job EXCEPT ![w] = x], x.pc # "insert", NoNewPending, lock' = lock
      PROVE  LeaseInv'
  <2>1. KeepsLease
    BY <1>2, LeasesKept, Zenon
  <2> QED
    BY <1>0, <1>2, <2>1, GoesOn, Zenon
<1>3. ASSUME NEW pc, Goto(w, pc), pc # "insert", NoNewPending, lock' = lock PROVE LeaseInv'
  <2>1. KeepsLease
    BY <1>3, LeasesKept, Zenon
  <2> QED
    BY <1>0, <1>3, <2>1, GotoLease, Zenon
<1>4. CASE Error(w)
  BY <1>4, ErrorLease, Zenon
<1>5. CASE QueryOrder(w)
  <2>1. \A u, p : /\ WithAnswer(job[w], "lock", u, p).pc = "lock"
                  /\ WithAnswer(job[w], "bind", u, p).pc = "bind"
    BY <1>0 DEF WithAnswer, Job
  <2>2. NoNewPending
    BY <1>5, NoRowChanged, Zenon DEF QueryOrder
  <2> QED
    BY <1>1, <1>2, <1>5, <2>1, <2>2, Zenon DEF QueryOrder
<1>6. CASE FindOrBind(w)
  <2>1. CASE /\ orders' = [orders EXCEPT ![job[w].order] = BindOrder(@, job[w].token, job[w].charged)]
             /\ Goto(w, "load") /\ lock' = lock
    <3>1. NoNewPending
      BY <2>1, OneRow, RowsKeepPending, Zenon DEF TypeOK
    <3> QED
      BY <1>1, <1>3, <2>1, <3>1, Zenon
  <2> QED
    BY <1>4, <1>6, <2>1, Zenon DEF FindOrBind
<1>7. CASE LoadOrder(w)
  <2> DEFINE row == orders[job[w].order]
             step == ProcessOrder(row.status, row.reason, job[w].tp)
             next == IF step = "waiting" THEN "close" ELSE step
  <2>1. step # "insert" /\ "close" # "insert"
    BY DEF ProcessOrder, PendingOrder, PurchasedOrder, CancelledOrder
  <2> HIDE DEF step
  <2>2. next # "insert"
    BY <2>1, Zenon
  <2>3. \A pc, r : WithRewards(job[w], pc, r).pc = pc
    BY <1>0 DEF WithRewards, Job
  <2>4. \/ Error(w)
        \/ job' = [job EXCEPT ![w] = WithRewards(@, next, row.rewards)] /\ UNCHANGED <<orders, lock>>
    BY <1>7, Zenon DEF LoadOrder, step
  <2> HIDE DEF next, row
  <2> QED
    BY <1>2, <1>4, <2>2, <2>3, <2>4, NoRowChanged, Zenon
<1>8. CASE SnapshotRewards(w)
  <2> DEFINE r == config[orders[job[w].order].product]
  <2>1. CASE /\ orders' = [orders EXCEPT ![job[w].order] = UpdateOrderRewards(@, r)]
             /\ job' = [job EXCEPT ![w] = WithRewards(@, "grant", r)] /\ lock' = lock
    <3>1. NoNewPending
      BY <2>1, OneRow, RowsKeepPending, Zenon DEF TypeOK
    <3>2. WithRewards(job[w], "grant", r).pc = "grant"
      BY <1>0 DEF WithRewards, Job
    <3> QED
      BY <1>1, <1>2, <2>1, <3>1, <3>2, Zenon
  <2> QED
    BY <1>4, <1>8, <2>1, Zenon DEF SnapshotRewards
<1>9. CASE EnqueueGrant(w) \/ EnqueueRevoke(w)
  <2>1. ASSUME NEW kind, NEW next, Enqueue(w, kind, next), next # "insert" PROVE LeaseInv'
    <3>1. CASE Panic(w)
      BY <3>1, PanicLease, Zenon
    <3>2. CASE Goto(w, next) /\ orders' = orders /\ lock' = lock
      BY <1>3, <2>1, <3>2, NoRowChanged, Zenon
    <3> QED
      BY <1>4, <2>1, <3>1, <3>2, Zenon DEF Enqueue
  <2> QED
    BY <1>1, <1>9, <2>1, Zenon DEF EnqueueGrant, EnqueueRevoke
<1>10. CASE MarkPurchased(w) \/ MarkCancelled(w) \/ MarkRefunded(w)
  <2> DEFINE o == job[w].order
  <2>1. ASSUME NEW pc, Goto(w, pc), pc # "insert", lock' = lock,
               \/ orders' = [orders EXCEPT ![o] = MarkOrderPurchased(@)]
               \/ orders' = [orders EXCEPT ![o] = MarkOrderCancelled(@)]
               \/ orders' = [orders EXCEPT ![o] = MarkOrderRefunded(@)]
        PROVE  LeaseInv'
    <3>1. NoNewPending
      BY <2>1, OneRow, RowsKeepPending, Zenon DEF TypeOK
    <3> QED
      BY <1>3, <2>1, <3>1, Zenon
  <2> QED
    BY <1>1, <1>4, <1>10, <2>1, Zenon DEF MarkPurchased, MarkCancelled, MarkRefunded
<1>11. CASE CompletePurchase(w)
  <2>1. CASE Goto(w, "done") /\ orders' = orders /\ lock' = lock
    BY <1>1, <1>3, <2>1, NoRowChanged, Zenon
  <2> QED
    BY <1>4, <1>11, <2>1, Zenon DEF CompletePurchase
<1>12. CASE ReturnOK(w)
  <2>1. NoNewPending /\ TRUE \in BOOLEAN
    BY <1>12, NoRowChanged, Zenon DEF ReturnOK
  <2> QED
    BY <1>12, <2>1, LeaveLease, Zenon DEF ReturnOK
<1> QED
  BY <1>5, <1>6, <1>7, <1>8, <1>9, <1>10, <1>11, <1>12, ZenonT(40) DEF OrderStep

\* Tasks, Google and everything outside the handlers but a lost lease.
LEMMA OutsideLease ==
    ASSUME TypeOK, LeaseInv,
           \/ RunTask \/ Google
           \/ Environment /\ ~\E k \in LockKeys : LeaseLost(k)
    PROVE  LeaseInv'
<1>0. ASSUME UNCHANGED <<job, lock>>, NoNewPending PROVE LeaseInv'
  <2>1. KeepsLease /\ \A w \in Clients : KeepsOn(w)
    BY <1>0, Zenon DEF KeepsLease, KeepsOn
  <2> QED
    BY <1>0, <2>1, OtherStep, Zenon
<1>1. CASE RunTask \/ Google
  <2>1. UNCHANGED <<orders, job, lock>>
    BY <1>1, Zenon DEF RunTask, ProcessGrantTask, ProcessRevokeTask, Google, StartPurchase,
                       GooglePurchased, GoogleCancelled
  <2> QED
    BY <1>0, <2>1, NoRowChanged, Zenon
<1>2. ASSUME NEW o \in Orders, OrderExpires(o) PROVE LeaseInv'
  <2>1. NoNewPending
    BY <1>2, OneRow, RowsKeepPending, Zenon DEF OrderExpires, TypeOK
  <2> QED
    BY <1>0, <1>2, <2>1, Zenon DEF OrderExpires
<1>3. ASSUME NEW p \in Products, NEW r \in Configs, ReloadConfig(p, r) PROVE LeaseInv'
  BY <1>0, <1>3, NoRowChanged, Zenon DEF ReloadConfig
<1>4. ASSUME NEW w \in Workers, Fail(w) PROVE LeaseInv'
  BY <1>4, ErrorLease, PanicLease, Zenon DEF Fail
<1>5. ASSUME NEW w \in Workers, Crash(w) PROVE LeaseInv'
  <2>1. job' = [job EXCEPT ![w] = NoJob] /\ orders' = orders /\ lock' = lock
    BY <1>5, Zenon DEF Crash
  <2>2. job'[w].pc = "idle" /\ \A x \in Workers \ {w} : job'[x] = job[x]
    <3>1. job'[w] = NoJob /\ \A x \in Workers \ {w} : job'[x] = job[x]
      BY <2>1, Zenon DEF TypeOK
    <3>2. NoJob.pc = "idle"
      BY StartingJobs, Zenon
    <3> QED
      BY <3>1, <3>2, Zenon
  <2>3. \A v \in Clients : KeepsOn(v)
    BY <2>2, Zenon DEF KeepsOn, Workers
  <2> QED
    BY <2>1, <2>3, LeasesKept, NoRowChanged, OtherStep, Zenon
<1>6. ASSUME NEW k \in LockKeys, OrphanLeaseExpires(k) PROVE LeaseInv'
  <2>1. orders' = orders /\ job' = job /\ lock' = [lock EXCEPT ![k] = NoWorker]
    BY <1>6, Zenon DEF OrphanLeaseExpires
  <2>2. KeepsLease
    <3> SUFFICES ASSUME NEW w \in Clients, lock[Uid0] = w, job[w].pc # "idle" PROVE k # Uid0
      <4>1. \A x : x # k /\ x \in LockKeys => lock'[x] = lock[x]
        BY <2>1, Zenon DEF TypeOK
      <4>2. Uid0 \in LockKeys
        BY Zenon DEF LockKeys
      <4> QED
        BY <2>1, <4>1, <4>2, Zenon DEF KeepsLease
    <3>1. Holds(w) = {Uid0}
      BY Zenon DEF Holds, LockUserKey
    <3> QED
      BY <1>6, <3>1, Zenon DEF OrphanLeaseExpires
  <2>3. \A w \in Clients : KeepsOn(w)
    BY <2>1, Zenon DEF KeepsOn
  <2> QED
    BY <2>1, <2>2, <2>3, NoRowChanged, OtherStep, Zenon
<1> QED
  BY <1>1, <1>2, <1>3, <1>4, <1>5, <1>6, Zenon DEF Environment

\* Every step but the loss of a lease keeps the invariant.
LEMMA NextLease ==
    TypeOK /\ LeaseInv /\ [Next /\ ~\E k \in LockKeys : LeaseLost(k)]_vars => LeaseInv'
<1> SUFFICES ASSUME TypeOK, LeaseInv, [Next /\ ~\E k \in LockKeys : LeaseLost(k)]_vars
             PROVE  LeaseInv'
  BY Zenon
<1>1. CASE UNCHANGED vars
  <2>1. UNCHANGED <<orders, job, lock>>
    BY <1>1, Zenon DEF vars
  <2>2. KeepsLease /\ NoNewPending /\ \A w \in Clients : KeepsOn(w)
    BY <2>1, NoRowChanged, Zenon DEF KeepsLease, KeepsOn
  <2> QED
    BY <2>2, OtherStep, Zenon
<1>2. ASSUME NEW w \in Workers, Step(w) PROVE LeaseInv'
  <2>1. CASE w \in Clients /\ ClientStep(w)
    <3>1. CASE ReplyCreateOrder(w)
      <4>1. NoNewPending /\ TRUE \in BOOLEAN
        BY <3>1, NoRowChanged, Zenon DEF ReplyCreateOrder
      <4> QED
        BY <3>1, <4>1, LeaveLease, Zenon DEF ReplyCreateOrder
    <3> QED
      BY <2>1, <3>1, FindLease, InsertLease, Zenon DEF ClientStep
  <2> QED
    BY <1>2, <2>1, ScanLease, PullLease, OrderLease, Zenon DEF Step
<1> QED
  BY <1>1, <1>2, StartLease, ScanLease, PullLease, OutsideLease, Zenon DEF Next

\* Nobody is at work and there is no order.
LEMMA InitLease == Init => LeaseInv
<1> SUFFICES ASSUME Init PROVE LeaseInv
  BY Zenon
<1>1. NoRow.status # "Pending" /\ NoJob.pc = "idle" /\ "idle" # "insert"
  BY DEF NoRow, NoJob
<1>2. \A o \in Orders : orders[o].status # "Pending"
  BY <1>1, Zenon DEF Init
<1>3. \A w \in Clients : job[w].pc = "idle"
  BY <1>1, Zenon DEF Init, Workers
<1> QED
  BY <1>1, <1>2, <1>3, Zenon DEF LeaseInv, OnePendingOrder

\* As long as no lease runs out under a handler that is at work, a player has at
\* most one Pending order of a product, for any number of workers, whatever
\* fails, panics or dies otherwise: FindPendingOrder and the insert after it are
\* two statements, and the lease of create_order makes them one.
THEOREM OnePendingOrderHolds == LeasesHold => []OnePendingOrder
<1>1. LeasesHold => Spec
  BY PTL DEF LeasesHold, Spec
<1>2. LeasesHold => []TypeOK
  BY <1>1, TypeCorrect, PTL
<1>3. LeaseInv => OnePendingOrder
  BY Zenon DEF LeaseInv
<1> QED
  BY <1>2, <1>3, InitLease, NextLease, PTL DEF LeasesHold

=============================================================================
