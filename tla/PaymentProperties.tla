------------------------- MODULE PaymentProperties --------------------------
(***************************************************************************)
(* The correctness properties of the payment service, and the contract it  *)
(* implements.                                                             *)
(***************************************************************************)
EXTENDS Payment

GrantSubmitted(o) == granted[o] # NoReward \/ TaskPending("grant", o)

RevokeSubmitted(o) == revoked[o] # NoReward \/ TaskPending("revoke", o)

\* The purchase an order is bound to.
Bound(o) == tokens[orders[o].cred]

\* An order that was ever marked Purchased has its grant in the queue or
\* already carried out, whoever died in between: purchaseOrderWithoutLock
\* enqueues before it marks, and the queue keeps a task until it succeeds.
PurchasedIsGranted ==
    \A o \in Orders : orders[o].paid => GrantSubmitted(o)

\* An order that was Purchased and is Cancelled now has its revocation in the
\* queue or carried out: revokeOrderWithoutLock enqueues before it marks, and
\* no other statement cancels a Purchased order.
RefundedIsRevoked ==
    \A o \in Orders :
        orders[o].paid /\ orders[o].status = "Cancelled" => RevokeSubmitted(o)

\* Google is told to consume a purchase only when the order it pays for is
\* bound to it and that order's grant can no longer be lost: after Consume the
\* player cannot get the money back by Google's three-day rule.
ConsumedIsGranted ==
    \A t \in Tokens :
        tokens[t].consumed =>
            LET o == tokens[t].order IN
            orders[o].cred = t /\ orders[o].paid /\ GrantSubmitted(o)

\* No reward without a payment: an order's grant is submitted only if the
\* order is bound to a purchase made for this very order and product that
\* Google has charged.
GrantIsCharged ==
    \A o \in Orders :
        GrantSubmitted(o) =>
            /\ orders[o].cred # NoToken
            /\ Bound(o).charged
            /\ Bound(o).order = o
            /\ Bound(o).product = orders[o].product

\* Nothing is taken from a player, and no order is closed as refunded, unless
\* Google has cancelled the purchase the order is bound to.
RefundIsReal ==
    \A o \in Orders :
        RevokeSubmitted(o) \/ orders[o].reason = "refund" =>
            orders[o].cred # NoToken /\ Bound(o).state = "Cancelled"

\* Two orders never share a credential or a third party order id: the unique
\* indexes of payment_order have nothing to refuse.
CredentialUsedOnce ==
    \A o1, o2 \in Orders :
        o1 # o2 => /\ orders[o1].cred = NoToken \/ orders[o1].cred # orders[o2].cred
                   /\ orders[o1].tpid = NoToken \/ orders[o1].tpid # orders[o2].tpid

\* A player has at most one Pending order of a product, so that
\* findOrCreateOrderWithoutLock reuses it instead of opening a second one.
\* It rests on the lease of create_order.
OnePendingOrder ==
    \A o1, o2 \in Orders :
        /\ orders[o1].status = "Pending" /\ orders[o2].status = "Pending"
        /\ orders[o1].uid = orders[o2].uid /\ orders[o1].product = orders[o2].product
        => o1 = o2

\* Row "Purchased Cancelled" of the table in order_process.go ("idempotent
\* revocation, then Cancelled"): when every notification has been acknowledged
\* and no handler is at work, no order is left Purchased whose purchase Google
\* has cancelled.  Nothing would look at such an order again: the timeout scan
\* reads Pending orders only.
RefundNotMissed ==
    (rtdn = {} /\ \A w \in Workers : job[w].pc = "idle") =>
        \A o \in Orders :
            orders[o].status = "Purchased" => Bound(o).state # "Cancelled"

-----------------------------------------------------------------------------
(* The contract *)

PhaseOf(row) ==
    CASE row.status = "None" -> "none"
      [] row.status = "Pending" -> "open"
      [] row.status = "Purchased" -> "paid"
      [] OTHER -> IF row.reason = "timeout" THEN "closed"
                  ELSE IF row.paid THEN "refunded" ELSE "void"

Phase == [o \in Orders |-> PhaseOf(orders[o])]

Progress(kind, done) ==
    [o \in Orders |-> IF done[o] # NoReward THEN "done"
                      ELSE IF TaskPending(kind, o) THEN "submitted" ELSE "none"]

Contract == INSTANCE OrderContract
                WITH phase <- Phase, grant <- Progress("grant", granted),
                     revoke <- Progress("revoke", revoked)

\* The payment service implements OrderContract: every step of every worker,
\* task, and failure is a step of the contract or leaves the order alone.  In
\* particular the rows of the table in order_process.go hold for the statuses
\* the database has: MarkOrderRefunded takes only an order that was Purchased,
\* MarkOrderCancelled only one that never was, even while its grant is queued.
ImplementsContract == Contract!Spec

-----------------------------------------------------------------------------
(* Liveness *)

\* The configuration has the product of the order.
Sold(o) == orders[o].status # "None" => config[orders[o].product] # NoReward

\* The order is not bound to a purchase of another product.  FindOrBind binds
\* before anybody compares the products, and a binding is never undone: every
\* later attempt on such an order ends at the comparison.
RightlyBound(o) == orders[o].cred # NoToken => Bound(o).product = orders[o].product

\* Rows "Pending Purchased" and "Cancelled Purchased" of the table in
\* order_process.go: an order that is Pending or was closed by the timeout, whose
\* purchase, of its own product, Google reports Purchased, gets its rewards,
\* unless Google cancels the purchase after all.  The configuration may lose
\* the product on the way but has to have it for good in the end, since
\* stepGrantRewards fails for as long as it is gone.
PurchaseIsDelivered ==
    \A t \in Tokens, o \in Orders :
        <>[]Sold(o) =>
            ((/\ tokens[t].state = "Purchased" /\ tokens[t].order = o
              /\ tokens[t].product = orders[o].product /\ Purchasable(orders[o]))
                ~> (granted[o] # NoReward \/ tokens[t].state = "Cancelled"))

\* A Pending order past its time does not stay Pending: the timeout scan closes
\* or settles it, whoever failed or held the locks.  On two kinds of order the
\* scan fails for ever, and they take up its batch as well: a paid order whose
\* product has left the configuration, and an order bound to a purchase of
\* another product.  The property is about behaviours that end up without them;
\* it does not say that there are none.
ExpiredIsSettled ==
    <>[](\A o \in Orders : Sold(o) /\ RightlyBound(o)) =>
        \A o \in Orders : ExpiredPending(orders[o]) ~> orders[o].status # "Pending"

-----------------------------------------------------------------------------
(* The inductive invariant behind the safety properties: what rows, tokens *)
(* and tasks say of each other, and what a handler may rely on at each of  *)
(* its program points although other handlers ran in between.              *)

Exists(o) == o \in Orders /\ orders[o].status # "None"

Started(t) == t \in Tokens /\ tokens[t].state # "None"

\* Order o is bound to purchase t, which Google has charged for its product.
PaidBy(o, t) ==
    /\ orders[o].cred = t
    /\ tokens[t].charged
    /\ tokens[t].product = orders[o].product

RefundedBy(o, t) == orders[o].cred = t /\ tokens[t].state = "Cancelled"

RowOK(o) ==
    LET row == orders[o] IN
    /\ row.status = "None" => row.cred = NoToken
    /\ row.status # "None" => row.product \in Products /\ row.rewards # NoReward
    /\ row.status = "Purchased" => row.paid
    /\ row.paid =>
          /\ GrantSubmitted(o)
          /\ \/ row.status = "Purchased"
             \/ row.status = "Cancelled" /\ row.reason = "refund" /\ RevokeSubmitted(o)
    /\ row.cred # NoToken => Started(row.cred) /\ tokens[row.cred].order = o
    /\ row.tpid # NoToken => row.tpid = row.cred
    /\ GrantSubmitted(o) => row.cred # NoToken /\ PaidBy(o, row.cred)
    /\ RevokeSubmitted(o) \/ row.reason = "refund" =>
          row.cred # NoToken /\ RefundedBy(o, row.cred)

TokenOK(t) ==
    LET p == tokens[t] IN
    /\ p.state # "None" => Exists(p.order)
    /\ p.state = "Purchased" => p.charged
    /\ p.charged \/ p.consumed => p.state # "None"
    /\ p.consumed => orders[p.order].cred = t /\ orders[p.order].paid

JobOK(j) ==
    /\ \A m \in j.msgs : Started(m.token)
    /\ j.pc \in {"find", "insert"} => j.product \in Products /\ j.rewards # NoReward
    /\ j.pc = "reply" => Exists(j.order)
    /\ j.pc = "reread" => j.order \in Orders
    /\ j.pc = "query" => Started(j.token)
    /\ j.pc \in {"lock", "bind", "load"} =>
          /\ Started(j.token) /\ tokens[j.token].order = j.order
          /\ j.tp = "Purchased" => tokens[j.token].charged
          /\ j.tp = "Cancelled" => tokens[j.token].state = "Cancelled"
    /\ j.pc \in {"snapshot", "grant", "purchase", "complete"} =>
          Started(j.token) /\ tokens[j.token].order = j.order /\ PaidBy(j.order, j.token)
    /\ j.pc \in {"cancel", "revoke", "refund"} =>
          Started(j.token) /\ tokens[j.token].order = j.order /\ RefundedBy(j.order, j.token)
    /\ j.pc \in {"grant", "revoke"} => j.rewards # NoReward
    /\ j.pc = "purchase" => GrantSubmitted(j.order)
    /\ j.pc = "complete" => orders[j.order].paid
    /\ j.pc = "revoke" => orders[j.order].status = "Purchased" \/ RevokeSubmitted(j.order)
    /\ j.pc = "refund" => RevokeSubmitted(j.order)

\* Together with TypeOK this is inductive and implies the safety invariants.
Inductive ==
    /\ \A o \in Orders : RowOK(o)
    /\ \A t \in Tokens : TokenOK(t)
    /\ \A task \in queue : task.rewards # NoReward
    /\ \A o \in issued : Exists(o)
    /\ \A m \in rtdn : Started(m.token)
    /\ \A w \in Workers : JobOK(job[w])

=============================================================================
