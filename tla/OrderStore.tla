----------------------------- MODULE OrderStore -----------------------------
(***************************************************************************)
(* The payment_order table and the statements that payment/internal/store  *)
(* runs on it.  A row is a record; every statement is one conditional      *)
(* UPDATE, so it is modelled by a pair of operators: the WHERE clause (is   *)
(* the row affected) and the row after the statement.                      *)
(*                                                                         *)
(* Rewards are abstract: a member of Rewards stands for the JSON rewards   *)
(* list of one version of the product configuration.  A purchase token t   *)
(* stands for the credential and its hash; Google gives each token at most *)
(* one order id, so the third party order id of t is written t as well.    *)
(***************************************************************************)
EXTENDS Naturals

CONSTANTS
    Users,      \* players (uid)
    Products,   \* internal product ids, each sold under one Google product id
    Orders,     \* primary keys of payment_order, allocated in increasing order
    Tokens,     \* Google purchase tokens
    Rewards,    \* versions of a product's rewards list
    NoUser, NoProduct, NoToken, NoReward,
    RetryCap    \* retry_times saturates here: nothing reads the counter

NoOrder == 0

ASSUME OrderStoreAssumption ==
    /\ Orders \subseteq Nat \ {NoOrder}
    /\ NoUser \notin Users
    /\ NoProduct \notin Products
    /\ NoToken \notin Tokens
    /\ NoReward \notin Rewards
    /\ RetryCap \in Nat

OrderStatus == {"None", "Pending", "Purchased", "Cancelled"}

\* "none" is the empty string of a row that is not cancelled.
CancelReason == {"none", "timeout", "refund"}

\* "paid" is whether MarkOrderPurchased ever filled the real_amount columns;
\* "expired" is create_at_unix <= now - pendingOrderTimeout.
OrderRow ==
    [status  : OrderStatus,
     reason  : CancelReason,
     uid     : Users \cup {NoUser},
     product : Products \cup {NoProduct},
     cred    : Tokens \cup {NoToken},
     tpid    : Tokens \cup {NoToken},
     rewards : Rewards \cup {NoReward},
     paid    : BOOLEAN,
     expired : BOOLEAN,
     retry   : 0 .. RetryCap]

\* A primary key that has not been allocated.
NoRow ==
    [status |-> "None", reason |-> "none", uid |-> NoUser, product |-> NoProduct,
     cred |-> NoToken, tpid |-> NoToken, rewards |-> NoReward,
     paid |-> FALSE, expired |-> FALSE, retry |-> 0]

-----------------------------------------------------------------------------
(* Statements *)

CreateOrder(u, p, r) ==
    [NoRow EXCEPT !.status = "Pending", !.uid = u, !.product = p, !.rewards = r]

\* The WHERE clause of FindAndBindOrder; hasId is whether Google has given the
\* purchase an order id.  There is no condition on the status.
Bindable(row, t, hasId) ==
    /\ row.cred \in {NoToken, t}
    /\ hasId => row.tpid \in {NoToken, t}

BindOrder(row, t, hasId) ==
    IF Bindable(row, t, hasId)
    THEN [row EXCEPT !.cred = t, !.tpid = IF hasId THEN t ELSE @]
    ELSE row

\* The checks FindAndBindOrder makes on the row it reads back.
BoundTo(row, t, hasId) ==
    /\ row.cred = t
    /\ hasId => row.tpid = t

\* GetExpiredPendingOrder, FindExpiredPendingOrders.
ExpiredPending(row) ==
    row.status = "Pending" /\ row.expired

\* MarkOrderTimeout without its status condition.
CloseAnyOrder(row) ==
    [row EXCEPT !.status = "Cancelled", !.reason = "timeout"]

\* MarkOrderTimeout with a status that no other statement knows.
CloseAsTimeout(row) == [row EXCEPT !.status = "Timeout"]

MarkOrderTimeout(row) ==
    IF ExpiredPending(row)
    THEN [row EXCEPT !.status = "Cancelled", !.reason = "timeout"]
    ELSE row

\* The WHERE clause of MarkOrderPurchased.
Purchasable(row) ==
    \/ row.status = "Pending"
    \/ row.status = "Cancelled" /\ row.reason = "timeout"

MarkOrderPurchased(row) ==
    [row EXCEPT !.status = "Purchased", !.reason = "none", !.paid = TRUE]

Refundable(row) == row.status = "Purchased"

MarkOrderRefunded(row) ==
    [row EXCEPT !.status = "Cancelled", !.reason = "refund"]

\* The WHERE clause of MarkOrderCancelled without the status.
CancellableAlways(row) == row.status # "None"

Cancellable(row) == row.status = "Pending"

MarkOrderCancelled(row) ==
    [row EXCEPT !.status = "Cancelled", !.reason = "refund"]

UpdateOrderRewards(row, r) == [row EXCEPT !.rewards = r]

\* The row grows older than pendingOrderTimeout.
Age(row) == [row EXCEPT !.expired = TRUE]

AddRetryTimes(row) ==
    [row EXCEPT !.retry = IF @ < RetryCap THEN @ + 1 ELSE @]

=============================================================================
