-------------------------------- MODULE Bag ---------------------------------
(***************************************************************************)
(* The item rows of one player and what the functions of items/internal/   *)
(* store do to them: addItemUnlimitedInTx, addItemTimeStackInTx and a      *)
(* round of revokeItemInTx.  The statements of one addItem...InTx are one  *)
(* operator: nobody sees them before the commit.                           *)
(***************************************************************************)
EXTENDS Integers, Sequences, FiniteSets, Functions

CONSTANTS
    Orders,      \* the nonces of a grant and of its revocation
    Adds,        \* direct calls of AddItem
    NoOrder,
    ItemTypes,   \* item type ids
    NoItem,      \* the item of a nil reward, and of a primary key not in use
    TimeItems,   \* item types of StackModeTime; the others are StackModeCount
    Given,       \* the rewards a grant, or an AddItem, is called with
    Taken,       \* the rewards a revocation is called with
    RowIds       \* primary keys of the item table, as many as are ever needed

Reward ==
    [item : ItemTypes \cup {NoItem}, count : Int, seconds : Nat, until : Nat]

ASSUME BagAssumption ==
    /\ NoItem \notin ItemTypes
    /\ TimeItems \subseteq ItemTypes
    /\ Orders \cap Adds = {}
    /\ NoOrder \notin Orders \cup Adds
    /\ Given \in [Orders \cup Adds -> Seq(Reward)]
    /\ Taken \in [Orders -> Seq(Reward)]
    /\ IsFiniteSet(RowIds)

\* expire 0 is "never".
Row(i, n, used, expire) ==
    [item |-> i, count |-> n, used |-> used, expire |-> expire]

NoRow == Row(NoItem, 0, 0, 0)

ItemRow == [item : ItemTypes \cup {NoItem}, count : Nat, used : Nat, expire : Nat]

NoRows == [id \in RowIds |-> NoRow]

-----------------------------------------------------------------------------
(* Adding *)

\* notExpiredPredicate
NotExpired(row, t) == row.expire = 0 \/ row.expire > t

Available(row) == row.count - row.used

\* ORDER BY expire_at_unix ASC, with the permanent rows in front.
NotLaterNumber(r1, r2) == r1.expire <= r2.expire

\* ORDER BY (expire_at_unix = 0) ASC, expire_at_unix ASC
NotLater(r1, r2) == r2.expire = 0 \/ (r1.expire # 0 /\ r1.expire <= r2.expire)

\* The rows that may come first in this order.
Earliest(rs, ids) ==
    {id \in ids : \A other \in ids : NotLater(rs[id], rs[other])}

\* Bound: MySQL never runs out of primary keys.
Room(rs) == \E id \in RowIds : rs[id].item = NoItem

Insert(rs, row) ==
    [rs EXCEPT ![CHOOSE id \in RowIds : rs[id].item = NoItem] = row]

AddCount(row, n) == Row(row.item, row.count + n, row.used, row.expire)

\* The row addItemUnlimitedInTx adds to, if it only looked for rows with
\* something left.
ExistingUsable(rs, i, expire) ==
    {id \in RowIds : rs[id].item = i /\ rs[id].expire = expire /\ Available(rs[id]) > 0}

\* The row addItemUnlimitedInTx adds to.
Existing(rs, i, expire) ==
    {id \in RowIds : rs[id].item = i /\ rs[id].expire = expire}

AddItemUnlimited(rs, i, n, expire) ==
    LET existing == Existing(rs, i, expire)
        id == CHOOSE id \in existing : TRUE IN
    IF n <= 0 THEN rs
    ELSE IF existing = {} THEN Insert(rs, Row(i, n, 0, expire))
    ELSE [rs EXCEPT ![id] = AddCount(rs[id], n)]

\* The rows of item i that have not run out and still have something left.
StackedUsable(rs, i, t) ==
    {id \in RowIds : rs[id].item = i /\ rs[id].expire > t /\ Available(rs[id]) > 0}

\* The rows addItemTimeStackInTx merges, used up or not.
Stacked(rs, i, t) == {id \in RowIds : rs[id].item = i /\ rs[id].expire > t}

\* What is left of the stacked rows, in seconds.
TimeLeft(rs, i, t) ==
    SumFunctionOnSet([id \in RowIds |-> (rs[id].expire - t) * Available(rs[id])],
                     StackedUsable(rs, i, t))

Merge(rs, i, expire, merged) ==
    LET selected == CHOOSE id \in Earliest(rs, merged) : TRUE IN
    [id \in RowIds |->
        IF id \notin merged THEN rs[id]
        ELSE IF id = selected THEN Row(i, 1, 0, expire)
        ELSE NoRow]

\* addItemTimeStackInTx that forgets the time that was left.
RestartTime(rs, i, n, expire, t) ==
    LET merged == Stacked(rs, i, t) IN
    IF n <= 0 \/ expire - t <= 0 THEN rs
    ELSE IF merged = {} THEN Insert(rs, Row(i, 1, 0, t + (expire - t) * n))
    ELSE Merge(rs, i, t + (expire - t) * n, merged)

AddItemTimeStack(rs, i, n, expire, t) ==
    LET total == (expire - t) * n + TimeLeft(rs, i, t)
        merged == Stacked(rs, i, t) IN
    IF n <= 0 THEN rs
    ELSE IF expire = 0 THEN AddItemUnlimited(rs, i, n, expire)
    ELSE IF expire - t <= 0 THEN rs
    ELSE IF merged = {} THEN Insert(rs, Row(i, 1, 0, t + total))
    ELSE Merge(rs, i, t + total, merged)

\* The expiry AddItems computes from the time it looked at.
ExpireAt(r, start) ==
    IF r.until > 0 THEN r.until ELSE IF r.seconds > 0 THEN start + r.seconds ELSE 0

AddReward(rs, r, start, t) ==
    IF r.item \in TimeItems
    THEN AddItemTimeStack(rs, r.item, r.count, ExpireAt(r, start), t)
    ELSE AddItemUnlimited(rs, r.item, r.count, ExpireAt(r, start))

-----------------------------------------------------------------------------
(* Revoking *)

\* The rows revokeItemInTx may still take from.
Revocable(rs, i, t) ==
    {id \in RowIds : rs[id].item = i /\ NotExpired(rs[id], t) /\ Available(rs[id]) > 0}

LesserOf(a, b) == IF a <= b THEN a ELSE b

AddUsed(row, n) == Row(row.item, row.count, row.used + n, row.expire)

\* revokeItemInTx that charges the whole rest to the row it is at.
DeductAll(row, left) == left

Deduction(row, left) == LesserOf(Available(row), left)

-----------------------------------------------------------------------------
(* The list of rewards a call works through *)

\* A call j is at reward j.next.
Rewards(j) == IF j.op = "revoke" THEN Taken[j.order] ELSE Given[j.order]

More(j) == j.next <= Len(Rewards(j))

Current(j) == Rewards(j)[j.next]

\* The loop of revokeItemInTx is over.
TakenEnough(j) ==
    j.left <= 0 \/ Revocable(j.rows, Current(j).item, j.start) = {}

-----------------------------------------------------------------------------
(* What the rows add up to *)

\* How often item i is in each reward of a list, and in all of them.
Counts(list, i) ==
    [n \in DOMAIN list |-> IF list[n].item = i /\ list[n].count > 0 THEN list[n].count ELSE 0]

CountIn(list, i) == SumFunction(Counts(list, i))

\* How many of item i the rows hold, and how many of those are used.
HeldOf(rs, i) == SumFunction([id \in RowIds |-> IF rs[id].item = i THEN rs[id].count ELSE 0])

UsedOf(rs, i) == SumFunction([id \in RowIds |-> IF rs[id].item = i THEN rs[id].used ELSE 0])

\* What a revocation at time t can take of item i.
LiveOf(rs, i, t) ==
    SumFunction([id \in RowIds |->
        IF id \in Revocable(rs, i, t) THEN Available(rs[id]) ELSE 0])

RunsOutBefore(r1, r2) == r1.expire # 0 /\ (r2.expire = 0 \/ r1.expire < r2.expire)

=============================================================================
