-------------------------- MODULE ItemsProperties ---------------------------
(***************************************************************************)
(* What the transactions of the items store keep true of a player's bag.   *)
(***************************************************************************)
EXTENDS Items

TypeOK ==
    /\ rows \in [RowIds -> ItemRow]
    /\ granted \subseteq Orders /\ revoked \subseteq Orders /\ added \subseteq Adds
    /\ reply \in {NoReply} \cup ({"grant", "revoke"} \X Orders)
    /\ lock \in Workers \cup {NoWorker}
    /\ job \in [Workers -> Job]
    /\ known \subseteq ItemTypes
    /\ now \in Nat

-----------------------------------------------------------------------------
(* The ledger of a count-stacked item *)

\* For an item stacked by count the rows add up to exactly what the committed
\* grants and AddItem calls gave, and no more is used than the committed
\* revocations asked for: whatever is retried, repeated, run twice at once or
\* rolled back in the middle of a list, AddItems applies all of its rewards
\* once or none.
LedgerBalances ==
    \A i \in ItemTypes \ TimeItems :
        /\ HeldOf(rows, i)
             = SumFunction([o \in granted \cup added |-> CountIn(Given[o], i)])
        /\ UsedOf(rows, i)
             <= SumFunction([o \in revoked |-> CountIn(Taken[o], i)])

\* No row is used beyond its count, in the table or in an open transaction:
\* availablePredicate compares the two columns and nothing in MySQL does.
UsedWithinCount ==
    \A id \in RowIds :
        /\ rows[id].used <= rows[id].count
        /\ \A w \in Workers : job[w].rows[id].used <= job[w].rows[id].count

\* "item_type_id + expire_time 相同才会合并" (config/items/item.go): grants of a
\* count-stacked item with one expiry share a row.  The index is not unique,
\* so this rests on lockUID and on the query for an existing row.
OneRowPerExpiry ==
    \A id1, id2 \in RowIds :
        /\ rows[id1].item \in ItemTypes \ TimeItems
        /\ rows[id1].item = rows[id2].item /\ rows[id1].expire = rows[id2].expire
        => id1 = id2

\* "时间叠加模式最终只保留一条记录" (store.go): a time-stacked item has at most one
\* row that has not run out.
OneLiveTimeRow ==
    \A id1, id2 \in RowIds :
        /\ rows[id1].item \in TimeItems /\ rows[id1].item = rows[id2].item
        /\ rows[id1].expire > now /\ rows[id2].expire > now
        => id1 = id2

-----------------------------------------------------------------------------
(* What a step does to the bag *)

\* "同类型的道具 会叠加时长" (config/items/item.go): a reward of a time-stacked item
\* with an expiry that lies ahead lengthens the player's time by its duration
\* times its count; nothing that was left gets lost.
TimeIsAdded ==
    [][\A w \in Workers :
          (/\ job[w].pc = "reward" /\ job[w].op # "revoke" /\ More(job[w])
           /\ job'[w].next = job[w].next + 1)
          => LET r == Current(job[w])
                 unit == ExpireAt(r, job[w].start) - now IN
             r.item \in TimeItems /\ r.count > 0 /\ unit > 0 =>
                 TimeLeft(job'[w].rows, r.item, now)
                   = TimeLeft(job[w].rows, r.item, now) + unit * r.count]_vars

\* A committed revocation has taken what it asked for, or all there was, from
\* the rows that run out first: a row is touched only when no row that runs
\* out earlier has anything left.
RevokeTakes ==
    [][\A w \in Workers :
          (/\ job[w].pc = "reward" /\ job[w].op = "revoke"
           /\ job[w].order \in revoked' \ revoked) =>
             LET t == job[w].start IN
             /\ \A i \in ItemTypes :
                   LiveOf(rows, i, t) - LiveOf(rows', i, t)
                     = LesserOf(LiveOf(rows, i, t), CountIn(Taken[job[w].order], i))
             /\ \A id1, id2 \in RowIds :
                   (/\ rows'[id1].used > rows[id1].used
                    /\ rows[id2].item = rows[id1].item
                    /\ RunsOutBefore(rows[id2], rows[id1]))
                   => id2 \notin Revocable(rows', rows[id1].item, t)]_vars

Ledger == INSTANCE RewardLedger

\* Seen by the tasks of the payment service, the store is the RewardLedger:
\* rewards are given once, taken back once and only afterwards, and nil is
\* returned only when the effect is committed.
ImplementsLedger == Ledger!Spec

=============================================================================
