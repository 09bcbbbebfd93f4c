------------------------------- MODULE Items --------------------------------
(***************************************************************************)
(* The item rows of one player and the transactions of items/internal/     *)
(* store that change them.  A transaction works on its own copy of the     *)
(* rows; every statement is a step, except that the statements of one      *)
(* addItem...InTx are one step: nobody sees them before the commit.        *)
(*                                                                         *)
(* lockUID inserts the player's row of item_user_lock or, when it exists,  *)
(* updates it to itself: both lock the row until the transaction ends.  It *)
(* comes before the first read, which is where MySQL takes the snapshot.   *)
(***************************************************************************)
EXTENDS Bag

CONSTANTS
    Workers,     \* task goroutines, of any number of API nodes
    NoWorker,
    Catalogues,  \* the configurations: which item types have a known stack mode
    MaxTime      \* the clock stops here

ASSUME ItemsAssumption ==
    /\ NoWorker \notin Workers
    /\ Catalogues \subseteq SUBSET ItemTypes
    /\ MaxTime \in Nat

VARIABLES
    rows,      \* the item rows, as committed
    granted,   \* orders with a committed grant nonce
    revoked,   \* orders with a committed revoke nonce
    added,     \* AddItem calls that committed
    reply,     \* the task to which the last step returned nil, if any
    lock,      \* the transaction that holds the item_user_lock row
    job,       \* what each goroutine is doing
    known,     \* item types with a configuration and a stack mode we know
    now        \* time.Now().Unix()

vars == <<rows, granted, revoked, added, reply, lock, job, known, now>>

NoReply == <<"none", NoOrder>>

\* "next" is the number of the reward to handle, "left" what revokeItemInTx
\* still has to take, "start" the time AddItems or RevokeItems looked at.
Job ==
    [pc    : {"idle", "begin", "nonce", "reward", "take"},
     op    : {"none", "grant", "revoke", "add"},
     order : Orders \cup Adds \cup {NoOrder},
     next  : Nat,
     left  : Nat,
     start : Nat,
     rows  : [RowIds -> ItemRow]]

\* A goroutine between two calls.
NoJob ==
    [pc |-> "idle", op |-> "none", order |-> NoOrder,
     next |-> 0, left |-> 0, start |-> 0, rows |-> NoRows]

-----------------------------------------------------------------------------
(* Transactions *)

Init ==
    /\ rows = NoRows
    /\ granted = {} /\ revoked = {} /\ added = {} /\ reply = NoReply
    /\ lock = NoWorker
    /\ job = [w \in Workers |-> NoJob]
    /\ known \in Catalogues
    /\ now = 0

Silent == reply' = NoReply

Goto(w, j) == job' = [job EXCEPT ![w] = j]

\* A goroutine calls AddItems, RevokeItems or AddItem and opens a transaction.
Begin(w, op, o) ==
    /\ job[w].pc = "idle"
    /\ Goto(w, [NoJob EXCEPT !.pc = "begin", !.op = op, !.order = o,
                             !.start = IF op = "add" THEN now ELSE 0])
    /\ Silent
    /\ UNCHANGED <<rows, granted, revoked, added, lock, known, now>>

\* A member of Adds stands for one call, made again only if it failed.
NotCalled(o) == o \notin added /\ \A w \in Workers : job[w].order # o

\* lockUID that locks nothing.
NeverBlocked == TRUE

\* Nobody holds the player's row of item_user_lock.
Unlocked == lock = NoWorker

LockUID(w) ==
    /\ job[w].pc = "begin"
    /\ Unlocked
    /\ lock' = w
    /\ Goto(w, [job[w] EXCEPT !.pc = IF job[w].op = "add" THEN "reward" ELSE "nonce",
                               !.next = 1, !.rows = rows])
    /\ Silent
    /\ UNCHANGED <<rows, granted, revoked, added, known, now>>

\* The transaction ends and the goroutine is free again.
End(w) ==
    /\ lock' = IF lock = w THEN NoWorker ELSE lock
    /\ Goto(w, NoJob)

\* The deferred Rollback, with an error or because the nonce is there already.
Abort(w) == End(w) /\ UNCHANGED <<rows, granted, revoked, added, known, now>>

GiveUp(w) == Abort(w) /\ Silent

AlreadyDone(w) ==
    /\ Abort(w)
    /\ reply' = <<job[w].op, job[w].order>>

GoOn(w) ==
    /\ Goto(w, [job[w] EXCEPT !.pc = "reward", !.start = now])
    /\ Silent
    /\ UNCHANGED <<rows, granted, revoked, added, lock, known, now>>

\* AddItems inserts the nonce: the unique index refuses a second one.
GrantNonce(w) ==
    /\ job[w].pc = "nonce" /\ job[w].op = "grant"
    /\ IF job[w].order \in granted THEN AlreadyDone(w) ELSE GoOn(w)

\* RevokeItems without grantCompleted.
RevokeNonceOnly(w) ==
    /\ job[w].pc = "nonce" /\ job[w].op = "revoke"
    /\ IF job[w].order \in revoked THEN AlreadyDone(w) ELSE GoOn(w)

\* RevokeItems looks for the grant's nonce and inserts its own.
RevokeNonce(w) ==
    /\ job[w].pc = "nonce" /\ job[w].op = "revoke"
    /\ IF job[w].order \notin granted THEN GiveUp(w)
       ELSE IF job[w].order \in revoked THEN AlreadyDone(w)
       ELSE GoOn(w)

\* One round of the loop in AddItems, or the body of AddItem, which does not
\* look at the configuration.
GrantReward(w) ==
    /\ job[w].pc = "reward" /\ job[w].op # "revoke" /\ More(job[w])
    /\ Room(job[w].rows)
    /\ LET r == Current(job[w]) IN
       IF job[w].op = "grant" /\ r.item \notin known
       THEN GiveUp(w)
       ELSE /\ Goto(w, [job[w] EXCEPT !.next = @ + 1,
                                      !.rows = AddReward(@, r, job[w].start, now)])
            /\ Silent
            /\ UNCHANGED <<rows, granted, revoked, added, lock, known, now>>

\* The head of the loop in RevokeItems.
RevokeReward(w) ==
    /\ job[w].pc = "reward" /\ job[w].op = "revoke" /\ More(job[w])
    /\ LET r == Current(job[w]) IN
       IF r.item = NoItem THEN GiveUp(w)
       ELSE /\ Goto(w, IF r.count <= 0 THEN [job[w] EXCEPT !.next = @ + 1]
                       ELSE [job[w] EXCEPT !.pc = "take", !.left = r.count])
            /\ Silent
            /\ UNCHANGED <<rows, granted, revoked, added, lock, known, now>>

\* One round of the loop in revokeItemInTx, or its end.  The row it updates
\* is used up unless it was the last one, so that the first row still
\* revocable is the next one of the list it read.
TakeRow(w) ==
    /\ job[w].pc = "take"
    /\ LET j == job[w] IN
       \/ /\ TakenEnough(j)
          /\ Goto(w, [j EXCEPT !.pc = "reward", !.next = @ + 1, !.left = 0])
       \/ /\ ~TakenEnough(j)
          /\ \E id \in Earliest(j.rows, Revocable(j.rows, Current(j).item, j.start)) :
                LET n == Deduction(j.rows[id], j.left) IN
                Goto(w, [j EXCEPT !.left = @ - n, !.rows[id] = AddUsed(j.rows[id], n)])
    /\ Silent
    /\ UNCHANGED <<rows, granted, revoked, added, lock, known, now>>

\* tx.Commit: the rows and the nonce appear together.  The answer may be lost.
Commit(w) ==
    /\ job[w].pc = "reward" /\ ~More(job[w])
    /\ LET j == job[w] IN
       /\ rows' = j.rows
       /\ granted' = IF j.op = "grant" THEN granted \cup {j.order} ELSE granted
       /\ revoked' = IF j.op = "revoke" THEN revoked \cup {j.order} ELSE revoked
       /\ added' = IF j.op = "add" THEN added \cup {j.order} ELSE added
       /\ reply' \in {NoReply} \cup (IF j.op = "add" THEN {} ELSE {<<j.op, j.order>>})
    /\ End(w)
    /\ UNCHANGED <<known, now>>

\* Any statement fails, the context ends or the process dies: MySQL rolls back.
Fail(w) == job[w].pc # "idle" /\ GiveUp(w)

Tick ==
    /\ now < MaxTime
    /\ now' = now + 1
    /\ Silent
    /\ UNCHANGED <<rows, granted, revoked, added, lock, job, known>>

\* The item configuration is reloaded.
Reload ==
    /\ known' \in Catalogues
    /\ Silent
    /\ UNCHANGED <<rows, granted, revoked, added, lock, job, now>>

Statement(w) ==
    \/ LockUID(w) \/ GrantNonce(w) \/ RevokeNonce(w) \/ GrantReward(w)
    \/ RevokeReward(w) \/ TakeRow(w) \/ Commit(w)

Next ==
    \/ \E w \in Workers : Statement(w) \/ Fail(w)
    \/ \E w \in Workers, o \in Orders : Begin(w, "grant", o) \/ Begin(w, "revoke", o)
    \/ \E w \in Workers, o \in Adds : NotCalled(o) /\ Begin(w, "add", o)
    \/ Tick \/ Reload

Spec == Init /\ [][Next]_vars

=============================================================================
