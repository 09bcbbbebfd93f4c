---------------------------- MODULE ItemsProofs -----------------------------
(***************************************************************************)
(* For any number of goroutines, orders, items, rows and rewards: no row   *)
(* is used beyond its count, rows of a count-stacked item do not share an  *)
(* expiry, a time-stacked item has one live row, the ledger balances, a    *)
(* revocation takes what it asked for from the rows that run out first,    *)
(* and the store implements the reward ledger.                             *)
(***************************************************************************)
EXTENDS ItemsProperties, BagLemmas

\* What goroutine w may rely on, with lock holder l and nonces g and r: the
\* nonces it has looked at are still as it found them, because it holds the
\* player's lock.
JobOK(w, j, l, g, r) ==
    /\ Shape(j)
    /\ RowsOK(j.rows) /\ j.start \in Nat
    /\ j.pc \in {"idle", "begin", "nonce", "reward", "take"}
    /\ j.pc # "idle" => \/ j.op \in {"grant", "revoke"} /\ j.order \in Orders
                        \/ j.op = "add" /\ j.order \in Adds
    /\ InTx(j) => l = w /\ j.next \in Nat \ {0}
    /\ j.pc = "nonce" => j.op # "add"
    /\ j.pc \in {"reward", "take"} /\ j.op = "grant" => j.order \notin g
    /\ j.pc \in {"reward", "take"} /\ j.op = "revoke" => j.order \in g /\ j.order \notin r
    /\ j.pc = "take" => j.op = "revoke" /\ More(j) /\ j.left \in Int

BagInv ==
    /\ RowsOK(rows) /\ now \in Nat
    /\ lock \in Workers \cup {NoWorker}
    /\ job = [w \in Workers |-> job[w]]
    /\ \A w \in Workers : JobOK(w, job[w], lock, granted, revoked)

\* An AddItem call is open at most once, and not after it committed.
AddsApart ==
    \A w \in Workers : job[w].op = "add" =>
        /\ job[w].order \in Adds \ added
        /\ \A u \in Workers \ {w} : job[u].order # job[w].order

\* The calls that have committed.
CallsOK ==
    /\ granted \subseteq Orders /\ revoked \subseteq Orders /\ added \subseteq Adds
    /\ IsFiniteSet(granted) /\ IsFiniteSet(revoked) /\ IsFiniteSet(added)

LedgerInv ==
    /\ CallsOK /\ AddsApart
    /\ LedgerBalances
    /\ OneLive(rows, now)
    /\ \A w \in Workers : InTx(job[w]) =>
          Balance(job[w], rows) /\ OneLive(job[w].rows, now)

-----------------------------------------------------------------------------
(* The steps *)

\* A goroutine that has returned owes nothing.
LEMMA IdleOK ==
    ASSUME NEW w, NEW l, NEW g, NEW r
    PROVE  JobOK(w, NoJob, l, g, r)
<1>1. Shape(NoJob) /\ NoJob.pc = "idle" /\ NoJob.rows = NoRows /\ NoJob.start = 0
  BY Zenon DEF Shape, NoJob
<1> QED
  BY <1>1, EmptyBag DEF JobOK, InTx

\* A step of one goroutine: the others keep what they rely on if those that
\* are in a transaction see neither the lock nor the nonces change.
LEMMA OneJob ==
    ASSUME BagInv, NEW w \in Workers, NEW j,
           job' = [job EXCEPT ![w] = j],
           JobOK(w, j, lock', granted', revoked'),
           RowsOK(rows'), lock' \in Workers \cup {NoWorker}, now' = now,
           \A u \in Workers \ {w} : InTx(job[u]) =>
               lock' = lock /\ granted' = granted /\ revoked' = revoked
    PROVE  BagInv'
<1>1. job' = [u \in Workers |-> IF u = w THEN j ELSE job[u]]
  BY Zenon DEF BagInv
<1>2. job' = [u \in Workers |-> job'[u]]
  BY <1>1, Zenon
<1>3. ASSUME NEW u \in Workers PROVE JobOK(u, job'[u], lock', granted', revoked')
  <2>1. CASE u = w
    BY <1>1, <2>1, Zenon
  <2>2. CASE u # w
    <3>1. job'[u] = job[u] /\ JobOK(u, job[u], lock, granted, revoked)
      BY <1>1, <2>2, Zenon DEF BagInv
    <3>2. CASE InTx(job[u])
      BY <2>2, <3>1, <3>2, Zenon
    <3>3. CASE ~InTx(job[u])
      BY <3>1, <3>3, Zenon DEF JobOK, InTx
    <3> QED
      BY <3>2, <3>3, Zenon
  <2> QED
    BY <2>1, <2>2, Zenon
<1> QED
  BY <1>2, <1>3, Zenon DEF BagInv

\* The transaction that holds the lock is the only one.
LEMMA Alone ==
    ASSUME BagInv, NEW w \in Workers, InTx(job[w]) \/ lock = NoWorker
    PROVE  \A u \in Workers \ {w} : ~InTx(job[u])
BY ItemsAssumption, BagAssumption, Zenon DEF BagInv, JobOK

\* Opening a transaction.
LEMMA BeginStep ==
    ASSUME BagInv, NEW w \in Workers, NEW op, NEW o, Begin(w, op, o),
           \/ op \in {"grant", "revoke"} /\ o \in Orders
           \/ op = "add" /\ o \in Adds
    PROVE  BagInv'
<1> DEFINE j == [NoJob EXCEPT !.pc = "begin", !.op = op, !.order = o,
                              !.start = IF op = "add" THEN now ELSE 0]
<1>1. /\ Shape(j) /\ j.pc = "begin" /\ j.op = op /\ j.order = o /\ j.rows = NoRows
      /\ j.start \in Nat
  BY Zenon DEF Shape, NoJob, BagInv
<1>2. job' = [job EXCEPT ![w] = j] /\ UNCHANGED <<rows, lock, granted, revoked, now>>
  BY Zenon DEF Begin, Goto
<1> HIDE DEF j
<1>3. JobOK(w, j, lock', granted', revoked')
  BY <1>1, EmptyBag, Zenon DEF JobOK, InTx
<1>4. RowsOK(rows') /\ lock' \in Workers \cup {NoWorker}
  BY <1>2, Zenon DEF BagInv
<1> QED
  BY <1>2, <1>3, <1>4, OneJob, Zenon

\* lockUID.
LEMMA LockStep ==
    ASSUME BagInv, NEW w \in Workers, LockUID(w)
    PROVE  BagInv'
<1> DEFINE j == [job[w] EXCEPT !.pc = IF job[w].op = "add" THEN "reward" ELSE "nonce",
                               !.next = 1, !.rows = rows]
<1>1. JobOK(w, job[w], lock, granted, revoked) /\ job[w].pc = "begin" /\ lock = NoWorker
  BY Zenon DEF BagInv, LockUID, Unlocked
<1>2. /\ Shape(j) /\ j.pc = (IF job[w].op = "add" THEN "reward" ELSE "nonce")
      /\ j.next = 1 /\ j.rows = rows /\ j.op = job[w].op /\ j.order = job[w].order
      /\ j.start = job[w].start
  BY <1>1, Zenon DEF JobOK, Shape
<1>3. /\ job' = [job EXCEPT ![w] = j] /\ lock' = w
      /\ UNCHANGED <<rows, granted, revoked, now>>
  BY Zenon DEF LockUID, Goto
<1> HIDE DEF j
<1>4. RowsOK(rows)
  BY Zenon DEF BagInv
<1>5. JobOK(w, j, lock', granted', revoked')
  BY <1>1, <1>2, <1>3, <1>4 DEF JobOK, InTx
<1>6. \A u \in Workers \ {w} : ~InTx(job[u])
  BY <1>1, Alone, Zenon
<1> QED
  BY <1>3, <1>4, <1>5, <1>6, OneJob

\* A transaction that ends without a commit.
LEMMA AbortStep ==
    ASSUME BagInv, NEW w \in Workers, Abort(w)
    PROVE  BagInv'
<1>1. /\ job' = [job EXCEPT ![w] = NoJob] /\ UNCHANGED <<rows, granted, revoked, now>>
      /\ lock' = IF lock = w THEN NoWorker ELSE lock
  BY Zenon DEF Abort, End, Goto
<1>2. RowsOK(rows') /\ lock' \in Workers \cup {NoWorker}
  BY <1>1, Zenon DEF BagInv
<1>3. \A u \in Workers \ {w} : InTx(job[u]) => lock' = lock
  BY <1>1, Zenon DEF BagInv, JobOK
<1>4. JobOK(w, NoJob, lock', granted', revoked')
  BY IdleOK, Zenon
<1> QED
  BY <1>1, <1>2, <1>3, <1>4, OneJob, Zenon

\* A goroutine in its transaction goes from one statement to the next.
LEMMA Onward ==
    ASSUME BagInv, NEW w \in Workers, InTx(job[w]), NEW j,
           job' = [job EXCEPT ![w] = j], UNCHANGED <<rows, lock, granted, revoked, now>>,
           Shape(j), RowsOK(j.rows), j.op = job[w].op, j.order = job[w].order, j.start \in Nat,
           j.next \in Nat \ {0}, j.pc \in {"reward", "take"},
           j.op = "grant" => j.order \notin granted,
           j.op = "revoke" => j.order \in granted /\ j.order \notin revoked,
           j.pc = "take" => j.op = "revoke" /\ More(j) /\ j.left \in Int
    PROVE  BagInv'
<1>1. JobOK(w, job[w], lock, granted, revoked)
  BY Zenon DEF BagInv
<1>2. JobOK(w, j, lock', granted', revoked')
  BY <1>1, Zenon DEF JobOK, InTx
<1>3. RowsOK(rows') /\ lock' \in Workers \cup {NoWorker}
  BY Zenon DEF BagInv
<1> QED
  BY <1>2, <1>3, OneJob, Zenon

\* The nonce is inserted, or found.
LEMMA NonceStep ==
    ASSUME BagInv, NEW w \in Workers, GrantNonce(w) \/ RevokeNonce(w)
    PROVE  BagInv'
<1>1. JobOK(w, job[w], lock, granted, revoked) /\ job[w].pc = "nonce"
  BY Zenon DEF BagInv, GrantNonce, RevokeNonce
<1>2. CASE Abort(w)
  BY <1>2, AbortStep, Zenon
<1>3. CASE GoOn(w) /\ \/ job[w].op = "grant" /\ job[w].order \notin granted
                      \/ /\ job[w].op = "revoke" /\ job[w].order \in granted
                         /\ job[w].order \notin revoked
  <2> DEFINE j == [job[w] EXCEPT !.pc = "reward", !.start = now]
  <2>1. /\ Shape(j) /\ j.pc = "reward" /\ j.op = job[w].op /\ j.order = job[w].order
        /\ j.next = job[w].next /\ j.rows = job[w].rows /\ j.start = now
    BY <1>1, Zenon DEF JobOK, Shape
  <2>2. job' = [job EXCEPT ![w] = j] /\ UNCHANGED <<rows, lock, granted, revoked, now>>
    BY <1>3, Zenon DEF GoOn, Goto
  <2> HIDE DEF j
  <2>3. InTx(job[w]) /\ RowsOK(j.rows) /\ j.next \in Nat \ {0} /\ j.start \in Nat
    BY <1>1, <2>1, Zenon DEF JobOK, InTx, BagInv
  <2> QED
    BY <1>3, <2>1, <2>2, <2>3, Onward, Zenon
<1> QED
  BY <1>2, <1>3, Zenon DEF GrantNonce, RevokeNonce, GiveUp, AlreadyDone

\* One reward is added to the working copy, or the transaction given up.
LEMMA GrantRewardStep ==
    ASSUME BagInv, NEW w \in Workers, GrantReward(w)
    PROVE  BagInv'
<1> DEFINE r == Current(job[w])
           j == [job[w] EXCEPT !.next = @ + 1, !.rows = AddReward(@, r, job[w].start, now)]
<1>1. /\ JobOK(w, job[w], lock, granted, revoked) /\ job[w].pc = "reward"
      /\ job[w].op # "revoke" /\ More(job[w])
  BY Zenon DEF BagInv, GrantReward
<1>2. CASE GiveUp(w)
  BY <1>2, AbortStep, Zenon DEF GiveUp
<1>3. CASE job' = [job EXCEPT ![w] = j] /\ UNCHANGED <<rows, lock, granted, revoked, now>>
  <2>1. /\ InTx(job[w]) /\ job[w].next \in Nat \ {0} /\ RowsOK(job[w].rows)
        /\ job[w].start \in Nat /\ now \in Nat
    BY <1>1, Zenon DEF JobOK, InTx, BagInv
  <2>2. r \in Reward
    BY <1>1, <2>1, CurrentReward, Zenon DEF JobOK, CallOK
  <2>3. RowsOK(AddReward(job[w].rows, r, job[w].start, now))
    BY <2>1, <2>2, RewardOK, Zenon
  <2>4. /\ Shape(j) /\ j.pc = "reward" /\ j.op = job[w].op /\ j.order = job[w].order
        /\ j.next = job[w].next + 1 /\ j.start = job[w].start
        /\ j.rows = AddReward(job[w].rows, r, job[w].start, now)
    BY <1>1, Zenon DEF JobOK, Shape
  <2>5. job' = [job EXCEPT ![w] = j] /\ UNCHANGED <<rows, lock, granted, revoked, now>>
    BY <1>3, Zenon
  <2> HIDE DEF j, r
  <2>6. /\ RowsOK(j.rows) /\ j.next \in Nat \ {0}
        /\ j.op = "grant" => j.order \notin granted
    BY <1>1, <2>1, <2>3, <2>4 DEF JobOK
  <2> QED
    BY <1>1, <2>1, <2>4, <2>5, <2>6, Onward
<1> QED
  BY <1>2, <1>3, Zenon DEF GrantReward, Goto

\* RevokeItems goes to the next reward, or gives up.
LEMMA RevokeRewardStep ==
    ASSUME BagInv, NEW w \in Workers, RevokeReward(w)
    PROVE  BagInv'
<1> DEFINE r == Current(job[w])
           skip == [job[w] EXCEPT !.next = @ + 1]
           take == [job[w] EXCEPT !.pc = "take", !.left = r.count]
<1>1. /\ JobOK(w, job[w], lock, granted, revoked) /\ job[w].pc = "reward"
      /\ job[w].op = "revoke" /\ More(job[w])
  BY Zenon DEF BagInv, RevokeReward
<1>2. /\ InTx(job[w]) /\ job[w].next \in Nat \ {0} /\ RowsOK(job[w].rows)
      /\ job[w].order \in granted /\ job[w].order \notin revoked /\ job[w].start \in Nat
  BY <1>1, Zenon DEF JobOK, InTx
<1>3. r.count \in Int
  BY <1>1, <1>2, CurrentReward, Zenon DEF JobOK, CallOK, Reward
<1>4. CASE GiveUp(w)
  BY <1>4, AbortStep, Zenon DEF GiveUp
<1>5. CASE job' = [job EXCEPT ![w] = skip] /\ UNCHANGED <<rows, lock, granted, revoked, now>>
  <2>1. /\ Shape(skip) /\ skip.pc = "reward" /\ skip.op = job[w].op
        /\ skip.order = job[w].order /\ skip.next = job[w].next + 1
        /\ skip.rows = job[w].rows /\ skip.start = job[w].start
    BY <1>1, Zenon DEF JobOK, Shape
  <2>2. job' = [job EXCEPT ![w] = skip] /\ UNCHANGED <<rows, lock, granted, revoked, now>>
    BY <1>5, Zenon
  <2> HIDE DEF skip
  <2>3. skip.next \in Nat \ {0}
    BY <1>2, <2>1
  <2> QED
    BY <1>1, <1>2, <2>1, <2>2, <2>3, Onward, Zenon
<1>6. CASE job' = [job EXCEPT ![w] = take] /\ UNCHANGED <<rows, lock, granted, revoked, now>>
  <2>1. /\ Shape(take) /\ take.pc = "take" /\ take.op = job[w].op
        /\ take.order = job[w].order /\ take.next = job[w].next
        /\ take.rows = job[w].rows /\ take.left = r.count /\ take.start = job[w].start
    BY <1>1, Zenon DEF JobOK, Shape
  <2> HIDE DEF take, r
  <2>2. More(take)
    BY <1>1, <2>1, Zenon DEF More, Rewards
  <2> QED
    BY <1>1, <1>2, <1>3, <1>6, <2>1, <2>2, Onward
<1> QED
  BY <1>4, <1>5, <1>6, Zenon DEF RevokeReward, Goto

\* A round of revokeItemInTx ends the loop or charges a row.
LEMMA TakeRowEffect ==
    ASSUME NEW w \in Workers, Shape(job[w]), TakeRow(w)
    PROVE  /\ job[w].pc = "take" /\ UNCHANGED <<rows, granted, revoked, added, lock, now>>
           /\ \E k : /\ job' = [job EXCEPT ![w] = k] /\ Shape(k)
                     /\ k.op = job[w].op /\ k.order = job[w].order /\ k.start = job[w].start
                     /\ \/ /\ TakenEnough(job[w])
                           /\ k.pc = "reward" /\ k.next = job[w].next + 1
                           /\ k.rows = job[w].rows
                        \/ /\ ~TakenEnough(job[w])
                           /\ k.pc = "take" /\ k.next = job[w].next
                           /\ \E x \in Earliest(job[w].rows,
                                   Revocable(job[w].rows, Current(job[w]).item, job[w].start)) :
                                 LET n == Deduction(job[w].rows[x], job[w].left) IN
                                 /\ k.left = job[w].left - n
                                 /\ k.rows = [job[w].rows EXCEPT ![x] =
                                                 AddUsed(job[w].rows[x], n)]
<1> DEFINE done == [job[w] EXCEPT !.pc = "reward", !.next = @ + 1, !.left = 0]
           more(x, n) == [job[w] EXCEPT !.left = @ - n, !.rows[x] = AddUsed(job[w].rows[x], n)]
           ids == Earliest(job[w].rows,
                           Revocable(job[w].rows, Current(job[w]).item, job[w].start))
<1>1. /\ job[w].pc = "take" /\ UNCHANGED <<rows, granted, revoked, added, lock, now>>
      /\ \/ TakenEnough(job[w]) /\ job' = [job EXCEPT ![w] = done]
         \/ /\ ~TakenEnough(job[w])
            /\ \E x \in ids : job' = [job EXCEPT ![w] =
                                         more(x, Deduction(job[w].rows[x], job[w].left))]
  BY Zenon DEF TakeRow, Goto
<1>2. /\ Shape(done) /\ done.op = job[w].op /\ done.order = job[w].order
      /\ done.start = job[w].start /\ done.pc = "reward" /\ done.next = job[w].next + 1
      /\ done.rows = job[w].rows
  BY Zenon DEF Shape
<1>3. ASSUME NEW x, NEW n
      PROVE  /\ Shape(more(x, n)) /\ more(x, n).op = job[w].op /\ more(x, n).order = job[w].order
             /\ more(x, n).start = job[w].start /\ more(x, n).pc = job[w].pc
             /\ more(x, n).next = job[w].next /\ more(x, n).left = job[w].left - n
             /\ more(x, n).rows = [job[w].rows EXCEPT ![x] = AddUsed(job[w].rows[x], n)]
  BY Zenon DEF Shape
<1> HIDE DEF done, more, ids
<1>4. CASE TakenEnough(job[w]) /\ job' = [job EXCEPT ![w] = done]
  BY <1>1, <1>2, <1>4, Zenon
<1>5. CASE ~TakenEnough(job[w])
  <2>1. PICK x \in ids : job' = [job EXCEPT ![w] =
                                    more(x, Deduction(job[w].rows[x], job[w].left))]
    BY <1>1, <1>5, Zenon
  <2> DEFINE n == Deduction(job[w].rows[x], job[w].left)
             k == more(x, n)
  <2>2. /\ Shape(k) /\ k.op = job[w].op /\ k.order = job[w].order
        /\ k.start = job[w].start /\ k.pc = "take"
        /\ k.next = job[w].next /\ k.left = job[w].left - n
        /\ k.rows = [job[w].rows EXCEPT ![x] = AddUsed(job[w].rows[x], n)]
    BY <1>1, <1>3
  <2>3. job' = [job EXCEPT ![w] = k]
    BY <2>1, Zenon
  <2> HIDE DEF k
  <2> QED
    BY <1>1, <1>5, <2>1, <2>2, <2>3, Zenon DEF ids
<1> QED
  BY <1>1, <1>4, <1>5, Zenon

\* One row is charged, or the loop of revokeItemInTx ends.
LEMMA TakeRowStep ==
    ASSUME BagInv, NEW w \in Workers, TakeRow(w)
    PROVE  BagInv'
<1> DEFINE j == job[w]
<1>1. JobOK(w, j, lock, granted, revoked) /\ Shape(j)
  BY Zenon DEF BagInv, JobOK
<1>2. j.pc = "take" /\ UNCHANGED <<rows, lock, granted, revoked, now>>
  BY <1>1, TakeRowEffect, Zenon
<1>3. PICK k : /\ job' = [job EXCEPT ![w] = k] /\ Shape(k)
               /\ k.op = j.op /\ k.order = j.order /\ k.start = j.start
               /\ \/ /\ TakenEnough(j)
                     /\ k.pc = "reward" /\ k.next = j.next + 1
                     /\ k.rows = j.rows
                  \/ /\ ~TakenEnough(j)
                     /\ k.pc = "take" /\ k.next = j.next
                     /\ \E x \in Earliest(j.rows, Revocable(j.rows, Current(j).item, j.start)) :
                           LET n == Deduction(j.rows[x], j.left) IN
                           /\ k.left = j.left - n
                           /\ k.rows = [j.rows EXCEPT ![x] = AddUsed(j.rows[x], n)]
  BY <1>1, TakeRowEffect, Zenon
<1> HIDE DEF j
<1>4. /\ InTx(j) /\ j.next \in Nat \ {0} /\ RowsOK(j.rows)
      /\ j.op = "revoke" /\ j.order \in granted /\ j.order \notin revoked
      /\ More(j) /\ j.left \in Int /\ j.start \in Nat
  BY <1>1, <1>2, Zenon DEF JobOK, InTx
<1>5. CASE TakenEnough(j)
  <2>1. k.pc = "reward" /\ k.next \in Nat \ {0} /\ RowsOK(k.rows)
    BY <1>3, <1>4, <1>5
  <2> QED
    BY <1>2, <1>3, <1>4, <2>1, Onward, Zenon DEF j
<1>6. CASE ~TakenEnough(j)
  <2>1. k.pc = "take" /\ k.next = j.next
    BY <1>3, <1>6, Zenon
  <2>2. PICK x \in Earliest(j.rows, Revocable(j.rows, Current(j).item, j.start)) :
                 /\ k.left = j.left - Deduction(j.rows[x], j.left)
                 /\ k.rows = [j.rows EXCEPT ![x] =
                                 AddUsed(j.rows[x], Deduction(j.rows[x], j.left))]
    BY <1>3, <1>6, Zenon
  <2>3. j.left > 0 /\ x \in RowIds /\ Available(j.rows[x]) > 0
    BY <1>4, <1>6, <2>2 DEF TakenEnough, Earliest, Revocable
  <2>4. RowsOK(k.rows) /\ k.left \in Int
    BY <1>4, <2>2, <2>3, TakeOK
  <2>5. More(k)
    BY <1>3, <1>4, <2>1, Zenon DEF More, Rewards
  <2> QED
    BY <1>2, <1>3, <1>4, <2>1, <2>4, <2>5, Onward DEF j
<1> QED
  BY <1>5, <1>6, Zenon

\* The commit.
LEMMA CommitStep ==
    ASSUME BagInv, NEW w \in Workers, Commit(w)
    PROVE  BagInv'
<1>1. JobOK(w, job[w], lock, granted, revoked) /\ InTx(job[w])
  BY Zenon DEF BagInv, Commit, InTx
<1>2. /\ job' = [job EXCEPT ![w] = NoJob] /\ rows' = job[w].rows /\ now' = now
      /\ lock' = IF lock = w THEN NoWorker ELSE lock
  BY Zenon DEF Commit, End, Goto
<1>3. RowsOK(rows') /\ lock' \in Workers \cup {NoWorker}
  BY <1>1, <1>2, Zenon DEF BagInv, JobOK
<1>4. \A u \in Workers \ {w} : ~InTx(job[u])
  BY <1>1, Alone, Zenon
<1>5. JobOK(w, NoJob, lock', granted', revoked')
  BY IdleOK, Zenon
<1> QED
  BY <1>2, <1>3, <1>4, <1>5, OneJob, Zenon

-----------------------------------------------------------------------------
(* The theorems *)

\* The empty bag is sound.
LEMMA InitBag == Init => BagInv
<1> SUFFICES ASSUME Init PROVE BagInv
  BY Zenon
<1>1. rows = NoRows /\ lock = NoWorker /\ job = [w \in Workers |-> NoJob] /\ now = 0
  BY Zenon DEF Init
<1>2. \A w \in Workers : JobOK(w, job[w], lock, granted, revoked)
  BY <1>1, IdleOK, Zenon
<1> QED
  BY <1>1, <1>2, EmptyBag, Zenon DEF BagInv

\* Every statement, failure, tick and reload keeps the bag sound.
LEMMA NextBag == BagInv /\ [Next]_vars => BagInv'
<1> SUFFICES ASSUME BagInv, [Next]_vars PROVE BagInv'
  BY Zenon
<1>1. ASSUME NEW w \in Workers, Statement(w) PROVE BagInv'
  BY <1>1, LockStep, NonceStep, GrantRewardStep, RevokeRewardStep, TakeRowStep, CommitStep, Zenon
     DEF Statement
<1>2. ASSUME NEW w \in Workers, Fail(w) PROVE BagInv'
  BY <1>2, AbortStep, Zenon DEF Fail, GiveUp
<1>3. ASSUME NEW w \in Workers, NEW o \in Orders, Begin(w, "grant", o) \/ Begin(w, "revoke", o)
      PROVE  BagInv'
  <2>1. CASE Begin(w, "grant", o)
    BY <2>1, BeginStep, Zenon
  <2>2. CASE Begin(w, "revoke", o)
    BY <2>2, BeginStep, Zenon
  <2> QED
    BY <1>3, <2>1, <2>2, Zenon
<1>4. ASSUME NEW w \in Workers, NEW o \in Adds, Begin(w, "add", o) PROVE BagInv'
  BY <1>4, BeginStep, Zenon
<1>5. CASE Tick \/ Reload \/ UNCHANGED vars
  <2>1. UNCHANGED <<rows, granted, revoked, lock, job>> /\ now' \in {now, now + 1}
    BY <1>5, Zenon DEF Tick, Reload, vars
  <2> QED
    BY <2>1 DEF BagInv
<1> QED
  BY <1>1, <1>2, <1>3, <1>4, <1>5 DEF Next

\* What the goroutines rely on holds in every reachable state.
THEOREM BagInductive == Spec => []BagInv
BY InitBag, NextBag, PTL DEF Spec

\* No row is used beyond its count, for any rewards and any number of
\* goroutines.
THEOREM UsedWithinCountHolds == Spec => []UsedWithinCount
<1>1. BagInv => UsedWithinCount
  BY Zenon DEF BagInv, JobOK, RowsOK, RowSound, UsedWithinCount
<1> QED
  BY <1>1, BagInductive, PTL

\* Grants of a count-stacked item with one expiry share one row.
THEOREM OneRowPerExpiryHolds == Spec => []OneRowPerExpiry
<1>1. BagInv => OneRowPerExpiry
  BY Zenon DEF BagInv, RowsOK, Distinct, OneRowPerExpiry
<1> QED
  BY <1>1, BagInductive, PTL

\* The commit of a transaction is a grant or a revocation of the ledger.
LEMMA CommitIsLedger ==
    ASSUME BagInv, NEW w \in Workers, Commit(w)
    PROVE  [Ledger!Next]_(<<granted, revoked, reply>>)
<1>1. JobOK(w, job[w], lock, granted, revoked) /\ job[w].pc = "reward"
  BY Zenon DEF BagInv, Commit
<1>2. CASE job[w].op = "grant"
  <2>1. Ledger!Grant(job[w].order) /\ job[w].order \in Orders
    BY <1>1, <1>2, Zenon DEF JobOK, Commit, Ledger!Grant, Ledger!Answer
  <2> QED
    BY <2>1, Zenon DEF Ledger!Next
<1>3. CASE job[w].op = "revoke"
  <2>1. Ledger!Revoke(job[w].order) /\ job[w].order \in Orders
    BY <1>1, <1>3, Zenon DEF JobOK, Commit, Ledger!Revoke, Ledger!Answer
  <2> QED
    BY <2>1, Zenon DEF Ledger!Next
<1>4. CASE job[w].op = "add"
  <2>1. Ledger!Work
    BY <1>4, Zenon DEF Commit, Ledger!Work
  <2> QED
    BY <2>1, Zenon DEF Ledger!Next
<1> QED
  BY <1>1, <1>2, <1>3, <1>4, Zenon DEF JobOK

\* A nonce that is found is an operation of the ledger that is repeated.
LEMMA NonceIsLedger ==
    ASSUME BagInv, NEW w \in Workers, GrantNonce(w) \/ RevokeNonce(w)
    PROVE  [Ledger!Next]_(<<granted, revoked, reply>>)
<1>1. JobOK(w, job[w], lock, granted, revoked) /\ job[w].pc = "nonce"
  BY Zenon DEF BagInv, GrantNonce, RevokeNonce
<1>2. CASE GiveUp(w) \/ GoOn(w)
  <2>1. Ledger!Work
    BY <1>2, Zenon DEF GiveUp, Abort, GoOn, Silent, Ledger!Work
  <2> QED
    BY <2>1, Zenon DEF Ledger!Next
<1>3. CASE AlreadyDone(w) /\ \/ job[w].op = "grant" /\ job[w].order \in granted
                             \/ job[w].op = "revoke" /\ job[w].order \in revoked
  <2>1. Ledger!Repeat(job[w].order) /\ job[w].order \in Orders
    BY <1>1, <1>3, Zenon DEF JobOK, AlreadyDone, Abort, Ledger!Repeat
  <2> QED
    BY <2>1, Zenon DEF Ledger!Next
<1> QED
  BY <1>2, <1>3, Zenon DEF GrantNonce, RevokeNonce

\* Seen by the payment tasks the store is the reward ledger: rewards are given
\* once, taken back once and only afterwards, and success is reported only
\* when it is committed.
THEOREM ImplementsLedgerHolds == Spec => ImplementsLedger
<1>1. Init => Ledger!Init
  BY Zenon DEF Init, Ledger!Init
<1>2. BagInv /\ [Next]_vars => [Ledger!Next]_(<<granted, revoked, reply>>)
  <2> SUFFICES ASSUME BagInv, [Next]_vars
               PROVE  [Ledger!Next]_(<<granted, revoked, reply>>)
    BY Zenon
  <2>1. CASE \/ \E w \in Workers : \/ LockUID(w) \/ GrantReward(w) \/ RevokeReward(w)
                                   \/ TakeRow(w) \/ Fail(w)
             \/ \E w \in Workers, o \in Orders : Begin(w, "grant", o) \/ Begin(w, "revoke", o)
             \/ \E w \in Workers, o \in Adds : Begin(w, "add", o)
             \/ Tick \/ Reload
    <3>1. Ledger!Work
      BY <2>1, Zenon DEF LockUID, GrantReward, RevokeReward, TakeRow, Fail, GiveUp, Abort, Begin,
                  Tick, Reload, Silent, Ledger!Work
    <3> QED
      BY <3>1, Zenon DEF Ledger!Next
  <2>2. CASE \E w \in Workers : Commit(w)
    BY <2>2, CommitIsLedger, Zenon
  <2>3. CASE \E w \in Workers : GrantNonce(w) \/ RevokeNonce(w)
    BY <2>3, NonceIsLedger, Zenon
  <2>4. CASE UNCHANGED vars
    BY <2>4, Zenon DEF vars
  <2> QED
    BY <2>1, <2>2, <2>3, <2>4, Zenon DEF Next, Statement
<1> QED
  BY <1>1, <1>2, BagInductive, PTL DEF Spec, ImplementsLedger, Ledger!Spec

-----------------------------------------------------------------------------
(* The steps and the ledger *)

\* A step of one goroutine that commits nothing.
LEMMA LedgerOne ==
    ASSUME BagInv, LedgerInv, NEW w \in Workers, NEW j,
           job' = [job EXCEPT ![w] = j], UNCHANGED <<rows, granted, revoked, added, now>>,
           InTx(j) => Balance(j, rows) /\ OneLive(j.rows, now),
           j.op = "add" => /\ j.order \in Adds \ added
                           /\ \A u \in Workers \ {w} : job[u].order # j.order,
           \A u \in Workers \ {w} : job[u].op = "add" => job[u].order # j.order
    PROVE  LedgerInv'
<1>1. job'[w] = j /\ \A u \in Workers \ {w} : job'[u] = job[u]
  BY Zenon DEF BagInv
<1>2. CallsOK' /\ LedgerBalances'
  BY Zenon DEF LedgerInv, CallsOK, LedgerBalances
<1>3. AddsApart'
  BY <1>1 DEF LedgerInv, AddsApart
<1>4. OneLive(rows', now')
  BY Zenon DEF LedgerInv
<1>5. ASSUME NEW u \in Workers, InTx(job'[u])
      PROVE  Balance(job'[u], rows') /\ OneLive(job'[u].rows, now')
  <2>1. CASE u = w
    BY <1>1, <1>5, <2>1, Zenon
  <2>2. CASE u # w
    BY <1>1, <1>5, <2>2, Zenon DEF LedgerInv
  <2> QED
    BY <2>1, <2>2, Zenon
<1> QED
  BY <1>2, <1>3, <1>4, <1>5, Zenon DEF LedgerInv

\* The same for a goroutine that goes on with its call.
LEMMA LedgerOnward ==
    ASSUME BagInv, LedgerInv, NEW w \in Workers, NEW j,
           job' = [job EXCEPT ![w] = j], UNCHANGED <<rows, granted, revoked, added, now>>,
           j.op = job[w].op, j.order = job[w].order,
           Balance(j, rows), OneLive(j.rows, now)
    PROVE  LedgerInv'
<1>1. AddsApart
  BY Zenon DEF LedgerInv
<1>2. /\ j.op = "add" => /\ j.order \in Adds \ added
                         /\ \A u \in Workers \ {w} : job[u].order # j.order
      /\ \A u \in Workers \ {w} : job[u].op = "add" => job[u].order # j.order
  BY <1>1, Zenon DEF AddsApart
<1> QED
  BY <1>2, LedgerOne

\* Calls and rollbacks.
LEMMA LedgerIdle ==
    ASSUME BagInv, LedgerInv, NEW w \in Workers,
           \/ \E o \in Orders : Begin(w, "grant", o) \/ Begin(w, "revoke", o)
           \/ \E o \in Adds : NotCalled(o) /\ Begin(w, "add", o)
           \/ Abort(w)
    PROVE  LedgerInv'
<1>1. AddsApart
  BY Zenon DEF LedgerInv
<1>2. ASSUME NEW op, NEW o, Begin(w, op, o),
             \/ op \in {"grant", "revoke"} /\ o \in Orders
             \/ op = "add" /\ o \in Adds /\ NotCalled(o)
      PROVE  LedgerInv'
  <2> DEFINE j == [NoJob EXCEPT !.pc = "begin", !.op = op, !.order = o,
                                !.start = IF op = "add" THEN now ELSE 0]
  <2>1. j.pc = "begin" /\ j.op = op /\ j.order = o
    BY Zenon DEF NoJob
  <2>2. job' = [job EXCEPT ![w] = j] /\ UNCHANGED <<rows, granted, revoked, added, now>>
    BY <1>2, Zenon DEF Begin, Goto
  <2> HIDE DEF j
  <2>3. ~InTx(j)
    BY <2>1, Zenon DEF InTx
  <2>4. /\ j.op = "add" => /\ j.order \in Adds \ added
                           /\ \A u \in Workers \ {w} : job[u].order # j.order
        /\ \A u \in Workers \ {w} : job[u].op = "add" => job[u].order # j.order
    BY <1>1, <1>2, <2>1, ItemsAssumption, BagAssumption DEF AddsApart, NotCalled
  <2> QED
    BY <2>2, <2>3, <2>4, LedgerOne, Zenon
<1>3. CASE Abort(w)
  <2>1. job' = [job EXCEPT ![w] = NoJob] /\ UNCHANGED <<rows, granted, revoked, added, now>>
    BY <1>3, Zenon DEF Abort, End, Goto
  <2>2. ~InTx(NoJob) /\ NoJob.op = "none" /\ NoJob.order = NoOrder
    BY Zenon DEF NoJob, InTx
  <2>3. /\ NoJob.op # "add"
        /\ \A u \in Workers \ {w} : job[u].op = "add" => job[u].order # NoJob.order
    BY <1>1, <2>2, ItemsAssumption, BagAssumption DEF AddsApart
  <2> QED
    BY <2>1, <2>2, <2>3, LedgerOne, Zenon
<1>4. ASSUME NEW o \in Orders, Begin(w, "grant", o) \/ Begin(w, "revoke", o) PROVE LedgerInv'
  BY <1>2, <1>4, Zenon
<1>5. ASSUME NEW o \in Adds, NotCalled(o) /\ Begin(w, "add", o) PROVE LedgerInv'
  BY <1>2, <1>5, Zenon
<1> QED
  BY <1>3, <1>4, <1>5, Zenon

\* lockUID and the nonce: the working copy is what is committed.
LEMMA LedgerFresh ==
    ASSUME BagInv, LedgerInv, NEW w \in Workers,
           LockUID(w) \/ GrantNonce(w) \/ RevokeNonce(w)
    PROVE  LedgerInv'
<1>1. JobOK(w, job[w], lock, granted, revoked) /\ RowsOK(rows) /\ OneLive(rows, now)
  BY Zenon DEF BagInv, LedgerInv
<1>2. CASE LockUID(w)
  <2> DEFINE j == [job[w] EXCEPT !.pc = IF job[w].op = "add" THEN "reward" ELSE "nonce",
                                 !.next = 1, !.rows = rows]
  <2>1. job[w].pc = "begin" /\ CallOK(job[w])
    BY <1>1, <1>2, Zenon DEF LockUID, JobOK, CallOK
  <2>2. /\ j.pc # "take" /\ j.next = 1 /\ j.rows = rows
        /\ j.op = job[w].op /\ j.order = job[w].order
    BY <1>1, Zenon DEF JobOK, Shape
  <2>3. job' = [job EXCEPT ![w] = j] /\ UNCHANGED <<rows, granted, revoked, added, now>>
    BY <1>2, Zenon DEF LockUID, Goto
  <2> HIDE DEF j
  <2>4. Balance(j, rows)
    BY <1>1, <2>1, <2>2, FreshBalance, Zenon DEF CallOK
  <2>5. OneLive(j.rows, now)
    BY <1>1, <2>2, Zenon
  <2> QED
    BY <2>2, <2>3, <2>4, <2>5, LedgerOnward
<1>3. CASE Abort(w)
  BY <1>3, LedgerIdle, Zenon
<1>4. CASE GoOn(w) /\ job[w].pc = "nonce"
  <2> DEFINE j == [job[w] EXCEPT !.pc = "reward", !.start = now]
  <2>1. /\ j.pc = "reward" /\ j.next = job[w].next /\ j.rows = job[w].rows
        /\ j.op = job[w].op /\ j.order = job[w].order
    BY <1>1, Zenon DEF JobOK, Shape
  <2>2. job' = [job EXCEPT ![w] = j] /\ UNCHANGED <<rows, granted, revoked, added, now>>
    BY <1>4, Zenon DEF GoOn, Goto
  <2> HIDE DEF j
  <2>3. job[w].rows = rows /\ job[w].next = 1 /\ CallOK(job[w])
    BY <1>1, <1>4, Zenon DEF LedgerInv, InTx, Balance, JobOK, CallOK
  <2>4. Balance(j, rows)
    BY <1>1, <2>1, <2>3, FreshBalance DEF CallOK
  <2>5. OneLive(j.rows, now)
    BY <1>1, <2>1, <2>3, Zenon
  <2> QED
    BY <2>1, <2>2, <2>4, <2>5, LedgerOnward, Zenon
<1> QED
  BY <1>2, <1>3, <1>4, Zenon DEF GrantNonce, RevokeNonce, GiveUp, AlreadyDone

\* What a goroutine in the middle of its rewards may rely on.
LEMMA MidCall ==
    ASSUME BagInv, LedgerInv, NEW w \in Workers, job[w].pc \in {"reward", "take"}
    PROVE  /\ JobOK(w, job[w], lock, granted, revoked) /\ CallOK(job[w]) /\ InTx(job[w])
           /\ job[w].next \in Nat \ {0} /\ RowsOK(job[w].rows) /\ RowsOK(rows)
           /\ job[w].start \in Nat /\ now \in Nat
           /\ Balance(job[w], rows) /\ OneLive(job[w].rows, now)
           /\ More(job[w]) => Midway(job[w], rows)
<1>1. JobOK(w, job[w], lock, granted, revoked) /\ InTx(job[w]) /\ RowsOK(rows) /\ now \in Nat
  BY Zenon DEF BagInv, InTx
<1>2. Balance(job[w], rows) /\ OneLive(job[w].rows, now)
  BY <1>1, Zenon DEF LedgerInv
<1> QED
  BY <1>1, <1>2, Zenon DEF JobOK, CallOK, Midway

\* A reward is added.
LEMMA LedgerGrantReward ==
    ASSUME BagInv, LedgerInv, NEW w \in Workers, GrantReward(w)
    PROVE  LedgerInv'
<1> DEFINE r == Current(job[w])
           j == [job[w] EXCEPT !.next = @ + 1, !.rows = AddReward(@, r, job[w].start, now)]
<1>1. /\ job[w].pc = "reward" /\ job[w].op # "revoke" /\ More(job[w]) /\ Room(job[w].rows)
  BY Zenon DEF GrantReward
<1>2. /\ JobOK(w, job[w], lock, granted, revoked) /\ CallOK(job[w])
      /\ job[w].next \in Nat \ {0} /\ RowsOK(job[w].rows) /\ RowsOK(rows)
      /\ job[w].start \in Nat /\ now \in Nat
      /\ Midway(job[w], rows) /\ OneLive(job[w].rows, now)
  BY <1>1, MidCall, Zenon
<1>3. CASE GiveUp(w)
  BY <1>3, LedgerIdle, Zenon DEF GiveUp
<1>4. CASE job' = [job EXCEPT ![w] = j] /\ UNCHANGED <<rows, granted, revoked, added, now>>
  <2>1. Passed(j, job[w]) /\ j.rows = AddReward(job[w].rows, r, job[w].start, now)
    BY <1>1, <1>2, Zenon DEF JobOK, Shape, Passed
  <2>2. job' = [job EXCEPT ![w] = j] /\ UNCHANGED <<rows, granted, revoked, added, now>>
    BY <1>4, Zenon
  <2>3. r \in Reward
    BY <1>1, <1>2, CurrentReward, Zenon
  <2> HIDE DEF j
  <2>4. Balance(j, rows)
    BY <1>1, <1>2, <2>1, GrantOn, Zenon
  <2>5. OneLive(j.rows, now)
    BY <1>1, <1>2, <2>1, <2>3, RewardOneLive
  <2> QED
    BY <2>1, <2>2, <2>4, <2>5, LedgerOnward DEF Passed
<1> QED
  BY <1>3, <1>4, Zenon DEF GrantReward, Goto

\* The head of the loop of RevokeItems.
LEMMA LedgerRevokeReward ==
    ASSUME BagInv, LedgerInv, NEW w \in Workers, RevokeReward(w)
    PROVE  LedgerInv'
<1> DEFINE r == Current(job[w])
           skip == [job[w] EXCEPT !.next = @ + 1]
           take == [job[w] EXCEPT !.pc = "take", !.left = r.count]
<1>1. /\ job[w].pc = "reward" /\ job[w].op = "revoke" /\ More(job[w])
  BY Zenon DEF RevokeReward
<1>2. /\ JobOK(w, job[w], lock, granted, revoked) /\ CallOK(job[w])
      /\ job[w].next \in Nat \ {0}
      /\ Midway(job[w], rows) /\ OneLive(job[w].rows, now)
  BY <1>1, MidCall, Zenon
<1>3. r.count \in Int
  BY <1>1, <1>2, CurrentReward DEF Reward
<1>4. CASE GiveUp(w)
  BY <1>4, LedgerIdle, Zenon DEF GiveUp
<1>5. CASE /\ r.count <= 0 /\ job' = [job EXCEPT ![w] = skip]
           /\ UNCHANGED <<rows, granted, revoked, added, now>>
  <2>1. Passed(skip, job[w]) /\ skip.rows = job[w].rows /\ RewardDone(job[w])
    BY <1>1, <1>2, <1>5, Zenon DEF JobOK, Shape, Passed, RewardDone
  <2>2. job' = [job EXCEPT ![w] = skip] /\ UNCHANGED <<rows, granted, revoked, added, now>>
    BY <1>5, Zenon
  <2> HIDE DEF skip
  <2>3. Balance(skip, rows)
    BY <1>1, <1>2, <2>1, RevokeOn, Zenon
  <2>4. OneLive(skip.rows, now)
    BY <1>2, <2>1, Zenon
  <2> QED
    BY <2>1, <2>2, <2>3, <2>4, LedgerOnward DEF Passed
<1>6. CASE /\ r.item # NoItem /\ ~(r.count <= 0) /\ job' = [job EXCEPT ![w] = take]
           /\ UNCHANGED <<rows, granted, revoked, added, now>>
  <2>1. Within(take, job[w]) /\ take.rows = job[w].rows /\ take.left = r.count
    BY <1>1, <1>2, Zenon DEF JobOK, Shape, Within
  <2>2. job' = [job EXCEPT ![w] = take] /\ UNCHANGED <<rows, granted, revoked, added, now>>
    BY <1>6, Zenon
  <2>3. r.count > 0
    BY <1>3, <1>6
  <2> HIDE DEF take
  <2>4. Balance(take, rows)
    BY <1>1, <1>2, <1>6, <2>1, <2>3, RevokeBegins
  <2>5. OneLive(take.rows, now)
    BY <1>2, <2>1, Zenon
  <2> QED
    BY <2>1, <2>2, <2>4, <2>5, LedgerOnward, Zenon DEF Within
<1> QED
  BY <1>4, <1>5, <1>6, Zenon DEF RevokeReward, Goto

\* One round of revokeItemInTx.
LEMMA LedgerTakeRow ==
    ASSUME BagInv, LedgerInv, NEW w \in Workers, TakeRow(w)
    PROVE  LedgerInv'
<1> DEFINE j == job[w]
<1>1. j.pc = "take"
  BY Zenon DEF TakeRow
<1>2. /\ JobOK(w, j, lock, granted, revoked) /\ RowsOK(j.rows)
      /\ More(j) => Midway(j, rows)
      /\ OneLive(j.rows, now)
  BY <1>1, MidCall, Zenon
<1>3. j.op = "revoke" /\ Midway(j, rows) /\ j.left \in Int /\ Shape(j)
  BY <1>1, <1>2, Zenon DEF JobOK
<1>4. UNCHANGED <<rows, granted, revoked, added, now>>
  BY <1>3, TakeRowEffect, Zenon
<1>5. PICK k : /\ job' = [job EXCEPT ![w] = k]
               /\ k.op = j.op /\ k.order = j.order /\ k.start = j.start
               /\ \/ /\ TakenEnough(j)
                     /\ k.pc = "reward" /\ k.next = j.next + 1
                     /\ k.rows = j.rows
                  \/ /\ ~TakenEnough(j)
                     /\ k.pc = "take" /\ k.next = j.next
                     /\ \E x \in Earliest(j.rows, Revocable(j.rows, Current(j).item, j.start)) :
                           LET n == Deduction(j.rows[x], j.left) IN
                           /\ k.left = j.left - n
                           /\ k.rows = [j.rows EXCEPT ![x] = AddUsed(j.rows[x], n)]
  BY <1>3, TakeRowEffect, Zenon
<1> HIDE DEF j
<1>6. CASE TakenEnough(j)
  <2>1. Passed(k, j) /\ k.rows = j.rows
    BY <1>5, <1>6, Zenon DEF Passed
  <2>2. RewardDone(j)
    BY <1>1, <1>3, <1>6, Zenon DEF RewardDone
  <2>3. Balance(k, rows)
    BY <1>3, <2>1, <2>2, RevokeOn
  <2> QED
    BY <1>2, <1>4, <1>5, <2>1, <2>3, LedgerOnward, Zenon DEF j, Passed
<1>7. CASE ~TakenEnough(j)
  <2>1. j.left > 0
    BY <1>3, <1>7 DEF TakenEnough
  <2>2. Within(k, j)
    BY <1>5, <1>7, Zenon DEF Within
  <2>3. PICK x \in Earliest(j.rows, Revocable(j.rows, Current(j).item, j.start)) :
                 /\ k.left = j.left - Deduction(j.rows[x], j.left)
                 /\ k.rows = [j.rows EXCEPT ![x] =
                                 AddUsed(j.rows[x], Deduction(j.rows[x], j.left))]
    BY <1>5, <1>7, Zenon
  <2>4. Balance(k, rows)
    <3>1. Takes(k, j, x, Deduction(j.rows[x], j.left))
      BY <1>1, <1>3, <2>1, <2>2, <2>3 DEF Takes
    <3> QED
      BY <1>3, <3>1, RevokeTakesRow, Zenon
  <2>5. OneLive(k.rows, now)
    <3> DEFINE row == AddUsed(j.rows[x], Deduction(j.rows[x], j.left))
    <3>1. row.item = j.rows[x].item /\ row.expire = j.rows[x].expire
      BY RowFields DEF AddUsed
    <3>2. k.rows = [j.rows EXCEPT ![x] = row] /\ j.rows = [id \in RowIds |-> j.rows[id]]
      BY <1>2, <2>3, Zenon DEF RowsOK
    <3> HIDE DEF row
    <3>3. \A id \in RowIds : /\ k.rows[id].item = j.rows[id].item
                             /\ k.rows[id].expire = j.rows[id].expire
      BY <3>1, <3>2, Zenon
    <3> QED
      BY <1>2, <3>3, Zenon DEF OneLive
  <2> QED
    BY <1>4, <1>5, <2>2, <2>4, <2>5, LedgerOnward DEF j, Within
<1> QED
  BY <1>6, <1>7, Zenon

\* The commit adds the list to the ledger.
LEMMA CommitBalances ==
    ASSUME BagInv, LedgerInv, NEW w \in Workers, Commit(w)
    PROVE  LedgerBalances' /\ CallsOK'
<1> DEFINE j == job[w]
           o == j.order
<1>1. /\ j.pc = "reward" /\ ~More(j) /\ rows' = j.rows
      /\ granted' = IF j.op = "grant" THEN granted \cup {o} ELSE granted
      /\ revoked' = IF j.op = "revoke" THEN revoked \cup {o} ELSE revoked
      /\ added' = IF j.op = "add" THEN added \cup {o} ELSE added
  BY Zenon DEF Commit
<1>2. /\ JobOK(w, j, lock, granted, revoked) /\ CallOK(j)
      /\ j.next \in Nat \ {0} /\ RowsOK(j.rows) /\ RowsOK(rows) /\ Balance(j, rows)
  BY <1>1, MidCall, Zenon
<1>3. /\ j.op = "grant" => o \in Orders \ granted
      /\ j.op = "revoke" => o \in Orders \ revoked
      /\ j.op = "add" => o \in Adds \ added
  BY <1>1, <1>2, Zenon DEF JobOK, CallOK, LedgerInv, AddsApart
<1>4. /\ granted \subseteq Orders /\ revoked \subseteq Orders /\ added \subseteq Adds
      /\ IsFiniteSet(granted) /\ IsFiniteSet(revoked) /\ IsFiniteSet(added)
  BY Zenon DEF LedgerInv, CallsOK
<1> DEFINE S == granted \cup added
<1>5. IsFiniteSet(S) /\ \A x \in S : Given[x] \in Seq(Reward)
  BY <1>4, FiniteUnion, ItemsAssumption, BagAssumption, Zenon
<1>6. \A x \in revoked : Taken[x] \in Seq(Reward)
  BY <1>4, ItemsAssumption, BagAssumption, Zenon
<1>7. CallsOK'
  <2>1. IsFiniteSet(granted') /\ IsFiniteSet(revoked') /\ IsFiniteSet(added')
    BY <1>1, <1>4, FiniteUnion, FiniteSingleton, Zenon
  <2> QED
    BY <1>1, <1>3, <1>4, <2>1, Zenon DEF CallsOK
<1>8. ASSUME NEW i \in ItemTypes \ TimeItems
      PROVE  /\ HeldOf(rows', i) = CallSum(granted' \cup added', Given, i)
             /\ UsedOf(rows', i) <= CallSum(revoked', Taken, i)
  <2>1. /\ HeldOf(rows, i) = CallSum(S, Given, i)
        /\ UsedOf(rows, i) <= CallSum(revoked, Taken, i)
    BY Zenon DEF LedgerInv, LedgerBalances, CallSum
  <2>2. CASE j.op # "revoke"
    <3>1. granted' \cup added' = S \cup {o} /\ revoked' = revoked
      BY <1>1, <1>2, <2>2, Zenon DEF CallOK
    <3>2. o \notin S /\ Given[o] \in Seq(Reward)
      BY <1>2, <1>3, <1>4, <2>2, ItemsAssumption, BagAssumption DEF CallOK
    <3>3. CallSum(S \cup {o}, Given, i)
            = CallSum(S, Given, i) + CountIn(Given[o], i)
      <4> HIDE DEF S, o
      <4>1. \A x \in S \cup {o} : Given[x] \in Seq(Reward)
        BY <1>5, <3>2, Zenon
      <4> QED
        BY <1>5, <3>2, <4>1, OneMoreCall
    <3>4. /\ HeldOf(j.rows, i) = HeldOf(rows, i) + CountIn(Given[o], i)
          /\ UsedOf(j.rows, i) = UsedOf(rows, i)
      BY <1>1, <1>2, <2>2, WholeList DEF Settled
    <3> HIDE DEF S, o, j
    <3> QED
      BY <1>1, <2>1, <3>1, <3>3, <3>4
  <2>3. CASE j.op = "revoke"
    <3>1. granted' \cup added' = S /\ revoked' = revoked \cup {o}
      BY <1>1, <2>3, Zenon
    <3>2. o \notin revoked /\ Taken[o] \in Seq(Reward)
      BY <1>3, <2>3, ItemsAssumption, BagAssumption, Zenon
    <3>3. /\ CallSum(revoked \cup {o}, Taken, i)
               = CallSum(revoked, Taken, i) + CountIn(Taken[o], i)
          /\ CallSum(revoked, Taken, i) \in Int
      <4> HIDE DEF o
      <4>1. \A x \in revoked \cup {o} : Taken[x] \in Seq(Reward)
        BY <1>6, <3>2, Zenon
      <4>2. CallSum(revoked \cup {o}, Taken, i) = CallSum(revoked, Taken, i) + CountIn(Taken[o], i)
        <5>1. IsFiniteSet(revoked) /\ o \notin revoked
          BY <1>4, <3>2, Zenon
        <5> QED
          BY <4>1, <5>1, OneMoreCall
      <4>3. CallSum(revoked, Taken, i) \in Int
        BY <1>4, <1>6, CallsType, Zenon
      <4> QED
        BY <4>2, <4>3, Zenon
    <3>4. /\ LiveOf(rows, i, j.start) - LiveOf(j.rows, i, j.start)
                = LesserOf(LiveOf(rows, i, j.start), CountIn(Taken[o], i))
          /\ UsedOf(j.rows, i) = UsedOf(rows, i)
                + (LiveOf(rows, i, j.start) - LiveOf(j.rows, i, j.start))
      BY <1>1, <1>2, <2>3, WholeList, Zenon DEF Settled
    <3>5. HeldOf(j.rows, i) = HeldOf(rows, i)
      <4>1. SameButUsed(j.rows, rows)
        BY <1>2, <2>3, Zenon DEF Balance, Taking
      <4>2. \A id \in RowIds : Held(j.rows, i)[id] = Held(rows, i)[id]
        BY <4>1, Zenon DEF SameButUsed, Held
      <4>3. \A id \in RowIds : Held(rows, i)[id] \in Int
        <5>1. \A id \in RowIds : Held(rows, i)[id] \in Nat
          BY <1>2, BagSums, Zenon
        <5> QED
          BY <5>1
      <4>4. SumFunctionOnSet(Held(rows, i), RowIds) = SumFunctionOnSet(Held(j.rows, i), RowIds)
        BY <4>2, <4>3, SumSame, ItemsAssumption, BagAssumption
      <4> QED
        BY <1>2, <4>4, BagSums, Zenon
    <3>6. /\ UsedOf(rows, i) \in Nat /\ LiveOf(rows, i, j.start) \in Nat
          /\ CountIn(Taken[o], i) \in Nat
      <4>1. Len(Taken[o]) \in 0 .. Len(Taken[o])
        BY <3>2
      <4>2. CountIn(Taken[o], i) \in Nat
        BY <3>2, <4>1, Parts, Zenon
      <4> QED
        BY <1>2, <4>2, BagSums, Zenon
    <3> HIDE DEF S, o, j
    <3>7. UsedOf(j.rows, i) <= UsedOf(rows, i) + CountIn(Taken[o], i)
      BY <3>4, <3>6 DEF LesserOf
    <3>8. UsedOf(j.rows, i) \in Nat
      BY <1>2, BagSums, Zenon
    <3>9. UsedOf(rows', i) <= CallSum(revoked', Taken, i)
      <4>1. UsedOf(j.rows, i) <= CallSum(revoked, Taken, i) + CountIn(Taken[o], i)
        BY <2>1, <3>3, <3>6, <3>7, <3>8
      <4>2. rows' = j.rows
        BY <1>1, Zenon
      <4> QED
        BY <3>1, <3>3, <4>1, <4>2, Zenon
    <3> QED
      BY <1>1, <2>1, <3>1, <3>5, <3>9, Zenon
  <2> QED
    BY <2>2, <2>3, Zenon
<1> QED
  BY <1>7, <1>8, Zenon DEF LedgerBalances, CallSum

\* The commit.
LEMMA LedgerCommit ==
    ASSUME BagInv, LedgerInv, NEW w \in Workers, Commit(w)
    PROVE  LedgerInv'
<1>1. /\ job[w].pc = "reward" /\ rows' = job[w].rows /\ now' = now
      /\ added' = IF job[w].op = "add" THEN added \cup {job[w].order} ELSE added
      /\ job' = [job EXCEPT ![w] = NoJob]
  BY Zenon DEF Commit, End, Goto
<1>2. InTx(job[w]) /\ OneLive(job[w].rows, now)
  BY <1>1, MidCall, Zenon
<1>3. /\ job'[w] = NoJob
      /\ \A u \in Workers \ {w} : job'[u] = job[u] /\ ~InTx(job[u])
  BY <1>1, <1>2, Alone, Zenon DEF BagInv
<1>4. ~InTx(NoJob) /\ NoJob.op = "none" /\ NoJob.order = NoOrder
  BY Zenon DEF NoJob, InTx
<1>5. \A u \in Workers : ~InTx(job'[u])
  BY <1>3, <1>4, Zenon
<1>6. AddsApart'
  <2>1. AddsApart
    BY Zenon DEF LedgerInv
  <2> SUFFICES ASSUME NEW u \in Workers, job'[u].op = "add"
               PROVE  /\ job'[u].order \in Adds \ added'
                      /\ \A v \in Workers \ {u} : job'[v].order # job'[u].order
    BY Zenon DEF AddsApart
  <2>2. u # w /\ job'[u] = job[u]
    BY <1>3, <1>4, Zenon
  <2>3. job[u].order \in Adds \ added /\ \A v \in Workers \ {u} : job[v].order # job[u].order
    BY <2>1, <2>2, Zenon DEF AddsApart
  <2> QED
    BY <1>1, <1>3, <1>4, <2>2, <2>3, ItemsAssumption, BagAssumption
<1>7. LedgerBalances' /\ CallsOK'
  BY CommitBalances, Zenon
<1> QED
  BY <1>1, <1>2, <1>5, <1>6, <1>7, Zenon DEF LedgerInv

\* The clock and the configuration.
LEMMA LedgerIdleClock ==
    ASSUME BagInv, LedgerInv, Tick \/ Reload \/ UNCHANGED vars
    PROVE  LedgerInv'
<1>1. UNCHANGED <<rows, granted, revoked, added, job>> /\ now' \in {now, now + 1}
  BY Zenon DEF Tick, Reload, vars
<1>2. \A id \in RowIds : rows[id].expire \in Nat
  BY Zenon DEF BagInv, RowsOK, RowSound
<1>3. \A w \in Workers : \A id \in RowIds : job[w].rows[id].expire \in Nat
  BY Zenon DEF BagInv, JobOK, RowsOK, RowSound
<1>4. now \in Nat
  BY Zenon DEF BagInv
<1>5. ASSUME NEW rs, OneLive(rs, now), \A id \in RowIds : rs[id].expire \in Nat
      PROVE  OneLive(rs, now')
  BY <1>1, <1>4, <1>5 DEF OneLive
<1>6. OneLive(rows, now') /\ \A w \in Workers : InTx(job[w]) => OneLive(job[w].rows, now')
  BY <1>2, <1>3, <1>5, Zenon DEF LedgerInv
<1>7. CallsOK' /\ AddsApart' /\ LedgerBalances'
  BY <1>1, Zenon DEF LedgerInv, CallsOK, AddsApart, LedgerBalances
<1>8. \A w \in Workers : InTx(job[w]) => Balance(job[w], rows)
  BY Zenon DEF LedgerInv
<1> QED
  BY <1>1, <1>6, <1>7, <1>8, Zenon DEF LedgerInv

\* An empty bag and no calls.
LEMMA InitLedger == Init => LedgerInv
<1> SUFFICES ASSUME Init PROVE LedgerInv
  BY Zenon
<1>1. /\ rows = NoRows /\ granted = {} /\ revoked = {} /\ added = {}
      /\ \A w \in Workers : job[w] = NoJob
  BY Zenon DEF Init
<1>2. CallsOK
  BY <1>1, FiniteEmpty, Zenon DEF CallsOK
<1>3. ~InTx(NoJob) /\ NoJob.op = "none"
  BY Zenon DEF NoJob, InTx
<1>4. AddsApart /\ \A w \in Workers : ~InTx(job[w])
  BY <1>1, <1>3, Zenon DEF AddsApart
<1>5. \A id \in RowIds : NoRows[id].item = NoItem
  BY RowFields DEF NoRows, NoRow
<1>6. OneLive(rows, now)
  BY <1>1, <1>5, ItemsAssumption, BagAssumption DEF OneLive
<1>7. ASSUME NEW i \in ItemTypes \ TimeItems
      PROVE  /\ HeldOf(rows, i) = CallSum(granted \cup added, Given, i)
             /\ UsedOf(rows, i) <= CallSum(revoked, Taken, i)
  <2>1. \A id \in RowIds : Held(NoRows, i)[id] = 0 /\ Used(NoRows, i)[id] = 0
    BY <1>5, ItemsAssumption, BagAssumption, Zenon DEF Held, Used
  <2>2. /\ SumFunctionOnSet(Held(NoRows, i), RowIds) = 0
        /\ SumFunctionOnSet(Used(NoRows, i), RowIds) = 0
    BY <2>1, SumZero, ItemsAssumption, BagAssumption, Zenon
  <2>3. HeldOf(NoRows, i) = 0 /\ UsedOf(NoRows, i) = 0
    BY <2>2, EmptyBag, BagSums, Zenon
  <2>4. ASSUME NEW L PROVE CallSum({}, L, i) = 0
    <3>1. DOMAIN [x \in {} |-> CountIn(L[x], i)] = {}
      BY Zenon
    <3> QED
      BY <3>1, SumEmpty, Zenon DEF CallSum, SumFunction
  <2>5. granted \cup added = {} /\ revoked = {}
    BY <1>1, Zenon
  <2> QED
    BY <1>1, <2>3, <2>4, <2>5
<1>8. LedgerBalances
  BY <1>7, Zenon DEF LedgerBalances, CallSum
<1> QED
  BY <1>2, <1>4, <1>6, <1>8, Zenon DEF LedgerInv

\* Every step keeps the ledger balanced.
LEMMA NextLedger == BagInv /\ LedgerInv /\ [Next]_vars => LedgerInv'
<1> SUFFICES ASSUME BagInv, LedgerInv, [Next]_vars PROVE LedgerInv'
  BY Zenon
<1>1. ASSUME NEW w \in Workers, Statement(w) PROVE LedgerInv'
  BY <1>1, LedgerFresh, LedgerGrantReward, LedgerRevokeReward, LedgerTakeRow, LedgerCommit
     DEF Statement
<1>2. ASSUME NEW w \in Workers, Fail(w) PROVE LedgerInv'
  BY <1>2, LedgerIdle, Zenon DEF Fail, GiveUp
<1>3. ASSUME NEW w \in Workers, NEW o \in Orders, Begin(w, "grant", o) \/ Begin(w, "revoke", o)
      PROVE  LedgerInv'
  BY <1>3, LedgerIdle, Zenon
<1>4. ASSUME NEW w \in Workers, NEW o \in Adds, NotCalled(o) /\ Begin(w, "add", o)
      PROVE  LedgerInv'
  BY <1>4, LedgerIdle, Zenon
<1>5. CASE Tick \/ Reload \/ UNCHANGED vars
  BY <1>5, LedgerIdleClock, Zenon
<1> QED
  BY <1>1, <1>2, <1>3, <1>4, <1>5 DEF Next

\* What every open transaction has done is accounted for, in every reachable
\* state.
THEOREM LedgerInductive == Spec => [](BagInv /\ LedgerInv)
BY InitBag, NextBag, InitLedger, NextLedger, PTL DEF Spec

\* For an item stacked by count the rows hold exactly what the committed grants
\* and AddItem calls gave, and no more is used than the committed revocations
\* asked for, whatever is retried, run at once or rolled back.
THEOREM LedgerBalancesHolds == Spec => []LedgerBalances
<1>1. LedgerInv => LedgerBalances
  BY Zenon DEF LedgerInv
<1> QED
  BY <1>1, LedgerInductive, PTL

\* A time-stacked item has at most one row that has not run out.
THEOREM OneLiveTimeRowHolds == Spec => []OneLiveTimeRow
<1>1. LedgerInv => OneLiveTimeRow
  BY Zenon DEF LedgerInv, OneLive, OneLiveTimeRow
<1> QED
  BY <1>1, LedgerInductive, PTL

-----------------------------------------------------------------------------
(* What a step does to the bag *)

\* A step changes the job of one goroutine, or of none.
LEMMA OneMoves ==
    ASSUME BagInv, NEW u \in Workers,
           \/ Statement(u) \/ Fail(u)
           \/ \E op \in {"grant", "revoke", "add"} : \E o \in Orders \cup Adds : Begin(u, op, o)
    PROVE  \A w \in Workers \ {u} : job'[w] = job[w]
<1>1. ASSUME \E k : job' = [job EXCEPT ![u] = k]
      PROVE  \A w \in Workers \ {u} : job'[w] = job[w]
  BY <1>1, Zenon DEF BagInv
<1>2. CASE \/ LockUID(u) \/ GrantNonce(u) \/ RevokeNonce(u) \/ RevokeReward(u) \/ Commit(u)
           \/ Fail(u)
  BY <1>1, <1>2, Zenon DEF LockUID, GrantNonce, RevokeNonce, RevokeReward, Commit, Fail, GiveUp,
     AlreadyDone, GoOn, Abort, End, Goto
<1>3. CASE GrantReward(u)
  BY <1>1, <1>3, Zenon DEF GrantReward, GiveUp, Abort, End, Goto
<1>4. CASE TakeRow(u)
  <2>1. Shape(job[u])
    BY Zenon DEF BagInv, JobOK
  <2>2. \E k : job' = [job EXCEPT ![u] = k]
    BY <1>4, <2>1, TakeRowEffect, Zenon
  <2> QED
    BY <1>1, <2>2, Zenon
<1>5. CASE \E op \in {"grant", "revoke", "add"} : \E o \in Orders \cup Adds : Begin(u, op, o)
  BY <1>1, <1>5, Zenon DEF Begin, Goto
<1> QED
  BY <1>2, <1>3, <1>4, <1>5, Zenon DEF Statement

\* A goroutine that is at a reward stays where it is, or takes a step of its
\* own.
LEMMA OwnStep ==
    ASSUME BagInv, [Next]_vars, NEW w \in Workers, job[w].pc = "reward"
    PROVE  \/ job'[w] = job[w]
           \/ GrantReward(w) \/ RevokeReward(w) \/ Commit(w) \/ job'[w] = NoJob
<1>1. CASE Tick \/ Reload \/ UNCHANGED vars
  BY <1>1, Zenon DEF Tick, Reload, vars
<1>2. ASSUME NEW u \in Workers,
             \/ Statement(u) \/ Fail(u)
             \/ \E op \in {"grant", "revoke", "add"} : \E o \in Orders \cup Adds : Begin(u, op, o)
      PROVE  \/ job'[w] = job[w]
             \/ GrantReward(w) \/ RevokeReward(w) \/ Commit(w) \/ job'[w] = NoJob
  <2>1. CASE u # w
    BY <1>2, <2>1, OneMoves, Zenon
  <2>2. CASE u = w
    <3>1. ~LockUID(w) /\ ~GrantNonce(w) /\ ~RevokeNonce(w) /\ ~TakeRow(w)
          /\ \A op, o : ~Begin(w, op, o)
      BY Zenon DEF LockUID, GrantNonce, RevokeNonce, TakeRow, Begin
    <3>2. Fail(w) => job'[w] = NoJob
      BY Zenon DEF Fail, GiveUp, Abort, End, Goto, BagInv
    <3> QED
      BY <1>2, <2>2, <3>1, <3>2, Zenon DEF Statement
  <2> QED
    BY <2>1, <2>2, Zenon
<1>3. \/ Tick \/ Reload \/ UNCHANGED vars
      \/ \E u \in Workers :
            \/ Statement(u) \/ Fail(u)
            \/ \E op \in {"grant", "revoke", "add"} : \E o \in Orders \cup Adds : Begin(u, op, o)
  BY Zenon DEF Next
<1> QED
  BY <1>1, <1>2, <1>3, Zenon

\* A reward of a time-stacked item lengthens the player's time by exactly its
\* duration times its count, for any rows, used up or not.
THEOREM TimeIsAddedHolds == Spec => TimeIsAdded
<1> DEFINE Adding(w) ==
             (/\ job[w].pc = "reward" /\ job[w].op # "revoke" /\ More(job[w])
              /\ job'[w].next = job[w].next + 1)
             => LET r == Current(job[w])
                    unit == ExpireAt(r, job[w].start) - now IN
                r.item \in TimeItems /\ r.count > 0 /\ unit > 0 =>
                    TimeLeft(job'[w].rows, r.item, now)
                      = TimeLeft(job[w].rows, r.item, now) + unit * r.count
<1>1. ASSUME BagInv, [Next]_vars, NEW w \in Workers PROVE Adding(w)
  <2> DEFINE r == Current(job[w])
             unit == ExpireAt(r, job[w].start) - now
  <2> SUFFICES ASSUME job[w].pc = "reward", job[w].op # "revoke", More(job[w]),
                      job'[w].next = job[w].next + 1,
                      r.item \in TimeItems, r.count > 0, unit > 0
               PROVE  TimeLeft(job'[w].rows, r.item, now)
                        = TimeLeft(job[w].rows, r.item, now) + unit * r.count
    BY Zenon
  <2>1. /\ JobOK(w, job[w], lock, granted, revoked) /\ now \in Nat
        /\ job = [u \in Workers |-> job[u]]
    BY <1>1, Zenon DEF BagInv
  <2>2. /\ job[w].next \in Nat \ {0} /\ RowsOK(job[w].rows) /\ job[w].start \in Nat
        /\ Shape(job[w])
    BY <2>1, Zenon DEF JobOK, InTx
  <2>3. r \in Reward
    BY <2>1, <2>2, CurrentReward DEF JobOK, CallOK
  <2>4. NoJob.next = 0 /\ ~RevokeReward(w) /\ ~Commit(w)
    BY Zenon DEF NoJob, RevokeReward, Commit
  <2>5. job'[w] # NoJob /\ job'[w] # job[w]
    BY <2>2, <2>4
  <2>6. GrantReward(w)
    BY <1>1, <2>4, <2>5, OwnStep
  <2> DEFINE j == [job[w] EXCEPT !.next = @ + 1, !.rows = AddReward(@, r, job[w].start, now)]
  <2>7. GiveUp(w) => job'[w] = NoJob
    BY <2>1, Zenon DEF GiveUp, Abort, End, Goto
  <2>8. Room(job[w].rows) /\ (GiveUp(w) \/ job' = [job EXCEPT ![w] = j])
    BY <2>6, Zenon DEF GrantReward, Goto
  <2>9. job'[w] = j
    BY <2>1, <2>5, <2>7, <2>8, Zenon
  <2>10. j.rows = AddReward(job[w].rows, r, job[w].start, now)
    BY <2>2, Zenon DEF Shape
  <2> HIDE DEF j, r
  <2>11. job'[w].rows = AddReward(job[w].rows, r, job[w].start, now)
    BY <2>9, <2>10, Zenon
  <2> QED
    BY <2>1, <2>2, <2>3, <2>8, <2>11, RewardTime
<1>2. BagInv /\ [Next]_vars => [\A w \in Workers : Adding(w)]_vars
  BY <1>1, Zenon
<1> QED
  BY <1>2, BagInductive, PTL DEF Spec, TimeIsAdded

\* A committed revocation has taken what it asked for, or all there was, from
\* the rows that run out first.
THEOREM RevokeTakesHolds == Spec => RevokeTakes
<1> DEFINE TakesAll(w) ==
             (/\ job[w].pc = "reward" /\ job[w].op = "revoke"
              /\ job[w].order \in revoked' \ revoked) =>
                LET t == job[w].start IN
                /\ \A i \in ItemTypes :
                      LiveOf(rows, i, t) - LiveOf(rows', i, t)
                        = LesserOf(LiveOf(rows, i, t), CountIn(Taken[job[w].order], i))
                /\ \A id1, id2 \in RowIds :
                      (/\ rows'[id1].used > rows[id1].used
                       /\ rows[id2].item = rows[id1].item
                       /\ RunsOutBefore(rows[id2], rows[id1]))
                      => id2 \notin Revocable(rows', rows[id1].item, t)
<1>1. ASSUME BagInv, LedgerInv, [Next]_vars, NEW w \in Workers PROVE TakesAll(w)
  <2> SUFFICES ASSUME job[w].pc = "reward", job[w].op = "revoke",
                      job[w].order \in revoked' \ revoked
               PROVE  /\ \A i \in ItemTypes :
                            LiveOf(rows, i, job[w].start) - LiveOf(rows', i, job[w].start)
                              = LesserOf(LiveOf(rows, i, job[w].start),
                                         CountIn(Taken[job[w].order], i))
                      /\ InOrder(rows', rows, job[w].start)
    BY Zenon DEF InOrder
  <2>1. Commit(w)
    <3>1. PICK u \in Workers : Commit(u)
      BY <1>1, Zenon DEF Next, Statement, LockUID, GrantNonce, RevokeNonce, GrantReward, RevokeReward,
         TakeRow, Fail, GiveUp, AlreadyDone, GoOn, Abort, Begin, Tick, Reload, vars
    <3>2. InTx(job[u]) /\ InTx(job[w])
      BY <3>1, Zenon DEF Commit, InTx
    <3> QED
      BY <1>1, <3>1, <3>2, Alone, Zenon
  <2>2. rows' = job[w].rows /\ ~More(job[w])
    BY <2>1, Zenon DEF Commit
  <2>3. /\ CallOK(job[w]) /\ job[w].next \in Nat \ {0} /\ Balance(job[w], rows)
    BY <1>1, MidCall, Zenon
  <2>4. Settled(job[w], rows)
    BY <2>2, <2>3, WholeList, Zenon
  <2>5. InOrder(job[w].rows, rows, job[w].start)
    BY <2>3, Zenon DEF Balance, Taking
  <2> QED
    BY <2>2, <2>4, <2>5, Zenon DEF Settled
<1>2. BagInv /\ LedgerInv /\ [Next]_vars => [\A w \in Workers : TakesAll(w)]_vars
  BY <1>1, Zenon
<1> QED
  BY <1>2, LedgerInductive, PTL DEF Spec, RevokeTakes

=============================================================================
