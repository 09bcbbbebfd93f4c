--------------------------- MODULE AccountsProofs ---------------------------
(***************************************************************************)
(* DirectoryInv is inductive, for any number of requests, accounts and     *)
(* identities, and every step of the requests is a step of the directory   *)
(* or leaves it alone.                                                     *)
(***************************************************************************)
EXTENDS AccountsProperties, FiniteSetTheorems, TLAPS

\* The clauses of DirectoryInv about one request.
JobInv(w) ==
    /\ Shape(job[w]) /\ Registering(w) /\ Changing(w)
    /\ Binding(w) /\ Unbinding(w) /\ Written(w)

\* At the start there are no rows and nothing is locked.
LEMMA InitDirectory == Init => DirectoryInv
  BY AccountsAssumption
  DEF Init, DirectoryInv, TypeOK, Tables, Shape, Registering, Changing, Binding,
      Unbinding, Written, Job, NoJob, JobAt, NoReply

\* The locks of w go back, and nobody else's.
LEMMA ReleaseLocks ==
  ASSUME DirectoryInv, NEW w \in Workers, Release(w)
  PROVE  /\ rowLock' \in [Uids -> Workers \cup {NoWorker}]
         /\ keyLock' \in [Idents -> Workers \cup {NoWorker}]
         /\ \A v \in Workers, u \in Uids : v # w /\ rowLock[u] = v => rowLock'[u] = v
         /\ \A v \in Workers, x \in Idents : v # w /\ keyLock[x] = v => keyLock'[x] = v
  BY DEF DirectoryInv, TypeOK, Release

\* A request that stands still keeps its clauses while w works and the tables
\* stay as they are.
LEMMA OthersWait ==
  ASSUME DirectoryInv, NEW w \in Workers, NEW v \in Workers, v # w,
         job'[v] = job[v], UNCHANGED <<account, owner>>, used \subseteq used',
         \A u \in Uids : rowLock[u] = v => rowLock'[u] = v,
         \A x \in Idents : keyLock[x] = v => keyLock'[x] = v,
         Registering(v)'
  PROVE  JobInv(v)'
  <1>1. Shape(job[v])'
    BY DEF DirectoryInv, Shape
  <1>2. Changing(v)'
    BY DEF DirectoryInv, TypeOK, Job, Shape, Changing
  <1>3. Binding(v)' /\ Unbinding(v)'
    BY DEF DirectoryInv, Binding, Unbinding, AlreadyBound, Owned
  <1>4. Written(v)'
    BY DEF DirectoryInv, TypeOK, Job, Shape, Written, Owned
  <1>5. QED BY <1>1, <1>2, <1>3, <1>4 DEF JobInv

\* No request begins to register: nobody is in the way of those who do.
LEMMA RegisteringKept ==
  ASSUME DirectoryInv, NEW w \in Workers, NEW v \in Workers, v # w,
         \A t \in Workers \ {w} : job'[t] = job[t],
         account' = account, used \subseteq used',
         job'[w].op = "login" /\ job'[w].pc \in {"insert", "commit"} =>
             job[w].op = "login" /\ job[w].pc = "insert" /\ job'[w].uid = job[w].uid
  PROVE  Registering(v)'
  BY DEF DirectoryInv, Registering

\* What an answer may look like.
Replies == (Idents \cup {NoIdent}) \X (Uids \cup {NoUid})

\* A request that ends without a commit.
LEMMA ReturnInv ==
  ASSUME DirectoryInv, NEW w \in Workers, Return(w), reply' \in Replies,
         UNCHANGED <<account, owner, used>>
  PROVE  DirectoryInv'
  <1>1. Release(w)
    BY DEF Return
  <1>2. job' = [job EXCEPT ![w] = NoJob] /\ UNCHANGED <<account, owner, used>>
    BY DEF Return
  <1>3. TypeOK'
    BY <1>1, <1>2, ReleaseLocks DEF DirectoryInv, TypeOK, NoJob, JobAt, Job, Replies
  <1>4. Tables'
    BY <1>2 DEF DirectoryInv, Tables
  <1>5. JobInv(w)'
    BY <1>2 DEF DirectoryInv, TypeOK, NoJob, JobAt, JobInv, Shape, Registering, Changing,
         Binding, Unbinding, Written
  <1>6. ASSUME NEW v \in Workers, v # w
        PROVE  JobInv(v)'
    <2>1. \A t \in Workers \ {w} : job'[t] = job[t]
      BY <1>2 DEF DirectoryInv, TypeOK
    <2>2. Registering(v)'
      BY <1>2, <1>6, <2>1, RegisteringKept DEF DirectoryInv, TypeOK, NoJob, JobAt
    <2>3. QED BY <1>1, <1>2, <1>6, <2>1, <2>2, ReleaseLocks, OthersWait
  <1>7. QED BY <1>3, <1>4, <1>5, <1>6 DEF DirectoryInv, JobInv

\* An error.
LEMMA GiveUpInv ==
  ASSUME DirectoryInv, NEW w \in Workers, GiveUp(w)
  PROVE  DirectoryInv'
  BY ReturnInv DEF GiveUp, Silent, NoReply, Replies

\* A step of w that leaves the tables and the locks of others alone, and after
\* which w itself is as it should be.
LEMMA QuietStep ==
  ASSUME DirectoryInv, NEW w \in Workers, NEW j \in Job,
         job' = [job EXCEPT ![w] = j], reply' = NoReply, UNCHANGED <<account, owner, used>>,
         rowLock' \in [Uids -> Workers \cup {NoWorker}],
         keyLock' \in [Idents -> Workers \cup {NoWorker}],
         \A u \in Uids : rowLock[u] \in Workers \ {w} => rowLock'[u] = rowLock[u],
         \A x \in Idents : keyLock[x] \in Workers \ {w} => keyLock'[x] = keyLock[x],
         j.op = "login" /\ j.pc \in {"insert", "commit"} =>
             job[w].op = "login" /\ job[w].pc = "insert" /\ j.uid = job[w].uid,
         JobInv(w)'
  PROVE  DirectoryInv'
  <1>1. TypeOK'
    BY DEF DirectoryInv, TypeOK, NoReply
  <1>2. Tables'
    BY DEF DirectoryInv, Tables
  <1>3. ASSUME NEW v \in Workers, v # w
        PROVE  JobInv(v)'
    <2>1. job'[w] = j /\ \A t \in Workers \ {w} : job'[t] = job[t]
      BY DEF DirectoryInv, TypeOK
    <2>2. Registering(v)'
      BY <1>3, <2>1, RegisteringKept
    <2>3. QED BY <1>3, <2>1, <2>2, OthersWait
  <1>4. QED BY <1>1, <1>2, <1>3 DEF DirectoryInv, JobInv

\* A login comes in.
LEMMA StartLoginInv ==
  ASSUME DirectoryInv, NEW w \in Workers, NEW x \in Idents, StartLogin(w, x)
  PROVE  DirectoryInv'
  <1>1. JobAt("find", "login", x, NoUid) \in Job
    BY DEF JobAt, Job
  <1>2. JobInv(w)'
    BY DEF DirectoryInv, TypeOK, StartLogin, JobAt, JobInv, Shape, Registering, Changing,
         Binding, Unbinding, Written
  <1>3. QED BY <1>1, <1>2, QuietStep DEF StartLogin, Silent, DirectoryInv, TypeOK, JobAt

\* A request to bind, unbind or delete comes in.
LEMMA StartChangeInv ==
  ASSUME DirectoryInv, NEW w \in Workers, NEW op \in {"bind", "unbind", "delete"},
         NEW x \in Idents \cup {NoIdent}, NEW u \in Uids, op # "delete" => x \in Idents,
         StartChange(w, op, x, u)
  PROVE  DirectoryInv'
  <1>1. JobAt("lock", op, x, u) \in Job
    BY DEF JobAt, Job
  <1>2. JobInv(w)'
    BY DEF DirectoryInv, TypeOK, StartChange, JobAt, JobInv, Shape, Registering, Changing,
         Binding, Unbinding, Written
  <1>3. QED BY <1>1, <1>2, QuietStep DEF StartChange, Silent, DirectoryInv, TypeOK, JobAt

\* A login reads.
LEMMA FindInv ==
  ASSUME DirectoryInv, NEW w \in Workers, FindLoginRecord(w)
  PROVE  DirectoryInv'
  <1> DEFINE u == owner[job[w].ident]
  <1>1. CASE u = NoUid /\ job[w].pc = "refind"
    BY <1>1, GiveUpInv DEF FindLoginRecord
  <1>2. CASE ~(u = NoUid /\ job[w].pc = "refind")
    <2> DEFINE j == IF u = NoUid THEN JobAt("create", job[w].op, job[w].ident, job[w].uid)
                                 ELSE JobAt("check", job[w].op, job[w].ident, u)
    <2>1. /\ job[w] \in Job /\ job[w].op = "login" /\ job[w].ident \in Idents
          /\ u \in Uids \cup {NoUid}
      BY DEF DirectoryInv, TypeOK, Shape, FindLoginRecord, Job
    <2>2. /\ job' = [job EXCEPT ![w] = j] /\ reply' = NoReply
          /\ UNCHANGED <<account, owner, used, rowLock, keyLock>>
      BY <1>2 DEF FindLoginRecord, Goto, GotoWith, Silent
    <2>3. j \in Job /\ j.pc \in {"create", "check"} /\ j.op = "login"
      BY <2>1 DEF JobAt, Job
    <2>4. job'[w] = j
      BY <2>2 DEF DirectoryInv, TypeOK
    <2>5. j.ident \in Idents /\ (j.pc = "check" => j.uid \in Uids)
      BY <2>1 DEF JobAt
    <2> HIDE DEF j
    <2>6. JobInv(w)'
      BY <2>3, <2>4, <2>5 DEF JobInv, Shape, Registering, Changing, Binding, Unbinding, Written
    <2>7. QED BY <2>2, <2>3, <2>6, QuietStep DEF DirectoryInv, TypeOK
  <1>3. QED BY <1>1, <1>2

\* A login ends with the answer it has found.
LEMMA CheckInv ==
  ASSUME DirectoryInv, NEW w \in Workers, CheckAccount(w)
  PROVE  DirectoryInv'
  <1>1. reply' \in Replies
    BY DEF DirectoryInv, TypeOK, Job, CheckAccount, NoReply, Replies
  <1>2. QED BY <1>1, ReturnInv DEF CheckAccount

\* The new account row is numbered like no other.
LEMMA CreateInv ==
  ASSUME DirectoryInv, NEW w \in Workers, CreateAccountRow(w)
  PROVE  DirectoryInv'
  <1>1. PICK u \in Uids \ used : used' = used \cup {u} /\ GotoWith(w, "insert", u)
    BY DEF CreateAccountRow
  <1>2. job[w].op = "login" /\ job[w] \in Job /\ job[w].ident \in Idents
    BY DEF DirectoryInv, TypeOK, Shape, CreateAccountRow, Job
  <1>3. /\ job'[w] = JobAt("insert", "login", job[w].ident, u)
        /\ \A t \in Workers \ {w} : job'[t] = job[t]
        /\ job' \in [Workers -> Job]
    BY <1>1, <1>2 DEF GotoWith, DirectoryInv, TypeOK, JobAt, Job
  <1>4. reply' = NoReply /\ UNCHANGED <<account, owner, rowLock, keyLock>>
    BY DEF CreateAccountRow, Silent
  <1>5. TypeOK'
    BY <1>1, <1>3, <1>4 DEF DirectoryInv, TypeOK, NoReply
  <1>6. Tables'
    BY <1>1, <1>4 DEF DirectoryInv, Tables
  <1>7. account[u] = "none"
    BY <1>1 DEF DirectoryInv, Tables
  <1>8. Registering(w)'
    BY <1>1, <1>3, <1>4, <1>7 DEF DirectoryInv, Registering, JobAt
  <1>9. JobInv(w)'
    BY <1>1, <1>2, <1>3, <1>8 DEF JobInv, Shape, JobAt, Changing, Binding, Unbinding, Written
  <1>10. ASSUME NEW v \in Workers, v # w
         PROVE  JobInv(v)'
    <2>1. Registering(v)'
      BY <1>1, <1>3, <1>4, <1>10 DEF DirectoryInv, Registering, JobAt
    <2>2. QED BY <1>1, <1>3, <1>4, <1>10, <2>1, OthersWait
  <1>11. QED BY <1>5, <1>6, <1>9, <1>10 DEF DirectoryInv, JobInv

\* The account row is locked while it is active.
LEMMA LockInv ==
  ASSUME DirectoryInv, NEW w \in Workers, LockActiveAccount(w)
  PROVE  DirectoryInv'
  <1>1. CASE account[job[w].uid] # "active"
    BY <1>1, GiveUpInv DEF LockActiveAccount
  <1>2. CASE account[job[w].uid] = "active"
    <2> DEFINE j == JobAt(IF job[w].op = "delete" THEN "purge" ELSE "look",
                          job[w].op, job[w].ident, job[w].uid)
    <2>1. /\ job[w] \in Job /\ job[w].pc = "lock" /\ job[w].op \in {"bind", "unbind", "delete"}
          /\ Shape(job[w]) /\ job[w].uid \in Uids /\ rowLock[job[w].uid] = NoWorker
      BY DEF DirectoryInv, TypeOK, Shape, LockActiveAccount, RowFree, Job
    <2>2. /\ job' = [job EXCEPT ![w] = j] /\ reply' = NoReply
          /\ rowLock' = [rowLock EXCEPT ![job[w].uid] = w]
          /\ UNCHANGED <<account, owner, used, keyLock>>
      BY <1>2 DEF LockActiveAccount, Goto, Silent
    <2>3. /\ j \in Job /\ j.pc = IF job[w].op = "delete" THEN "purge" ELSE "look"
          /\ j.op = job[w].op /\ j.ident = job[w].ident /\ j.uid = job[w].uid
      BY <2>1 DEF JobAt, Job
    <2>4. job'[w] = j
      BY <2>2 DEF DirectoryInv, TypeOK
    <2> HIDE DEF j
    <2>5. rowLock' \in [Uids -> Workers \cup {NoWorker}] /\ rowLock'[job[w].uid] = w
      BY <2>1, <2>2 DEF DirectoryInv, TypeOK
    <2>6. \A u \in Uids : rowLock[u] \in Workers \ {w} => rowLock'[u] = rowLock[u]
      BY <2>1, <2>2, AccountsAssumption DEF DirectoryInv, TypeOK
    <2>7. JobInv(w)'
      BY <1>2, <2>1, <2>2, <2>3, <2>4, <2>5
      DEF JobInv, Shape, Registering, Changing, Binding, Unbinding, Written
    <2>8. j.op # "login"
      BY <2>1, <2>3
    <2>9. QED BY <2>2, <2>3, <2>5, <2>6, <2>7, <2>8, QuietStep DEF DirectoryInv, TypeOK
  <1>3. QED BY <1>1, <1>2

\* What BindIdentity reads under the lock.
LEMMA BindLookInv ==
  ASSUME DirectoryInv, NEW w \in Workers, BindLook(w)
  PROVE  DirectoryInv'
  <1> DEFINE j == JobAt("insert", job[w].op, job[w].ident, job[w].uid)
  <1>1. CASE owner[job[w].ident] # NoUid \/ AlreadyBound(job[w].uid, job[w].ident)
    BY <1>1, GiveUpInv DEF BindLook
  <1>2. CASE ~(owner[job[w].ident] # NoUid \/ AlreadyBound(job[w].uid, job[w].ident))
    <2>1. /\ job[w] \in Job /\ job[w].pc = "look" /\ job[w].op = "bind"
          /\ Shape(job[w]) /\ Changing(w)
      BY DEF DirectoryInv, TypeOK, BindLook
    <2>2. /\ job' = [job EXCEPT ![w] = j] /\ reply' = NoReply
          /\ UNCHANGED <<account, owner, used, rowLock, keyLock>>
      BY <1>2 DEF BindLook, Goto, Silent
    <2>3. /\ j \in Job /\ j.pc = "insert" /\ j.op = "bind"
          /\ j.ident = job[w].ident /\ j.uid = job[w].uid
      BY <2>1 DEF JobAt, Job
    <2>4. job'[w] = j
      BY <2>2 DEF DirectoryInv, TypeOK
    <2> HIDE DEF j
    <2>5. JobInv(w)'
      <3>1. Shape(job[w])' /\ Registering(w)' /\ Unbinding(w)' /\ Written(w)'
        BY <2>1, <2>3, <2>4 DEF Shape, Registering, Unbinding, Written
      <3>2. Changing(w)'
        BY <2>1, <2>2, <2>3, <2>4 DEF Changing
      <3>3. Binding(w)'
        BY <1>2, <2>2, <2>3, <2>4 DEF Binding, AlreadyBound, Owned
      <3>4. QED BY <3>1, <3>2, <3>3 DEF JobInv
    <2>6. QED BY <2>2, <2>3, <2>5, QuietStep DEF DirectoryInv, TypeOK
  <1>3. QED BY <1>1, <1>2

\* Two identities leave one when one goes.
LEMMA AnotherIdentity ==
  ASSUME NEW u, NEW x \in Idents, owner[x] = u, Cardinality(Owned(u)) > 1
  PROVE  \E y \in Idents : y # x /\ owner[y] = u
  <1>1. SUFFICES ASSUME ~ \E y \in Idents : y # x /\ owner[y] = u
                 PROVE  FALSE
    OBVIOUS
  <1>2. Owned(u) = {x}
    BY <1>1 DEF Owned
  <1>3. Cardinality({x}) = 1
    BY FS_Singleton
  <1>4. QED BY <1>2, <1>3

\* What UnbindIdentity reads under the lock.
LEMMA UnbindLookInv ==
  ASSUME DirectoryInv, NEW w \in Workers, UnbindLook(w)
  PROVE  DirectoryInv'
  <1> DEFINE j == JobAt("delete", job[w].op, job[w].ident, job[w].uid)
  <1>1. CASE ~Unbindable(job[w].uid, job[w].ident)
    BY <1>1, GiveUpInv DEF UnbindLook
  <1>2. CASE Unbindable(job[w].uid, job[w].ident)
    <2>1. /\ job[w] \in Job /\ job[w].pc = "look" /\ job[w].op = "unbind"
          /\ Shape(job[w]) /\ Changing(w)
      BY DEF DirectoryInv, TypeOK, UnbindLook
    <2>2. /\ job' = [job EXCEPT ![w] = j] /\ reply' = NoReply
          /\ UNCHANGED <<account, owner, used, rowLock, keyLock>>
      BY <1>2 DEF UnbindLook, Goto, Silent
    <2>3. /\ j \in Job /\ j.pc = "delete" /\ j.op = "unbind"
          /\ j.ident = job[w].ident /\ j.uid = job[w].uid
      BY <2>1 DEF JobAt, Job
    <2>4. job'[w] = j
      BY <2>2 DEF DirectoryInv, TypeOK
    <2>5. \E y \in Idents : y # job[w].ident /\ owner[y] = job[w].uid
      BY <1>2, <2>1, AnotherIdentity DEF Unbindable, Shape
    <2> HIDE DEF j
    <2>6. JobInv(w)'
      BY <1>2, <2>1, <2>2, <2>3, <2>4, <2>5
      DEF JobInv, Shape, Registering, Changing, Binding, Unbinding, Written, Unbindable
    <2>7. QED BY <2>2, <2>3, <2>6, QuietStep DEF DirectoryInv, TypeOK
  <1>3. QED BY <1>1, <1>2

\* The insert of an identity succeeds, or the unique index refuses it.
LEMMA InsertInv ==
  ASSUME DirectoryInv, NEW w \in Workers, InsertIdentity(w)
  PROVE  DirectoryInv'
  <1>1. /\ job[w] \in Job /\ job[w].pc = "insert" /\ job[w].op \in {"login", "bind"}
        /\ Shape(job[w]) /\ Changing(w) /\ Registering(w) /\ Binding(w)
        /\ job[w].ident \in Idents /\ keyLock[job[w].ident] = NoWorker
    BY DEF DirectoryInv, TypeOK, Shape, InsertIdentity, Job
  <1>2. CASE owner[job[w].ident] = NoUid /\ ~AlreadyBound(job[w].uid, job[w].ident)
    <2> DEFINE j == JobAt("commit", job[w].op, job[w].ident, job[w].uid)
    <2>2. /\ job' = [job EXCEPT ![w] = j] /\ reply' = NoReply
          /\ keyLock' = [keyLock EXCEPT ![job[w].ident] = w]
          /\ UNCHANGED <<account, owner, used, rowLock>>
      BY <1>2 DEF InsertIdentity, Goto, Silent
    <2>3. /\ j \in Job /\ j.pc = "commit" /\ j.op = job[w].op
          /\ j.ident = job[w].ident /\ j.uid = job[w].uid
      BY <1>1 DEF JobAt, Job
    <2>4. job'[w] = j /\ \A t \in Workers \ {w} : job'[t] = job[t]
      BY <2>2 DEF DirectoryInv, TypeOK
    <2> HIDE DEF j
    <2>5. keyLock' \in [Idents -> Workers \cup {NoWorker}] /\ keyLock'[job[w].ident] = w
      BY <1>1, <2>2 DEF DirectoryInv, TypeOK
    <2>6. \A x \in Idents : keyLock[x] \in Workers \ {w} => keyLock'[x] = keyLock[x]
      BY <1>1, <2>2, AccountsAssumption DEF DirectoryInv, TypeOK
    <2>7. Registering(w)'
      BY <1>1, <2>2, <2>3, <2>4 DEF Registering
    <2>8. Changing(w)' /\ Shape(job[w])'
      BY <1>1, <2>2, <2>3, <2>4 DEF Changing, Shape
    <2>9. Binding(w)' /\ Unbinding(w)' /\ Written(w)'
      <3>1. Binding(w)' /\ Unbinding(w)'
        BY <1>1, <1>2, <2>2, <2>3, <2>4, <2>5 DEF Binding, Unbinding, AlreadyBound, Owned
      <3>2. Written(w)'
        BY <1>1, <1>2, <2>2, <2>3, <2>4, <2>5 DEF Binding, Written, AlreadyBound, Owned
      <3>3. QED BY <3>1, <3>2
    <2>10. JobInv(w)'
      BY <2>7, <2>8, <2>9 DEF JobInv
    <2>11. QED BY <1>1, <2>2, <2>3, <2>5, <2>6, <2>10, QuietStep DEF DirectoryInv, TypeOK
  <1>3. CASE /\ ~(owner[job[w].ident] = NoUid /\ ~AlreadyBound(job[w].uid, job[w].ident))
             /\ job[w].op = "login"
    <2> DEFINE j == JobAt("refind", job[w].op, job[w].ident, NoUid)
    <2>2. /\ job' = [job EXCEPT ![w] = j] /\ reply' = NoReply
          /\ Release(w)
          /\ UNCHANGED <<account, owner, used>>
      BY <1>3 DEF InsertIdentity, GotoWith, Silent
    <2>3. /\ j \in Job /\ j.pc = "refind" /\ j.op = "login" /\ j.ident = job[w].ident
      BY <1>1, <1>3 DEF JobAt, Job
    <2>4. job'[w] = j
      BY <2>2 DEF DirectoryInv, TypeOK
    <2> HIDE DEF j
    <2>5. JobInv(w)'
      BY <1>1, <2>3, <2>4 DEF JobInv, Shape, Registering, Changing, Binding, Unbinding, Written
    <2>6. /\ rowLock' \in [Uids -> Workers \cup {NoWorker}]
          /\ keyLock' \in [Idents -> Workers \cup {NoWorker}]
          /\ \A u \in Uids : rowLock[u] \in Workers \ {w} => rowLock'[u] = rowLock[u]
          /\ \A x \in Idents : keyLock[x] \in Workers \ {w} => keyLock'[x] = keyLock[x]
      BY <2>2, ReleaseLocks
    <2>7. QED BY <2>2, <2>3, <2>5, <2>6, QuietStep
  <1>4. CASE /\ ~(owner[job[w].ident] = NoUid /\ ~AlreadyBound(job[w].uid, job[w].ident))
             /\ job[w].op # "login"
    BY <1>4, GiveUpInv DEF InsertIdentity
  <1>5. QED BY <1>2, <1>3, <1>4

\* The rows to be deleted are locked first.
LEMMA DeleteInv ==
  ASSUME DirectoryInv, NEW w \in Workers, DeleteIdentities(w)
  PROVE  DirectoryInv'
  <1> DEFINE j == JobAt("commit", job[w].op, job[w].ident, job[w].uid)
  <1>1. /\ job[w] \in Job /\ job[w].pc \in {"delete", "purge"} /\ Shape(job[w])
        /\ Changing(w) /\ Unbinding(w) /\ job[w].op \in {"unbind", "delete"}
        /\ \A x \in Deleted(job[w]) : keyLock[x] = NoWorker
    BY DEF DirectoryInv, TypeOK, Shape, DeleteIdentities, Job
  <1>2. /\ job' = [job EXCEPT ![w] = j] /\ reply' = NoReply
        /\ keyLock' = [x \in Idents |-> IF x \in Deleted(job[w]) THEN w ELSE keyLock[x]]
        /\ UNCHANGED <<account, owner, used, rowLock>>
    BY DEF DeleteIdentities, Goto, Silent
  <1>3. /\ j \in Job /\ j.pc = "commit" /\ j.op = job[w].op
        /\ j.ident = job[w].ident /\ j.uid = job[w].uid
    BY <1>1 DEF JobAt, Job
  <1>4. job'[w] = j
    BY <1>2 DEF DirectoryInv, TypeOK
  <1> HIDE DEF j
  <1>5. keyLock' \in [Idents -> Workers \cup {NoWorker}]
    BY <1>2 DEF DirectoryInv, TypeOK
  <1>6. \A x \in Idents : keyLock[x] \in Workers \ {w} => keyLock'[x] = keyLock[x]
    BY <1>1, <1>2, AccountsAssumption DEF DirectoryInv, TypeOK
  <1>7. Registering(w)' /\ Changing(w)' /\ Shape(job[w])' /\ Binding(w)' /\ Unbinding(w)'
    BY <1>1, <1>2, <1>3, <1>4 DEF Registering, Changing, Shape, Binding, Unbinding
  <1>8. Written(w)'
    BY <1>1, <1>2, <1>3, <1>4 DEF Written, Deleted, Owned, Shape
  <1>9. JobInv(w)'
    BY <1>7, <1>8 DEF JobInv
  <1>10. QED BY <1>1, <1>2, <1>3, <1>5, <1>6, <1>9, QuietStep DEF DirectoryInv, TypeOK

\* A request that has locked or created an account has it for itself.
LEMMA OwnAccount ==
  ASSUME DirectoryInv, NEW w \in Workers, NEW v \in Workers, v # w, job[w].pc = "commit",
         \/ job[v].op = "login" /\ job[v].pc \in {"insert", "commit"}
         \/ job[v].op \in {"bind", "unbind", "delete"} /\ job[v].pc # "lock"
  PROVE  job[v].uid # job[w].uid
  <1>1. job[w].op \in {"login", "bind", "unbind", "delete"}
    BY DEF DirectoryInv, TypeOK, Job, Shape
  <1>2. CASE job[w].op = "login"
    BY <1>2 DEF DirectoryInv, Registering, Changing
  <1>3. CASE job[w].op # "login"
    BY <1>1, <1>3 DEF DirectoryInv, Registering, Changing
  <1>4. QED BY <1>2, <1>3

\* A commit changes rows of its own account only.
LEMMA CommitStep ==
  ASSUME DirectoryInv, NEW w \in Workers, job[w].pc = "commit", Return(w),
         used' = used, reply' \in Replies,
         account' \in [Uids -> {"none", "active", "deleted"}],
         owner' \in [Idents -> Uids \cup {NoUid}],
         \A u \in Uids : u # job[w].uid => account'[u] = account[u],
         \A x \in Idents : owner'[x] # owner[x] =>
             /\ keyLock[x] = w
             /\ owner[x] \in {NoUid, job[w].uid} /\ owner'[x] \in {NoUid, job[w].uid},
         Tables'
  PROVE  DirectoryInv'
  <1>1. Release(w) /\ job' = [job EXCEPT ![w] = NoJob]
    BY DEF Return
  <1>2. job'[w] = NoJob /\ \A t \in Workers \ {w} : job'[t] = job[t]
    BY <1>1 DEF DirectoryInv, TypeOK
  <1>3. TypeOK'
    BY <1>1, ReleaseLocks DEF DirectoryInv, TypeOK, NoJob, JobAt, Job, Replies
  <1>4. JobInv(w)'
    BY <1>2 DEF NoJob, JobAt, JobInv, Shape, Registering, Changing, Binding, Unbinding, Written
  <1>5. ASSUME NEW v \in Workers, v # w
        PROVE  JobInv(v)'
    <2>1. job'[v] = job[v] /\ job[v] \in Job /\ Shape(job[v])
      BY <1>2, <1>5 DEF DirectoryInv, TypeOK
    <2>2. Shape(job[v])'
      BY <2>1 DEF Shape
    <2>3. Registering(v)'
      <3>1. SUFFICES ASSUME job[v].op = "login", job[v].pc \in {"insert", "commit"}
                     PROVE  /\ job[v].uid \in used' /\ account'[job[v].uid] = "none"
                            /\ \A t \in Workers :
                                  job'[t].op = "login" /\ job'[t].pc \in {"insert", "commit"}
                                      /\ t # v => job'[t].uid # job[v].uid
        BY <2>1 DEF Registering
      <3>2. job[v].uid \in Uids /\ job[v].uid # job[w].uid
        BY <1>5, <2>1, <3>1, OwnAccount DEF Shape
      <3>3. Registering(v)
        BY DEF DirectoryInv
      <3>4. job[v].uid \in used' /\ account'[job[v].uid] = "none"
        BY <3>1, <3>2, <3>3 DEF Registering
      <3>5. NoJob.op # "login"
        BY DEF NoJob, JobAt
      <3>6. \A t \in Workers :
               job'[t].op = "login" /\ job'[t].pc \in {"insert", "commit"} /\ t # v
                   => job'[t].uid # job[v].uid
        BY <1>2, <3>1, <3>3, <3>5 DEF Registering
      <3>7. QED BY <3>4, <3>6
    <2>4. Changing(v)'
      <3>1. SUFFICES ASSUME job[v].op \in {"bind", "unbind", "delete"}, job[v].pc # "lock"
                     PROVE  rowLock'[job[v].uid] = v /\ account'[job[v].uid] = "active"
        BY <2>1 DEF Changing
      <3>2. job[v].uid \in Uids /\ job[v].uid # job[w].uid
        BY <1>5, <2>1, <3>1, OwnAccount DEF Shape
      <3>3. rowLock[job[v].uid] = v /\ account[job[v].uid] = "active"
        BY <3>1 DEF DirectoryInv, Changing
      <3>4. QED BY <1>1, <1>5, <3>2, <3>3, ReleaseLocks
    <2>5. Binding(v)'
      <3>1. SUFFICES ASSUME job[v].op = "bind", job[v].pc \in {"insert", "commit"}
                     PROVE  ~ \E y \in Idents : owner'[y] = job[v].uid /\ Kind[y] = Kind[job[v].ident]
        BY <2>1 DEF Binding, AlreadyBound, Owned
      <3>2. job[v].uid \in Uids /\ job[v].uid # job[w].uid /\ job[v].uid # NoUid
        BY <1>5, <2>1, <3>1, OwnAccount, AccountsAssumption DEF Shape
      <3>3. QED BY <3>1, <3>2 DEF DirectoryInv, Binding, AlreadyBound, Owned
    <2>6. Unbinding(v)'
      <3>1. SUFFICES ASSUME job[v].op = "unbind", job[v].pc \in {"delete", "commit"}
                     PROVE  /\ owner'[job[v].ident] = job[v].uid
                            /\ \E y \in Idents : y # job[v].ident /\ owner'[y] = job[v].uid
        BY <2>1 DEF Unbinding
      <3>2. /\ job[v].uid \in Uids /\ job[v].uid # job[w].uid /\ job[v].uid # NoUid
            /\ job[v].ident \in Idents
        BY <1>5, <2>1, <3>1, OwnAccount, AccountsAssumption DEF Shape
      <3>3. QED BY <3>1, <3>2, SMTT(60) DEF DirectoryInv, Unbinding
    <2>7. Written(v)'
      <3>1. SUFFICES ASSUME job[v].pc = "commit"
                     PROVE  Written(v)'
        BY <2>1 DEF Written
      <3>2. job[v].op \in {"login", "bind", "unbind", "delete"} /\ job[v].uid \in Uids
        BY <2>1, <3>1 DEF Shape, Job
      <3>3. job[v].uid # job[w].uid /\ job[v].uid # NoUid
        BY <1>5, <3>1, <3>2, OwnAccount, AccountsAssumption
      <3>4. /\ job[v].op # "delete" => job[v].ident \in Idents /\ keyLock[job[v].ident] = v
            /\ job[v].op \in {"login", "bind"} => owner[job[v].ident] = NoUid
            /\ job[v].op = "delete" =>
                  \A x \in Idents : owner[x] = job[v].uid => keyLock[x] = v
        <4>1. Written(v)
          BY DEF DirectoryInv
        <4>2. job[v].op # "delete" => job[v].ident \in Idents
          BY <2>1, <3>2 DEF Shape
        <4>3. QED BY <3>1, <4>1, <4>2 DEF Written, Owned
      <3>5. \A x \in Idents : keyLock[x] = v => keyLock'[x] = v /\ owner'[x] = owner[x]
        BY <1>1, <1>5, ReleaseLocks
      <3>6. \A x \in Idents : owner'[x] = job[v].uid => owner[x] = job[v].uid
        BY <3>3
      <3>7. QED BY <2>1, <3>4, <3>5, <3>6 DEF Written, Owned
    <2>8. QED BY <2>2, <2>3, <2>4, <2>5, <2>6, <2>7 DEF JobInv
  <1>6. QED BY <1>3, <1>4, <1>5 DEF DirectoryInv, JobInv

\* Registration.
LEMMA CommitLoginInv ==
  ASSUME DirectoryInv, NEW w \in Workers, CommitLogin(w)
  PROVE  DirectoryInv'
  <1>1. /\ job[w].pc = "commit" /\ job[w].op = "login" /\ Return(w) /\ used' = used
        /\ account' = [account EXCEPT ![job[w].uid] = "active"]
        /\ owner' = [owner EXCEPT ![job[w].ident] = job[w].uid]
        /\ reply' \in {NoReply, <<job[w].ident, job[w].uid>>}
    BY DEF CommitLogin, Status, Bind
  <1>2. /\ job[w].uid \in Uids /\ job[w].ident \in Idents
        /\ job[w].uid \in used /\ account[job[w].uid] = "none"
        /\ owner[job[w].ident] = NoUid /\ keyLock[job[w].ident] = w
    BY <1>1 DEF DirectoryInv, Shape, Registering, Written
  <1>3. \A x \in Idents : owner[x] # job[w].uid
    BY <1>2, AccountsAssumption DEF DirectoryInv, Tables
  <1>4. /\ account' \in [Uids -> {"none", "active", "deleted"}]
        /\ owner' \in [Idents -> Uids \cup {NoUid}] /\ reply' \in Replies
    <2>1. /\ account \in [Uids -> {"none", "active", "deleted"}]
          /\ owner \in [Idents -> Uids \cup {NoUid}]
      BY DEF DirectoryInv, TypeOK
    <2>2. account' \in [Uids -> {"none", "active", "deleted"}]
      BY <1>1, <2>1
    <2>3. owner' \in [Idents -> Uids \cup {NoUid}]
      BY <1>1, <1>2, <2>1
    <2>4. reply' \in Replies
      BY <1>1, <1>2 DEF NoReply, Replies
    <2>5. QED BY <2>2, <2>3, <2>4
  <1>5. Tables'
    <2>1. /\ \A u \in Uids : account'[u] = IF u = job[w].uid THEN "active" ELSE account[u]
          /\ \A x \in Idents : owner'[x] = IF x = job[w].ident THEN job[w].uid ELSE owner[x]
      BY <1>1, <1>2 DEF DirectoryInv, TypeOK
    <2>2. \A x \in Idents : owner[x] \in Uids \cup {NoUid}
      BY DEF DirectoryInv, TypeOK
    <2>3. \A x \in Idents : owner'[x] # NoUid => account'[owner'[x]] = "active"
      BY <1>2, <2>1, <2>2 DEF DirectoryInv, Tables
    <2>4. \A u \in Uids : account'[u] = "active" => \E x \in Idents : owner'[x] = u
      BY <1>2, <2>1, AccountsAssumption, SMTT(60) DEF DirectoryInv, Tables
    <2>5. \A x, y \in Idents :
             owner'[x] # NoUid /\ owner'[x] = owner'[y] /\ Kind[x] = Kind[y] => x = y
      BY <1>3, <2>1 DEF DirectoryInv, Tables
    <2>6. \A u \in Uids : u \notin used' => account'[u] = "none"
      BY <1>1, <1>2, <2>1, SMTT(60) DEF DirectoryInv, Tables
    <2>7. QED BY <2>3, <2>4, <2>5, <2>6 DEF Tables
  <1>6. QED BY <1>1, <1>2, <1>4, <1>5, CommitStep DEF DirectoryInv, TypeOK

\* BindIdentity.
LEMMA CommitBindInv ==
  ASSUME DirectoryInv, NEW w \in Workers, CommitBind(w)
  PROVE  DirectoryInv'
  <1>1. /\ job[w].pc = "commit" /\ job[w].op = "bind" /\ Return(w)
        /\ used' = used /\ account' = account /\ reply' = NoReply
        /\ owner' = [owner EXCEPT ![job[w].ident] = job[w].uid]
    BY DEF CommitBind, Bind, Silent
  <1>2. /\ job[w].uid \in Uids /\ job[w].ident \in Idents
        /\ account[job[w].uid] = "active"
        /\ owner[job[w].ident] = NoUid /\ keyLock[job[w].ident] = w
        /\ \A y \in Idents : owner[y] = job[w].uid => Kind[y] # Kind[job[w].ident]
    BY <1>1, SMTT(60) DEF DirectoryInv, Shape, Changing, Binding, Written, AlreadyBound, Owned
  <1>3. /\ account' \in [Uids -> {"none", "active", "deleted"}]
        /\ owner' \in [Idents -> Uids \cup {NoUid}] /\ reply' \in Replies
    BY <1>1, <1>2 DEF DirectoryInv, TypeOK, NoReply, Replies
  <1>4. Tables'
    <2>1. \A x \in Idents : owner'[x] = IF x = job[w].ident THEN job[w].uid ELSE owner[x]
      BY <1>1, <1>2 DEF DirectoryInv, TypeOK
    <2>2. \A x \in Idents : owner'[x] # NoUid => account'[owner'[x]] = "active"
      BY <1>1, <1>2, <2>1, SMTT(60) DEF DirectoryInv, Tables
    <2>3. \A u \in Uids : account'[u] = "active" => \E x \in Idents : owner'[x] = u
      BY <1>1, <1>2, <2>1, AccountsAssumption, SMTT(60) DEF DirectoryInv, Tables
    <2>4. \A x, y \in Idents :
             owner'[x] # NoUid /\ owner'[x] = owner'[y] /\ Kind[x] = Kind[y] => x = y
      BY <1>2, <2>1, SMTT(60) DEF DirectoryInv, Tables
    <2>5. QED BY <1>1, <2>2, <2>3, <2>4 DEF DirectoryInv, Tables
  <1>5. QED BY <1>1, <1>2, <1>3, <1>4, CommitStep DEF DirectoryInv, TypeOK

\* UnbindIdentity.
LEMMA CommitUnbindInv ==
  ASSUME DirectoryInv, NEW w \in Workers, CommitUnbind(w)
  PROVE  DirectoryInv'
  <1>1. /\ job[w].pc = "commit" /\ job[w].op = "unbind" /\ Return(w)
        /\ used' = used /\ account' = account /\ reply' = NoReply
        /\ owner' = [owner EXCEPT ![job[w].ident] = NoUid]
    BY DEF CommitUnbind, Bind, Silent
  <1>2. /\ job[w].uid \in Uids /\ job[w].ident \in Idents /\ keyLock[job[w].ident] = w
        /\ owner[job[w].ident] = job[w].uid
        /\ \E y \in Idents : y # job[w].ident /\ owner[y] = job[w].uid
    BY <1>1 DEF DirectoryInv, Shape, Unbinding, Written
  <1>3. /\ account' \in [Uids -> {"none", "active", "deleted"}]
        /\ owner' \in [Idents -> Uids \cup {NoUid}] /\ reply' \in Replies
    BY <1>1, <1>2 DEF DirectoryInv, TypeOK, NoReply, Replies
  <1>4. Tables'
    <2>1. \A x \in Idents : owner'[x] = IF x = job[w].ident THEN NoUid ELSE owner[x]
      BY <1>1, <1>2 DEF DirectoryInv, TypeOK
    <2>2. \A x \in Idents : owner'[x] # NoUid => account'[owner'[x]] = "active"
      BY <1>1, <2>1 DEF DirectoryInv, Tables
    <2>3. \A u \in Uids : account'[u] = "active" => \E x \in Idents : owner'[x] = u
      BY <1>1, <1>2, <2>1 DEF DirectoryInv, Tables
    <2>4. \A x, y \in Idents :
             owner'[x] # NoUid /\ owner'[x] = owner'[y] /\ Kind[x] = Kind[y] => x = y
      BY <2>1, SMTT(60) DEF DirectoryInv, Tables
    <2>5. QED BY <1>1, <2>2, <2>3, <2>4 DEF DirectoryInv, Tables
  <1>5. QED BY <1>1, <1>2, <1>3, <1>4, CommitStep DEF DirectoryInv, TypeOK

\* DeleteAccount.
LEMMA CommitDeleteInv ==
  ASSUME DirectoryInv, NEW w \in Workers, CommitDelete(w)
  PROVE  DirectoryInv'
  <1>1. /\ job[w].pc = "commit" /\ job[w].op = "delete" /\ Return(w)
        /\ used' = used /\ reply' = NoReply
        /\ account' = [account EXCEPT ![job[w].uid] = "deleted"]
        /\ owner' = [x \in Idents |-> IF owner[x] = job[w].uid THEN NoUid ELSE owner[x]]
    BY DEF CommitDelete, Status, Silent, Owned
  <1>2. /\ job[w].uid \in Uids /\ account[job[w].uid] = "active"
        /\ \A x \in Idents : owner[x] = job[w].uid => keyLock[x] = w
    BY <1>1, SMTT(60) DEF DirectoryInv, Shape, Changing, Written, Owned
  <1>3. /\ account' \in [Uids -> {"none", "active", "deleted"}]
        /\ owner' \in [Idents -> Uids \cup {NoUid}] /\ reply' \in Replies
    BY <1>1, <1>2 DEF DirectoryInv, TypeOK, NoReply, Replies
  <1>4. Tables'
    <2>1. /\ \A u \in Uids : account'[u] = IF u = job[w].uid THEN "deleted" ELSE account[u]
          /\ \A x \in Idents : owner'[x] = IF owner[x] = job[w].uid THEN NoUid ELSE owner[x]
      BY <1>1, <1>2 DEF DirectoryInv, TypeOK
    <2>2. \A x \in Idents : owner[x] \in Uids \cup {NoUid}
      BY DEF DirectoryInv, TypeOK
    <2>3. \A x \in Idents : owner'[x] # NoUid => account'[owner'[x]] = "active"
      BY <2>1, <2>2, SMTT(60) DEF DirectoryInv, Tables
    <2>4. \A u \in Uids : account'[u] = "active" => \E x \in Idents : owner'[x] = u
      BY <2>1 DEF DirectoryInv, Tables
    <2>5. \A x, y \in Idents :
             owner'[x] # NoUid /\ owner'[x] = owner'[y] /\ Kind[x] = Kind[y] => x = y
      BY <2>1 DEF DirectoryInv, Tables
    <2>6. \A u \in Uids : u \notin used' => account'[u] = "none"
      BY <1>1, <1>2, <2>1, ZenonT(60) DEF DirectoryInv, Tables
    <2>7. QED BY <2>3, <2>4, <2>5, <2>6 DEF Tables
  <1>5. QED BY <1>1, <1>2, <1>3, <1>4, CommitStep DEF DirectoryInv, TypeOK

-----------------------------------------------------------------------------
(* The theorems *)

\* Every step of every request keeps the invariant.
LEMMA NextInv == DirectoryInv /\ [Next]_vars => DirectoryInv'
  <1>1. SUFFICES ASSUME DirectoryInv, [Next]_vars
                 PROVE  DirectoryInv'
    OBVIOUS
  <1>2. CASE UNCHANGED vars
    <2>1. TypeOK' /\ Tables'
      BY <1>1, <1>2 DEF vars, DirectoryInv, TypeOK, Tables
    <2>2. ASSUME NEW w \in Workers
          PROVE  JobInv(w)'
      <3>1. Shape(job[w])' /\ Registering(w)' /\ Changing(w)'
        BY <1>1, <1>2 DEF vars, DirectoryInv, Shape, Registering, Changing
      <3>2. Binding(w)' /\ Unbinding(w)'
        BY <1>1, <1>2 DEF vars, DirectoryInv, Binding, Unbinding, AlreadyBound, Owned
      <3>3. Written(w)'
        BY <1>1, <1>2 DEF vars, DirectoryInv, Written, Owned
      <3>4. QED BY <3>1, <3>2, <3>3 DEF JobInv
    <2>3. QED BY <2>1, <2>2 DEF DirectoryInv, JobInv
  <1>3. ASSUME NEW w \in Workers, Statement(w)
        PROVE  DirectoryInv'
    <2>1. CASE NoAccountRow(w)
      BY <1>1, <2>1, GiveUpInv DEF NoAccountRow
    <2>2. CASE ~NoAccountRow(w)
      BY <1>1, <1>3, <2>2, FindInv, CheckInv, CreateInv, LockInv, BindLookInv, UnbindLookInv,
         InsertInv, DeleteInv, CommitLoginInv, CommitBindInv, CommitUnbindInv,
         CommitDeleteInv, Zenon DEF Statement
    <2>3. QED BY <2>1, <2>2
  <1>4. ASSUME NEW w \in Workers, Start(w)
        PROVE  DirectoryInv'
    BY <1>1, <1>4, StartLoginInv, StartChangeInv DEF Start
  <1>5. ASSUME NEW w \in Workers, Fail(w)
        PROVE  DirectoryInv'
    BY <1>1, <1>5, GiveUpInv DEF Fail
  <1>6. QED BY <1>1, <1>2, <1>3, <1>4, <1>5 DEF Next

\* The account and identity tables agree in every reachable state, for any
\* number of requests, accounts and identities.
THEOREM DirectoryInvHolds == Spec => []DirectoryInv
  BY InitDirectory, NextInv, PTL DEF Spec

\* UnbindIdentity never takes the last identity of an active account.
THEOREM ActiveHasIdentityHolds == Spec => []ActiveHasIdentity
  <1>1. DirectoryInv => ActiveHasIdentity
    BY DEF DirectoryInv, Tables, ActiveHasIdentity, Owned
  <1>2. QED BY <1>1, DirectoryInvHolds, PTL

\* A bind that the unique index refuses was refused for the reason it tells.
THEOREM RefusalIsTrueHolds == Spec => []RefusalIsTrue
  <1>1. DirectoryInv => RefusalIsTrue
    BY DEF DirectoryInv, TypeOK, Job, Shape, Binding, RefusalIsTrue, AlreadyBound, Owned
  <1>2. QED BY <1>1, DirectoryInvHolds, PTL

-----------------------------------------------------------------------------
(* Refinement *)

\* The login records that logins in progress have read.
Found == {<<job[w].ident, job[w].uid>> : w \in Finding}

\* A step of a request after which it is not about to check an account.
LEMMA FoundShrinks ==
  ASSUME DirectoryInv, NEW w \in Workers, NEW j, j.pc # "check",
         job' = [job EXCEPT ![w] = j]
  PROVE  Found' \subseteq Found
  BY DEF Found, Finding, DirectoryInv, TypeOK

\* A step that leaves the tables alone and answers nobody.
LEMMA WorkStep ==
  ASSUME Found' \subseteq Found, Silent, UNCHANGED <<account, owner>>
  PROVE  Directory!Next
  BY DEF Directory!Next, Directory!Look, Directory!Work, Found, Silent

\* An error is no step of the directory.
LEMMA GiveUpStep ==
  ASSUME DirectoryInv, NEW w \in Workers, GiveUp(w)
  PROVE  Directory!Next
  <1>1. NoJob.pc # "check"
    BY DEF NoJob, JobAt
  <1>2. Found' \subseteq Found
    BY <1>1, FoundShrinks DEF GiveUp, Return
  <1>3. QED BY <1>2, WorkStep DEF GiveUp

\* A request moves on to a statement other than the check.
LEMMA GotoStep ==
  ASSUME DirectoryInv, NEW w \in Workers, NEW pc, pc # "check", NEW op, NEW x, NEW u,
         job' = [job EXCEPT ![w] = JobAt(pc, op, x, u)],
         Silent, UNCHANGED <<account, owner>>
  PROVE  Directory!Next
  <1>1. JobAt(pc, op, x, u).pc # "check"
    BY DEF JobAt
  <1>2. Found' \subseteq Found
    BY <1>1, FoundShrinks
  <1>3. QED BY <1>2, WorkStep

\* A login reads the record of its identity.
LEMMA FindStep ==
  ASSUME DirectoryInv, NEW w \in Workers, FindLoginRecord(w)
  PROVE  Directory!Next
  <1> DEFINE x == job[w].ident
             u == owner[x]
  <1>0. x \in Idents
    BY DEF DirectoryInv, TypeOK, Job, Shape, FindLoginRecord
  <1>1. CASE u = NoUid /\ job[w].pc = "refind"
    BY <1>1, GiveUpStep DEF FindLoginRecord
  <1>2. CASE u = NoUid /\ job[w].pc # "refind"
    BY <1>2, GotoStep DEF FindLoginRecord, Goto
  <1>3. CASE u # NoUid
    <2>1. /\ job' = [job EXCEPT ![w] = JobAt("check", job[w].op, x, u)]
          /\ Silent /\ UNCHANGED <<account, owner>>
      BY <1>3 DEF FindLoginRecord, GotoWith
    <2>2. Found' \subseteq Found \cup {<<x, u>>}
      BY <2>1 DEF Found, Finding, DirectoryInv, TypeOK, JobAt
    <2>3. Directory!Look
      BY <1>0, <1>3, <2>2 DEF Directory!Look, Found
    <2>4. QED BY <2>1, <2>3 DEF Directory!Next, Directory!Work, Silent
  <1>4. QED BY <1>1, <1>2, <1>3

\* checkAccount is the moment of a login.
LEMMA CheckStep ==
  ASSUME DirectoryInv, NEW w \in Workers, CheckAccount(w)
  PROVE  Directory!Next
  <1>1. /\ job[w].pc = "check" /\ Return(w) /\ UNCHANGED <<account, owner>>
        /\ reply' = IF account[job[w].uid] = "active"
                    THEN <<job[w].ident, job[w].uid>> ELSE NoReply
    BY DEF CheckAccount
  <1>2. job[w].uid \in Uids /\ job[w].ident \in Idents
    BY <1>1 DEF DirectoryInv, TypeOK, Job, Shape
  <1>3. Found' \subseteq Found
    <2>1. NoJob.pc # "check" /\ job' = [job EXCEPT ![w] = NoJob]
      BY <1>1 DEF NoJob, JobAt, Return
    <2>2. QED BY <2>1, FoundShrinks
  <1>4. CASE account[job[w].uid] = "active"
    <2>1. <<job[w].ident, job[w].uid>> \in Found
      BY <1>1 DEF Found, Finding
    <2>2. Directory!Login(job[w].ident, job[w].uid)
      BY <1>1, <1>4, <2>1 DEF Directory!Login, Found
    <2>3. QED BY <1>2, <1>3, <2>2 DEF Directory!Next, Directory!Look, Found
  <1>5. CASE account[job[w].uid] # "active"
    BY <1>1, <1>3, <1>5, WorkStep DEF Silent
  <1>6. QED BY <1>4, <1>5

\* A commit is the moment of a registration, a bind, an unbind or a deletion.
LEMMA CommitIsStep ==
  ASSUME DirectoryInv, NEW w \in Workers,
         CommitLogin(w) \/ CommitBind(w) \/ CommitUnbind(w) \/ CommitDelete(w)
  PROVE  Directory!Next
  <1>1. job[w].pc = "commit" /\ Return(w) /\ job[w].uid \in Uids
    BY DEF CommitLogin, CommitBind, CommitUnbind, CommitDelete, DirectoryInv, Shape
  <1>2. Directory!Look
    <2>1. NoJob.pc # "check" /\ job' = [job EXCEPT ![w] = NoJob]
      BY <1>1 DEF NoJob, JobAt, Return
    <2>2. Found' \subseteq Found
      BY <2>1, FoundShrinks
    <2>3. QED BY <2>2 DEF Directory!Look, Found
  <1>3. CASE CommitLogin(w)
    <2>1. Directory!Register(job[w].ident, job[w].uid) /\ job[w].ident \in Idents
      BY <1>1, <1>3 DEF CommitLogin, Status, Bind, Directory!Register, DirectoryInv, Shape,
           Registering, Written
    <2>2. QED BY <1>1, <1>2, <2>1 DEF Directory!Next
  <1>4. CASE CommitBind(w)
    <2>1. Directory!Bind(job[w].uid, job[w].ident) /\ job[w].ident \in Idents
      BY <1>1, <1>4 DEF CommitBind, Bind, Silent, Directory!Bind, Directory!Owned,
           DirectoryInv, Shape, Changing, Binding, Written, AlreadyBound, Owned
    <2>2. QED BY <1>1, <1>2, <2>1 DEF Directory!Next
  <1>5. CASE CommitUnbind(w)
    <2>1. Directory!Unbind(job[w].uid, job[w].ident) /\ job[w].ident \in Idents
      <3>1. /\ owner' = [owner EXCEPT ![job[w].ident] = NoUid]
            /\ reply' = NoReply /\ account' = account
        BY <1>5 DEF CommitUnbind, Bind, Silent
      <3>2. job[w].ident \in Idents /\ account[job[w].uid] = "active"
        BY <1>1, <1>5 DEF CommitUnbind, DirectoryInv, Shape, Changing
      <3>3. /\ owner[job[w].ident] = job[w].uid
            /\ \E y \in Idents : y # job[w].ident /\ owner[y] = job[w].uid
        BY <1>1, <1>5 DEF CommitUnbind, DirectoryInv, Unbinding
      <3>4. QED BY <3>1, <3>2, <3>3 DEF Directory!Unbind, Directory!Owned, NoReply
    <2>2. QED BY <1>1, <1>2, <2>1 DEF Directory!Next
  <1>6. CASE CommitDelete(w)
    <2>1. Directory!Delete(job[w].uid)
      BY <1>1, <1>6 DEF CommitDelete, Status, Silent, Owned, Directory!Delete,
           DirectoryInv, Shape, Changing
    <2>2. QED BY <1>1, <1>2, <2>1 DEF Directory!Next
  <1>7. QED BY <1>3, <1>4, <1>5, <1>6

\* Every other statement leaves the directory alone.
LEMMA QuietStatement ==
  ASSUME DirectoryInv, NEW w \in Workers,
         \/ CreateAccountRow(w) \/ NoAccountRow(w) \/ LockActiveAccount(w) \/ BindLook(w)
         \/ UnbindLook(w) \/ InsertIdentity(w) \/ DeleteIdentities(w)
  PROVE  Directory!Next
  <1>1. CASE CreateAccountRow(w)
    <2>1. PICK u \in Uids : job' = [job EXCEPT ![w] = JobAt("insert", job[w].op, job[w].ident, u)]
      BY <1>1 DEF CreateAccountRow, GotoWith
    <2>2. Silent /\ UNCHANGED <<account, owner>>
      BY <1>1 DEF CreateAccountRow
    <2>3. QED BY <2>1, <2>2, GotoStep
  <1>2. CASE NoAccountRow(w)
    BY <1>2, GiveUpStep DEF NoAccountRow
  <1>3. CASE LockActiveAccount(w)
    <2>1. CASE account[job[w].uid] = "active"
      <3> DEFINE pc == IF job[w].op = "delete" THEN "purge" ELSE "look"
      <3>1. /\ job' = [job EXCEPT ![w] = JobAt(pc, job[w].op, job[w].ident, job[w].uid)]
            /\ Silent /\ UNCHANGED <<account, owner>>
        BY <1>3, <2>1 DEF LockActiveAccount, Goto
      <3>2. pc # "check"
        OBVIOUS
      <3> HIDE DEF pc
      <3>3. QED BY <3>1, <3>2, GotoStep
    <2>2. CASE account[job[w].uid] # "active"
      BY <1>3, <2>2, GiveUpStep DEF LockActiveAccount
    <2>3. QED BY <2>1, <2>2
  <1>4. CASE BindLook(w)
    <2>1. \/ GiveUp(w)
          \/ /\ job' = [job EXCEPT ![w] = JobAt("insert", job[w].op, job[w].ident, job[w].uid)]
             /\ Silent /\ UNCHANGED <<account, owner>>
      BY <1>4 DEF BindLook, Goto
    <2>2. QED BY <2>1, GotoStep, GiveUpStep
  <1>5. CASE UnbindLook(w)
    <2>1. \/ GiveUp(w)
          \/ /\ job' = [job EXCEPT ![w] = JobAt("delete", job[w].op, job[w].ident, job[w].uid)]
             /\ Silent /\ UNCHANGED <<account, owner>>
      BY <1>5 DEF UnbindLook, Goto
    <2>2. QED BY <2>1, GotoStep, GiveUpStep
  <1>6. CASE InsertIdentity(w)
    <2>1. \/ GiveUp(w)
          \/ /\ job' = [job EXCEPT ![w] = JobAt("commit", job[w].op, job[w].ident, job[w].uid)]
             /\ Silent /\ UNCHANGED <<account, owner>>
          \/ /\ job' = [job EXCEPT ![w] = JobAt("refind", job[w].op, job[w].ident, NoUid)]
             /\ Silent /\ UNCHANGED <<account, owner>>
      BY <1>6 DEF InsertIdentity, Goto, GotoWith
    <2>2. QED BY <2>1, GotoStep, GiveUpStep
  <1>7. CASE DeleteIdentities(w)
    <2>1. /\ job' = [job EXCEPT ![w] = JobAt("commit", job[w].op, job[w].ident, job[w].uid)]
          /\ Silent /\ UNCHANGED <<account, owner>>
      BY <1>7 DEF DeleteIdentities, Goto
    <2>2. QED BY <2>1, GotoStep
  <1>8. QED BY <1>1, <1>2, <1>3, <1>4, <1>5, <1>6, <1>7

\* Every step of the requests is a step of the directory.
LEMMA NextIsStep ==
  DirectoryInv /\ [Next]_vars =>
      [Directory!Next]_<<account, owner, Found, reply>>
  <1>1. SUFFICES ASSUME DirectoryInv, [Next]_vars
                 PROVE  Directory!Next \/ UNCHANGED <<account, owner, Found, reply>>
    OBVIOUS
  <1>2. CASE UNCHANGED vars
    BY <1>2 DEF vars, Found, Finding
  <1>3. ASSUME NEW w \in Workers, Statement(w)
        PROVE  Directory!Next
    BY <1>1, <1>3, FindStep, CheckStep, CommitIsStep, QuietStatement, Zenon DEF Statement
  <1>4. ASSUME NEW w \in Workers, Start(w)
        PROVE  Directory!Next
    BY <1>1, <1>4, GotoStep DEF Start, StartLogin, StartChange
  <1>5. ASSUME NEW w \in Workers, Fail(w)
        PROVE  Directory!Next
    BY <1>1, <1>5, GiveUpStep DEF Fail
  <1>6. QED BY <1>1, <1>2, <1>3, <1>4, <1>5 DEF Next

\* The requests of the login store implement the directory: registration,
\* login, bind, unbind and deletion are atomic.
THEOREM Implementation == Spec => ImplementsDirectory
  <1>1. Init => Directory!Init
    <2>1. SUFFICES ASSUME Init PROVE Directory!Init
      OBVIOUS
    <2>2. \A w \in Workers : job[w].pc # "check"
      BY <2>1 DEF Init, NoJob, JobAt
    <2>3. Finding = {}
      BY <2>2, Zenon DEF Finding
    <2>4. {<<job[w].ident, job[w].uid>> : w \in Finding} = {}
      BY <2>3, Zenon
    <2>5. QED BY <2>1, <2>4, Zenon DEF Init, Directory!Init
  <1>2. DirectoryInv /\ [Next]_vars =>
          [Directory!Next]_<<account, owner, {<<job[w].ident, job[w].uid>> : w \in Finding}, reply>>
    BY NextIsStep DEF Found
  <1>3. QED BY <1>1, <1>2, DirectoryInvHolds, PTL DEF Spec, ImplementsDirectory, Directory!Spec

=============================================================================
