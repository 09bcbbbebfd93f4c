------------------------------ MODULE Accounts ------------------------------
(***************************************************************************)
(* The account and identity tables and the requests of the login module.   *)
(* Every statement is a step.  account and owner are what is committed; a  *)
(* transaction changes them when it commits, and until then holds the      *)
(* locks of the rows it has written: rowLock is the lock of an account     *)
(* row, keyLock the lock of an entry of the unique index (login_type,      *)
(* app_id, open_id), which makes an insert of the same entry wait.         *)
(*                                                                         *)
(* An identity stands for login type, app id and open id; Kind is its      *)
(* login type and app id.                                                  *)
(***************************************************************************)
EXTENDS Naturals, FiniteSets

CONSTANTS
    Workers,     \* request goroutines, of any number of API nodes
    NoWorker,
    Uids,        \* primary keys of the account table
    NoUid,
    Idents,      \* third-party identities
    NoIdent,
    Kind         \* login type and app id of each identity

ASSUME AccountsAssumption ==
    NoWorker \notin Workers /\ NoUid \notin Uids /\ NoIdent \notin Idents

VARIABLES
    account,   \* "none", "active" or "deleted"
    owner,     \* the uid of an identity row, NoUid if there is no row
    used,      \* uids the auto-increment has given out
    rowLock,   \* the transaction that has locked an account row
    keyLock,   \* the transaction that has inserted or deleted an identity
    job,       \* what each goroutine is doing
    reply      \* the identity and uid of the login that the last step answered

vars == <<account, owner, used, rowLock, keyLock, job, reply>>

NoReply == <<NoIdent, NoUid>>

Job ==
    [pc    : {"idle", "find", "check", "create", "insert", "refind",
              "lock", "look", "delete", "purge", "commit"},
     op    : {"none", "login", "bind", "unbind", "delete"},
     ident : Idents \cup {NoIdent},
     uid   : Uids \cup {NoUid}]

JobAt(pc, op, x, u) == [pc |-> pc, op |-> op, ident |-> x, uid |-> u]

NoJob == JobAt("idle", "none", NoIdent, NoUid)

Init ==
    /\ account = [u \in Uids |-> "none"]
    /\ owner = [x \in Idents |-> NoUid]
    /\ used = {}
    /\ rowLock = [u \in Uids |-> NoWorker]
    /\ keyLock = [x \in Idents |-> NoWorker]
    /\ job = [w \in Workers |-> NoJob]
    /\ reply = NoReply

-----------------------------------------------------------------------------
(* Helpers *)

Silent == reply' = NoReply

Goto(w, pc) ==
    job' = [job EXCEPT ![w] = JobAt(pc, job[w].op, job[w].ident, job[w].uid)]

GotoWith(w, pc, u) ==
    job' = [job EXCEPT ![w] = JobAt(pc, job[w].op, job[w].ident, u)]

\* The entries of the unique index stay locked.
ReleaseRows(w) ==
    /\ rowLock' = [u \in Uids |-> IF rowLock[u] = w THEN NoWorker ELSE rowLock[u]]
    /\ UNCHANGED keyLock

\* What transaction w had locked.
Release(w) ==
    /\ rowLock' = [u \in Uids |-> IF rowLock[u] = w THEN NoWorker ELSE rowLock[u]]
    /\ keyLock' = [x \in Idents |-> IF keyLock[x] = w THEN NoWorker ELSE keyLock[x]]

Return(w) == Release(w) /\ job' = [job EXCEPT ![w] = NoJob]

\* The request ends with an error, or with nothing to do.
GiveUp(w) == Return(w) /\ Silent /\ UNCHANGED <<account, owner, used>>

Owned(u) == {x \in Idents : owner[x] = u}

\* Another identity of the same login type and app is bound to u.
AlreadyBound(u, x) == \E y \in Owned(u) : Kind[y] = Kind[x]

-----------------------------------------------------------------------------
(* Requests *)

StartLogin(w, x) ==
    /\ job[w].pc = "idle"
    /\ job' = [job EXCEPT ![w] = JobAt("find", "login", x, NoUid)]
    /\ Silent
    /\ UNCHANGED <<account, owner, used, rowLock, keyLock>>

\* The uid comes from an access token, which a login has issued.
StartChange(w, op, x, u) ==
    /\ job[w].pc = "idle"
    /\ account[u] # "none"
    /\ job' = [job EXCEPT ![w] = JobAt("lock", op, x, u)]
    /\ Silent
    /\ UNCHANGED <<account, owner, used, rowLock, keyLock>>

-----------------------------------------------------------------------------
(* FindOrCreateAccount *)

\* FindLoginRecord, the first time or after the unique index has refused.
FindLoginRecord(w) ==
    /\ job[w].pc \in {"find", "refind"}
    /\ LET u == owner[job[w].ident] IN
       IF u = NoUid /\ job[w].pc = "refind"
       THEN GiveUp(w)
       ELSE /\ IF u = NoUid THEN Goto(w, "create") ELSE GotoWith(w, "check", u)
            /\ Silent
            /\ UNCHANGED <<account, owner, used, rowLock, keyLock>>

\* A login record is enough.
AnyAccount(w) ==
    /\ job[w].pc = "check"
    /\ Return(w)
    /\ reply' = <<job[w].ident, job[w].uid>>
    /\ UNCHANGED <<account, owner, used>>

\* checkAccount, and the answer of Login.
CheckAccount(w) ==
    /\ job[w].pc = "check"
    /\ Return(w)
    /\ reply' = IF account[job[w].uid] = "active" THEN <<job[w].ident, job[w].uid>> ELSE NoReply
    /\ UNCHANGED <<account, owner, used>>

\* createAccount inserts the account row, which nobody sees yet.
CreateAccountRow(w) ==
    /\ job[w].pc = "create"
    /\ \E u \in Uids \ used :
          /\ used' = used \cup {u}
          /\ GotoWith(w, "insert", u)
    /\ Silent
    /\ UNCHANGED <<account, owner, rowLock, keyLock>>

\* The auto-increment has run out and the insert fails.
NoAccountRow(w) ==
    /\ job[w].pc = "create"
    /\ used = Uids
    /\ GiveUp(w)

-----------------------------------------------------------------------------
(* BindIdentity, UnbindIdentity, DeleteAccount *)

\* A plain SELECT does not wait.
NoForUpdate(u) == TRUE

\* FOR UPDATE, or an UPDATE, waits for the transaction that holds the row.
RowFree(u) == rowLock[u] = NoWorker

\* lockActiveAccount, and the UPDATE of DeleteAccount, which locks the row if
\* the account is not deleted.
LockActiveAccount(w) ==
    /\ job[w].pc = "lock"
    /\ RowFree(job[w].uid)
    /\ IF account[job[w].uid] = "active"
       THEN /\ Goto(w, IF job[w].op = "delete" THEN "purge" ELSE "look")
            /\ rowLock' = [rowLock EXCEPT ![job[w].uid] = w]
            /\ Silent
            /\ UNCHANGED <<account, owner, used, keyLock>>
       ELSE GiveUp(w)

\* The two queries of BindIdentity, on one snapshot.
BindLook(w) ==
    /\ job[w].pc = "look" /\ job[w].op = "bind"
    /\ IF owner[job[w].ident] # NoUid \/ AlreadyBound(job[w].uid, job[w].ident)
       THEN GiveUp(w)
       ELSE /\ Goto(w, "insert")
            /\ Silent
            /\ UNCHANGED <<account, owner, used, rowLock, keyLock>>

\* UnbindIdentity needs the identity to be bound and not to be the last one.
Unbindable(u, x) == owner[x] = u /\ Cardinality(Owned(u)) > 1

UnbindLook(w) ==
    /\ job[w].pc = "look" /\ job[w].op = "unbind"
    /\ IF Unbindable(job[w].uid, job[w].ident)
       THEN /\ Goto(w, "delete")
            /\ Silent
            /\ UNCHANGED <<account, owner, used, rowLock, keyLock>>
       ELSE GiveUp(w)

\* The identity insert of createAccount and BindIdentity: it waits for a
\* transaction that has written the same entry, then one of the two unique
\* indexes may refuse it.
InsertIdentity(w) ==
    /\ job[w].pc = "insert"
    /\ keyLock[job[w].ident] = NoWorker
    /\ IF owner[job[w].ident] = NoUid /\ ~AlreadyBound(job[w].uid, job[w].ident)
       THEN /\ Goto(w, "commit")
            /\ keyLock' = [keyLock EXCEPT ![job[w].ident] = w]
            /\ Silent
            /\ UNCHANGED <<account, owner, used, rowLock>>
       ELSE IF job[w].op = "login"
       THEN /\ GotoWith(w, "refind", NoUid)
            /\ Release(w)
            /\ Silent
            /\ UNCHANGED <<account, owner, used>>
       ELSE GiveUp(w)

\* The identities a transaction deletes.
Deleted(j) == IF j.op = "delete" THEN Owned(j.uid) ELSE {j.ident}

\* The DELETE of UnbindIdentity and of DeleteAccount.
DeleteIdentities(w) ==
    /\ job[w].pc \in {"delete", "purge"}
    /\ \A x \in Deleted(job[w]) : keyLock[x] = NoWorker
    /\ Goto(w, "commit")
    /\ keyLock' = [x \in Idents |-> IF x \in Deleted(job[w]) THEN w ELSE keyLock[x]]
    /\ Silent
    /\ UNCHANGED <<account, owner, used, rowLock>>

-----------------------------------------------------------------------------
(* The end of a transaction *)

Bind(x, u) == owner' = [owner EXCEPT ![x] = u]

Status(u, s) == account' = [account EXCEPT ![u] = s]

\* Commit; the answer to a login may be lost.
CommitLogin(w) ==
    /\ job[w].pc = "commit" /\ job[w].op = "login"
    /\ Status(job[w].uid, "active") /\ Bind(job[w].ident, job[w].uid)
    /\ Return(w)
    /\ reply' \in {NoReply, <<job[w].ident, job[w].uid>>}
    /\ UNCHANGED used

CommitBind(w) ==
    /\ job[w].pc = "commit" /\ job[w].op = "bind"
    /\ Bind(job[w].ident, job[w].uid)
    /\ Return(w) /\ Silent
    /\ UNCHANGED <<account, used>>

CommitUnbind(w) ==
    /\ job[w].pc = "commit" /\ job[w].op = "unbind"
    /\ Bind(job[w].ident, NoUid)
    /\ Return(w) /\ Silent
    /\ UNCHANGED <<account, used>>

\* The account is marked and its identities stay.
MarkDeleted(w) ==
    /\ job[w].pc = "commit" /\ job[w].op = "delete"
    /\ Status(job[w].uid, "deleted")
    /\ Return(w) /\ Silent
    /\ UNCHANGED <<owner, used>>

CommitDelete(w) ==
    /\ job[w].pc = "commit" /\ job[w].op = "delete"
    /\ Status(job[w].uid, "deleted")
    /\ owner' = [x \in Idents |-> IF x \in Owned(job[w].uid) THEN NoUid ELSE owner[x]]
    /\ Return(w) /\ Silent
    /\ UNCHANGED used

\* A statement fails, MySQL breaks a deadlock or the process dies.
Fail(w) == job[w].pc # "idle" /\ GiveUp(w)

Statement(w) ==
    \/ FindLoginRecord(w) \/ CheckAccount(w) \/ CreateAccountRow(w)
    \/ NoAccountRow(w)
    \/ LockActiveAccount(w) \/ BindLook(w) \/ UnbindLook(w)
    \/ InsertIdentity(w) \/ DeleteIdentities(w)
    \/ CommitLogin(w) \/ CommitBind(w) \/ CommitUnbind(w) \/ CommitDelete(w)

Start(w) ==
    \/ \E x \in Idents : StartLogin(w, x)
    \/ \E x \in Idents, u \in Uids :
          StartChange(w, "bind", x, u) \/ StartChange(w, "unbind", x, u)
    \/ \E u \in Uids : StartChange(w, "delete", NoIdent, u)

Next == \E w \in Workers : Statement(w) \/ Start(w) \/ Fail(w)

Spec == Init /\ [][Next]_vars

\* A request runs on; MySQL grants a lock to those who wait in their order.
Fairness == \A w \in Workers : SF_vars(Statement(w))

FairSpec == Spec /\ Fairness

=============================================================================
