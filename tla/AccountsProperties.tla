------------------------- MODULE AccountsProperties -------------------------
(***************************************************************************)
(* What must hold of the account and identity tables, and of the requests  *)
(* at work on them.                                                        *)
(***************************************************************************)
EXTENDS Accounts

TypeOK ==
    /\ account \in [Uids -> {"none", "active", "deleted"}]
    /\ owner \in [Idents -> Uids \cup {NoUid}]
    /\ used \subseteq Uids
    /\ rowLock \in [Uids -> Workers \cup {NoWorker}]
    /\ keyLock \in [Idents -> Workers \cup {NoWorker}]
    /\ job \in [Workers -> Job]
    /\ reply \in (Idents \cup {NoIdent}) \X (Uids \cup {NoUid})

-----------------------------------------------------------------------------
(* What a transaction knows of the rows it has read and locked *)

\* createAccount: the new account row is invisible, and its own.
Registering(w) ==
    job[w].op = "login" /\ job[w].pc \in {"insert", "commit"} =>
        /\ job[w].uid \in used
        /\ account[job[w].uid] = "none"
        /\ \A v \in Workers :
              job[v].op = "login" /\ job[v].pc \in {"insert", "commit"} /\ v # w
                  => job[v].uid # job[w].uid

\* lockActiveAccount: the account is locked by w and active until w ends.
Changing(w) ==
    job[w].op \in {"bind", "unbind", "delete"} /\ job[w].pc # "lock" =>
        rowLock[job[w].uid] = w /\ account[job[w].uid] = "active"

Binding(w) ==
    job[w].op = "bind" /\ job[w].pc \in {"insert", "commit"} =>
        ~AlreadyBound(job[w].uid, job[w].ident)

Unbinding(w) ==
    job[w].op = "unbind" /\ job[w].pc \in {"delete", "commit"} =>
        /\ owner[job[w].ident] = job[w].uid
        /\ \E y \in Idents : y # job[w].ident /\ owner[y] = job[w].uid

\* The entries of the unique index that w has written.
Written(w) ==
    job[w].pc = "commit" =>
        /\ job[w].op # "delete" => keyLock[job[w].ident] = w
        /\ job[w].op \in {"login", "bind"} => owner[job[w].ident] = NoUid
        /\ job[w].op = "delete" => \A x \in Owned(job[w].uid) : keyLock[x] = w

\* Which statements belong to which request.
Shape(j) ==
    /\ j.op = "none" <=> j.pc = "idle"
    /\ j.op = "login" => j.pc \in {"find", "check", "create", "insert", "refind", "commit"}
    /\ j.op = "bind" => j.pc \in {"lock", "look", "insert", "commit"}
    /\ j.op = "unbind" => j.pc \in {"lock", "look", "delete", "commit"}
    /\ j.op = "delete" => j.pc \in {"lock", "purge", "commit"}
    /\ j.op \in {"login", "bind", "unbind"} => j.ident \in Idents
    /\ j.op \in {"bind", "unbind", "delete"} => j.uid \in Uids
    /\ j.pc \in {"check", "insert", "commit"} => j.uid \in Uids

\* An identity belongs to an active account, an active account has an
\* identity and none has two of a kind.
Tables ==
    /\ \A x \in Idents : owner[x] # NoUid => account[owner[x]] = "active"
    /\ \A u \in Uids : account[u] = "active" => \E x \in Idents : owner[x] = u
    /\ \A x, y \in Idents :
          owner[x] # NoUid /\ owner[x] = owner[y] /\ Kind[x] = Kind[y] => x = y
    /\ \A u \in Uids : u \notin used => account[u] = "none"

\* The tables agree with each other, and each transaction may still rely on
\* what it has read and locked, whatever others have committed since
\* (store.go: BindIdentity, UnbindIdentity, DeleteAccount, createAccount).
DirectoryInv ==
    /\ TypeOK
    /\ Tables
    /\ \A w \in Workers :
          /\ Shape(job[w])
          /\ Registering(w) /\ Changing(w) /\ Binding(w) /\ Unbinding(w) /\ Written(w)

-----------------------------------------------------------------------------
(* Properties *)

\* An active account can always be logged in to: two requests that each
\* unbind one of two identities do not both succeed (store.go:202 counts
\* under the lock of the account row).
ActiveHasIdentity == \A u \in Uids : account[u] = "active" => Owned(u) # {}

\* BindIdentity tells every refusal by a unique index as "bound to another
\* account" (store.go:161): when the insert is refused, that is the reason,
\* and never that a concurrent request gave the same account an identity.
RefusalIsTrue ==
    \A w \in Workers :
        job[w].op = "bind" /\ job[w].pc = "insert" =>
            /\ owner[job[w].ident] # job[w].uid
            /\ ~AlreadyBound(job[w].uid, job[w].ident)

Finding == {w \in Workers : job[w].pc = "check"}

Directory == INSTANCE AccountDirectory
                 WITH found <- {<<job[w].ident, job[w].uid>> : w \in Finding}

\* Registration, login, bind, unbind and deletion are atomic operations of
\* the directory, however the statements of the requests interleave, fail
\* or lose their answer; a login returns an account that is active at its
\* last statement.
ImplementsDirectory == Directory!Spec

\* Every request ends: the locks of rows and index entries that requests
\* wait for are given back on every path (the rollbacks of store.go).
CallsReturn == \A w \in Workers : job[w].pc # "idle" ~> job[w].pc = "idle"

=============================================================================
