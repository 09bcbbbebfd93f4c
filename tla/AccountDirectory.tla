-------------------------- MODULE AccountDirectory --------------------------
(***************************************************************************)
(* What the login store promises: accounts and the third-party identities  *)
(* bound to them change only by these four operations, each of them        *)
(* atomic, whatever requests run at the same time.                         *)
(***************************************************************************)
CONSTANTS Uids, NoUid, Idents, Kind, NoReply

VARIABLES
    account,   \* "none", "active" or "deleted"
    owner,     \* the account an identity is bound to
    found,     \* login records that logins in progress have read
    reply      \* the login that has just succeeded

Owned(u) == {x \in Idents : owner[x] = u}

\* A first login creates the account together with its identity.
Register(x, u) ==
    /\ owner[x] = NoUid /\ account[u] = "none"
    /\ account' = [account EXCEPT ![u] = "active"]
    /\ owner' = [owner EXCEPT ![x] = u]
    /\ reply' \in {NoReply, <<x, u>>}

\* A later login finds an active account that the identity was bound to
\* when the login looked.
Login(x, u) ==
    /\ account[u] = "active" /\ <<x, u>> \in found
    /\ reply' = <<x, u>>
    /\ UNCHANGED <<account, owner>>

\* An account gets one identity of a kind, which is nobody else's.
Bind(u, x) ==
    /\ account[u] = "active" /\ owner[x] = NoUid
    /\ \A y \in Owned(u) : Kind[y] # Kind[x]
    /\ owner' = [owner EXCEPT ![x] = u]
    /\ reply' = NoReply
    /\ UNCHANGED account

\* The last identity stays.
Unbind(u, x) ==
    /\ account[u] = "active" /\ owner[x] = u
    /\ Owned(u) # {x}
    /\ owner' = [owner EXCEPT ![x] = NoUid]
    /\ reply' = NoReply
    /\ UNCHANGED account

\* The account goes with all of its identities.
Delete(u) ==
    /\ account[u] = "active"
    /\ account' = [account EXCEPT ![u] = "deleted"]
    /\ owner' = [x \in Idents |-> IF owner[x] = u THEN NoUid ELSE owner[x]]
    /\ reply' = NoReply

Work == reply' = NoReply /\ UNCHANGED <<account, owner>>

Init ==
    /\ account = [u \in Uids |-> "none"]
    /\ owner = [x \in Idents |-> NoUid]
    /\ found = {}
    /\ reply = NoReply

\* A login reads the record of its identity, or a login ends.
Look ==
    \/ found' \subseteq found
    \/ \E x \in Idents : owner[x] # NoUid /\ found' \subseteq found \cup {<<x, owner[x]>>}

Next ==
    /\ Look
    /\ \/ Work
       \/ \E u \in Uids :
             \/ Delete(u)
             \/ \E x \in Idents : Register(x, u) \/ Login(x, u) \/ Bind(u, x) \/ Unbind(u, x)

Spec == Init /\ [][Next]_<<account, owner, found, reply>>

=============================================================================
