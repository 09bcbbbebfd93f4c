---------------------------- MODULE RewardLedger ----------------------------
(***************************************************************************)
(* What AddItems and RevokeItems promise to the tasks of the payment       *)
(* service: the rewards of an order are given at most once and taken back  *)
(* at most once, only after they were given, and a task is told that it    *)
(* succeeded only when its effect is there.                                *)
(***************************************************************************)
CONSTANTS Orders, NoReply

VARIABLES
    granted,   \* orders whose rewards have been given
    revoked,   \* orders whose rewards have been taken back
    reply      \* the task that has just been told it succeeded

\* The answer may be lost.
Answer(task) == reply' \in {NoReply, task}

Grant(o) ==
    /\ o \notin granted
    /\ granted' = granted \cup {o}
    /\ Answer(<<"grant", o>>)
    /\ UNCHANGED revoked

Revoke(o) ==
    /\ o \in granted /\ o \notin revoked
    /\ revoked' = revoked \cup {o}
    /\ Answer(<<"revoke", o>>)
    /\ UNCHANGED granted

\* A task that runs again changes nothing.
Repeat(o) ==
    /\ \/ o \in granted /\ reply' = <<"grant", o>>
       \/ o \in revoked /\ reply' = <<"revoke", o>>
    /\ UNCHANGED <<granted, revoked>>

\* A step of a transaction, or one that fails.
Work == reply' = NoReply /\ UNCHANGED <<granted, revoked>>

Init == granted = {} /\ revoked = {} /\ reply = NoReply

Next == Work \/ \E o \in Orders : Grant(o) \/ Revoke(o) \/ Repeat(o)

Spec == Init /\ [][Next]_<<granted, revoked, reply>>

=============================================================================
