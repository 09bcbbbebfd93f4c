--------------------------- MODULE OrderContract ----------------------------
(***************************************************************************)
(* What the payment service promises about one order, whoever works on it  *)
(* and whatever fails: how the order's phase may move, that it is never    *)
(* marked paid before its grant is in the task queue, that an order marked *)
(* paid is not marked refunded before its revocation is in the queue, and  *)
(* that each of the two is carried out once, the revocation after the      *)
(* grant.                                                                  *)
(* It promises nothing for an order that is declined before it was marked  *)
(* paid: the order is void, whatever became of its grant.  A grant is in   *)
(* the queue before the order is marked, so a void order may have its      *)
(* goods delivered, and no revocation is ever submitted for it.            *)
(***************************************************************************)
CONSTANT Orders

VARIABLES
    phase,   \* "none", "open", "closed" (timed out), "paid", "refunded",
             \* "void" (declined before it was marked paid)
    grant,   \* "none", "submitted", "done"
    revoke   \* "none", "submitted", "done"

cvars == <<phase, grant, revoke>>

Init ==
    /\ phase = [o \in Orders |-> "none"]
    /\ grant = [o \in Orders |-> "none"]
    /\ revoke = [o \in Orders |-> "none"]

Move(o, from, to) ==
    /\ phase[o] \in from
    /\ phase' = [phase EXCEPT ![o] = to]
    /\ UNCHANGED <<grant, revoke>>

Open(o) == Move(o, {"none"}, "open")

Close(o) == Move(o, {"open"}, "closed")

\* Declined before it was marked paid; a grant that was submitted stands.
Void(o) == Move(o, {"open"}, "void")

Pay(o) == grant[o] # "none" /\ Move(o, {"open", "closed"}, "paid")

Refund(o) == revoke[o] # "none" /\ Move(o, {"paid"}, "refunded")

SubmitGrant(o) ==
    /\ phase[o] # "none" /\ grant[o] = "none"
    /\ grant' = [grant EXCEPT ![o] = "submitted"]
    /\ UNCHANGED <<phase, revoke>>

SubmitRevoke(o) ==
    /\ phase[o] = "paid" /\ revoke[o] = "none"
    /\ revoke' = [revoke EXCEPT ![o] = "submitted"]
    /\ UNCHANGED <<phase, grant>>

Deliver(o) ==
    /\ grant[o] = "submitted"
    /\ grant' = [grant EXCEPT ![o] = "done"]
    /\ UNCHANGED <<phase, revoke>>

TakeBack(o) ==
    /\ revoke[o] = "submitted" /\ grant[o] = "done"
    /\ revoke' = [revoke EXCEPT ![o] = "done"]
    /\ UNCHANGED <<phase, grant>>

Next ==
    \E o \in Orders :
        \/ Open(o) \/ Close(o) \/ Void(o) \/ Pay(o) \/ Refund(o)
        \/ SubmitGrant(o) \/ SubmitRevoke(o) \/ Deliver(o) \/ TakeBack(o)

Spec == Init /\ [][Next]_cvars

=============================================================================
