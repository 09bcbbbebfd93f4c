------------------------------ MODULE Limiter ------------------------------
(***************************************************************************)
(* The rate limiter (pkg/middleware/limit, Limiter) for one key: the       *)
(* requests of one device that are under way at once share a counter in    *)
(* the process-wide cache.  Reading the counter and changing it are two    *)
(* calls, so requests may interleave between them.                         *)
(*                                                                         *)
(* The cache (go-cache) is external: an entry lives for Sec ticks from its *)
(* Set, an increment does not prolong it, and an entry that ran out is     *)
(* neither found nor incremented.                                          *)
(***************************************************************************)
EXTENDS Integers, FiniteSets

CONSTANTS Requests,   \* handlers that may run at once
          Limit, Sec,
          NoEntry

ASSUME LimiterAssumption ==
    /\ IsFiniteSet(Requests)
    /\ Limit \in Nat \ {0}
    /\ Sec \in Nat \ {0}
    /\ NoEntry \notin [count : Nat, left : 1 .. Sec]

VARIABLES entry,    \* the counter, and the ticks it has left
          pc,       \* what each handler does next
          passed,   \* history: requests let through since there was no entry
          overlap   \* history: since then, one read while another was deciding

vars == <<entry, pc, passed, overlap>>

Found == entry # NoEntry

\* Handlers between their two calls.
Deciding == {r \in Requests : pc[r] \in {"increment", "set"}}

TypeOK ==
    /\ entry \in [count : Nat, left : 1 .. Sec] \cup {NoEntry}
    /\ pc \in [Requests -> {"new", "increment", "set", "passed", "refused"}]
    /\ passed \in Nat
    /\ overlap \in BOOLEAN

Init ==
    /\ entry = NoEntry
    /\ pc = [r \in Requests |-> "new"]
    /\ passed = 0
    /\ overlap = FALSE

\* The next request of the device.
Arrive(r) ==
    /\ pc[r] \in {"passed", "refused"}
    /\ pc' = [pc EXCEPT ![r] = "new"]
    /\ UNCHANGED <<entry, passed, overlap>>

\* What the handler does about the counter it read.
LenientVerdict ==
    IF ~Found THEN "set" ELSE IF entry.count > Limit THEN "refused" ELSE "increment"

Verdict ==
    IF ~Found THEN "set" ELSE IF entry.count >= Limit THEN "refused" ELSE "increment"

\* A sliding window: refused requests keep the entry alive.
GetProlongs(r) ==
    /\ pc[r] = "new"
    /\ pc' = [pc EXCEPT ![r] = Verdict]
    /\ overlap' = (overlap \/ (Deciding # {} /\ Verdict # "refused"))
    /\ entry' = IF Found THEN [entry EXCEPT !.left = Sec] ELSE entry
    /\ UNCHANGED passed

\* cc.Get(key)
Get(r) ==
    /\ pc[r] = "new"
    /\ pc' = [pc EXCEPT ![r] = Verdict]
    /\ overlap' = (overlap \/ (Deciding # {} /\ Verdict # "refused"))
    /\ UNCHANGED <<entry, passed>>

\* c.Next()
Pass(r) ==
    /\ pc' = [pc EXCEPT ![r] = "passed"]
    /\ passed' = passed + 1

\* cc.IncrementInt32(key, 1)
Increment(r) ==
    /\ pc[r] = "increment" /\ Found
    /\ entry' = [entry EXCEPT !.count = @ + 1]
    /\ Pass(r)
    /\ UNCHANGED overlap

\* The entry ran out between the two calls: the request is refused.
IncrementFails(r) ==
    /\ pc[r] = "increment" /\ ~Found
    /\ pc' = [pc EXCEPT ![r] = "refused"]
    /\ UNCHANGED <<entry, passed, overlap>>

\* cc.Set(key, 1, sec)
Set(r) ==
    /\ pc[r] = "set"
    /\ entry' = [count |-> 1, left |-> Sec]
    /\ Pass(r)
    /\ UNCHANGED overlap

\* Without an entry the count of passed requests starts over.
StartOver ==
    /\ passed' = 0
    /\ overlap' = (\E r, s \in Deciding : r # s)

\* A second passes (external: the clock and the expiry of the cache).
Tick ==
    /\ Found
    /\ IF entry.left = 1
       THEN entry' = NoEntry /\ StartOver
       ELSE entry' = [entry EXCEPT !.left = @ - 1] /\ UNCHANGED <<passed, overlap>>
    /\ UNCHANGED pc

Handle(r) == Get(r) \/ Increment(r) \/ IncrementFails(r) \/ Set(r)

Next ==
    \/ \E r \in Requests : Arrive(r) \/ Handle(r)
    \/ Tick

\* Handlers run on, the device asks again, and time passes.
Spec ==
    /\ Init /\ [][Next]_vars
    /\ WF_vars(Tick)
    /\ \A r \in Requests : WF_vars(Arrive(r)) /\ WF_vars(Handle(r))

-----------------------------------------------------------------------------
\* What Limiter's comment promises ("限制每sec秒，执行limitType类型的请求不超过limit次",
\* no more than limit requests in sec seconds), where it holds: as long as no
\* request read the counter between the two calls of another one, no more than
\* Limit pass before the entry runs out, however requests, expiry and failed
\* increments follow each other.
LimitKept == ~overlap => passed <= Limit

\* Requests that do overlap pass the limit together, and one that found no
\* entry starts the counter over although others have counted on it since.  The
\* damage is bounded by the number n of requests under way: each of them starts
\* the counter over at most once, and then Limit requests pass, and those that
\* had read a counter below Limit at the same time.
Overshoot ==
    LET n == Cardinality(Requests)
    IN  passed <= n * Limit + (n * (n - 1)) \div 2

\* A device that keeps asking passes again and again: neither its refused
\* requests nor its increments keep the entry alive.
NotLockedOut == []<><<\E r \in Requests : Increment(r) \/ Set(r)>>_vars

=============================================================================
