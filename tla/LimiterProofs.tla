---------------------------- MODULE LimiterProofs ----------------------------
(***************************************************************************)
(* The limiter keeps its limit for every Limit, Sec and set of requests,   *)
(* as long as requests do not read the counter between the two calls of    *)
(* another one; those that do exceed it by a bounded number.               *)
(***************************************************************************)
EXTENDS Limiter, FiniteSetTheorems, TLAPS

\* While nothing has overlapped at most one handler is between its two calls;
\* the one that is about to set found no entry and there is still none, the one
\* that is about to increment read a counter that still has room, and the
\* counter is the number of requests that passed.
Apart ==
    /\ \A r, s \in Requests : r \in Deciding /\ s \in Deciding => r = s
    /\ \A r \in Requests : pc[r] = "set" => ~Found
    /\ Found => entry.count = passed /\ passed <= Limit
    /\ \A r \in Requests : pc[r] = "increment" /\ Found => passed < Limit

LimitInv ==
    /\ TypeOK
    /\ ~Found => passed = 0
    /\ ~overlap => Apart

\* Types (Limiter's handler and go-cache's entries).
LEMMA TypeStep == TypeOK /\ [Next]_vars => TypeOK'
<1> SUFFICES ASSUME TypeOK, [Next]_vars PROVE TypeOK'
  OBVIOUS
<1> USE LimiterAssumption
<1>1. ASSUME NEW r \in Requests, Arrive(r) PROVE TypeOK'
  BY <1>1 DEF Arrive, TypeOK
<1>2. ASSUME NEW r \in Requests, Get(r) PROVE TypeOK'
  <2>1. Verdict \in {"set", "refused", "increment"}
    BY DEF Verdict
  <2>2. overlap' \in BOOLEAN
    BY <1>2, Zenon DEF Get, TypeOK
  <2> QED
    BY <1>2, <2>1, <2>2 DEF Get, TypeOK
<1>3. ASSUME NEW r \in Requests, Increment(r) PROVE TypeOK'
  <2>1. entry \in [count : Nat, left : 1 .. Sec]
    BY <1>3 DEF Increment, Found, TypeOK
  <2>2. entry' \in [count : Nat, left : 1 .. Sec]
    BY <1>3, <2>1 DEF Increment
  <2> QED
    BY <1>3, <2>2 DEF Increment, Pass, TypeOK
<1>4. ASSUME NEW r \in Requests, IncrementFails(r) PROVE TypeOK'
  BY <1>4 DEF IncrementFails, TypeOK
<1>5. ASSUME NEW r \in Requests, Set(r) PROVE TypeOK'
  BY <1>5 DEF Set, Pass, TypeOK
<1>6. CASE Tick
  <2>1. entry \in [count : Nat, left : 1 .. Sec]
    BY <1>6 DEF Tick, Found, TypeOK
  <2>2. CASE entry.left = 1
    <3>1. overlap' \in BOOLEAN
      BY <1>6, <2>2, Zenon DEF Tick, StartOver
    <3> QED
      BY <1>6, <2>2, <3>1 DEF Tick, StartOver, TypeOK
  <2>3. CASE entry.left # 1
    <3>1. entry' \in [count : Nat, left : 1 .. Sec]
      BY <1>6, <2>1, <2>3 DEF Tick
    <3> QED
      BY <1>6, <2>3, <3>1 DEF Tick, TypeOK
  <2> QED
    BY <2>2, <2>3, Zenon
<1>7. CASE UNCHANGED vars
  BY <1>7 DEF vars, TypeOK
<1> QED
  BY <1>1, <1>2, <1>3, <1>4, <1>5, <1>6, <1>7 DEF Next, Handle

\* A read that does not fall between the two calls of another request leaves
\* requests apart (cc.Get in Limiter).
LEMMA GetApart ==
    ASSUME LimitInv, NEW r \in Requests, Get(r), ~overlap'
    PROVE  Apart'
<1>1. /\ pc[r] = "new" /\ ~overlap /\ Apart /\ TypeOK
      /\ pc' = [pc EXCEPT ![r] = Verdict] /\ entry' = entry /\ passed' = passed
      /\ Deciding = {} \/ Verdict = "refused"
  BY DEF Get, LimitInv
<1>2. pc'[r] = Verdict /\ \A s \in Requests : s # r => pc'[s] = pc[s]
  BY <1>1 DEF TypeOK
<1>3. CASE Verdict = "refused"
  BY <1>1, <1>2, <1>3 DEF Apart, Deciding, Found
<1>4. CASE Deciding = {}
  <2>1. \A s \in Requests : s # r => pc'[s] \notin {"increment", "set"}
    BY <1>2, <1>4 DEF Deciding
  <2>2. pc'[r] = "set" => ~Found
    BY <1>2 DEF Verdict
  <2>3. pc'[r] = "increment" /\ Found => passed < Limit
    <3>1. SUFFICES ASSUME pc'[r] = "increment", Found PROVE passed < Limit
      OBVIOUS
    <3>2. entry.count = passed /\ entry \in [count : Nat, left : 1 .. Sec]
      BY <1>1, <3>1 DEF Apart, Found, TypeOK
    <3> QED
      BY <1>2, <3>1, <3>2, LimiterAssumption DEF Verdict
  <2> QED
    BY <1>1, <2>1, <2>2, <2>3 DEF Apart, Deciding, Found
<1> QED
  BY <1>1, <1>3, <1>4

\* A request that passes was the only one deciding (IncrementInt32 and Set).
LEMMA PassApart ==
    ASSUME LimitInv, NEW r \in Requests, Increment(r) \/ Set(r)
    PROVE  /\ Found'
           /\ ~overlap' => Apart'
<1>1. TypeOK /\ passed \in Nat /\ (~Found => passed = 0) /\ overlap' = overlap
  BY DEF LimitInv, TypeOK, Increment, Set
<1>2. /\ pc[r] \in {"increment", "set"} /\ pc' = [pc EXCEPT ![r] = "passed"]
      /\ passed' = passed + 1
  BY DEF Increment, Set, Pass
<1>3. Found' /\ (~overlap => entry'.count = passed' /\ passed' <= Limit)
  <2>1. CASE Increment(r)
    <3>1. entry \in [count : Nat, left : 1 .. Sec] /\ pc[r] = "increment" /\ Found
      BY <1>1, <2>1 DEF Increment, Found, TypeOK
    <3>2. entry' \in [count : Nat, left : 1 .. Sec] /\ entry'.count = entry.count + 1
      BY <2>1, <3>1 DEF Increment
    <3>3. Found'
      BY <3>2, LimiterAssumption DEF Found
    <3>4. ~overlap => entry.count = passed /\ passed < Limit
      BY <3>1, Zenon DEF LimitInv, Apart
    <3> QED
      BY <1>1, <1>2, <3>2, <3>3, <3>4, LimiterAssumption
  <2>2. CASE Set(r)
    <3>1. entry' = [count |-> 1, left |-> Sec] /\ pc[r] = "set"
      BY <2>2 DEF Set
    <3>2. Found'
      BY <3>1, LimiterAssumption DEF Found
    <3>3. ~overlap => passed = 0
      BY <3>1, Zenon DEF LimitInv, Apart
    <3> QED
      BY <1>2, <3>1, <3>2, <3>3, LimiterAssumption
  <2> QED
    BY <2>1, <2>2
<1>4. ASSUME ~overlap, NEW s \in Requests PROVE pc'[s] \notin {"increment", "set"}
  <2>1. CASE s = r
    BY <1>1, <1>2, <2>1 DEF TypeOK
  <2>2. CASE s # r
    BY <1>1, <1>2, <1>4, <2>2 DEF TypeOK, LimitInv, Apart, Deciding
  <2> QED
    BY <2>1, <2>2
<1> QED
  BY <1>1, <1>3, <1>4 DEF Apart, Deciding

\* Every step keeps the invariant.
LEMMA LimitInvStep == LimitInv /\ [Next]_vars => LimitInv'
<1> SUFFICES ASSUME LimitInv, [Next]_vars PROVE LimitInv'
  OBVIOUS
<1>1. TypeOK /\ TypeOK'
  BY TypeStep DEF LimitInv
<1>2. ASSUME NEW r \in Requests, Arrive(r) PROVE LimitInv'
  BY <1>1, <1>2 DEF Arrive, LimitInv, Apart, Deciding, Found, TypeOK
<1>3. ASSUME NEW r \in Requests, Get(r) PROVE LimitInv'
  <2>1. ~Found' => passed' = 0
    BY <1>3 DEF Get, LimitInv, Found
  <2> QED
    BY <1>1, <1>3, <2>1, GetApart DEF LimitInv
<1>4. ASSUME NEW r \in Requests, Increment(r) \/ Set(r) PROVE LimitInv'
  BY <1>1, <1>4, PassApart DEF LimitInv
<1>5. ASSUME NEW r \in Requests, IncrementFails(r) PROVE LimitInv'
  BY <1>1, <1>5 DEF IncrementFails, LimitInv, Apart, Deciding, Found, TypeOK
<1>6. CASE Tick
  <2>1. CASE entry.left = 1
    <3>1. entry' = NoEntry /\ passed' = 0 /\ pc' = pc /\ Deciding' = Deciding
      BY <1>6, <2>1 DEF Tick, StartOver, Deciding
    <3>2. ~overlap' => \A r, s \in Requests : r \in Deciding /\ s \in Deciding => r = s
      BY <1>6, <2>1, Zenon DEF Tick, StartOver
    <3> QED
      BY <1>1, <3>1, <3>2 DEF LimitInv, Apart, Found
  <2>2. CASE entry.left # 1
    <3>1. /\ entry' = [entry EXCEPT !.left = @ - 1]
          /\ pc' = pc /\ passed' = passed /\ overlap' = overlap /\ Found
      BY <1>6, <2>2 DEF Tick
    <3>2. entry \in [count : Nat, left : 1 .. Sec]
      BY <1>1, <3>1 DEF TypeOK, Found
    <3>3. entry'.count = entry.count /\ entry' \in [count : Nat, left : 1 .. Sec]
      BY <2>2, <3>1, <3>2, LimiterAssumption
    <3>4. Found'
      BY <3>3, LimiterAssumption DEF Found
    <3> QED
      BY <1>1, <3>1, <3>3, <3>4 DEF LimitInv, Apart, Deciding
  <2> QED
    BY <2>1, <2>2
<1>7. CASE UNCHANGED vars
  BY <1>1, <1>7 DEF vars, LimitInv, Apart, Deciding, Found
<1> QED
  BY <1>2, <1>3, <1>4, <1>5, <1>6, <1>7 DEF Next, Handle

\* Limiter lets no more than Limit requests pass before the entry runs out, if
\* none reads the counter between the two calls of another one.
THEOREM LimitIsKept == Spec => []LimitKept
<1>1. Init => LimitInv
  <2> SUFFICES ASSUME Init PROVE LimitInv
    OBVIOUS
  <2>1. ~Found /\ passed = 0 /\ \A r \in Requests : pc[r] = "new"
    BY DEF Init, Found
  <2>2. TypeOK
    BY DEF Init, TypeOK
  <2> QED
    BY <2>1, <2>2 DEF LimitInv, Apart, Deciding
<1>2. LimitInv => LimitKept
  BY LimiterAssumption DEF LimitInv, Apart, LimitKept
<1> QED
  BY <1>1, <1>2, LimitInvStep, PTL DEF Spec

-----------------------------------------------------------------------------
(* Requests that overlap *)

N == Cardinality(Requests)

\* How many handlers are at x.
Count(p, x) == Cardinality({r \in Requests : p[r] = x})

\* Twice what passes when m requests that found no entry set the counter, one
\* after the other: after each Set, Limit requests and those that read the
\* counter below Limit at the same time, among the ones with no Set to make.
Starts(m) == m * (2 * (Limit + N - 1) - (m - 1))

\* How many may pass before the next Set.
Remaining ==
    IF entry.count < Limit THEN Limit - 1 - entry.count + N - Count(pc, "set")
    ELSE Count(pc, "increment")

\* What has passed, what may still pass under the counter as it is, and what may
\* pass after the pending Sets is together within the bound.
Bounded ==
    /\ TypeOK
    /\ ~Found => passed = 0
    /\ Found => 2 * passed + 2 * Remaining + Starts(Count(pc, "set")) <= Starts(N)

\* The handlers of one device, by what they are about to do.
LEMMA Counted ==
    ASSUME NEW p
    PROVE  /\ N \in Nat /\ Count(p, "increment") \in Nat /\ Count(p, "set") \in Nat
           /\ Count(p, "increment") + Count(p, "set") <= N
<1> DEFINE I == {r \in Requests : p[r] = "increment"}
           S == {r \in Requests : p[r] = "set"}
<1>1. I \in SUBSET Requests /\ S \in SUBSET Requests /\ I \cup S \in SUBSET Requests
      /\ I \cap S = {}
  OBVIOUS
<1> HIDE DEF I, S
<1>2. IsFiniteSet(I) /\ IsFiniteSet(S) /\ Cardinality(I \cup S) <= N
  BY <1>1, FS_Subset, LimiterAssumption DEF N
<1>3. Cardinality(I) \in Nat /\ Cardinality(S) \in Nat /\ N \in Nat
  BY <1>2, FS_CardinalityType, LimiterAssumption DEF N
<1>4. Cardinality(I \cup S) = Cardinality(I) + Cardinality(S) - Cardinality(I \cap S)
  BY <1>2, FS_Union
<1>5. Cardinality(I \cap S) = 0
  BY <1>1, FS_EmptySet
<1> QED
  BY <1>2, <1>3, <1>4, <1>5 DEF Count, I, S

\* One handler goes from one point to another.
LEMMA CountMoved ==
    ASSUME TypeOK, NEW r \in Requests, NEW y, pc' = [pc EXCEPT ![r] = y], NEW x, x # y
    PROVE  /\ pc[r] = x => Count(pc', x) = Count(pc, x) - 1
           /\ pc[r] # x => Count(pc', x) = Count(pc, x)
<1> DEFINE S == {s \in Requests : pc[s] = x}
           T == {s \in Requests : pc'[s] = x}
<1>1. IsFiniteSet(S)
  BY FS_Subset, LimiterAssumption
<1>2. T = S \ {r}
  BY DEF TypeOK
<1>3. r \in S <=> pc[r] = x
  OBVIOUS
<1> HIDE DEF S, T
<1> QED
  BY <1>1, <1>2, <1>3, FS_RemoveElement DEF Count, S, T

\* One Set more.
LEMMA StartsNext ==
    ASSUME NEW m \in Nat
    PROVE  Starts(m + 1) = Starts(m) + 2 * (Limit + N - 1) - 2 * m
<1>1. N \in Nat /\ Limit \in Nat
  BY Counted, LimiterAssumption
<1> QED
  BY <1>1 DEF Starts

\* No number of Sets passes more than N of them.
LEMMA StartsBound ==
    ASSUME NEW m \in Nat, m <= N
    PROVE  Starts(m) \in Nat /\ Starts(m) <= Starts(N)
<1>1. N \in Nat /\ Limit \in Nat
  BY Counted, LimiterAssumption
<1>2. Starts(N) - Starts(m) = (N - m) * (2 * Limit + (N - m) - 1)
  BY <1>1 DEF Starts
<1>3. \A x, y \in Nat : x * y \in Nat
  OBVIOUS
<1>4. (N - m) * (2 * Limit + (N - m) - 1) >= 0
  <2>1. CASE N - m = 0
    BY <1>1, <2>1
  <2>2. CASE N - m # 0
    <3>1. N - m \in Nat /\ 2 * Limit + (N - m) - 1 \in Nat
      BY <1>1, <2>2
    <3> QED
      BY <1>3, <3>1
  <2> QED
    BY <2>1, <2>2
<1>5. Starts(m) \in Nat
  <2>1. CASE m = 0
    BY <1>1, <2>1 DEF Starts
  <2>2. CASE m # 0
    <3>1. 2 * (Limit + N - 1) - (m - 1) \in Nat
      BY <1>1, <2>2
    <3> QED
      BY <1>3, <3>1 DEF Starts
  <2> QED
    BY <2>1, <2>2
<1>6. Starts(N) \in Int
  BY <1>1 DEF Starts
<1> QED
  BY <1>1, <1>2, <1>4, <1>5, <1>6

\* IncrementInt32 uses up one of those that could still pass.
LEMMA IncrementBounded ==
    ASSUME Bounded, NEW r \in Requests, Increment(r)
    PROVE  Bounded'
<1> DEFINE a == Count(pc, "increment")
           b == Count(pc, "set")
<1>1. /\ TypeOK /\ Found /\ pc[r] = "increment" /\ pc' = [pc EXCEPT ![r] = "passed"]
      /\ entry' = [entry EXCEPT !.count = @ + 1] /\ passed' = passed + 1
  BY DEF Bounded, Increment, Pass
<1>2. TypeOK'
  BY TypeStep DEF Bounded, Next, Handle
<1>3. entry \in [count : Nat, left : 1 .. Sec] /\ passed \in Nat
  BY <1>1 DEF TypeOK, Found
<1>4. entry'.count = entry.count + 1 /\ entry.count \in Nat /\ Found'
  <2>1. entry' \in [count : Nat, left : 1 .. Sec] /\ entry'.count = entry.count + 1
    BY <1>1, <1>3
  <2> QED
    BY <1>3, <2>1, LimiterAssumption DEF Found
<1>5. Count(pc', "increment") = a - 1 /\ Count(pc', "set") = b
  <2>1. "increment" # "passed" /\ "set" # "passed" /\ "increment" # "set"
    OBVIOUS
  <2> QED
    BY <1>1, <2>1, CountMoved, Zenon
<1>6. N \in Nat /\ a \in Nat /\ b \in Nat /\ a + b <= N /\ Limit \in Nat /\ Starts(b) \in Int
      /\ Starts(N) \in Int
  BY Counted, StartsBound, LimiterAssumption
<1>7. Remaining = (IF entry.count < Limit THEN Limit - 1 - entry.count + N - b ELSE a)
      /\ Remaining' = (IF entry.count + 1 < Limit
                       THEN Limit - 1 - (entry.count + 1) + N - b ELSE a - 1)
  BY <1>4, <1>5 DEF Remaining
<1>8. 2 * passed + 2 * Remaining + Starts(b) <= Starts(N)
  BY <1>1 DEF Bounded
<1>9. Starts(Count(pc, "set"))' = Starts(b) /\ Starts(N)' = Starts(N)
  BY <1>5 DEF Starts, N
<1> HIDE DEF a, b
<1>10. 2 * passed' + 2 * Remaining' + Starts(b) <= Starts(N)
  BY <1>1, <1>3, <1>4, <1>6, <1>7, <1>8
<1> QED
  BY <1>2, <1>4, <1>9, <1>10 DEF Bounded

\* Set makes good what its own start allowed for.
LEMMA SetBounded ==
    ASSUME Bounded, NEW r \in Requests, Set(r)
    PROVE  Bounded'
<1> DEFINE a == Count(pc, "increment")
           b == Count(pc, "set") - 1
<1>1. /\ TypeOK /\ pc[r] = "set" /\ pc' = [pc EXCEPT ![r] = "passed"]
      /\ entry' = [count |-> 1, left |-> Sec] /\ passed' = passed + 1 /\ passed \in Nat
  BY DEF Bounded, Set, Pass, TypeOK
<1>2. TypeOK'
  BY TypeStep DEF Bounded, Next, Handle
<1>3. Found' /\ entry'.count = 1
  BY <1>1, LimiterAssumption DEF Found
<1>4. Count(pc', "increment") = a /\ Count(pc', "set") = b
  <2>1. "increment" # "passed" /\ "set" # "passed" /\ "increment" # "set"
    OBVIOUS
  <2> QED
    BY <1>1, <2>1, CountMoved, Zenon
<1>5. N \in Nat /\ a \in Nat /\ b \in Nat /\ a + b + 1 <= N /\ Limit \in Nat \ {0}
      /\ Count(pc, "set") = b + 1
  BY <1>4, Counted, LimiterAssumption
<1>6. Starts(b) \in Int /\ Starts(N) \in Int /\ Starts(b + 1) \in Int
      /\ Starts(b + 1) <= Starts(N) /\ Starts(b + 1) = Starts(b) + 2 * (Limit + N - 1) - 2 * b
  BY <1>5, StartsBound, StartsNext
<1>7. Remaining' = IF 1 < Limit THEN Limit - 1 - 1 + N - b ELSE a
  BY <1>3, <1>4 DEF Remaining
<1>8. 2 * passed + Starts(b + 1) <= Starts(N)
  <2>1. CASE ~Found
    BY <1>6, <2>1 DEF Bounded
  <2>2. CASE Found
    <3>1. entry.count \in Nat
      BY <1>1, <2>2 DEF TypeOK, Found
    <3>2. Remaining = IF entry.count < Limit THEN Limit - 1 - entry.count + N - (b + 1) ELSE a
      BY <1>5 DEF Remaining
    <3>3. 2 * passed + 2 * Remaining + Starts(b + 1) <= Starts(N)
      BY <1>5, <2>2 DEF Bounded
    <3> HIDE DEF a, b
    <3>4. Remaining \in Nat
      BY <1>5, <3>1, <3>2
    <3> QED
      BY <1>1, <1>6, <3>3, <3>4
  <2> QED
    BY <2>1, <2>2
<1>9. Starts(Count(pc, "set"))' = Starts(b) /\ Starts(N)' = Starts(N)
  BY <1>4 DEF Starts, N
<1> HIDE DEF a, b
<1>10. 2 * passed' + 2 * Remaining' + Starts(b) <= Starts(N)
  BY <1>1, <1>5, <1>6, <1>7, <1>8
<1> QED
  BY <1>2, <1>3, <1>9, <1>10 DEF Bounded

\* The steps that leave the counter and the count of passed requests alone, and
\* with an entry the requests that have to set it.
LEMMA StillBounded ==
    ASSUME Bounded, TypeOK', passed' = passed, Found' <=> Found,
           Found => /\ entry'.count = entry.count /\ Count(pc', "set") = Count(pc, "set")
                    /\ entry.count >= Limit =>
                          Count(pc', "increment") = Count(pc, "increment")
    PROVE  Bounded'
<1>1. CASE ~Found
  BY <1>1 DEF Bounded
<1>2. CASE Found
  <2>1. entry.count \in Nat /\ Limit \in Nat
    BY <1>2, LimiterAssumption DEF Bounded, TypeOK, Found
  <2>2. Remaining' = Remaining /\ Starts(Count(pc, "set"))' = Starts(Count(pc, "set"))
        /\ Starts(N)' = Starts(N)
    BY <1>2, <2>1 DEF Remaining, Starts, N
  <2> QED
    BY <1>2, <2>2 DEF Bounded
<1> QED
  BY <1>1, <1>2

\* Every step keeps what may pass within the bound.
LEMMA BoundedStep == Bounded /\ [Next]_vars => Bounded'
<1> SUFFICES ASSUME Bounded, [Next]_vars PROVE Bounded'
  OBVIOUS
<1>1. TypeOK /\ TypeOK'
  BY TypeStep DEF Bounded
<1>2. ASSUME NEW r \in Requests, Arrive(r) PROVE Bounded'
  <2>1. /\ pc[r] \notin {"set", "increment"} /\ pc' = [pc EXCEPT ![r] = "new"]
        /\ entry' = entry /\ passed' = passed
    BY <1>2 DEF Arrive
  <2>2. Count(pc', "set") = Count(pc, "set") /\ Count(pc', "increment") = Count(pc, "increment")
    <3>1. "set" # "new" /\ "increment" # "new" /\ pc[r] # "set" /\ pc[r] # "increment"
      BY <2>1
    <3> QED
      BY <1>1, <2>1, <3>1, CountMoved, Zenon
  <2> QED
    BY <1>1, <2>1, <2>2, StillBounded DEF Found
<1>3. ASSUME NEW r \in Requests, Get(r) PROVE Bounded'
  <2>1. /\ pc[r] = "new" /\ pc' = [pc EXCEPT ![r] = Verdict]
        /\ entry' = entry /\ passed' = passed
    BY <1>3 DEF Get
  <2>2. Found => /\ Verdict # "set"
                 /\ entry.count >= Limit => Verdict # "increment"
    BY DEF Verdict
  <2>3. /\ "set" # Verdict => Count(pc', "set") = Count(pc, "set")
        /\ "increment" # Verdict => Count(pc', "increment") = Count(pc, "increment")
    BY <1>1, <2>1, CountMoved, Zenon
  <2>4. Found => /\ Count(pc', "set") = Count(pc, "set")
                 /\ entry.count >= Limit =>
                       Count(pc', "increment") = Count(pc, "increment")
    BY <2>2, <2>3, Zenon
  <2> QED
    BY <1>1, <2>1, <2>4, StillBounded DEF Found
<1>4. ASSUME NEW r \in Requests, IncrementFails(r) PROVE Bounded'
  BY <1>1, <1>4, StillBounded DEF IncrementFails, Found
<1>5. CASE Tick
  <2>1. CASE entry.left = 1
    BY <1>1, <1>5, <2>1 DEF Tick, StartOver, Bounded, Found
  <2>2. CASE entry.left # 1
    <3>1. /\ entry' = [entry EXCEPT !.left = @ - 1]
          /\ pc' = pc /\ passed' = passed /\ Found
      BY <1>5, <2>2 DEF Tick
    <3>2. entry \in [count : Nat, left : 1 .. Sec]
      BY <1>1, <3>1 DEF TypeOK, Found
    <3>3. entry'.count = entry.count /\ entry' \in [count : Nat, left : 1 .. Sec]
      BY <2>2, <3>1, <3>2, LimiterAssumption
    <3>4. Found'
      BY <3>3, LimiterAssumption DEF Found
    <3> QED
      BY <1>1, <3>1, <3>3, <3>4, StillBounded
  <2> QED
    BY <2>1, <2>2
<1>6. CASE UNCHANGED vars
  BY <1>1, <1>6, StillBounded DEF vars, Found
<1> QED
  BY <1>2, <1>3, <1>4, <1>5, <1>6, IncrementBounded, SetBounded DEF Next, Handle

\* Requests that read the counter between the two calls of another one pass the
\* limit by a bounded number: for n handlers at once, whatever Limit is, no more
\* than n * Limit + n(n-1)/2 pass before the entry runs out.
THEOREM OvershootHolds == Spec => []Overshoot
<1>1. Init => Bounded
  <2> SUFFICES ASSUME Init PROVE Bounded
    OBVIOUS
  <2>1. TypeOK
    BY DEF Init, TypeOK
  <2> QED
    BY <2>1 DEF Init, Bounded, Found
<1>2. Bounded => Overshoot
  <2> SUFFICES ASSUME Bounded PROVE passed <= N * Limit + (N * (N - 1)) \div 2
    BY DEF Overshoot, N
  <2>1. N \in Nat /\ Limit \in Nat /\ passed \in Nat
    BY Counted, LimiterAssumption DEF Bounded, TypeOK
  <2>2. Starts(N) = 2 * (N * Limit) + N * (N - 1)
    BY <2>1 DEF Starts
  <2>3. 2 * passed <= Starts(N) /\ Starts(N) \in Nat
    <3>1. Starts(N) \in Nat
      BY <2>1, StartsBound
    <3>2. CASE ~Found
      BY <2>1, <3>1, <3>2 DEF Bounded
    <3>3. CASE Found
      <4> DEFINE a == Count(pc, "increment")
                 b == Count(pc, "set")
      <4>1. entry.count \in Nat
        BY <3>3 DEF Bounded, TypeOK, Found
      <4>2. a \in Nat /\ b \in Nat /\ a + b <= N /\ Starts(b) \in Nat
        BY Counted, StartsBound
      <4>3. Remaining \in Nat
        BY <2>1, <4>1, <4>2 DEF Remaining
      <4>4. 2 * passed + 2 * Remaining + Starts(b) <= Starts(N)
        BY <3>3 DEF Bounded
      <4> HIDE DEF b
      <4> QED
        BY <2>1, <3>1, <4>2, <4>3, <4>4
    <3> QED
      BY <3>2, <3>3, <3>1
  <2>4. N * Limit \in Nat /\ N * (N - 1) \in Int
    BY <2>1
  <2>5. \A k, l, m \in Int : 2 * k <= 2 * l + m => k <= l + m \div 2
    OBVIOUS
  <2> QED
    BY <2>1, <2>2, <2>3, <2>4, <2>5
<1> QED
  BY <1>1, <1>2, BoundedStep, PTL DEF Spec

=============================================================================
