--------------------------- MODULE VersionedCache ---------------------------
(***************************************************************************)
(* pkg/cachex.VersionedCache as the items service uses it: per node a      *)
(* local cache entry that carries the version it was loaded at, one        *)
(* version counter in Redis that every writer increments after its         *)
(* database transaction, and a singleflight group that lets one goroutine  *)
(* per node load.  Keys do not interact, so one key (one player's bag) is  *)
(* modelled.  A bag is the number of transactions it reflects.             *)
(***************************************************************************)
EXTENDS Naturals

CONSTANTS
    Nodes,       \* API processes
    Readers,     \* goroutines that call Get
    Writers,     \* goroutines that commit a transaction and call Invalidate
    NodeOf,      \* the process of each goroutine
    NoEntry,
    MaxWrites, MaxVersion, MaxExpiries, MaxFaults   \* bounds of the model

Callers == Readers \cup Writers

ASSUME VersionedCacheAssumption ==
    /\ NodeOf \in [Callers -> Nodes]
    /\ MaxWrites \in Nat /\ MaxVersion \in Nat /\ MaxExpiries \in Nat /\ MaxFaults \in Nat
    /\ NoEntry \notin [data : Nat, ver : Nat]

VARIABLES
    db,        \* committed transactions on the bag
    remote,    \* the version key in Redis; 0 when it does not exist
    local,     \* the ristretto entry of each node
    flight,    \* the singleflight call of each node
    call,      \* what each goroutine is doing
    expiries, faults,
    pub        \* history: the newest transaction published when a version was reached

vars == <<db, remote, local, flight, call, expiries, faults, pub>>

Data == 0 .. MaxWrites

Version == 0 .. MaxVersion

Entry == [data : Data, ver : Version]

\* versionErr is ~ok; entry is what the flight found in the local cache.
Flight ==
    [pc : {"none", "version", "local", "load", "set"},
     ver : Version, ok : BOOLEAN, entry : Entry \cup {NoEntry}, data : Data]

NoFlight ==
    [pc |-> "none", ver |-> 0, ok |-> TRUE, entry |-> NoEntry, data |-> 0]

\* floor is history: the newest transaction published when Get was called.
\* degraded says the answer is local data the code allows to be old; joined
\* that the goroutine waits for a flight another one has started.
Call ==
    [pc : {"idle", "version", "local", "do", "wait", "returned", "del", "incr"},
     ver : Version, ok : BOOLEAN, data : Data, floor : Data,
     joined : BOOLEAN, degraded : BOOLEAN]

NoCall ==
    [pc |-> "idle", ver |-> 0, ok |-> TRUE, data |-> 0, floor |-> 0,
     joined |-> FALSE, degraded |-> FALSE]

TypeOK ==
    /\ db \in Data
    /\ remote \in Version
    /\ local \in [Nodes -> Entry \cup {NoEntry}]
    /\ flight \in [Nodes -> Flight]
    /\ call \in [Callers -> Call]
    /\ expiries \in 0 .. MaxExpiries
    /\ faults \in 0 .. MaxFaults
    /\ pub \in [Version -> Data]

Init ==
    /\ db = 0
    /\ remote = 0
    /\ local = [n \in Nodes |-> NoEntry]
    /\ flight = [n \in Nodes |-> NoFlight]
    /\ call = [c \in Callers |-> NoCall]
    /\ expiries = 0
    /\ faults = 0
    /\ pub = [v \in Version |-> 0]

-----------------------------------------------------------------------------
(* What a call and a flight remember after each step.  A call that waits    *)
(* for a flight, and one that has its answer, need the version no more.     *)

Getting(d) == [NoCall EXCEPT !.pc = "version", !.floor = d]

Writing(d) == [NoCall EXCEPT !.pc = "del", !.data = d]

Missed(k) == [NoCall EXCEPT !.pc = "do", !.floor = k.floor]

Await(k, join) == [NoCall EXCEPT !.pc = "wait", !.floor = k.floor, !.joined = join]

Returned(k, d, old) ==
    [NoCall EXCEPT !.pc = "returned", !.floor = k.floor, !.joined = k.joined,
                   !.data = d, !.degraded = old]

Deleted(k) == [k EXCEPT !.pc = "incr"]

Starting == [NoFlight EXCEPT !.pc = "version"]

Loading(f, e) == [f EXCEPT !.pc = "load", !.entry = e]

Loaded(f, d) == [f EXCEPT !.pc = "set", !.data = d]

\* getRemoteVersion gave a version, or an error.
VersionRead(x, v) == [x EXCEPT !.pc = "local", !.ver = v]

VersionFailed(x) == [x EXCEPT !.pc = "local", !.ok = FALSE]

-----------------------------------------------------------------------------

NoFault == UNCHANGED faults

Fault == faults < MaxFaults /\ faults' = faults + 1

Newest(a, b) == IF a < b THEN b ELSE a

-----------------------------------------------------------------------------
(* Get *)

StartGet(c) ==
    /\ call[c].pc = "idle"
    /\ call' = [call EXCEPT ![c] = Getting(pub[remote])]
    /\ UNCHANGED <<db, remote, local, flight, expiries, faults, pub>>

GetRemoteVersion(c) ==
    /\ call[c].pc = "version"
    /\ \/ NoFault /\ call' = [call EXCEPT ![c] = VersionRead(@, remote)]
       \/ Fault /\ call' = [call EXCEPT ![c] = VersionFailed(@)]
    /\ UNCHANGED <<db, remote, local, flight, expiries, pub>>

\* Get that looks only for a local entry.
GetLocalAnyVersion(c) ==
    LET e == local[NodeOf[c]] IN
    /\ call[c].pc = "local"
    /\ call' = [call EXCEPT ![c] = IF e # NoEntry THEN Returned(@, e.data, ~@.ok)
                                   ELSE Missed(@)]
    /\ UNCHANGED <<db, remote, local, flight, expiries, faults, pub>>

\* The local entry answers if it has the version Redis has, or whatever its
\* version if Redis did not answer.
GetLocal(c) ==
    LET e == local[NodeOf[c]]
        hit == e # NoEntry /\ (call[c].ok => e.ver = call[c].ver) IN
    /\ call[c].pc = "local"
    /\ call' = [call EXCEPT ![c] = IF hit THEN Returned(@, e.data, ~@.ok) ELSE Missed(@)]
    /\ UNCHANGED <<db, remote, local, flight, expiries, faults, pub>>

\* The goroutine starts a flight or joins the one in progress on its node.
DoFlight(c) ==
    LET n == NodeOf[c] IN
    /\ call[c].pc = "do"
    /\ \/ /\ flight[n].pc = "none"
          /\ call' = [call EXCEPT ![c] = Await(@, FALSE)]
          /\ flight' = [flight EXCEPT ![n] = Starting]
       \/ /\ flight[n].pc # "none"
          /\ call' = [call EXCEPT ![c] = Await(@, TRUE)]
          /\ UNCHANGED flight
    /\ UNCHANGED <<db, remote, local, expiries, faults, pub>>

Return(c) ==
    /\ call[c].pc = "returned"
    /\ call' = [call EXCEPT ![c] = NoCall]
    /\ UNCHANGED <<db, remote, local, flight, expiries, faults, pub>>

-----------------------------------------------------------------------------
(* The function a flight runs *)

Waiting(n) == {c \in Callers : NodeOf[c] = n /\ call[c].pc = "wait"}

\* Only the goroutine that started the flight gets the answer.
AnswerStarter(n, d, old) ==
    /\ flight' = [flight EXCEPT ![n] = NoFlight]
    /\ call' = [c \in Callers |->
                   IF c \in Waiting(n) /\ ~call[c].joined
                   THEN Returned(call[c], d, old)
                   ELSE call[c]]

\* The flight ends: its answer goes to everyone who waits for it.
Answer(n, d, old) ==
    /\ flight' = [flight EXCEPT ![n] = NoFlight]
    /\ call' = [c \in Callers |->
                   IF c \in Waiting(n)
                   THEN Returned(call[c], d, old)
                   ELSE call[c]]

FlightVersion(n) ==
    /\ flight[n].pc = "version"
    /\ \/ NoFault /\ flight' = [flight EXCEPT ![n] = VersionRead(@, remote)]
       \/ Fault /\ flight' = [flight EXCEPT ![n] = VersionFailed(@)]
    /\ UNCHANGED <<db, remote, local, call, expiries, pub>>

FlightLocal(n) ==
    LET f == flight[n]
        e == local[n]
        hit == f.ok /\ e # NoEntry /\ e.ver = f.ver IN
    /\ f.pc = "local"
    /\ \/ hit /\ Answer(n, e.data, FALSE)
       \/ /\ ~hit
          /\ flight' = [flight EXCEPT ![n] = Loading(@, e)]
          /\ UNCHANGED call
    /\ UNCHANGED <<db, remote, local, expiries, faults, pub>>

\* loadFunc reads the database.  If that fails the entry found before answers,
\* and without one all who wait get the error.
FlightLoad(n) ==
    LET f == flight[n] IN
    /\ f.pc = "load"
    /\ \/ /\ NoFault
          /\ flight' = [flight EXCEPT ![n] = Loaded(@, db)]
          /\ UNCHANGED call
       \/ Fault /\ f.entry # NoEntry /\ Answer(n, f.entry.data, TRUE)
       \/ /\ Fault /\ f.entry = NoEntry
          /\ flight' = [flight EXCEPT ![n] = NoFlight]
          /\ call' = [c \in Callers |-> IF c \in Waiting(n) THEN NoCall ELSE call[c]]
    /\ UNCHANGED <<db, remote, local, expiries, pub>>

\* The entry that carries the version Redis has when it is stored.
LatestVersion(f) == remote

\* The entry that is marked when Redis did not give a version.
MarkedVersion(f) == IF f.ok THEN f.ver ELSE MaxVersion + 1

\* The version read before the load; 0 if Redis did not give one.
EntryVersion(f) == IF f.ok THEN f.ver ELSE 0

FlightSet(n) ==
    LET f == flight[n] IN
    /\ f.pc = "set"
    /\ local' = [local EXCEPT ![n] = [data |-> f.data, ver |-> EntryVersion(f)]]
    /\ Answer(n, f.data, FALSE)
    /\ UNCHANGED <<db, remote, expiries, faults, pub>>

-----------------------------------------------------------------------------
(* A writer of the items service: its transaction commits, then Invalidate *)

Commit(c) ==
    /\ call[c].pc = "idle"
    /\ db < MaxWrites
    /\ db' = db + 1
    /\ call' = [call EXCEPT ![c] = Writing(db + 1)]
    /\ UNCHANGED <<remote, local, flight, expiries, faults, pub>>

InvalidateLocal(c) ==
    /\ call[c].pc = "del"
    /\ local' = [local EXCEPT ![NodeOf[c]] = NoEntry]
    /\ call' = [call EXCEPT ![c] = Deleted(@)]
    /\ UNCHANGED <<db, remote, flight, expiries, faults, pub>>

\* INCR and EXPIRE; an error is logged and the version stays.
InvalidateRemote(c) ==
    /\ call[c].pc = "incr"
    /\ \/ /\ NoFault
          /\ remote < MaxVersion
          /\ remote' = remote + 1
          /\ pub' = [pub EXCEPT ![remote + 1] = Newest(pub[remote], call[c].data)]
       \/ Fault /\ UNCHANGED <<remote, pub>>
    /\ call' = [call EXCEPT ![c] = NoCall]
    /\ UNCHANGED <<db, local, flight, expiries>>

-----------------------------------------------------------------------------
(* Time and failures *)

\* Set without a TTL, in a cache that is never full.
NeverExpires(n) == FALSE /\ UNCHANGED vars

\* localTTL passes, or ristretto drops or rejects the entry.
LocalExpires(n) ==
    /\ local[n] # NoEntry
    /\ local' = [local EXCEPT ![n] = NoEntry]
    /\ UNCHANGED <<db, remote, flight, call, expiries, faults, pub>>

\* What is in memory was read after the last increment.
ReadSinceLastWrite ==
    /\ \A n \in Nodes : local[n] # NoEntry => local[n].data >= pub[remote]
    /\ \A n \in Nodes :
          /\ flight[n].pc \notin {"none", "version"} /\ flight[n].ok => flight[n].ver = remote
          /\ flight[n].pc = "set" => flight[n].data >= pub[remote]
    /\ \A c \in Callers : call[c].pc = "local" /\ call[c].ok => call[c].ver = remote

\* versionTTL has passed since the last increment; localTTL and the timeout of
\* a request are much shorter.
VersionExpires ==
    /\ remote # 0
    /\ expiries < MaxExpiries
    /\ ReadSinceLastWrite
    /\ remote' = 0
    /\ expiries' = expiries + 1
    /\ pub' = [pub EXCEPT ![0] = pub[remote]]
    /\ UNCHANGED <<db, local, flight, call, faults>>

\* A process dies and comes back with an empty cache.
NodeRestarts(n) ==
    /\ Fault
    /\ local' = [local EXCEPT ![n] = NoEntry]
    /\ flight' = [flight EXCEPT ![n] = NoFlight]
    /\ call' = [c \in Callers |-> IF NodeOf[c] = n THEN NoCall ELSE call[c]]
    /\ UNCHANGED <<db, remote, expiries, pub>>

-----------------------------------------------------------------------------
CallStep(c) ==
    \/ GetRemoteVersion(c) \/ GetLocal(c) \/ DoFlight(c) \/ Return(c)
    \/ InvalidateLocal(c) \/ InvalidateRemote(c)

FlightStep(n) == FlightVersion(n) \/ FlightLocal(n) \/ FlightLoad(n) \/ FlightSet(n)

Next ==
    \/ \E c \in Readers : StartGet(c)
    \/ \E c \in Writers : Commit(c)
    \/ \E c \in Callers : CallStep(c)
    \/ \E n \in Nodes : FlightStep(n) \/ LocalExpires(n) \/ NodeRestarts(n)
    \/ VersionExpires

Spec == Init /\ [][Next]_vars

\* Goroutines run on and entries reach their TTL; nobody has to call.
FairSpec ==
    /\ Spec
    /\ \A c \in Callers : WF_vars(CallStep(c))
    /\ \A n \in Nodes : WF_vars(FlightStep(n)) /\ WF_vars(LocalExpires(n))

-----------------------------------------------------------------------------
(* Properties *)

\* Until the version key first runs out, an entry reflects every transaction
\* that had been published when Redis reached the entry's version: Get reads
\* the version before it loads, and a writer increments after it commits.
EntryCovers ==
    expiries = 0 =>
        \A n \in Nodes : local[n] # NoEntry => local[n].data >= pub[local[n].ver]

\* Until then, a Get that is neither degraded (Redis or the database failed)
\* nor answered by a flight that was under way already returns a bag with every
\* transaction published on any node before the call.
FreshRead ==
    expiries = 0 =>
        \A c \in Callers :
            call[c].pc = "returned" /\ ~call[c].degraded /\ ~call[c].joined =>
                call[c].data >= call[c].floor

\* Every Get that waits for a flight is answered or fails.
GetReturns ==
    \A c \in Callers : call[c].pc = "wait" ~> call[c].pc # "wait"

\* Whatever failed, once the writes stop no node keeps an old bag: localTTL
\* bounds the damage of a lost increment, which the items service only logs.
Converges ==
    <>[](\A n \in Nodes : local[n] # NoEntry => local[n].data = db)

\* "当前节点立即删除，保证本节点写后读" (version_cache.go, Invalidate): on the
\* only node, a Get called after Invalidate has succeeded returns the write.
ReadAfterWrite ==
    \A c \in Callers :
        call[c].pc = "returned" /\ ~call[c].degraded => call[c].data >= call[c].floor

-----------------------------------------------------------------------------
(* The inductive invariant behind EntryCovers and FreshRead.  Until the key  *)
(* first runs out the version only grows, a version a goroutine has read is *)
(* at most the current one, and what was published at a version is settled  *)
(* once the version is reached.                                             *)

VersionsOK ==
    /\ pub[remote] <= db
    /\ pub[0] = 0
    /\ \A v, w \in 0 .. remote : v <= w => pub[v] <= pub[w]

EntryOK(e) == e # NoEntry => e.ver <= remote /\ e.data >= pub[e.ver]

FlightOK(f) ==
    /\ f.ver <= remote
    /\ f.pc = "set" => f.data >= pub[EntryVersion(f)]

\* What flight f will answer covers the transactions up to d; k is a call
\* whose node runs f.
FlightCovers(f, d) ==
    /\ f.pc \in {"none", "version"} => d <= pub[remote]
    /\ f.pc = "local" /\ f.ok => d <= pub[f.ver]
    /\ f.pc \in {"local", "load"} => d <= db
    /\ f.pc = "set" => d <= f.data

CallOK(k, f) ==
    /\ k.ver <= remote
    /\ k.pc \in {"version", "local", "do"} => k.floor <= pub[remote]
    /\ k.pc = "local" /\ k.ok => k.floor <= pub[k.ver]
    /\ k.pc = "wait" /\ ~k.joined => FlightCovers(f, k.floor)
    /\ k.pc = "returned" /\ ~k.degraded /\ ~k.joined => k.data >= k.floor
    /\ k.pc \in {"del", "incr"} => k.data <= db

\* Versions, entries, flights and calls agree on what has been published.
CacheInv ==
    expiries = 0 =>
        /\ VersionsOK
        /\ \A n \in Nodes : EntryOK(local[n]) /\ FlightOK(flight[n])
        /\ \A c \in Callers : CallOK(call[c], flight[NodeOf[c]])

=============================================================================
