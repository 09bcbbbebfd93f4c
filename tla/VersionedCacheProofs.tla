------------------------ MODULE VersionedCacheProofs ------------------------
(***************************************************************************)
(* Until the version key first runs out, entries and reads of the versioned *)
(* cache are fresh, for any number of nodes, goroutines, writes and         *)
(* failures.                                                                *)
(***************************************************************************)
EXTENDS VersionedCache, TLAPS

IInv == TypeOK /\ CacheInv

-----------------------------------------------------------------------------
(* Types *)

\* Before the first call every variable has its type.
LEMMA InitType == Init => TypeOK
BY VersionedCacheAssumption
   DEF Init, TypeOK, Data, Version, Flight, NoFlight, Call, NoCall, Entry

\* What the steps make of a call.
LEMMA CallRecords ==
    ASSUME NEW k \in Call, NEW d \in Data, NEW v \in Version, NEW b \in BOOLEAN
    PROVE  /\ NoCall \in Call /\ NoCall.pc = "idle" /\ NoCall.ver = 0
           /\ Getting(d) \in Call
           /\ Getting(d).pc = "version" /\ Getting(d).floor = d /\ Getting(d).ver = 0
           /\ Writing(d) \in Call
           /\ Writing(d).pc = "del" /\ Writing(d).data = d /\ Writing(d).ver = 0
           /\ Deleted(k) \in Call
           /\ Deleted(k).pc = "incr" /\ Deleted(k).data = k.data /\ Deleted(k).ver = k.ver
<1> USE VersionedCacheAssumption
<1>1. 0 \in Data /\ 0 \in Version
  BY DEF Data, Version
<1>2. NoCall \in Call
  BY <1>1 DEF Call, NoCall
<1>3. NoCall.pc = "idle" /\ NoCall.ver = 0
  BY DEF NoCall
<1>4. Getting(d) \in Call /\ Writing(d) \in Call /\ Deleted(k) \in Call
  BY <1>2, Zenon DEF Call, Getting, Writing, Deleted
<1>5. Getting(d).pc = "version" /\ Getting(d).floor = d /\ Getting(d).ver = 0
  BY DEF Getting, NoCall
<1>6. Writing(d).pc = "del" /\ Writing(d).data = d /\ Writing(d).ver = 0
  BY DEF Writing, NoCall
<1>7. Deleted(k).pc = "incr" /\ Deleted(k).data = k.data /\ Deleted(k).ver = k.ver
  BY DEF Deleted, Call
<1> QED
  BY <1>2, <1>3, <1>4, <1>5, <1>6, <1>7

\* What the steps of Get make of a call.
LEMMA GetRecords ==
    ASSUME NEW k \in Call, NEW d \in Data, NEW v \in Version, NEW b \in BOOLEAN
    PROVE  /\ VersionRead(k, v) \in Call
           /\ VersionRead(k, v).pc = "local" /\ VersionRead(k, v).ver = v
           /\ VersionRead(k, v).floor = k.floor
           /\ VersionFailed(k) \in Call
           /\ VersionFailed(k).pc = "local" /\ VersionFailed(k).ver = k.ver
           /\ VersionFailed(k).floor = k.floor /\ VersionFailed(k).ok = FALSE
           /\ Missed(k) \in Call
           /\ Missed(k).pc = "do" /\ Missed(k).floor = k.floor /\ Missed(k).ver = 0
           /\ Await(k, b) \in Call
           /\ Await(k, b).pc = "wait" /\ Await(k, b).floor = k.floor
           /\ Await(k, b).joined = b /\ Await(k, b).ver = 0
           /\ Returned(k, d, b) \in Call
           /\ Returned(k, d, b).pc = "returned" /\ Returned(k, d, b).floor = k.floor
           /\ Returned(k, d, b).joined = k.joined /\ Returned(k, d, b).data = d
           /\ Returned(k, d, b).degraded = b /\ Returned(k, d, b).ver = 0
<1>1. NoCall \in Call
  BY CallRecords, Zenon
<1>2. VersionRead(k, v) \in Call /\ VersionFailed(k) \in Call
  BY Zenon DEF Call, VersionRead, VersionFailed
<1>3. Await(k, b) \in Call /\ Missed(k) \in Call
  BY <1>1, Zenon DEF Call, Await, Missed
<1>4. Returned(k, d, b) \in Call
  BY <1>1, Zenon DEF Call, Returned
<1>5. /\ VersionRead(k, v).pc = "local" /\ VersionRead(k, v).ver = v
      /\ VersionRead(k, v).floor = k.floor
  BY DEF Call, VersionRead
<1>6. /\ VersionFailed(k).pc = "local" /\ VersionFailed(k).ver = k.ver
      /\ VersionFailed(k).floor = k.floor /\ VersionFailed(k).ok = FALSE
  BY DEF Call, VersionFailed
<1>7. /\ Await(k, b).pc = "wait" /\ Await(k, b).floor = k.floor
      /\ Await(k, b).joined = b /\ Await(k, b).ver = 0
  BY DEF Await, NoCall
<1>8. Missed(k).pc = "do" /\ Missed(k).floor = k.floor /\ Missed(k).ver = 0
  BY DEF Missed, NoCall
<1>9. /\ Returned(k, d, b).pc = "returned" /\ Returned(k, d, b).floor = k.floor
      /\ Returned(k, d, b).joined = k.joined /\ Returned(k, d, b).data = d
      /\ Returned(k, d, b).degraded = b /\ Returned(k, d, b).ver = 0
  BY DEF Returned, NoCall
<1> QED
  BY <1>2, <1>3, <1>4, <1>5, <1>6, <1>7, <1>8, <1>9

\* What the steps make of a flight.
LEMMA FlightRecords ==
    ASSUME NEW f \in Flight, NEW d \in Data, NEW v \in Version,
           NEW e \in Entry \cup {NoEntry}
    PROVE  /\ NoFlight \in Flight /\ NoFlight.pc = "none" /\ NoFlight.ver = 0
           /\ Starting \in Flight /\ Starting.pc = "version" /\ Starting.ver = 0
           /\ VersionRead(f, v) \in Flight
           /\ VersionRead(f, v).pc = "local" /\ VersionRead(f, v).ver = v
           /\ VersionFailed(f) \in Flight
           /\ VersionFailed(f).pc = "local" /\ VersionFailed(f).ver = f.ver
           /\ VersionFailed(f).ok = FALSE
           /\ Loading(f, e) \in Flight
           /\ Loading(f, e).pc = "load" /\ Loading(f, e).ver = f.ver
           /\ Loaded(f, d) \in Flight
           /\ Loaded(f, d).pc = "set" /\ Loaded(f, d).ver = f.ver
           /\ Loaded(f, d).ok = f.ok /\ Loaded(f, d).data = d
<1> USE VersionedCacheAssumption
<1>1. 0 \in Data /\ 0 \in Version
  BY DEF Data, Version
<1>2. NoFlight \in Flight /\ NoFlight.pc = "none" /\ NoFlight.ver = 0
  BY <1>1 DEF Flight, NoFlight
<1>3. Starting \in Flight /\ Starting.pc = "version" /\ Starting.ver = 0
  BY <1>1, Zenon DEF Flight, NoFlight, Starting
<1>4. /\ VersionRead(f, v) \in Flight
      /\ VersionRead(f, v).pc = "local" /\ VersionRead(f, v).ver = v
  BY Zenon DEF Flight, VersionRead
<1>5. /\ VersionFailed(f) \in Flight
      /\ VersionFailed(f).pc = "local" /\ VersionFailed(f).ver = f.ver
      /\ VersionFailed(f).ok = FALSE
  BY Zenon DEF Flight, VersionFailed
<1>6. /\ Loading(f, e) \in Flight
      /\ Loading(f, e).pc = "load" /\ Loading(f, e).ver = f.ver
  BY Zenon DEF Flight, Loading
<1>7. /\ Loaded(f, d) \in Flight
      /\ Loaded(f, d).pc = "set" /\ Loaded(f, d).ver = f.ver
      /\ Loaded(f, d).ok = f.ok /\ Loaded(f, d).data = d
  BY Zenon DEF Flight, Loaded
<1> QED
  BY <1>2, <1>3, <1>4, <1>5, <1>6, <1>7

\* The end of a flight leaves flights and calls well-typed.
LEMMA AnswerType ==
    ASSUME TypeOK, NEW n \in Nodes, NEW d \in Data, NEW old \in BOOLEAN, Answer(n, d, old)
    PROVE  flight' \in [Nodes -> Flight] /\ call' \in [Callers -> Call]
<1>1. NoFlight \in Flight
  BY VersionedCacheAssumption DEF Flight, NoFlight, Data, Version
<1>2. ASSUME NEW c \in Callers PROVE Returned(call[c], d, old) \in Call /\ call[c] \in Call
  <2>1. call[c] \in Call /\ call[c].ver \in Version
    BY DEF TypeOK, Call
  <2> QED
    BY <2>1, GetRecords, Zenon
<1> QED
  BY <1>1, <1>2 DEF Answer, TypeOK

\* Every step of a goroutine, a flight, a TTL and a failure keeps the types.
LEMMA NextType == TypeOK /\ [Next]_vars => TypeOK'
<1> SUFFICES ASSUME TypeOK, [Next]_vars PROVE TypeOK'
  OBVIOUS
<1>1. NoCall \in Call /\ NoFlight \in Flight
  BY VersionedCacheAssumption DEF Call, NoCall, Flight, NoFlight, Data, Version
<1>2. pub[remote] \in Data /\ db \in Data /\ remote \in Version
  BY DEF TypeOK
<1>3. ASSUME NEW c \in Callers PROVE call[c] \in Call /\ NodeOf[c] \in Nodes
  BY VersionedCacheAssumption DEF TypeOK
<1>4. ASSUME NEW n \in Nodes PROVE flight[n] \in Flight /\ local[n] \in Entry \cup {NoEntry}
  BY DEF TypeOK
<1>5. ASSUME NEW c \in Readers, StartGet(c) PROVE TypeOK'
  <2>1. Getting(pub[remote]) \in Call
    BY <1>1, <1>2, CallRecords, Zenon
  <2> QED
    BY <1>5, <2>1 DEF StartGet, TypeOK, Callers
<1>6. ASSUME NEW c \in Writers, Commit(c) PROVE TypeOK'
  <2>1. db + 1 \in Data
    BY <1>2, <1>6, VersionedCacheAssumption DEF Commit, Data
  <2>2. Writing(db + 1) \in Call
    BY <1>1, <1>2, <2>1, CallRecords, Zenon
  <2> QED
    BY <1>6, <2>1, <2>2 DEF Commit, TypeOK, Callers
<1>7. ASSUME NEW c \in Callers, GetRemoteVersion(c) PROVE TypeOK'
  <2>1. VersionRead(call[c], remote) \in Call /\ VersionFailed(call[c]) \in Call
    BY <1>2, <1>3, GetRecords, Zenon
  <2> QED
    BY <1>7, <2>1, VersionedCacheAssumption DEF GetRemoteVersion, TypeOK, Fault, NoFault
<1>8. ASSUME NEW c \in Callers, GetLocal(c) PROVE TypeOK'
  <2>1. Missed(call[c]) \in Call
    BY <1>2, <1>3, GetRecords, Zenon
  <2>2. local[NodeOf[c]] # NoEntry =>
           Returned(call[c], local[NodeOf[c]].data, ~call[c].ok) \in Call
    <3>1. local[NodeOf[c]] # NoEntry => local[NodeOf[c]].data \in Data
      BY <1>3, <1>4 DEF Entry
    <3> QED
      BY <1>2, <1>3, <3>1, GetRecords, Zenon
  <2> QED
    BY <1>3, <1>8, <2>1, <2>2 DEF GetLocal, TypeOK
<1>9. ASSUME NEW c \in Callers, Return(c) PROVE TypeOK'
  BY <1>1, <1>9 DEF Return, TypeOK
<1>10. ASSUME NEW c \in Callers, InvalidateLocal(c) PROVE TypeOK'
  <2>1. Deleted(call[c]) \in Call
    BY <1>2, <1>3, CallRecords, Zenon
  <2> QED
    BY <1>3, <1>10, <2>1 DEF InvalidateLocal, TypeOK
<1>11. ASSUME NEW c \in Callers, InvalidateRemote(c) PROVE TypeOK'
  <2>1. Newest(pub[remote], call[c].data) \in Data
    BY <1>2, <1>3 DEF Newest, Call
  <2> QED
    BY <1>1, <1>11, <2>1, VersionedCacheAssumption
       DEF InvalidateRemote, TypeOK, Version, Fault, NoFault
<1>12. ASSUME NEW n \in Nodes, FlightVersion(n) PROVE TypeOK'
  <2>1. VersionRead(flight[n], remote) \in Flight /\ VersionFailed(flight[n]) \in Flight
    BY <1>2, <1>4, FlightRecords, Zenon
  <2> QED
    BY <1>12, <2>1, VersionedCacheAssumption DEF FlightVersion, TypeOK, Fault, NoFault
<1>13. ASSUME NEW n \in Nodes, FlightLocal(n) PROVE TypeOK'
  <2>1. CASE flight' = [flight EXCEPT ![n] = Loading(@, local[n])] /\ UNCHANGED call
    <3>1. Loading(flight[n], local[n]) \in Flight
      BY <1>2, <1>4, FlightRecords, Zenon
    <3> QED
      BY <1>13, <2>1, <3>1 DEF FlightLocal, TypeOK
  <2>2. CASE local[n] # NoEntry /\ Answer(n, local[n].data, FALSE)
    <3>1. local[n].data \in Data
      BY <1>4, <2>2, Zenon DEF Entry
    <3>2. flight' \in [Nodes -> Flight] /\ call' \in [Callers -> Call]
      BY <2>2, <3>1, AnswerType, Zenon
    <3> QED
      BY <1>13, <3>2 DEF FlightLocal, TypeOK
  <2> QED
    BY <1>13, <2>1, <2>2, Zenon DEF FlightLocal
<1>14. ASSUME NEW n \in Nodes, FlightLoad(n) PROVE TypeOK'
  <2>1. faults' \in 0 .. MaxFaults
    <3>1. NoFault \/ Fault
      BY <1>14, Zenon DEF FlightLoad
    <3> QED
      BY <3>1, VersionedCacheAssumption DEF TypeOK, Fault, NoFault
  <2>2. CASE flight' = [flight EXCEPT ![n] = Loaded(@, db)] /\ UNCHANGED call
    <3>1. Loaded(flight[n], db) \in Flight
      BY <1>2, <1>4, FlightRecords, Zenon
    <3> QED
      BY <1>14, <2>1, <2>2, <3>1 DEF FlightLoad, TypeOK
  <2>3. CASE flight[n].entry # NoEntry /\ Answer(n, flight[n].entry.data, TRUE)
    <3>1. flight[n].entry.data \in Data
      BY <1>4, <2>3, Zenon DEF Flight, Entry
    <3>2. flight' \in [Nodes -> Flight] /\ call' \in [Callers -> Call]
      BY <2>3, <3>1, AnswerType, Zenon
    <3> QED
      BY <1>14, <2>1, <3>2 DEF FlightLoad, TypeOK
  <2>4. CASE /\ flight' = [flight EXCEPT ![n] = NoFlight]
             /\ call' = [c \in Callers |-> IF c \in Waiting(n) THEN NoCall ELSE call[c]]
    BY <1>1, <1>14, <2>1, <2>4, Zenon DEF FlightLoad, TypeOK
  <2> QED
    BY <1>14, <2>2, <2>3, <2>4, Zenon DEF FlightLoad
<1>15. ASSUME NEW n \in Nodes, FlightSet(n) PROVE TypeOK'
  <2>1. flight[n].data \in Data /\ EntryVersion(flight[n]) \in Version
    BY <1>4, VersionedCacheAssumption DEF Flight, EntryVersion, Version
  <2>2. flight' \in [Nodes -> Flight] /\ call' \in [Callers -> Call]
    BY <1>15, <2>1, AnswerType, Zenon DEF FlightSet
  <2> QED
    BY <1>15, <2>1, <2>2, Zenon DEF FlightSet, TypeOK, Entry
<1>16. ASSUME NEW n \in Nodes, LocalExpires(n) PROVE TypeOK'
  BY <1>16 DEF LocalExpires, TypeOK
<1>17. ASSUME NEW n \in Nodes, NodeRestarts(n) PROVE TypeOK'
  BY <1>1, <1>17, VersionedCacheAssumption DEF NodeRestarts, TypeOK, Fault
<1>18. CASE VersionExpires
  BY <1>2, <1>18, VersionedCacheAssumption DEF VersionExpires, TypeOK, Version
<1>19. CASE UNCHANGED vars
  BY <1>19 DEF vars, TypeOK
<1>20. ASSUME NEW c \in Callers, DoFlight(c) PROVE TypeOK'
  <2>1. Await(call[c], FALSE) \in Call /\ Await(call[c], TRUE) \in Call
    BY <1>2, <1>3, GetRecords, Zenon
  <2>2. Starting \in Flight
    BY <1>1, <1>2, <1>3, <1>4, FlightRecords, Zenon
  <2> QED
    BY <1>3, <1>20, <2>1, <2>2, ZenonT(60) DEF DoFlight, TypeOK
<1> QED
  BY <1>5, <1>6, <1>7, <1>8, <1>9, <1>10, <1>11, <1>12, <1>13, <1>14, <1>15, <1>16,
     <1>17, <1>18, <1>19, <1>20 DEF Next, CallStep, FlightStep

-----------------------------------------------------------------------------
(* What is fresh stays fresh *)

\* Nothing that has been published is taken back.
Grows ==
    /\ VersionsOK'
    /\ db <= db' /\ remote <= remote'
    /\ \A v \in 0 .. remote : pub'[v] = pub[v]
    /\ pub[remote] <= pub'[remote']

\* An entry, a flight and a call that agree with what has been published still
\* do so after a commit or an increment.
LEMMA Persists ==
    ASSUME TypeOK, TypeOK', Grows, NEW e \in Entry \cup {NoEntry}, NEW f \in Flight, NEW k \in Call
    PROVE  /\ EntryOK(e) => EntryOK(e)'
           /\ FlightOK(f) => FlightOK(f)'
           /\ FlightOK(f) /\ CallOK(k, f) => CallOK(k, f)'
<1> USE VersionedCacheAssumption
<1>1. /\ db \in Nat /\ db' \in Nat /\ remote \in Version /\ remote' \in Version
      /\ \A v \in Version : pub[v] \in Nat /\ pub'[v] \in Nat
  BY DEF TypeOK, Data, Version
<1>2. \A v \in Version : v <= remote => v <= remote' /\ pub'[v] = pub[v]
  BY <1>1 DEF Grows, Version
<1>3. EntryOK(e) => EntryOK(e)'
  BY <1>1, <1>2 DEF EntryOK, Entry, Data
<1>4. FlightOK(f) => FlightOK(f)'
  <2>1. f.ver \in Version /\ EntryVersion(f) \in Version /\ (f.ver <= remote => EntryVersion(f) <= remote)
    BY <1>1 DEF Flight, EntryVersion, Version
  <2>2. EntryVersion(f)' = EntryVersion(f)
    BY DEF EntryVersion
  <2> QED
    BY <1>1, <1>2, <2>1, <2>2 DEF FlightOK
<1>5. ASSUME FlightOK(f), CallOK(k, f) PROVE CallOK(k, f)'
  <2>1. f.ver \in Version /\ k.ver \in Version /\ k.floor \in Nat /\ k.data \in Nat /\ f.data \in Nat
    BY DEF Flight, Call, Data
  <2>2. FlightCovers(f, k.floor) => FlightCovers(f, k.floor)'
    BY <1>1, <1>2, <1>5, <2>1 DEF FlightCovers, FlightOK, Grows
  <2> QED
    BY <1>1, <1>2, <1>5, <2>1, <2>2 DEF CallOK, Grows
<1> QED
  BY <1>3, <1>4, <1>5

\* So a step that publishes nothing wrong keeps the invariant if the entries,
\* flights and calls it leaves agree with what was published before it.
LEMMA Conclude ==
    ASSUME TypeOK, TypeOK', Grows,
           \A n \in Nodes : EntryOK(local'[n]) /\ FlightOK(flight'[n]),
           \A c \in Callers : CallOK(call'[c], flight'[NodeOf[c]])
    PROVE  CacheInv'
<1>1. ASSUME NEW n \in Nodes PROVE EntryOK(local[n])' /\ FlightOK(flight[n])'
  <2>1. PICK e \in Entry \cup {NoEntry} : e = local'[n]
    BY DEF TypeOK
  <2>2. PICK f \in Flight : f = flight'[n]
    BY DEF TypeOK
  <2>3. NoCall \in Call
    BY VersionedCacheAssumption DEF Call, NoCall, Data, Version
  <2>4. EntryOK(e)' /\ FlightOK(f)'
    BY <2>1, <2>2, <2>3, Persists
  <2> QED
    BY <2>1, <2>2, <2>4 DEF EntryOK, FlightOK, EntryVersion
<1>2. ASSUME NEW c \in Callers PROVE CallOK(call[c], flight[NodeOf[c]])'
  <2>1. PICK n \in Nodes : n = NodeOf[c]
    BY VersionedCacheAssumption
  <2>2. PICK f \in Flight : f = flight'[n]
    BY DEF TypeOK
  <2>3. PICK k \in Call : k = call'[c]
    BY DEF TypeOK
  <2>4. CallOK(k, f)'
    BY <2>1, <2>2, <2>3, Persists
  <2> QED
    BY <2>1, <2>2, <2>3, <2>4 DEF CallOK, FlightCovers
<1> QED
  BY <1>1, <1>2 DEF CacheInv, Grows

\* A step that neither commits nor increments publishes nothing.
LEMMA Quiet ==
    ASSUME TypeOK, VersionsOK, UNCHANGED <<db, remote, pub>>
    PROVE  Grows
<1>1. db \in Nat /\ remote \in Version /\ pub[remote] \in Nat
  BY DEF TypeOK, Data
<1>2. VersionsOK'
  BY DEF VersionsOK
<1> QED
  BY <1>1, <1>2, VersionedCacheAssumption DEF Grows, Version

-----------------------------------------------------------------------------
(* What the steps leave agrees with what was published before them *)

\* CacheInv as long as the version key has not run out.
Agrees ==
    /\ TypeOK
    /\ VersionsOK
    /\ \A n \in Nodes : EntryOK(local[n]) /\ FlightOK(flight[n])
    /\ \A c \in Callers : CallOK(call[c], flight[NodeOf[c]])

\* The flights and calls a step leaves.
FlightsAgree ==
    /\ \A n \in Nodes : FlightOK(flight'[n])
    /\ \A c \in Callers : CallOK(call'[c], flight'[NodeOf[c]])

\* The numbers an invariant state holds.
LEMMA Numbers ==
    ASSUME Agrees
    PROVE  /\ db \in Nat /\ remote \in Version /\ remote \in Nat
           /\ \A v \in Version : v \in Nat /\ pub[v] \in Nat
           /\ \A v \in Version : v <= remote => pub[v] <= pub[remote] /\ pub[v] <= db
           /\ 0 \in Version /\ 0 <= remote
<1>1. /\ db \in Nat /\ remote \in Version /\ remote \in Nat
      /\ \A v \in Version : v \in Nat /\ pub[v] \in Nat
      /\ 0 \in Version /\ 0 <= remote
  <2>1. db \in Data /\ remote \in Version /\ pub \in [Version -> Data]
    BY DEF Agrees, TypeOK
  <2> QED
    BY <2>1, VersionedCacheAssumption DEF Data, Version
<1>2. ASSUME NEW v \in Version, v <= remote PROVE pub[v] <= pub[remote] /\ pub[v] <= db
  <2>1. v \in 0 .. remote /\ remote \in 0 .. remote
    BY <1>1, <1>2
  <2>2. pub[v] <= pub[remote] /\ pub[remote] <= db
    BY <1>2, <2>1 DEF Agrees, VersionsOK
  <2> QED
    BY <1>1, <2>2
<1> QED
  BY <1>1, <1>2

\* A call only looks at a flight while it waits for it.
LEMMA NotWaiting ==
    ASSUME NEW k, NEW f, NEW g, CallOK(k, f), k.pc # "wait"
    PROVE  CallOK(k, g)
BY DEF CallOK

\* One goroutine moves on and no flight changes.
LEMMA CallMoves ==
    ASSUME Agrees, NEW c \in Callers, NEW k, call' = [call EXCEPT ![c] = k],
           CallOK(k, flight[NodeOf[c]]), UNCHANGED flight
    PROVE  FlightsAgree
BY DEF Agrees, FlightsAgree, TypeOK

\* One flight moves on and still covers what it covered.
LEMMA FlightMoves ==
    ASSUME Agrees, NEW n \in Nodes, NEW g, flight' = [flight EXCEPT ![n] = g],
           FlightOK(g), \A d \in Data : FlightCovers(flight[n], d) => FlightCovers(g, d),
           UNCHANGED call
    PROVE  FlightsAgree
<1>1. \A m \in Nodes : FlightOK(flight'[m])
  BY DEF Agrees, TypeOK
<1>2. ASSUME NEW c \in Callers PROVE CallOK(call[c], flight'[NodeOf[c]])
  <2>1. CASE NodeOf[c] # n
    <3>1. flight'[NodeOf[c]] = flight[NodeOf[c]]
      BY <2>1, VersionedCacheAssumption DEF Agrees, TypeOK
    <3> QED
      BY <3>1 DEF Agrees
  <2>2. CASE NodeOf[c] = n
    <3>1. flight'[NodeOf[c]] = g /\ CallOK(call[c], flight[n]) /\ call[c].floor \in Data
      BY <2>2 DEF Agrees, TypeOK, Call
    <3> QED
      BY <3>1 DEF CallOK
  <2> QED
    BY <2>1, <2>2
<1> QED
  BY <1>1, <1>2 DEF FlightsAgree

\* A flight ends with an answer that covers what the calls it was started for
\* ask for.
LEMMA AnswerMoves ==
    ASSUME Agrees, NEW n \in Nodes, NEW d \in Data, NEW old \in BOOLEAN, Answer(n, d, old),
           \A c \in Waiting(n) : ~old /\ ~call[c].joined => call[c].floor <= d
    PROVE  FlightsAgree
<1>1. FlightOK(NoFlight)
  BY Numbers DEF FlightOK, NoFlight
<1>2. \A m \in Nodes : FlightOK(flight'[m])
  BY <1>1 DEF Agrees, Answer, TypeOK
<1>3. ASSUME NEW c \in Callers PROVE CallOK(call'[c], flight'[NodeOf[c]])
  <2>1. CASE c \in Waiting(n)
    <3>1. call[c] \in Call /\ remote \in Version
      BY DEF Agrees, TypeOK
    <3>2. /\ call'[c] = Returned(call[c], d, old)
          /\ ~old /\ ~call[c].joined => call[c].floor <= d
      BY <2>1 DEF Answer
    <3>3. /\ call'[c].pc = "returned" /\ call'[c].ver = 0 /\ call'[c].floor = call[c].floor
          /\ call'[c].joined = call[c].joined /\ call'[c].data = d /\ call'[c].degraded = old
      BY <3>2 DEF Returned, NoCall
    <3>4. call[c].floor \in Nat /\ d \in Nat
      BY <3>1 DEF Call, Data
    <3> QED
      BY <3>2, <3>3, <3>4, Numbers DEF CallOK
  <2>2. CASE c \notin Waiting(n)
    <3>1. call'[c] = call[c] /\ CallOK(call[c], flight[NodeOf[c]])
      BY <2>2 DEF Answer, Agrees
    <3>2. CASE NodeOf[c] = n
      BY <2>2, <3>1, <3>2, NotWaiting DEF Waiting
    <3>3. CASE NodeOf[c] # n
      <4>1. flight'[NodeOf[c]] = flight[NodeOf[c]]
        BY <3>3, VersionedCacheAssumption DEF Answer, Agrees, TypeOK
      <4> QED
        BY <3>1, <4>1
    <3> QED
      BY <3>2, <3>3
  <2> QED
    BY <2>1, <2>2
<1> QED
  BY <1>2, <1>3 DEF FlightsAgree

\* Calls that are as fresh as the state.
LEMMA FreshCalls ==
    ASSUME Agrees, NEW c \in Callers, NEW f
    PROVE  CallOK(NoCall, f) /\ CallOK(Getting(pub[remote]), f)
<1>1. call[c] \in Call /\ pub[remote] \in Data /\ remote \in Version
  BY DEF Agrees, TypeOK
<1>2. /\ NoCall.pc = "idle" /\ NoCall.ver = 0
      /\ Getting(pub[remote]).pc = "version" /\ Getting(pub[remote]).floor = pub[remote]
      /\ Getting(pub[remote]).ver = 0
  BY <1>1, CallRecords, Zenon
<1>3. CallOK(NoCall, f)
  BY <1>2, Numbers DEF CallOK
<1>4. CallOK(Getting(pub[remote]), f)
  BY <1>1, <1>2, Numbers DEF CallOK
<1> QED
  BY <1>3, <1>4

\* GetRemoteVersion leaves fresh calls and flights.
LEMMA GetRemoteVersionAgrees ==
    ASSUME Agrees, NEW c \in Callers, GetRemoteVersion(c)
    PROVE  FlightsAgree
<1> DEFINE k == call[c]
           f == flight[NodeOf[c]]
<1>1. k \in Call /\ pub[remote] \in Data /\ remote \in Version /\ CallOK(k, f)
  BY DEF Agrees, TypeOK
<1>2. k.pc = "version" /\ k.floor \in Nat /\ k.ver \in Nat
  BY <1>1, VersionedCacheAssumption DEF GetRemoteVersion, Call, Data, Version
<1>3. CallOK(VersionRead(k, remote), f)
  <2>1. /\ VersionRead(k, remote).pc = "local" /\ VersionRead(k, remote).ver = remote
        /\ VersionRead(k, remote).floor = k.floor
    BY <1>1 DEF VersionRead, Call
  <2>2. remote <= remote
    BY Numbers
  <2>3. k.floor <= pub[remote]
    BY <1>1, <1>2, Zenon DEF CallOK
  <2> QED
    BY <2>1, <2>2, <2>3, Zenon DEF CallOK
<1>4. CallOK(VersionFailed(k), f)
  <2>1. /\ VersionFailed(k).pc = "local" /\ VersionFailed(k).ver = k.ver
        /\ VersionFailed(k).floor = k.floor /\ VersionFailed(k).ok = FALSE
    BY <1>1, GetRecords, Zenon
  <2> QED
    BY <1>1, <1>2, <2>1, Numbers DEF CallOK
<1>5. CASE call' = [call EXCEPT ![c] = VersionRead(k, remote)]
  BY <1>3, <1>5, CallMoves, Zenon DEF GetRemoteVersion
<1>6. CASE call' = [call EXCEPT ![c] = VersionFailed(k)]
  BY <1>4, <1>6, CallMoves, Zenon DEF GetRemoteVersion
<1> QED
  BY <1>5, <1>6 DEF GetRemoteVersion

\* A local entry with the version Redis has covers what the call asks for.
LEMMA GetLocalAgrees ==
    ASSUME Agrees, NEW c \in Callers, GetLocal(c)
    PROVE  FlightsAgree
<1>1. PICK n \in Nodes : n = NodeOf[c]
  BY VersionedCacheAssumption
<1>2. PICK k : k = call[c]
  OBVIOUS
<1>3. /\ k \in Call /\ pub[remote] \in Data /\ remote \in Version
      /\ CallOK(k, flight[n]) /\ EntryOK(local[n]) /\ FlightOK(flight[n])
      /\ flight[n] \in Flight /\ local[n] \in Entry \cup {NoEntry}
  BY <1>1, <1>2 DEF Agrees, TypeOK
<1>4. k.pc = "local" /\ k.floor \in Nat /\ k.ver \in Version /\ k.ok \in BOOLEAN
  BY <1>2, <1>3, VersionedCacheAssumption DEF GetLocal, Call, Data, Version
<1>5. CASE /\ local[n] # NoEntry /\ (k.ok => local[n].ver = k.ver)
           /\ call' = [call EXCEPT ![c] = Returned(k, local[n].data, ~k.ok)]
           /\ UNCHANGED flight
  <2>1. local[n].data \in Data /\ local[n].data \in Nat
    BY <1>3, <1>5 DEF Entry, Data
  <2>2. PICK r : r = Returned(k, local[n].data, ~k.ok)
    OBVIOUS
  <2>3. /\ r.pc = "returned" /\ r.ver = 0 /\ r.floor = k.floor
        /\ r.data = local[n].data /\ r.degraded = ~k.ok
    BY <2>2 DEF Returned, NoCall
  <2>4. k.ok => k.floor <= local[n].data
    BY <1>3, <1>4, <1>5, <2>1, Numbers DEF CallOK, EntryOK
  <2>5. CallOK(r, flight[n])
    BY <1>4, <2>1, <2>3, <2>4, Numbers, Zenon DEF CallOK
  <2> QED
    BY <1>1, <1>2, <1>5, <2>2, <2>5, CallMoves, Zenon
<1>6. CASE call' = [call EXCEPT ![c] = Missed(k)] /\ UNCHANGED flight
  <2>1. Missed(k).pc = "do" /\ Missed(k).floor = k.floor /\ Missed(k).ver = 0
    BY DEF Missed, NoCall
  <2>2. CallOK(Missed(k), flight[n])
    BY <1>3, <1>4, <2>1, Numbers DEF CallOK
  <2> QED
    BY <1>1, <1>6, <2>2, CallMoves, Zenon
<1> QED
  BY <1>1, <1>2, <1>5, <1>6, Zenon DEF GetLocal

\* A flight the call starts itself covers what the call asks for.
LEMMA DoFlightAgrees ==
    ASSUME Agrees, NEW c \in Callers, DoFlight(c)
    PROVE  FlightsAgree
<1>1. PICK n \in Nodes : n = NodeOf[c]
  BY VersionedCacheAssumption
<1>2. PICK k : k = call[c]
  OBVIOUS
<1>3. k \in Call /\ remote \in Version /\ 0 \in Data /\ CallOK(k, flight[n])
  BY <1>1, <1>2, VersionedCacheAssumption DEF Agrees, TypeOK, Data
<1>4. k.pc = "do" /\ k.floor \in Nat
  BY <1>2, <1>3 DEF DoFlight, Call, Data
<1>5. /\ Await(k, TRUE).pc = "wait" /\ Await(k, TRUE).joined = TRUE /\ Await(k, TRUE).ver = 0
      /\ Await(k, FALSE).pc = "wait" /\ Await(k, FALSE).floor = k.floor /\ Await(k, FALSE).ver = 0
  BY <1>3, GetRecords, ZenonT(60)
<1>6. CASE /\ call' = [call EXCEPT ![c] = Await(k, TRUE)] /\ UNCHANGED flight
  <2>1. CallOK(Await(k, TRUE), flight[n])
    BY <1>5, Numbers, Zenon DEF CallOK
  <2> QED
    BY <1>1, <1>6, <2>1, CallMoves, Zenon
<1>7. CASE /\ flight[n].pc = "none"
           /\ call' = [call EXCEPT ![c] = Await(k, FALSE)]
           /\ flight' = [flight EXCEPT ![n] = Starting]
  <2>1. Starting.pc = "version" /\ Starting.ver = 0
    BY DEF Starting, NoFlight
  <2>2. FlightOK(Starting)
    BY <2>1, Numbers DEF FlightOK
  <2>3. k.floor <= pub[remote]
    BY <1>3, <1>4 DEF CallOK
  <2>4. CallOK(Await(k, FALSE), Starting)
    BY <1>5, <2>1, <2>3, Numbers, Zenon DEF CallOK, FlightCovers
  <2>5. ASSUME NEW b \in Callers PROVE CallOK(call'[b], flight'[NodeOf[b]])
    <3>1. CASE b = c
      BY <1>1, <1>7, <2>4, <3>1, Zenon DEF Agrees, TypeOK
    <3>2. CASE b # c /\ NodeOf[b] = n
      <4>1. call'[b] = call[b] /\ flight'[NodeOf[b]] = Starting /\ CallOK(call[b], flight[n])
        BY <1>7, <3>2 DEF Agrees, TypeOK
      <4> QED
        BY <1>7, <2>1, <4>1, Zenon DEF CallOK, FlightCovers
    <3>3. CASE b # c /\ NodeOf[b] # n
      <4>1. call'[b] = call[b] /\ flight'[NodeOf[b]] = flight[NodeOf[b]]
        BY <1>7, <3>3, VersionedCacheAssumption DEF Agrees, TypeOK
      <4> QED
        BY <4>1 DEF Agrees
    <3> QED
      BY <3>1, <3>2, <3>3
  <2>6. \A m \in Nodes : FlightOK(flight'[m])
    BY <1>7, <2>2 DEF Agrees, TypeOK
  <2> QED
    BY <2>5, <2>6 DEF FlightsAgree
<1> QED
  BY <1>1, <1>2, <1>6, <1>7, Zenon DEF DoFlight

\* FlightVersion and a miss in FlightLocal keep what the flight covers.
LEMMA FlightSearchAgrees ==
    ASSUME Agrees, NEW n \in Nodes, FlightVersion(n) \/ FlightLocal(n)
    PROVE  FlightsAgree
<1>1. PICK f : f = flight[n]
  OBVIOUS
<1>2. /\ f \in Flight /\ FlightOK(f) /\ EntryOK(local[n])
      /\ remote \in Version /\ db \in Data /\ local[n] \in Entry \cup {NoEntry}
  BY <1>1 DEF Agrees, TypeOK
<1>3. f.ver \in Version /\ f.ok \in BOOLEAN
  BY <1>2 DEF Flight
<1>4. CASE f.pc = "version" /\ flight' = [flight EXCEPT ![n] = VersionRead(f, remote)] /\ UNCHANGED call
  <2>1. VersionRead(f, remote).pc = "local" /\ VersionRead(f, remote).ver = remote
    BY <1>2 DEF VersionRead, Flight
  <2>2. FlightOK(VersionRead(f, remote))
    BY <2>1, Numbers DEF FlightOK
  <2>3. ASSUME NEW d \in Data, FlightCovers(f, d) PROVE FlightCovers(VersionRead(f, remote), d)
    BY <1>4, <2>1, <2>3, Numbers DEF FlightCovers, Data
  <2> QED
    BY <1>1, <1>4, <2>2, <2>3, FlightMoves, Zenon
<1>5. CASE f.pc = "version" /\ flight' = [flight EXCEPT ![n] = VersionFailed(f)] /\ UNCHANGED call
  <2>1. /\ VersionFailed(f).pc = "local" /\ VersionFailed(f).ver = f.ver
        /\ VersionFailed(f).ok = FALSE
    BY <1>2 DEF VersionFailed, Flight
  <2>2. FlightOK(VersionFailed(f))
    BY <1>2, <2>1 DEF FlightOK
  <2>3. ASSUME NEW d \in Data, FlightCovers(f, d) PROVE FlightCovers(VersionFailed(f), d)
    BY <1>5, <2>1, <2>3, Numbers DEF FlightCovers, Data
  <2> QED
    BY <1>1, <1>5, <2>2, <2>3, FlightMoves, Zenon
<1>6. CASE f.pc = "local" /\ flight' = [flight EXCEPT ![n] = Loading(f, local[n])] /\ UNCHANGED call
  <2>1. Loading(f, local[n]).pc = "load" /\ Loading(f, local[n]).ver = f.ver
    BY <1>2 DEF Loading, Flight
  <2>2. FlightOK(Loading(f, local[n]))
    BY <1>2, <2>1 DEF FlightOK
  <2>3. ASSUME NEW d \in Data, FlightCovers(f, d) PROVE FlightCovers(Loading(f, local[n]), d)
    BY <1>6, <2>1, <2>3 DEF FlightCovers
  <2> QED
    BY <1>1, <1>6, <2>2, <2>3, FlightMoves, Zenon
<1>7. CASE /\ f.pc = "local" /\ f.ok /\ local[n] # NoEntry /\ local[n].ver = f.ver
           /\ Answer(n, local[n].data, FALSE)
  <2>1. local[n].data \in Data /\ local[n].data \in Nat
    BY <1>2, <1>7 DEF Entry, Data
  <2>2. ASSUME NEW c \in Waiting(n), ~call[c].joined PROVE call[c].floor <= local[n].data
    <3>1. call[c].pc = "wait" /\ call[c] \in Call /\ CallOK(call[c], f)
      BY <1>1, <2>2 DEF Agrees, Waiting, TypeOK
    <3>2. FlightCovers(f, call[c].floor)
      BY <2>2, <3>1, Zenon DEF CallOK
    <3>3. call[c].floor <= pub[f.ver]
      BY <1>7, <3>2, Zenon DEF FlightCovers
    <3>4. call[c].floor \in Nat
      BY <3>1 DEF Call, Data
    <3> QED
      BY <1>2, <1>3, <1>7, <2>1, <3>3, <3>4, Numbers DEF EntryOK
  <2> QED
    BY <1>7, <2>1, <2>2, AnswerMoves, Zenon
<1>8. CASE FlightVersion(n)
  BY <1>1, <1>4, <1>5, <1>8 DEF FlightVersion
<1>9. CASE FlightLocal(n)
  BY <1>1, <1>6, <1>7, <1>9, Zenon DEF FlightLocal
<1> QED
  BY <1>8, <1>9

\* What FlightLoad reads from the database covers everything published so far.
LEMMA FlightLoadAgrees ==
    ASSUME Agrees, NEW n \in Nodes, FlightLoad(n)
    PROVE  FlightsAgree
<1>1. PICK f : f = flight[n]
  OBVIOUS
<1>2. f \in Flight /\ FlightOK(f) /\ remote \in Version /\ db \in Data /\ f.pc = "load"
  BY <1>1 DEF Agrees, TypeOK, FlightLoad
<1>3. f.ver \in Version /\ f.ok \in BOOLEAN
  BY <1>2 DEF Flight
<1>4. CASE flight' = [flight EXCEPT ![n] = Loaded(f, db)] /\ UNCHANGED call
  <2>1. PICK g : g = Loaded(f, db)
    OBVIOUS
  <2>2. g.pc = "set" /\ g.ver = f.ver /\ g.ok = f.ok /\ g.data = db
    BY <1>2, <2>1 DEF Loaded, Flight
  <2>3. EntryVersion(g) \in Version /\ EntryVersion(g) <= remote
    BY <1>2, <1>3, <2>2, Numbers DEF EntryVersion, FlightOK
  <2>4. FlightOK(g)
    BY <1>2, <2>2, <2>3, Numbers DEF FlightOK
  <2>5. ASSUME NEW d \in Data, FlightCovers(f, d) PROVE FlightCovers(g, d)
    BY <1>2, <2>2, <2>5 DEF FlightCovers
  <2> QED
    BY <1>1, <1>4, <2>1, <2>4, <2>5, FlightMoves, Zenon
<1>5. CASE f.entry # NoEntry /\ Answer(n, f.entry.data, TRUE)
  <2>1. f.entry.data \in Data
    BY <1>2, <1>5 DEF Flight, Entry
  <2> QED
    BY <1>5, <2>1, AnswerMoves, Zenon
<1>6. CASE /\ flight' = [flight EXCEPT ![n] = NoFlight]
           /\ call' = [c \in Callers |-> IF c \in Waiting(n) THEN NoCall ELSE call[c]]
  <2>1. FlightOK(NoFlight)
    BY Numbers DEF FlightOK, NoFlight
  <2>2. \A m \in Nodes : FlightOK(flight'[m])
    BY <1>6, <2>1 DEF Agrees, TypeOK
  <2>3. ASSUME NEW c \in Callers PROVE CallOK(call'[c], flight'[NodeOf[c]])
    <3>1. CASE c \in Waiting(n)
      BY <1>6, <3>1, FreshCalls
    <3>2. CASE c \notin Waiting(n) /\ NodeOf[c] = n
      <4>1. call'[c] = call[c] /\ call[c].pc # "wait" /\ CallOK(call[c], flight[n])
        BY <1>6, <3>2 DEF Agrees, Waiting
      <4> QED
        BY <4>1, NotWaiting
    <3>3. CASE c \notin Waiting(n) /\ NodeOf[c] # n
      <4>1. call'[c] = call[c] /\ flight'[NodeOf[c]] = flight[NodeOf[c]]
        BY <1>6, <3>3, VersionedCacheAssumption DEF Agrees, TypeOK
      <4> QED
        BY <4>1 DEF Agrees
    <3> QED
      BY <3>1, <3>2, <3>3
  <2> QED
    BY <2>2, <2>3 DEF FlightsAgree
<1> QED
  BY <1>1, <1>4, <1>5, <1>6, Zenon DEF FlightLoad

\* The entry FlightSet stores and the answer it gives are those of the load.
LEMMA FlightSetAgrees ==
    ASSUME Agrees, NEW n \in Nodes, FlightSet(n)
    PROVE  FlightsAgree /\ \A m \in Nodes : EntryOK(local'[m])
<1>1. PICK f : f = flight[n]
  OBVIOUS
<1>2. f \in Flight /\ FlightOK(f) /\ f.pc = "set"
  BY <1>1 DEF Agrees, TypeOK, FlightSet
<1>3. f.data \in Data /\ f.data \in Nat /\ f.ver \in Version /\ f.ok \in BOOLEAN
  BY <1>2 DEF Flight, Data
<1>4. ASSUME NEW c \in Waiting(n), ~call[c].joined PROVE call[c].floor <= f.data
  <2>1. call[c].pc = "wait" /\ CallOK(call[c], f)
    BY <1>1, <1>4 DEF Agrees, Waiting
  <2> QED
    BY <1>2, <1>4, <2>1 DEF CallOK, FlightCovers
<1>5. Answer(n, f.data, FALSE)
  BY <1>1, Zenon DEF FlightSet
<1>6. FlightsAgree
  BY <1>3, <1>4, <1>5, AnswerMoves, Zenon
<1>7. PICK e : e = [data |-> f.data, ver |-> EntryVersion(f)]
  OBVIOUS
<1>8. EntryOK(e)
  <2>1. e.data = f.data /\ e.ver = EntryVersion(f)
    BY <1>7
  <2>2. EntryVersion(f) <= remote
    BY <1>2, <1>3, Numbers DEF EntryVersion, FlightOK
  <2> QED
    BY <1>2, <2>1, <2>2 DEF EntryOK, FlightOK
<1>9. local' = [local EXCEPT ![n] = e]
  BY <1>1, <1>7 DEF FlightSet
<1> QED
  BY <1>6, <1>8, <1>9 DEF Agrees, TypeOK

\* StartGet, Return and the steps of a writer leave fresh calls and flights.
LEMMA CallStepsAgree ==
    ASSUME Agrees, NEW c \in Callers,
           StartGet(c) \/ Return(c) \/ InvalidateLocal(c) \/ InvalidateRemote(c)
    PROVE  FlightsAgree
<1>1. PICK k : k = call[c]
  OBVIOUS
<1>2. k \in Call /\ CallOK(k, flight[NodeOf[c]])
  BY <1>1 DEF Agrees, TypeOK
<1>3. CASE StartGet(c) /\ call' = [call EXCEPT ![c] = Getting(pub[remote])] /\ UNCHANGED flight
  BY <1>3, FreshCalls, CallMoves, Zenon
<1>4. CASE call' = [call EXCEPT ![c] = NoCall] /\ UNCHANGED flight
  BY <1>4, FreshCalls, CallMoves, Zenon
<1>5. CASE k.pc = "del" /\ call' = [call EXCEPT ![c] = Deleted(k)] /\ UNCHANGED flight
  <2>1. Deleted(k).pc = "incr" /\ Deleted(k).data = k.data /\ Deleted(k).ver = k.ver
    BY <1>2 DEF Deleted, Call
  <2>2. CallOK(Deleted(k), flight[NodeOf[c]])
    BY <1>2, <1>5, <2>1 DEF CallOK
  <2> QED
    BY <1>5, <2>2, CallMoves, Zenon
<1>6. CASE StartGet(c)
  BY <1>3, <1>6 DEF StartGet
<1>7. CASE Return(c)
  BY <1>4, <1>7 DEF Return
<1>8. CASE InvalidateLocal(c)
  BY <1>1, <1>5, <1>8 DEF InvalidateLocal
<1>9. CASE InvalidateRemote(c)
  BY <1>4, <1>9 DEF InvalidateRemote
<1> QED
  BY <1>6, <1>7, <1>8, <1>9

\* An increment settles what is published at the new version and nothing else.
LEMMA InvalidateRemoteGrows ==
    ASSUME Agrees, TypeOK', NEW c \in Callers, InvalidateRemote(c)
    PROVE  Grows
<1>1. CASE UNCHANGED <<remote, pub>>
  BY <1>1, Quiet DEF InvalidateRemote, Agrees
<1>2. CASE /\ remote < MaxVersion /\ remote' = remote + 1
           /\ pub' = [pub EXCEPT ![remote + 1] = Newest(pub[remote], call[c].data)]
  <2>1. call[c] \in Call /\ CallOK(call[c], flight[NodeOf[c]]) /\ call[c].pc = "incr"
    BY DEF Agrees, TypeOK, InvalidateRemote
  <2>2. call[c].data \in Nat /\ call[c].data <= db
    BY <2>1 DEF Call, Data, CallOK
  <2>3. PICK x : x = Newest(pub[remote], call[c].data)
    OBVIOUS
  <2>4. x \in Nat /\ pub[remote] <= x /\ x <= db
    BY <2>2, <2>3, Numbers DEF Newest
  <2>5. db' = db
    BY DEF InvalidateRemote
  <2>6. /\ remote + 1 \in Version /\ pub'[remote + 1] = x
        /\ \A v \in 0 .. remote : v \in Version /\ pub'[v] = pub[v]
    BY <1>2, <2>3, Numbers, VersionedCacheAssumption DEF Agrees, TypeOK, Version
  <2>7. VersionsOK'
    <3>1. pub'[remote'] <= db' /\ pub'[0] = 0
      BY <1>2, <2>4, <2>5, <2>6, Numbers DEF Agrees, VersionsOK
    <3>2. ASSUME NEW v \in 0 .. remote', NEW w \in 0 .. remote', v <= w
          PROVE  pub'[v] <= pub'[w]
      <4>1. CASE w \in 0 .. remote
        <5>1. v \in 0 .. remote
          BY <3>2, <4>1, Numbers
        <5> QED
          BY <2>6, <3>2, <4>1, <5>1 DEF Agrees, VersionsOK
      <4>2. CASE w = remote + 1 /\ v \in 0 .. remote
        <5>1. pub[v] <= pub[remote] /\ pub[v] \in Nat
          BY <2>6, <4>2, Numbers
        <5>2. pub'[v] = pub[v] /\ pub'[w] = x
          BY <2>6, <4>2
        <5> QED
          BY <2>4, <5>1, <5>2, Numbers
      <4>3. CASE w = remote + 1 /\ v = remote + 1
        BY <2>4, <2>6, <4>3
      <4> QED
        BY <1>2, <3>2, <4>1, <4>2, <4>3, Numbers
    <3> QED
      BY <3>1, <3>2 DEF VersionsOK
  <2> QED
    BY <1>2, <2>4, <2>5, <2>6, <2>7, Numbers DEF Grows
<1> QED
  BY <1>1, <1>2 DEF InvalidateRemote

\* A commit publishes nothing yet.
LEMMA CommitAgrees ==
    ASSUME Agrees, TypeOK', NEW c \in Callers, Commit(c)
    PROVE  CacheInv'
<1>1. db \in Nat /\ db' = db + 1 /\ db' \in Data /\ UNCHANGED <<remote, pub, local, flight, expiries>>
  BY Numbers DEF Commit, TypeOK
<1>2. Grows
  BY <1>1, Numbers DEF Agrees, VersionsOK, Grows
<1>3. /\ Writing(db + 1).pc = "del" /\ Writing(db + 1).data = db + 1
      /\ Writing(db + 1).ver = 0
  BY DEF Writing, NoCall
<1>4. ASSUME NEW b \in Callers PROVE CallOK(call[b], flight[NodeOf[b]])'
  <2>1. CASE b = c
    <3>1. call'[b] = Writing(db + 1)
      BY <2>1 DEF Agrees, TypeOK, Commit
    <3>2. db + 1 <= db' /\ 0 <= remote'
      BY <1>1, Numbers
    <3> QED
      BY <1>3, <3>1, <3>2, Zenon DEF CallOK
  <2>2. CASE b # c
    <3>1. PICK k \in Call : k = call[b] /\ call'[b] = k
      BY <2>2 DEF Agrees, TypeOK, Commit
    <3>2. PICK g \in Flight : g = flight[NodeOf[b]] /\ flight'[NodeOf[b]] = g
      BY <1>1, VersionedCacheAssumption DEF Agrees, TypeOK
    <3>3. CallOK(k, g) /\ FlightOK(g)
      BY <3>1, <3>2, VersionedCacheAssumption DEF Agrees
    <3>4. CallOK(k, g)'
      BY <1>2, <3>3, Persists DEF Agrees
    <3> QED
      BY <3>1, <3>2, <3>4 DEF CallOK, FlightCovers
  <2> QED
    BY <2>1, <2>2
<1>5. ASSUME NEW n \in Nodes PROVE EntryOK(local[n])' /\ FlightOK(flight[n])'
  BY <1>1 DEF Agrees, EntryOK, FlightOK, EntryVersion
<1>6. VersionsOK'
  BY <1>2 DEF Grows
<1> QED
  BY <1>4, <1>5, <1>6 DEF CacheInv

\* An entry that is dropped leaves nothing to be wrong about.
LEMMA DroppedEntries ==
    ASSUME Agrees, NEW n \in Nodes,
           local' = [local EXCEPT ![n] = NoEntry] \/ UNCHANGED local
    PROVE  \A m \in Nodes : EntryOK(local'[m])
<1>1. EntryOK(NoEntry)
  BY DEF EntryOK
<1> QED
  BY <1>1 DEF Agrees, TypeOK

\* A restarted process has no flight and nobody who waits for one.
LEMMA NodeRestartsAgrees ==
    ASSUME Agrees, NEW n \in Nodes, NodeRestarts(n)
    PROVE  FlightsAgree
<1>1. FlightOK(NoFlight)
  BY Numbers DEF FlightOK, NoFlight
<1>2. \A m \in Nodes : FlightOK(flight'[m])
  BY <1>1 DEF Agrees, TypeOK, NodeRestarts
<1>3. ASSUME NEW c \in Callers PROVE CallOK(call'[c], flight'[NodeOf[c]])
  <2>1. CASE NodeOf[c] = n
    <3>1. call'[c] = NoCall
      BY <2>1 DEF NodeRestarts
    <3> QED
      BY <3>1, FreshCalls
  <2>2. CASE NodeOf[c] # n
    <3>1. call'[c] = call[c] /\ flight'[NodeOf[c]] = flight[NodeOf[c]]
      BY <2>2, VersionedCacheAssumption DEF Agrees, TypeOK, NodeRestarts
    <3> QED
      BY <3>1 DEF Agrees
  <2> QED
    BY <2>1, <2>2
<1> QED
  BY <1>2, <1>3 DEF FlightsAgree

-----------------------------------------------------------------------------
(* The theorems *)

\* An empty cache and an empty history agree.
LEMMA InitInv == Init => IInv
<1> SUFFICES ASSUME Init PROVE IInv
  OBVIOUS
<1>1. 0 \in Version /\ remote = 0 /\ db = 0 /\ \A v \in Version : pub[v] = 0
  BY VersionedCacheAssumption DEF Init, Version
<1>2. VersionsOK
  BY <1>1 DEF VersionsOK
<1>3. \A n \in Nodes : EntryOK(local[n])
  BY DEF Init, EntryOK
<1>4. \A n \in Nodes : FlightOK(flight[n])
  <2>1. NoFlight.pc = "none" /\ NoFlight.ver = 0
    BY DEF NoFlight
  <2>2. FlightOK(NoFlight)
    BY <1>1, <2>1 DEF FlightOK
  <2> QED
    BY <2>2, Zenon DEF Init
<1>5. \A c \in Callers : CallOK(call[c], flight[NodeOf[c]])
  BY <1>1 DEF Init, CallOK, NoCall
<1> QED
  BY <1>2, <1>3, <1>4, <1>5, InitType DEF IInv, CacheInv

\* Every step of a reader, a writer, a flight, time and a failure keeps the
\* agreement, as long as the version key has not run out.
LEMMA NextInv == IInv /\ [Next]_vars => IInv'
<1> SUFFICES ASSUME IInv, [Next]_vars PROVE CacheInv'
  BY NextType DEF IInv
<1>1. TypeOK /\ TypeOK'
  BY NextType DEF IInv
<1> SUFFICES ASSUME expiries' = 0 PROVE CacheInv'
  BY DEF CacheInv
<1>2. CASE VersionExpires
  <2>1. expiries \in Nat /\ expiries' = expiries + 1
    BY <1>1, <1>2 DEF TypeOK, VersionExpires
  <2> QED
    BY <2>1
<1>3. CASE UNCHANGED vars
  <2>1. UNCHANGED <<db, remote, local, flight, call, expiries, pub>>
    BY <1>3 DEF vars
  <2> QED
    BY <2>1 DEF IInv, CacheInv, VersionsOK, EntryOK, FlightOK, EntryVersion, CallOK, FlightCovers
<1>4. ASSUME expiries = 0 PROVE Agrees
  BY <1>1, <1>4 DEF IInv, CacheInv, Agrees
<1>5. ASSUME Agrees, Grows, FlightsAgree, \A n \in Nodes : EntryOK(local'[n])
      PROVE  CacheInv'
  BY <1>1, <1>5, Conclude DEF FlightsAgree
<1>6. ASSUME NEW c \in Callers, StartGet(c) \/ Commit(c) \/ CallStep(c) PROVE CacheInv'
  <2>1. Agrees
    BY <1>4, <1>6, Zenon DEF StartGet, Commit, CallStep, GetRemoteVersion, GetLocal, DoFlight, Return,
                      InvalidateLocal, InvalidateRemote
  <2>2. CASE Commit(c)
    BY <1>1, <2>1, <2>2, CommitAgrees
  <2>3. NodeOf[c] \in Nodes
    BY VersionedCacheAssumption
  <2>4. CASE InvalidateLocal(c)
    <3>1. Grows
      BY <1>1, <2>1, <2>4, Quiet DEF Agrees, InvalidateLocal
    <3>2. \A n \in Nodes : EntryOK(local'[n])
      BY <2>1, <2>3, <2>4, DroppedEntries, Zenon DEF InvalidateLocal
    <3> QED
      BY <1>5, <2>1, <2>4, <3>1, <3>2, CallStepsAgree
  <2>5. CASE InvalidateRemote(c)
    <3>1. Grows
      BY <1>1, <2>1, <2>5, InvalidateRemoteGrows
    <3>2. \A n \in Nodes : EntryOK(local'[n])
      BY <2>1, <2>3, <2>5, DroppedEntries DEF InvalidateRemote
    <3> QED
      BY <1>5, <2>1, <2>5, <3>1, <3>2, CallStepsAgree
  <2>6. CASE StartGet(c) \/ Return(c) \/ GetRemoteVersion(c) \/ GetLocal(c) \/ DoFlight(c)
    <3>1. UNCHANGED <<db, remote, pub, local>>
      BY <2>6, Zenon DEF StartGet, Return, GetRemoteVersion, GetLocal, DoFlight
    <3>2. Grows
      BY <1>1, <2>1, <3>1, Quiet, Zenon DEF Agrees
    <3>3. \A n \in Nodes : EntryOK(local'[n])
      BY <2>1, <2>3, <3>1, DroppedEntries
    <3>4. FlightsAgree
      BY <2>1, <2>6, CallStepsAgree, GetRemoteVersionAgrees, GetLocalAgrees, DoFlightAgrees, Zenon
    <3> QED
      BY <1>5, <2>1, <3>2, <3>3, <3>4
  <2> QED
    BY <1>6, <2>2, <2>4, <2>5, <2>6 DEF CallStep
<1>7. ASSUME NEW n \in Nodes, FlightStep(n) \/ LocalExpires(n) \/ NodeRestarts(n)
      PROVE  CacheInv'
  <2>1. UNCHANGED <<db, remote, pub, expiries>>
    BY <1>7, Zenon DEF FlightStep, LocalExpires, NodeRestarts, FlightVersion, FlightLocal,
                FlightLoad, FlightSet
  <2>2. Agrees
    BY <1>4, <2>1
  <2>3. Grows
    BY <1>1, <2>1, <2>2, Quiet, Zenon DEF Agrees
  <2>4. CASE FlightSet(n)
    BY <1>5, <2>2, <2>3, <2>4, FlightSetAgrees
  <2>5. CASE FlightVersion(n) \/ FlightLocal(n) \/ FlightLoad(n)
    <3>1. \A m \in Nodes : EntryOK(local'[m])
      BY <2>2, <2>5, DroppedEntries, Zenon DEF FlightVersion, FlightLocal, FlightLoad
    <3> QED
      BY <1>5, <2>2, <2>3, <2>5, <3>1, FlightSearchAgrees, FlightLoadAgrees
  <2>6. CASE LocalExpires(n)
    <3>1. \A m \in Nodes : EntryOK(local'[m])
      BY <2>2, <2>6, DroppedEntries, Zenon DEF LocalExpires
    <3>2. FlightsAgree
      BY <2>2, <2>6 DEF Agrees, FlightsAgree, LocalExpires
    <3> QED
      BY <1>5, <2>2, <2>3, <3>1, <3>2
  <2>7. CASE NodeRestarts(n)
    <3>1. \A m \in Nodes : EntryOK(local'[m])
      BY <2>2, <2>7, DroppedEntries, Zenon DEF NodeRestarts
    <3> QED
      BY <1>5, <2>2, <2>3, <2>7, <3>1, NodeRestartsAgrees
  <2> QED
    BY <1>7, <2>4, <2>5, <2>6, <2>7 DEF FlightStep
<1> QED
  BY <1>2, <1>3, <1>6, <1>7 DEF Next, Callers

\* The inductive invariant holds in every reachable state.
THEOREM CacheInductive == Spec => []IInv
BY InitInv, NextInv, PTL DEF Spec

\* Until the version key first runs out, versions, entries, flights and calls
\* agree on what writers have published through Invalidate.
THEOREM CacheInvHolds == Spec => []CacheInv
<1>1. IInv => CacheInv
  BY DEF IInv
<1> QED
  BY <1>1, CacheInductive, PTL

\* Every variable of the cache keeps its type.
THEOREM CacheTypeCorrect == Spec => []TypeOK
<1>1. IInv => TypeOK
  BY DEF IInv
<1> QED
  BY <1>1, CacheInductive, PTL

\* Until the version key first runs out, an entry reflects every transaction
\* published when Redis reached its version.
THEOREM EntryCoversHolds == Spec => []EntryCovers
<1>1. IInv => EntryCovers
  <2> SUFFICES ASSUME IInv, expiries = 0, NEW n \in Nodes, local[n] # NoEntry
               PROVE  local[n].data >= pub[local[n].ver]
    BY DEF EntryCovers
  <2> QED
    BY DEF IInv, CacheInv, EntryOK
<1> QED
  BY <1>1, CacheInductive, PTL

\* Until then, a Get that Redis and the database answered and that started its
\* own flight returns everything published before it was called.
THEOREM FreshReadHolds == Spec => []FreshRead
<1>1. IInv => FreshRead
  <2> SUFFICES ASSUME IInv, expiries = 0, NEW c \in Callers,
                      call[c].pc = "returned" /\ ~call[c].degraded /\ ~call[c].joined
               PROVE  call[c].data >= call[c].floor
    BY DEF FreshRead
  <2> QED
    BY DEF IInv, CacheInv, CallOK
<1> QED
  BY <1>1, CacheInductive, PTL

=============================================================================
