---------------------------- MODULE PlayerProofs ----------------------------
(***************************************************************************)
(* The properties of Player that runs check, for any number of nodes, of   *)
(* values, of failures and of updates that the parts of a player ask for.  *)
(*                                                                         *)
(* ListInv: the list of differences stays readable and bounded, whatever   *)
(* the nodes lose or repeat.  TimeInv: everything has its type, and the    *)
(* time a player was away is handed out exactly.  SaveInv: as long as the  *)
(* guard holds, the fields that are not dirty are what Load would return.  *)
(***************************************************************************)
EXTENDS Player, FiniteSetTheorems, WellFoundedInduction, TLAPS

\* Nodes that have counted and will append.
Appending == {n \in Nodes : /\ actor[n].pc = "saving"
                            /\ actor[n].count > 0 /\ actor[n].count < CompactCount}

HasFields(a) == {"pc", "count", "resume"} \subseteq DOMAIN a

\* What a node that has counted relies on: a list that was not empty stays so.
SaverOK(a) ==
    a.pc = "saving" =>
        /\ a.resume \in {"running", "stopped"}
        /\ a.count \in Nat
        /\ a.count > 0 => Len(list) > 0

Readable(l) == \A i \in 1 .. Len(l) : l[i].full <=> i = 1

\* The append that each of those nodes is about to make is already counted.
ListInv ==
    /\ \E S : list \in Seq(S)
    /\ Readable(list)
    /\ actor = [n \in Nodes |-> actor[n]]
    /\ \A n \in Nodes : HasFields(actor[n]) /\ SaverOK(actor[n])
    /\ Len(list) + Cardinality(Appending) <= CompactCount + Cardinality(Nodes) - 1

-----------------------------------------------------------------------------
\* The nodes that append are finitely many.
LEMMA AppendingFinite ==
    /\ IsFiniteSet(Appending) /\ Cardinality(Appending) \in Nat
    /\ Cardinality(Nodes) \in Nat
    /\ Cardinality(Appending) <= Cardinality(Nodes)
<1>1. Appending \in SUBSET Nodes
  BY Zenon DEF Appending
<1>2. IsFiniteSet(Nodes)
  BY PlayerAssumption, Zenon
<1> QED
  BY <1>1, <1>2, FS_Subset, FS_CardinalityType, Zenon

\* The same after a step.
LEMMA AppendingFiniteNext ==
    /\ IsFiniteSet(Appending') /\ Cardinality(Appending') \in Nat
    /\ Cardinality(Appending') <= Cardinality(Nodes)
<1>1. Appending' \in SUBSET Nodes
  BY Zenon DEF Appending
<1>2. IsFiniteSet(Nodes)
  BY PlayerAssumption, Zenon
<1> QED
  BY <1>1, <1>2, FS_Subset, FS_CardinalityType

\* The length of the list.
LEMMA ListLength == ListInv => Len(list) \in Nat
BY DEF ListInv

\* The first load finds an empty list.
LEMMA InitList == Init => ListInv
<1> SUFFICES ASSUME Init PROVE ListInv
  BY Zenon
<1>1. list = <<>> /\ list \in Seq({}) /\ Len(list) = 0
  BY DEF Init
<1>2. \A n \in Nodes : actor[n] = NoActor
  BY Zenon DEF Init
<1>3. NoActor.pc = "none" /\ HasFields(NoActor)
  BY Zenon DEF NoActor, HasFields
<1>4. actor = [n \in Nodes |-> actor[n]]
  BY Zenon DEF Init
<1>5. Appending = {}
  BY <1>2, <1>3, Zenon DEF Appending
<1>6. Cardinality(Appending) = 0
  BY <1>5, FS_EmptySet, Zenon
<1>7. \A n \in Nodes : HasFields(actor[n]) /\ SaverOK(actor[n])
  BY <1>2, <1>3, Zenon DEF SaverOK
<1>8. Len(list) + Cardinality(Appending) <= CompactCount + Cardinality(Nodes) - 1
  BY <1>1, <1>6, AppendingFinite, PlayerAssumption
<1> QED
  BY <1>1, <1>4, <1>7, <1>8 DEF ListInv, Readable

-----------------------------------------------------------------------------
\* A step of n that leaves the list alone and after which n is not saving.
LEMMA NotSaving ==
    ASSUME ListInv, NEW n \in Nodes, NEW x,
           actor' = [actor EXCEPT ![n] = x],
           HasFields(x), x.pc # "saving", list' = list
    PROVE  ListInv'
<1>1. /\ actor' = [m \in Nodes |-> actor'[m]] /\ actor'[n] = x
      /\ \A m \in Nodes \ {n} : actor'[m] = actor[m]
  BY Zenon DEF ListInv
<1>2. \A m \in Nodes : HasFields(actor'[m])
  BY <1>1, Zenon DEF ListInv
<1>3. \A m \in Nodes : SaverOK(actor[m])
  BY Zenon DEF ListInv
<1>4. ASSUME NEW m \in Nodes PROVE SaverOK(actor[m])'
  <2>1. CASE m = n
    BY <2>1, <1>1, Zenon DEF SaverOK
  <2>2. CASE m # n
    BY <2>2, <1>1, <1>3, Zenon DEF SaverOK
  <2> QED
    BY <2>1, <2>2, Zenon
<1>5. Appending' \in SUBSET Appending
  BY <1>1, Zenon DEF Appending
<1>6. Cardinality(Appending') <= Cardinality(Appending)
  BY <1>5, AppendingFinite, FS_Subset, Zenon
<1>7. Len(list') + Cardinality(Appending') <= CompactCount + Cardinality(Nodes) - 1
  BY <1>6, AppendingFinite, AppendingFiniteNext, ListLength, PlayerAssumption DEF ListInv
<1>8. (\E S : list' \in Seq(S)) /\ Readable(list')
  BY Zenon DEF ListInv
<1>9. \A m \in Nodes : HasFields(actor[m])' /\ SaverOK(actor[m])'
  BY <1>2, <1>4, Zenon DEF HasFields
<1> QED
  BY <1>1, <1>7, <1>8, <1>9, Zenon DEF ListInv

\* A step that changes neither the list nor an actor.
LEMMA Untouched ==
    ASSUME ListInv, UNCHANGED <<list, actor>>
    PROVE  ListInv'
BY Zenon DEF ListInv, Readable, HasFields, SaverOK, Appending

\* Save reads the length: either the list is short enough for every node to
\* append, or n will not append.
LEMMA CountsStep ==
    ASSUME ListInv, NEW n \in Nodes, SaveCounts(n)
    PROVE  ListInv'
<1> DEFINE x == [actor[n] EXCEPT !.pc = "saving", !.count = Len(list), !.resume = actor[n].pc]
<1>1. HasFields(actor[n]) /\ n \in DOMAIN actor
  BY Zenon DEF ListInv
<1>2. actor' = [actor EXCEPT ![n] = x] /\ list' = list
  BY <1>1, Zenon DEF SaveCounts
<1>3. x.pc = "saving" /\ x.count = Len(list) /\ x.resume \in {"running", "stopped"} /\ HasFields(x)
  BY <1>1, Zenon DEF SaveCounts, HasFields
<1> HIDE DEF x
<1>4. /\ actor' = [m \in Nodes |-> actor'[m]] /\ actor'[n] = x
      /\ \A m \in Nodes \ {n} : actor'[m] = actor[m]
  BY <1>2, Zenon DEF ListInv
<1>5. Len(list) \in Nat
  BY ListLength, Zenon
<1>6. \A m \in Nodes : SaverOK(actor[m]) /\ HasFields(actor[m])
  BY Zenon DEF ListInv
<1>7. ASSUME NEW m \in Nodes PROVE SaverOK(actor[m])' /\ HasFields(actor[m])'
  <2>1. CASE m = n
    BY <2>1, <1>2, <1>3, <1>4, <1>5 DEF SaverOK, HasFields
  <2>2. CASE m # n
    BY <2>2, <1>2, <1>4, <1>6, Zenon DEF SaverOK, HasFields
  <2> QED
    BY <2>1, <2>2, Zenon
<1>8. Len(list') + Cardinality(Appending') <= CompactCount + Cardinality(Nodes) - 1
  <2>1. CASE Len(list) < CompactCount
    BY <2>1, <1>2, <1>5, AppendingFinite, AppendingFiniteNext, PlayerAssumption
  <2>2. CASE ~(Len(list) < CompactCount)
    <3>1. Appending' \in SUBSET Appending
      BY <2>2, <1>3, <1>4, Zenon DEF Appending
    <3>2. Cardinality(Appending') <= Cardinality(Appending)
      BY <3>1, AppendingFinite, FS_Subset, Zenon
    <3> QED
      BY <3>2, <1>2, <1>5, AppendingFinite, AppendingFiniteNext, PlayerAssumption DEF ListInv
  <2> QED
    BY <2>1, <2>2, Zenon
<1>9. (\E S : list' \in Seq(S)) /\ Readable(list')
  BY <1>2, Zenon DEF ListInv
<1> QED
  BY <1>4, <1>7, <1>8, <1>9 DEF ListInv

\* A difference is appended to a list with a head, and a snapshot is a list of
\* its own.
LEMMA WrittenReadable ==
    ASSUME NEW l, NEW S, l \in Seq(S), Readable(l),
           NEW count \in Nat, count > 0 => Len(l) > 0, NEW d, NEW value,
           NEW w, w = Written(count, l, d, value)
    PROVE  /\ \E T : w \in Seq(T)
           /\ Readable(w)
           /\ Len(w) > 0
           /\ count > 0 /\ count < CompactCount => Len(w) = Len(l) + 1
           /\ ~(count > 0 /\ count < CompactCount) => Len(w) = 1
<1>1. Diff(d).full = FALSE /\ Full(value).full = TRUE
  BY Zenon DEF Diff, Full
<1>2. CASE count > 0 /\ count < CompactCount
  <2> DEFINE e == Diff(d)
             T == S \cup {e}
  <2>1. w = Append(l, e)
    BY <1>2, Zenon DEF Written
  <2>2. e.full = FALSE
    BY <1>1, Zenon
  <2> HIDE DEF e
  <2>3. l \in Seq(T) /\ e \in T
    OBVIOUS
  <2>4. w \in Seq(T) /\ Len(w) = Len(l) + 1 /\ w[Len(l) + 1] = e /\ Len(l) \in Nat
    BY <2>1, <2>3
  <2>5. \A i \in 1 .. Len(l) : w[i] = l[i]
    BY <2>1, <2>3
  <2>6. Readable(w)
    BY <1>2, <2>2, <2>4, <2>5 DEF Readable
  <2> QED
    BY <1>2, <2>4, <2>6
<1>3. CASE ~(count > 0 /\ count < CompactCount)
  <2> DEFINE e == Full(value)
  <2>1. w = <<e>>
    BY <1>3, Zenon DEF Written
  <2>2. e.full = TRUE
    BY <1>1, Zenon
  <2> HIDE DEF e
  <2>3. w \in Seq({e}) /\ Len(w) = 1 /\ w[1] = e
    BY <2>1
  <2>4. Readable(w)
    BY <2>2, <2>3 DEF Readable
  <2> QED
    BY <1>3, <2>3, <2>4
<1> QED
  BY <1>2, <1>3, Zenon

\* Save writes, and n is not saving any more.
LEMMA WritesStep ==
    ASSUME ListInv, NEW n \in Nodes, actor[n].pc = "saving",
           list' = AfterSave(actor[n]),
           NEW x, actor' = [actor EXCEPT ![n] = x], HasFields(x), x.pc # "saving"
    PROVE  ListInv'
<1> DEFINE count == actor[n].count
           appends == count > 0 /\ count < CompactCount
<1>1. /\ actor' = [m \in Nodes |-> actor'[m]] /\ actor'[n] = x
      /\ \A m \in Nodes \ {n} : actor'[m] = actor[m]
  BY Zenon DEF ListInv
<1>2. count \in Nat /\ (count > 0 => Len(list) > 0)
  BY Zenon DEF ListInv, SaverOK
<1>3. PICK S : list \in Seq(S)
  BY Zenon DEF ListInv
<1>4. Readable(list)
  BY Zenon DEF ListInv
<1>5. list' = Written(count, list, WriteDiff(actor[n].state), actor[n].state.value)
  BY Zenon DEF AfterSave
<1>6. /\ \E T : list' \in Seq(T)
      /\ Readable(list')
      /\ Len(list') > 0
      /\ appends => Len(list') = Len(list) + 1
      /\ ~appends => Len(list') = 1
  BY <1>2, <1>3, <1>4, <1>5, WrittenReadable
<1>7. ASSUME NEW m \in Nodes PROVE SaverOK(actor[m])' /\ HasFields(actor[m])'
  <2>1. CASE m = n
    BY <2>1, <1>1, Zenon DEF SaverOK, HasFields
  <2>2. CASE m # n
    BY <2>2, <1>1, <1>6, Zenon DEF SaverOK, HasFields, ListInv
  <2> QED
    BY <2>1, <2>2, Zenon
<1>8. Len(list') + Cardinality(Appending') <= CompactCount + Cardinality(Nodes) - 1
  <2>1. CASE appends
    <3>1. n \in Appending
      BY <2>1, Zenon DEF Appending
    <3>2. Appending' = Appending \ {n}
      BY <1>1, Zenon DEF Appending
    <3>3. Cardinality(Appending') = Cardinality(Appending) - 1
      BY <3>1, <3>2, AppendingFinite, FS_RemoveElement, Zenon
    <3>4. Len(list') = Len(list) + 1
      BY <2>1, <1>6, Zenon
    <3> QED
      BY <3>3, <3>4, AppendingFinite, ListLength, PlayerAssumption DEF ListInv
  <2>2. CASE ~appends
    <3>1. Appending' \in SUBSET (Nodes \ {n})
      BY <1>1, Zenon DEF Appending
    <3>2. IsFiniteSet(Nodes \ {n}) /\ Cardinality(Nodes \ {n}) = Cardinality(Nodes) - 1
      BY PlayerAssumption, FS_RemoveElement, Zenon
    <3>3. Cardinality(Appending') <= Cardinality(Nodes) - 1
      BY <3>1, <3>2, FS_Subset
    <3>4. Len(list') = 1
      BY <2>2, <1>6, Zenon
    <3> QED
      BY <3>3, <3>4, AppendingFinite, AppendingFiniteNext, PlayerAssumption
  <2> QED
    BY <2>1, <2>2, Zenon
<1> QED
  BY <1>1, <1>6, <1>7, <1>8, Zenon DEF ListInv

-----------------------------------------------------------------------------
\* What a record keeps when fields of it are replaced.
LEMMA Replaced ==
    ASSUME NEW a, HasFields(a), NEW delta, NEW next
    PROVE  HasFields(Update(a, delta, next)) /\ Update(a, delta, next).pc = a.pc
BY Zenon DEF HasFields, Update

\* The steps of a start: loading, Recover, RunOffline.
LEMMA StartStep ==
    ASSUME ListInv, NEW n \in Nodes, LoadPlayerActor(n) \/ Start(n)
    PROVE  ListInv'
<1>1. HasFields(actor[n]) /\ actor = [m \in Nodes |-> actor[m]]
  BY Zenon DEF ListInv
<1>2. CASE LoadPlayerActor(n)
  <2> DEFINE x == [NoActor EXCEPT !.pc = "mounted", !.state.value = Loaded(list)]
  <2>1. HasFields(x) /\ x.pc = "mounted"
    BY Zenon DEF NoActor, HasFields
  <2>2. actor' = [actor EXCEPT ![n] = x] /\ list' = list
    BY <1>2, Zenon DEF LoadPlayerActor
  <2> HIDE DEF x
  <2> QED
    BY <2>1, <2>2, NotSaving, Zenon
<1>3. CASE OnStart(n)
  <2> DEFINE a == Recovered(actor[n])
  <2>1. HasFields(a) /\ list' = list
    BY <1>1, <1>3, Zenon DEF Recovered, HasFields, OnStart
  <2>2. CASE a.state.value.off # 0 /\ now > a.state.value.off
    <3>1. PICK next \in NextUpdates :
             actor' = [actor EXCEPT ![n] =
                 [Update(a, 0, next) EXCEPT !.pc = "offline", !.began = now,
                                            !.remain = now - a.state.value.off]]
      BY <1>3, <2>2, Zenon DEF OnStart
    <3> DEFINE x == [Update(a, 0, next) EXCEPT !.pc = "offline", !.began = now,
                                               !.remain = now - a.state.value.off]
    <3>2. HasFields(Update(a, 0, next))
      BY <2>1, Replaced, Zenon
    <3>3. HasFields(x) /\ x.pc = "offline"
      BY <3>2, Zenon DEF HasFields
    <3>4. actor' = [actor EXCEPT ![n] = x]
      BY <3>1, Zenon
    <3> HIDE DEF x
    <3> QED
      BY <2>1, <3>3, <3>4, NotSaving, Zenon
  <2>3. CASE ~(a.state.value.off # 0 /\ now > a.state.value.off)
    <3> DEFINE x == [a EXCEPT !.pc = "running", !.last = now]
    <3>1. actor' = [actor EXCEPT ![n] = x]
      BY <1>3, <2>3, Zenon DEF OnStart
    <3>2. HasFields(x) /\ x.pc = "running"
      BY <2>1, Zenon DEF HasFields
    <3> HIDE DEF x
    <3> QED
      BY <2>1, <3>1, <3>2, NotSaving
  <2> QED
    BY <2>2, <2>3, Zenon
<1>4. CASE OfflineRound(n)
  <2> DEFINE a == actor[n]
  <2>1. list' = list /\ a.pc = "offline"
    BY <1>4, Zenon DEF OfflineRound
  <2>2. CASE Delta(a) = 0
    <3> DEFINE x == [a EXCEPT !.pc = "panicked"]
    <3>1. actor' = [actor EXCEPT ![n] = x]
      BY <1>1, <1>4, <2>2, Zenon DEF OfflineRound
    <3>2. HasFields(x) /\ x.pc = "panicked"
      BY <1>1, Zenon DEF HasFields
    <3> HIDE DEF x
    <3> QED
      BY <2>1, <3>1, <3>2, NotSaving, Zenon
  <2>3. CASE Delta(a) # 0
    <3>1. PICK next \in NextUpdates :
             actor' = [actor EXCEPT ![n] =
                 [Update(a, Delta(a), next) EXCEPT !.remain = @ - Delta(a), !.rounds = @ + 1]]
      BY <1>4, <2>3, Zenon DEF OfflineRound
    <3> DEFINE u == Update(a, Delta(a), next)
               x == [u EXCEPT !.remain = @ - Delta(a), !.rounds = @ + 1]
    <3>2. HasFields(u) /\ u.pc = "offline"
      BY <1>1, <2>1, Replaced, Zenon
    <3>3. actor' = [actor EXCEPT ![n] = x]
      BY <3>1, Zenon
    <3> HIDE DEF u
    <3>4. HasFields(x) /\ x.pc = "offline"
      BY <3>2, Zenon DEF HasFields
    <3> HIDE DEF x
    <3> QED
      BY <2>1, <3>3, <3>4, NotSaving, Zenon
  <2> QED
    BY <2>2, <2>3, Zenon
<1>5. CASE OfflineDone(n)
  <2> DEFINE x == [actor[n] EXCEPT !.pc = "running", !.last = now, !.next = NoUpdate,
                                   !.began = 0, !.remain = 0, !.rounds = 0]
  <2>1. actor' = [actor EXCEPT ![n] = x] /\ list' = list
    BY <1>1, <1>5, Zenon DEF OfflineDone
  <2>2. HasFields(x) /\ x.pc = "running"
    BY <1>1, Zenon DEF HasFields
  <2> HIDE DEF x
  <2> QED
    BY <2>1, <2>2, NotSaving, Zenon
<1> QED
  BY <1>2, <1>3, <1>4, <1>5 DEF Start

\* The steps of a running or stopped actor that do not save.
LEMMA RunStep ==
    ASSUME ListInv, NEW n \in Nodes,
           \/ OnUpdate(n) \/ RequestUnload(n) \/ OnStop(n) \/ Removed(n) \/ Crash(n)
           \/ \E u \in Uids : SetUid(n, u)
    PROVE  ListInv'
<1>1. HasFields(actor[n]) /\ actor = [m \in Nodes |-> actor[m]]
  BY Zenon DEF ListInv
<1>2. CASE OnUpdate(n)
  <2> DEFINE u == Update(actor[n], now - actor[n].last, NoUpdate)
             x == [u EXCEPT !.last = now, !.pc = IF actor[n].needUnload THEN "unloading" ELSE @]
  <2>1. HasFields(u) /\ u.pc = "running"
    BY <1>1, <1>2, Replaced, Zenon DEF OnUpdate
  <2>2. actor' = [actor EXCEPT ![n] = x] /\ list' = list
    BY <1>2, Zenon DEF OnUpdate
  <2> HIDE DEF u
  <2>3. HasFields(x) /\ x.pc \in {"running", "unloading"}
    BY <2>1, Zenon DEF HasFields
  <2> HIDE DEF x
  <2>4. x.pc # "saving"
    BY <2>3, Zenon
  <2> QED
    BY <2>2, <2>3, <2>4, NotSaving, Zenon
<1>3. CASE RequestUnload(n)
  <2> DEFINE x == [actor[n] EXCEPT !.needUnload = TRUE]
  <2>1. actor' = [actor EXCEPT ![n] = x] /\ list' = list
    BY <1>1, <1>3, Zenon DEF RequestUnload
  <2>2. HasFields(x) /\ x.pc = "running"
    BY <1>1, <1>3, Zenon DEF HasFields, RequestUnload
  <2> HIDE DEF x
  <2> QED
    BY <2>1, <2>2, NotSaving, Zenon
<1>4. CASE OnStop(n)
  <2> DEFINE x == [actor[n] EXCEPT !.pc = "stopped", !.logicTime = now, !.last = 0,
                                   !.needUnload = FALSE, !.state = SetField(@, "off", now)]
  <2>1. actor' = [actor EXCEPT ![n] = x] /\ list' = list
    BY <1>1, <1>4, Zenon DEF OnStop
  <2>2. HasFields(x) /\ x.pc = "stopped"
    BY <1>1, Zenon DEF HasFields
  <2> HIDE DEF x
  <2> QED
    BY <2>1, <2>2, NotSaving, Zenon
<1>5. CASE Removed(n) \/ Crash(n)
  <2>1. actor' = [actor EXCEPT ![n] = NoActor] /\ list' = list
    BY <1>5, Zenon DEF Removed, Crash
  <2>2. HasFields(NoActor) /\ NoActor.pc = "none"
    BY Zenon DEF HasFields, NoActor
  <2> QED
    BY <2>1, <2>2, NotSaving
<1>6. ASSUME NEW u \in Uids, SetUid(n, u) PROVE ListInv'
  <2> DEFINE x == [actor[n] EXCEPT !.state = SetField(@, "uid", u)]
  <2>1. actor' = [actor EXCEPT ![n] = x] /\ list' = list
    BY <1>1, <1>6, Zenon DEF SetUid
  <2>2. HasFields(x) /\ x.pc = "running"
    BY <1>1, <1>6, Zenon DEF HasFields, SetUid
  <2> HIDE DEF x
  <2> QED
    BY <2>1, <2>2, NotSaving, Zenon
<1> QED
  BY <1>2, <1>3, <1>4, <1>5, <1>6, Zenon

\* A Save that succeeds, fails or loses its answer.
LEMMA SaveStep ==
    ASSUME ListInv, NEW n \in Nodes, SaveWrites(n) \/ SaveFails(n)
    PROVE  ListInv'
<1>1. HasFields(actor[n]) /\ actor = [m \in Nodes |-> actor[m]]
  BY Zenon DEF ListInv
<1>2. actor[n].pc = "saving" /\ actor[n].resume \in {"running", "stopped"}
  <2>1. actor[n].pc = "saving"
    BY Zenon DEF SaveWrites, SaveFails
  <2> QED
    BY <2>1, Zenon DEF ListInv, SaverOK
<1>3. CASE SaveWrites(n)
  <2> DEFINE x == [actor[n] EXCEPT !.pc = actor[n].resume, !.count = 0, !.resume = "none",
                                   !.state.dirty = {}]
  <2>1. actor' = [actor EXCEPT ![n] = x]
    <3> DEFINE y == [actor[n] EXCEPT !.pc = actor[n].resume, !.count = 0, !.resume = "none"]
               before == [actor EXCEPT ![n].pc = actor[n].resume, ![n].count = 0,
                                       ![n].resume = "none"]
    <3>1. before = [actor EXCEPT ![n] = y]
      BY <1>1, Zenon
    <3>2. actor' = [before EXCEPT ![n].state.dirty = {}]
      BY <1>3, Zenon DEF SaveWrites
    <3>3. x = [y EXCEPT !.state.dirty = {}]
      BY Zenon
    <3> HIDE DEF x, y, before
    <3>4. before[n] = y /\ before = [m \in Nodes |-> before[m]]
      BY <1>1, <3>1, Zenon
    <3>5. [before EXCEPT ![n].state.dirty = {}]
             = [before EXCEPT ![n] = [y EXCEPT !.state.dirty = {}]]
      BY <3>4, Zenon
    <3> QED
      BY <1>1, <3>1, <3>2, <3>3, <3>5
  <2>2. list' = AfterSave(actor[n])
    BY <1>3, Zenon DEF SaveWrites
  <2>3. HasFields(x) /\ x.pc = actor[n].resume
    BY <1>1, Zenon DEF HasFields
  <2> HIDE DEF x
  <2>4. x.pc # "saving"
    BY <1>2, <2>3, Zenon
  <2> QED
    BY <1>2, <2>1, <2>2, <2>3, <2>4, WritesStep
<1>4. CASE SaveFails(n)
  <2> DEFINE x == [actor[n] EXCEPT !.pc = actor[n].resume, !.count = 0, !.resume = "none"]
  <2>1. actor' = [actor EXCEPT ![n] = x]
    BY <1>1, <1>4, Zenon DEF SaveFails
  <2>2. list' = list \/ list' = AfterSave(actor[n])
    BY <1>4, Zenon DEF SaveFails
  <2>3. HasFields(x) /\ x.pc = actor[n].resume
    BY <1>1 DEF HasFields
  <2> HIDE DEF x
  <2>4. x.pc # "saving"
    BY <1>2, <2>3, Zenon
  <2>5. CASE list' = list
    BY <2>1, <2>3, <2>4, <2>5, NotSaving
  <2>6. CASE list' = AfterSave(actor[n])
    BY <1>2, <2>1, <2>3, <2>4, <2>6, WritesStep
  <2> QED
    BY <2>2, <2>5, <2>6, Zenon
<1> QED
  BY <1>3, <1>4, Zenon

\* Every step keeps the invariant.
LEMMA NextList == ListInv /\ [Next]_vars => ListInv'
<1> SUFFICES ASSUME ListInv, [Next]_vars PROVE ListInv'
  BY Zenon
<1>1. CASE Tick \/ UNCHANGED vars
  <2>1. UNCHANGED <<list, actor>>
    BY <1>1, Zenon DEF Tick, vars
  <2> QED
    BY <2>1, Untouched, Zenon
<1>2. ASSUME NEW n \in Nodes, LoadPlayerActor(n) \/ Start(n) PROVE ListInv'
  BY <1>2, StartStep, Zenon
<1>3. ASSUME NEW n \in Nodes,
             \/ OnUpdate(n) \/ RequestUnload(n) \/ OnStop(n) \/ Removed(n) \/ Crash(n)
             \/ \E u \in Uids : SetUid(n, u)
      PROVE  ListInv'
  BY <1>3, RunStep, Zenon
<1>4. ASSUME NEW n \in Nodes, SaveCounts(n) PROVE ListInv'
  BY <1>4, CountsStep
<1>5. ASSUME NEW n \in Nodes, SaveWrites(n) \/ SaveFails(n) PROVE ListInv'
  BY <1>5, SaveStep, Zenon
<1>6. ASSUME NEW n \in Nodes, GuardLost(n) PROVE ListInv'
  <2>1. UNCHANGED <<list, actor>>
    BY <1>6, Zenon DEF GuardLost
  <2> QED
    BY <2>1, Untouched, Zenon
<1> QED
  BY <1>1, <1>2, <1>3, <1>4, <1>5, <1>6 DEF Next

\* The list a player is loaded from is a snapshot and then differences, and no
\* longer than CompactCount and one difference for every other node, for any
\* number of nodes and of failures, with and without the guard.
THEOREM ListShapeHolds == Spec => []ListShape
<1>1. ListInv => ListShape
  <2> SUFFICES ASSUME ListInv PROVE ListShape
    BY Zenon
  <2>1. PICK S : list \in Seq(S)
    BY Zenon DEF ListInv
  <2>2. DOMAIN list = 1 .. Len(list) /\ Len(list) \in Nat
    BY <2>1
  <2>3. Len(list) <= CompactCount + Cardinality(Nodes) - 1
    BY <2>2, AppendingFinite, PlayerAssumption DEF ListInv
  <2>4. \A i \in DOMAIN list : list[i].full <=> i = 1
    BY <2>2, Zenon DEF ListInv, Readable
  <2> QED
    BY <2>3, <2>4, Zenon DEF ListShape
<1> QED
  BY <1>1, InitList, NextList, PTL DEF Spec

-----------------------------------------------------------------------------
\* FoldFromLeft, over sequences of any length.

\* Natural numbers have a least one.
LEMMA LeastNumber ==
    ASSUME NEW K, K \subseteq Nat, K # {}
    PROVE  \E m \in K : \A k \in K : m <= k
<1>1. PICK m \in K : \A k \in K : ~(<<k, m>> \in OpToRel(<, Nat))
  BY NatLessThanWellFounded, WFMin, Zenon
<1>2. ASSUME NEW k \in K PROVE ~(k < m)
  BY <1>1, Zenon DEF OpToRel
<1> QED
  BY <1>2

\* A set of numbers that holds 0 and with each number the next holds them all.
LEMMA AllNumbers ==
    ASSUME NEW K, 0 \in K, \A k \in Nat : k \in K => k + 1 \in K
    PROVE  \A k \in Nat : k \in K
<1> DEFINE L == {k \in Nat : k \notin K}
<1> SUFFICES ASSUME L # {} PROVE FALSE
  BY Zenon
<1>1. PICK m \in L : \A k \in L : m <= k
  <2>1. L \subseteq Nat
    BY Zenon
  <2> HIDE DEF L
  <2> QED
    BY <2>1, LeastNumber, Zenon
<1>2. m \in Nat /\ m # 0
  BY Zenon
<1>3. m - 1 \in Nat /\ m - 1 \in K /\ (m - 1) + 1 = m
  BY <1>1, <1>2
<1> QED
  BY <1>3, Zenon

\* g is the function behind FoldFromLeft, with step for the operator.
Folding(g, n, base, seq, step) ==
    g = [s \in SUBSET (1 .. n) |->
           IF s = {} THEN base ELSE step[<<g[s \ {Max(s)}], seq[Max(s)]>>]]

\* A set of the first n numbers has a largest.
LEMMA LargestNumber ==
    ASSUME NEW n \in Nat, NEW s \in SUBSET (1 .. n), s # {}
    PROVE  Max(s) \in s
<1> DEFINE L == {n - x : x \in s}
<1>1. L \subseteq Nat /\ L # {}
  <2>1. \A x \in s : n - x \in Nat
    OBVIOUS
  <2>2. L \subseteq Nat
    BY <2>1, Zenon
  <2>3. L # {}
    BY Zenon
  <2> QED
    BY <2>2, <2>3, Zenon
<1>2. PICK m \in L : \A k \in L : m <= k
  <2> HIDE DEF L
  <2> QED
    BY <1>1, LeastNumber, Zenon
<1>3. PICK x \in s : m = n - x
  BY Zenon
<1>4. \A y \in s : x >= y
  <2> TAKE y \in s
  <2>1. n - y \in L
    BY Zenon
  <2>2. n - x <= n - y
    BY <1>2, <1>3, <2>1, Zenon
  <2> QED
    BY <2>2
<1> QED
  BY <1>4, Zenon DEF Max

\* The last of the first n + 1 numbers.
LEMMA LastNumber ==
    ASSUME NEW n \in Nat, NEW s \in SUBSET (1 .. (n + 1)), n + 1 \in s
    PROVE  Max(s) = n + 1 /\ s \ {n + 1} \in SUBSET (1 .. n)
<1>1. \A y \in s : n + 1 >= y
  OBVIOUS
<1>2. ASSUME NEW x \in s, \A y \in s : x >= y PROVE x = n + 1
  BY <1>2
<1>3. Max(s) \in s /\ \A y \in s : Max(s) >= y
  BY <1>1, Zenon DEF Max
<1>4. s \ {n + 1} \in SUBSET (1 .. n)
  OBVIOUS
<1> QED
  BY <1>2, <1>3, <1>4, Zenon

\* g and h begin alike, and go on alike from alike.
Alike(g, h, n) ==
    /\ g[{}] = h[{}]
    /\ \A s \in SUBSET (1 .. n) :
          s # {} => (g[s \ {Max(s)}] = h[s \ {Max(s)}] => g[s] = h[s])

\* Then they are the same.
LEMMA FoldsAgree ==
    ASSUME NEW n \in Nat, NEW g, NEW h, Alike(g, h, n)
    PROVE  \A s \in SUBSET (1 .. n) : g[s] = h[s]
<1> DEFINE Good == {k \in Nat : k <= n => \A s \in SUBSET (1 .. k) : g[s] = h[s]}
<1>1. 0 \in Good
  <2>1. \A s \in SUBSET (1 .. 0) : s = {}
    OBVIOUS
  <2> QED
    BY <2>1, Zenon DEF Alike
<1>2. ASSUME NEW k \in Nat, k \in Good PROVE k + 1 \in Good
  <2>0. k + 1 \in Nat /\ (k + 1 <= n => k <= n)
    OBVIOUS
  <2> SUFFICES ASSUME k + 1 <= n, NEW s \in SUBSET (1 .. (k + 1)) PROVE g[s] = h[s]
    BY <2>0, Zenon
  <2>1. \A r \in SUBSET (1 .. k) : g[r] = h[r]
    BY <1>2, <2>0, Zenon
  <2>2. CASE k + 1 \in s
    <3>1. Max(s) = k + 1 /\ s \ {k + 1} \in SUBSET (1 .. k)
      BY <2>2, LastNumber, Zenon
    <3>2. s \in SUBSET (1 .. n) /\ s # {}
      BY <2>2
    <3> QED
      BY <2>1, <3>1, <3>2, Zenon DEF Alike
  <2>3. CASE k + 1 \notin s
    <3>1. s \in SUBSET (1 .. k)
      BY <2>3
    <3> QED
      BY <2>1, <3>1, Zenon
  <2> QED
    BY <2>2, <2>3, Zenon
<1>3. n \in Good
  <2> HIDE DEF Good
  <2> QED
    BY <1>1, <1>2, AllNumbers, Zenon
<1> QED
  BY <1>3

\* The function exists.
LEMMA FoldExists ==
    ASSUME NEW n \in Nat, NEW V, NEW E, NEW base \in V, NEW seq, \A i \in 1 .. n : seq[i] \in E,
           NEW step \in [V \X E -> V]
    PROVE  \E g \in [SUBSET (1 .. n) -> V] : Folding(g, n, base, seq, step)
<1> DEFINE Good == {k \in Nat : k <= n => \E g \in [SUBSET (1 .. k) -> V] :
                                              Folding(g, k, base, seq, step)}
<1>1. 0 \in Good
  <2> DEFINE g == [s \in SUBSET (1 .. 0) |-> base]
  <2>1. \A s \in SUBSET (1 .. 0) : s = {}
    OBVIOUS
  <2>2. g \in [SUBSET (1 .. 0) -> V] /\ Folding(g, 0, base, seq, step)
    BY <2>1, Zenon DEF Folding
  <2> QED
    BY <2>2, Zenon
<1>2. ASSUME NEW k \in Nat, k \in Good PROVE k + 1 \in Good
  <2>0. k + 1 \in Nat /\ (k + 1 <= n => k <= n)
    OBVIOUS
  <2> SUFFICES ASSUME k + 1 <= n
               PROVE  \E h \in [SUBSET (1 .. (k + 1)) -> V] : Folding(h, k + 1, base, seq, step)
    BY <2>0, Zenon
  <2>1. PICK g \in [SUBSET (1 .. k) -> V] : Folding(g, k, base, seq, step)
    BY <1>2, <2>0, Zenon
  <2> DEFINE h == [s \in SUBSET (1 .. (k + 1)) |->
                     IF k + 1 \in s THEN step[<<g[s \ {k + 1}], seq[k + 1]>>] ELSE g[s]]
  <2>2. ASSUME NEW s \in SUBSET (1 .. (k + 1)), k + 1 \in s
        PROVE  /\ Max(s) = k + 1 /\ s \ {k + 1} \in SUBSET (1 .. k)
               /\ s \ {k + 1} \in SUBSET (1 .. (k + 1)) /\ k + 1 \notin s \ {k + 1}
    BY <2>2, LastNumber, Zenon
  <2>3. ASSUME NEW s \in SUBSET (1 .. (k + 1)), k + 1 \notin s
        PROVE  /\ s \in SUBSET (1 .. k) /\ s \ {Max(s)} \in SUBSET (1 .. k)
               /\ s \ {Max(s)} \in SUBSET (1 .. (k + 1)) /\ k + 1 \notin s \ {Max(s)}
    <3>1. s \in SUBSET (1 .. k)
      BY <2>3
    <3> QED
      BY <2>3, <3>1, Zenon
  <2>4. h \in [SUBSET (1 .. (k + 1)) -> V]
    <3>1. seq[k + 1] \in E
      OBVIOUS
    <3>2. ASSUME NEW s \in SUBSET (1 .. (k + 1)), k + 1 \in s
          PROVE  step[<<g[s \ {k + 1}], seq[k + 1]>>] \in V
      BY <2>2, <3>1, <3>2, Zenon
    <3>3. ASSUME NEW s \in SUBSET (1 .. (k + 1)), k + 1 \notin s PROVE g[s] \in V
      BY <2>3, <3>3, Zenon
    <3> QED
      BY <3>2, <3>3, Zenon
  <2>5. ASSUME NEW s \in SUBSET (1 .. (k + 1))
        PROVE  h[s] = IF s = {} THEN base ELSE step[<<h[s \ {Max(s)}], seq[Max(s)]>>]
    <3>1. CASE k + 1 \in s
      <4>1. h[s] = step[<<g[s \ {k + 1}], seq[k + 1]>>] /\ s # {}
        BY <3>1, Zenon
      <4>2. h[s \ {k + 1}] = g[s \ {k + 1}]
        BY <2>2, <3>1, Zenon
      <4> HIDE DEF h
      <4> QED
        BY <2>2, <3>1, <4>1, <4>2, Zenon
    <3>2. CASE k + 1 \notin s
      <4>1. h[s] = g[s] /\ h[s \ {Max(s)}] = g[s \ {Max(s)}]
        BY <2>3, <3>2, Zenon
      <4>2. g[s] = IF s = {} THEN base ELSE step[<<g[s \ {Max(s)}], seq[Max(s)]>>]
        BY <2>1, <2>3, <3>2, Zenon DEF Folding
      <4> HIDE DEF h
      <4> QED
        BY <4>1, <4>2, Zenon
    <3> QED
      BY <3>1, <3>2, Zenon
  <2>6. Folding(h, k + 1, base, seq, step)
    <3>1. h = [s \in SUBSET (1 .. (k + 1)) |-> h[s]]
      BY Zenon
    <3> HIDE DEF h
    <3> QED
      BY <2>5, <3>1, Zenon DEF Folding
  <2> HIDE DEF h
  <2> QED
    BY <2>4, <2>6, Zenon
<1>3. n \in Good
  <2> HIDE DEF Good
  <2> QED
    BY <1>1, <1>2, AllNumbers, Zenon
<1>4. n <= n
  OBVIOUS
<1> QED
  BY <1>3, <1>4, Zenon

-----------------------------------------------------------------------------
\* The values of a player whose off is in O, and the entries of its list.
Values(O) == [uid : Uids, off : O]

DiffOK(d, O) ==
    /\ "uid" \in DOMAIN d => d["uid"] \in Uids
    /\ "off" \in DOMAIN d => d["off"] \in O

EntryOK(e, O) == IF e.full THEN e.data \in Values(O) ELSE DiffOK(e.data, O)

\* A difference turns a value into a value.
LEMMA ApplyEntryType ==
    ASSUME NEW O, NEW v \in Values(O), NEW e, EntryOK(e, O)
    PROVE  ApplyEntry(v, e) \in Values(O)
<1>1. CASE e.full
  BY <1>1, Zenon DEF ApplyEntry
<1>2. CASE ~e.full
  <2>1. DiffOK(e.data, O)
    BY <1>2, Zenon DEF EntryOK
  <2>2. ApplyDiff(v, e.data) \in Values(O)
    BY <2>1, Zenon DEF ApplyDiff, DiffOK, Values
  <2> QED
    BY <1>2, <2>2, Zenon DEF ApplyEntry
<1> QED
  BY <1>1, <1>2, Zenon

\* ApplyEntry as a function, on the entries of l.
EntriesOf(l) == {l[i] : i \in 1 .. Len(l)}
Applying(O, l) == [p \in Values(O) \X EntriesOf(l) |-> ApplyEntry(p[1], p[2])]

\* A list whose entries can be read.
ListOK(l, O) ==
    /\ Len(l) \in Nat /\ DOMAIN l = 1 .. Len(l)
    /\ \A i \in 1 .. Len(l) : EntryOK(l[i], O)

\* What is read from v on.
Read(v, l) == FoldFromLeft(ApplyEntry, v, l)

\* g holds what is read from v on, for the first entries of l.
Reads(g, O, v, l) ==
    /\ g \in [SUBSET (1 .. Len(l)) -> Values(O)]
    /\ Read(v, l) = g[1 .. Len(l)]
    /\ g[{}] = v
    /\ \A s \in SUBSET (1 .. Len(l)) :
          s # {} => g[s] = ApplyEntry(g[s \ {Max(s)}], l[Max(s)])

\* Reading the entries one after the other.
LEMMA ReadingIsFolding ==
    ASSUME NEW O, NEW v \in Values(O), NEW l, ListOK(l, O)
    PROVE  \E g : Reads(g, O, v, l)
<1>0. /\ Len(l) \in Nat /\ DOMAIN l = 1 .. Len(l)
      /\ \A i \in 1 .. Len(l) : EntryOK(l[i], O)
  BY Zenon DEF ListOK
<1> DEFINE n == Len(l)
           step == Applying(O, l)
           P(g) == g = [s \in SUBSET (1 .. n) |->
                          IF s = {} THEN v ELSE ApplyEntry(g[s \ {Max(s)}], l[Max(s)])]
           iter == CHOOSE g : P(g)
<1>1. step \in [Values(O) \X EntriesOf(l) -> Values(O)]
  <2>1. \A e \in EntriesOf(l) : EntryOK(e, O)
    BY <1>0, Zenon DEF EntriesOf
  <2>2. \A p \in Values(O) \X EntriesOf(l) : ApplyEntry(p[1], p[2]) \in Values(O)
    BY <2>1, ApplyEntryType, Zenon
  <2> QED
    BY <2>2, Zenon DEF Applying
<1>2. PICK g \in [SUBSET (1 .. n) -> Values(O)] : Folding(g, n, v, l, step)
  <2>1. \A i \in 1 .. n : l[i] \in EntriesOf(l)
    BY Zenon DEF EntriesOf
  <2> HIDE DEF step
  <2> QED
    BY <1>0, <1>1, <2>1, FoldExists, Zenon
<1>3. ASSUME NEW s \in SUBSET (1 .. n), s # {}
      PROVE  /\ Max(s) \in 1 .. n
             /\ s \ {Max(s)} \in SUBSET (1 .. n)
             /\ step[<<g[s \ {Max(s)}], l[Max(s)]>>] = ApplyEntry(g[s \ {Max(s)}], l[Max(s)])
  <2>1. Max(s) \in s
    BY <1>0, <1>3, LargestNumber, Zenon
  <2>2. Max(s) \in 1 .. n /\ s \ {Max(s)} \in SUBSET (1 .. n)
    BY <2>1, Zenon
  <2>3. <<g[s \ {Max(s)}], l[Max(s)]>> \in Values(O) \X EntriesOf(l)
    BY <2>2, Zenon DEF EntriesOf
  <2> QED
    BY <2>2, <2>3, Zenon DEF Applying
<1>4. P(g)
  <2> HIDE DEF step
  <2> QED
    BY <1>2, <1>3, Zenon DEF Folding
<1>5. P(iter)
  <2> HIDE DEF P
  <2> QED
    BY <1>4, Zenon
<1>6. Read(v, l) = iter[1 .. n]
  BY <1>0, Zenon DEF Read, FoldFromLeft, MapThenFoldSet
<1>7. \A s \in SUBSET (1 .. n) :
        g[s] = IF s = {} THEN v ELSE ApplyEntry(g[s \ {Max(s)}], l[Max(s)])
  BY <1>4, Zenon
<1>8. \A s \in SUBSET (1 .. n) :
        iter[s] = IF s = {} THEN v ELSE ApplyEntry(iter[s \ {Max(s)}], l[Max(s)])
  <2> HIDE DEF iter
  <2> QED
    BY <1>5, Zenon
<1> HIDE DEF P, iter, step
<1>9. {} \in SUBSET (1 .. n) /\ (1 .. n) \in SUBSET (1 .. n)
  BY Zenon
<1>10. \A s \in SUBSET (1 .. n) : g[s] = iter[s]
  <2>1. Alike(g, iter, n)
    BY <1>7, <1>8, <1>9, Zenon DEF Alike
  <2>2. n \in Nat
    BY <1>0, Zenon
  <2> HIDE DEF n
  <2> QED
    BY <2>1, <2>2, FoldsAgree, Zenon
<1>11. Read(v, l) = g[1 .. n] /\ g[{}] = v
  BY <1>6, <1>7, <1>9, <1>10, Zenon
<1> QED
  BY <1>2, <1>7, <1>11, Zenon DEF Reads

\* What is read is a value; of an empty list it is the value before.
LEMMA ReadingType ==
    ASSUME NEW O, NEW v \in Values(O), NEW l, ListOK(l, O)
    PROVE  /\ Read(v, l) \in Values(O)
           /\ Len(l) = 0 => Read(v, l) = v
<1>1. PICK g : Reads(g, O, v, l)
  BY ReadingIsFolding, Zenon
<1>2. (1 .. Len(l)) \in SUBSET (1 .. Len(l))
  BY Zenon
<1>3. Len(l) = 0 => 1 .. Len(l) = {}
  OBVIOUS
<1> QED
  BY <1>1, <1>2, <1>3, Zenon DEF Reads

\* k has one entry more than l.
OneMore(k, l) == Len(k) = Len(l) + 1 /\ \A i \in 1 .. Len(l) : k[i] = l[i]

\* One more entry is applied to what was read before it.
LEMMA ReadingOneMore ==
    ASSUME NEW O, NEW v \in Values(O), NEW l, ListOK(l, O), NEW k, ListOK(k, O),
           OneMore(k, l)
    PROVE  Read(v, k) = ApplyEntry(Read(v, l), k[Len(k)])
<1> DEFINE n == Len(l)
<1>0. n \in Nat /\ Len(k) = n + 1
  BY Zenon DEF ListOK, OneMore
<1>1. PICK g : Reads(g, O, v, l)
  BY ReadingIsFolding, Zenon
<1>2. PICK h : Reads(h, O, v, k)
  BY ReadingIsFolding, Zenon
<1>3. \A i \in 1 .. n : k[i] = l[i]
  BY Zenon DEF OneMore
<1>11. /\ Read(v, l) = g[1 .. n] /\ g[{}] = v
       /\ \A s \in SUBSET (1 .. n) :
             s # {} => g[s] = ApplyEntry(g[s \ {Max(s)}], l[Max(s)])
  BY <1>1, Zenon DEF Reads
<1>12. /\ Read(v, k) = h[1 .. (n + 1)] /\ h[{}] = v
       /\ \A s \in SUBSET (1 .. (n + 1)) :
             s # {} => h[s] = ApplyEntry(h[s \ {Max(s)}], k[Max(s)])
  BY <1>0, <1>2, Zenon DEF Reads
<1> HIDE DEF n
<1>4. \A s \in SUBSET (1 .. n) : g[s] = h[s]
  <2>1. ASSUME NEW s \in SUBSET (1 .. n), s # {}, g[s \ {Max(s)}] = h[s \ {Max(s)}]
        PROVE  g[s] = h[s]
    <3>1. Max(s) \in s
      BY <1>0, <2>1, LargestNumber, Zenon
    <3>2. Max(s) \in 1 .. n
      BY <3>1, Zenon
    <3>3. s \in SUBSET (1 .. (n + 1))
      BY <1>0
    <3> QED
      BY <1>11, <1>12, <1>3, <2>1, <3>2, <3>3, Zenon
  <2>2. g[{}] = h[{}]
    BY <1>11, <1>12, Zenon
  <2>3. Alike(g, h, n)
    BY <2>1, <2>2, Zenon DEF Alike
  <2>4. n \in Nat
    BY <1>0, Zenon
  <2> QED
    BY <2>3, <2>4, FoldsAgree, Zenon
<1> DEFINE whole == 1 .. (n + 1)
<1>5. whole \in SUBSET (1 .. (n + 1)) /\ n + 1 \in whole /\ whole \ {n + 1} = 1 .. n
  BY <1>0
<1>6. Max(whole) = n + 1
  <2> HIDE DEF whole
  <2> QED
    BY <1>0, <1>5, LastNumber, Zenon
<1>7. h[whole] = ApplyEntry(h[1 .. n], k[n + 1])
  BY <1>12, <1>5, <1>6, Zenon
<1>8. (1 .. n) \in SUBSET (1 .. n)
  BY Zenon
<1> QED
  BY <1>0, <1>11, <1>12, <1>4, <1>7, <1>8, Zenon

-----------------------------------------------------------------------------
\* Load reads a value.
LEMMA LoadedType ==
    ASSUME NEW O, 0 \in O, NEW S, NEW l \in Seq(S), ListOK(l, O), Len(l) > 0 => l[1].full
    PROVE  Loaded(l) \in Values(O)
<1>1. CASE l = <<>>
  <2>1. NewPlayer \in Values(O)
    BY PlayerAssumption, Zenon DEF NewPlayer, Values
  <2> QED
    BY <1>1, <2>1, Zenon DEF Loaded, Read
<1>2. CASE l # <<>>
  <2>1. Len(l) > 0 /\ Len(l) \in Nat
    BY <1>2
  <2>2. l[1].data \in Values(O)
    BY <2>1 DEF ListOK, EntryOK
  <2>3. ListOK(Tail(l), O)
    BY <2>1 DEF ListOK
  <2> QED
    BY <1>2, <2>2, <2>3, ReadingType, Zenon DEF Loaded, Read
<1> QED
  BY <1>1, <1>2, Zenon

\* After Save appended a difference, Load returns it applied to what Load
\* returned before.
LEMMA LoadedAppend ==
    ASSUME NEW O, NEW S, NEW l \in Seq(S), ListOK(l, O), Len(l) > 0, l[1].full,
           NEW d, DiffOK(d, O)
    PROVE  Loaded(Append(l, Diff(d))) = ApplyDiff(Loaded(l), d)
<1> DEFINE e == Diff(d)
           T == S \cup {e}
           k == Append(l, e)
<1>1. l \in Seq(T) /\ e \in T /\ k \in Seq(T)
  OBVIOUS
<1>2. EntryOK(e, O) /\ ~e.full /\ e.data = d
  BY Zenon DEF EntryOK, Diff
<1> HIDE DEF e, T
<1>3. l # <<>> /\ k # <<>> /\ k[1] = l[1] /\ Tail(l) \in Seq(T) /\ Len(Tail(l)) \in Nat
  BY <1>1
<1>4. Tail(k) = Append(Tail(l), e)
  BY <1>1
<1>5. l[1].data \in Values(O)
  BY <1>3 DEF ListOK, EntryOK
<1>6. ListOK(Tail(l), O)
  BY <1>1 DEF ListOK
<1> DEFINE t == Tail(l)
<1> HIDE DEF t
<1>7. t \in Seq(T) /\ ListOK(t, O)
  BY <1>3, <1>6, Zenon DEF t
<1>8. /\ Len(Append(t, e)) = Len(t) + 1 /\ Append(t, e)[Len(t) + 1] = e
      /\ \A i \in 1 .. Len(t) : Append(t, e)[i] = t[i]
      /\ DOMAIN Append(t, e) = 1 .. (Len(t) + 1) /\ Len(t) + 1 \in Nat
  BY <1>1, <1>7
<1>9. ListOK(Append(t, e), O)
  <2>1. ASSUME NEW i \in 1 .. (Len(t) + 1) PROVE EntryOK(Append(t, e)[i], O)
    <3>1. CASE i = Len(t) + 1
      BY <1>2, <1>8, <3>1
    <3>2. CASE i # Len(t) + 1
      <4>1. i \in 1 .. Len(t)
        BY <1>7, <3>2 DEF ListOK
      <4> QED
        BY <1>7, <1>8, <4>1, Zenon DEF ListOK
    <3> QED
      BY <3>1, <3>2, Zenon
  <2> QED
    BY <1>8, <2>1, Zenon DEF ListOK
<1>10. Read(l[1].data, Append(t, e))
         = ApplyEntry(Read(l[1].data, t), e)
  <2> DEFINE a == Append(t, e)
             v == l[1].data
  <2>2. /\ v \in Values(O) /\ ListOK(t, O) /\ ListOK(a, O) /\ OneMore(a, t)
    BY <1>5, <1>7, <1>8, <1>9, Zenon DEF OneMore
  <2>1. Read(v, a) = ApplyEntry(Read(v, t), a[Len(a)])
    <3>1. \A V, q, r : V \in Values(O) /\ ListOK(q, O) /\ ListOK(r, O) /\ OneMore(r, q)
                        => Read(V, r) = ApplyEntry(Read(V, q), r[Len(r)])
      BY ReadingOneMore
    <3> HIDE DEF a, v
    <3> QED
      BY <2>2, <3>1, Zenon
  <2> QED
    BY <1>8, <2>1, Zenon
<1>11. Loaded(k) = Read(l[1].data, Append(t, e))
  BY <1>3, <1>4, Zenon DEF Loaded, Read, t
<1>12. Loaded(l) = Read(l[1].data, t)
  BY <1>3, Zenon DEF Loaded, Read, t
<1>13. Loaded(k) = ApplyDiff(Loaded(l), d)
  BY <1>2, <1>10, <1>11, <1>12, Zenon DEF ApplyEntry
<1> QED
  BY <1>13, Zenon DEF e

\* After Save wrote a snapshot, Load returns it.
LEMMA LoadedFull ==
    ASSUME NEW O, NEW v \in Values(O)
    PROVE  Loaded(<<Full(v)>>) = v
<1> DEFINE l == <<Full(v)>>
<1>1. l # <<>> /\ l[1].data = v /\ Tail(l) = <<>>
  BY DEF Full
<1>2. ListOK(<<>>, O) /\ Len(<<>>) = 0
  BY DEF ListOK
<1>3. Read(v, <<>>) = v
  BY <1>2, ReadingType, Zenon
<1> QED
  BY <1>1, <1>3, Zenon DEF Loaded, Read

-----------------------------------------------------------------------------
\* The updates that may be due (the provers do not know that "" is a string).
Sources == STRING \cup {""}
Updates == [source : Sources, dt : Int]
Soonest == [p \in Updates \X Updates |-> Sooner(p[1], p[2])]

\* No update is one of them.
LEMMA NoUpdateType == NoUpdate \in Updates /\ NoUpdate.dt = -1
<1>1. "" \in Sources /\ -1 \in Int
  BY DEF Sources
<1> QED
  BY <1>1, Zenon DEF Updates, NoUpdate, NoUpdateDt

\* The one that is due next is one of them.
LEMMA SoonestType ==
    ASSUME NEW updates \in Seq([source : STRING, dt : Int])
    PROVE  FoldFromLeft(Sooner, NoUpdate, updates) \in Updates
<1> DEFINE n == Len(updates)
           P(g) == g = [s \in SUBSET (1 .. n) |->
                          IF s = {} THEN NoUpdate ELSE Sooner(g[s \ {Max(s)}], updates[Max(s)])]
           iter == CHOOSE g : P(g)
<1>0. n \in Nat /\ DOMAIN updates = 1 .. n /\ (\A i \in 1 .. n : updates[i] \in Updates)
  <2> DEFINE R == [source : STRING, dt : Int]
  <2>3. STRING \subseteq Sources
    BY Zenon DEF Sources
  <2>4. R \subseteq Updates
    BY <2>3, Zenon DEF Updates
  <2>5. updates \in Seq(R)
    BY Zenon
  <2> HIDE DEF R
  <2>1. n \in Nat /\ DOMAIN updates = 1 .. n
    BY <2>5
  <2>2. \A i \in 1 .. n : updates[i] \in R
    BY <2>5
  <2> QED
    BY <2>1, <2>2, <2>4, Zenon
<1>1. Soonest \in [Updates \X Updates -> Updates] /\ NoUpdate \in Updates
  <2>1. \A p \in Updates \X Updates : Sooner(p[1], p[2]) \in Updates
    BY Zenon DEF Sooner
  <2> QED
    BY <2>1, NoUpdateType, Zenon DEF Soonest
<1>2. PICK g \in [SUBSET (1 .. n) -> Updates] : Folding(g, n, NoUpdate, updates, Soonest)
  <2> HIDE DEF n
  <2> QED
    BY <1>0, <1>1, FoldExists, Zenon
<1>3. ASSUME NEW s \in SUBSET (1 .. n), s # {}
      PROVE  Soonest[<<g[s \ {Max(s)}], updates[Max(s)]>>]
               = Sooner(g[s \ {Max(s)}], updates[Max(s)])
  <2>1. Max(s) \in s
    BY <1>0, <1>3, LargestNumber, Zenon
  <2>2. Max(s) \in 1 .. n /\ s \ {Max(s)} \in SUBSET (1 .. n)
    BY <2>1, Zenon
  <2>3. g[s \ {Max(s)}] \in Updates /\ updates[Max(s)] \in Updates
    BY <1>0, <2>2, Zenon
  <2> QED
    BY <2>3, Zenon DEF Soonest
<1>4. P(g)
  BY <1>2, <1>3, Zenon DEF Folding
<1>5. P(iter)
  <2> HIDE DEF P
  <2> QED
    BY <1>4, Zenon
<1>6. FoldFromLeft(Sooner, NoUpdate, updates) = iter[1 .. n]
  BY <1>0, Zenon DEF FoldFromLeft, MapThenFoldSet
<1>7. \A s \in SUBSET (1 .. n) :
        g[s] = IF s = {} THEN NoUpdate ELSE Sooner(g[s \ {Max(s)}], updates[Max(s)])
  BY <1>4, Zenon
<1>8. \A s \in SUBSET (1 .. n) :
        iter[s] = IF s = {} THEN NoUpdate ELSE Sooner(iter[s \ {Max(s)}], updates[Max(s)])
  <2> HIDE DEF iter
  <2> QED
    BY <1>5, Zenon
<1> HIDE DEF P, iter
<1>9. {} \in SUBSET (1 .. n) /\ (1 .. n) \in SUBSET (1 .. n)
  BY Zenon
<1>10. Alike(g, iter, n)
  BY <1>7, <1>8, <1>9, Zenon DEF Alike
<1>11. \A s \in SUBSET (1 .. n) : g[s] = iter[s]
  <2>1. n \in Nat
    BY <1>0, Zenon
  <2> HIDE DEF n
  <2> QED
    BY <1>10, <2>1, FoldsAgree, Zenon
<1> QED
  BY <1>2, <1>6, <1>9, <1>11, Zenon

\* MinNextUpdate returns no update, or one that is not too soon.
InTime(next) == next \in Updates /\ (next.dt < 0 \/ UpdateTick <= next.dt)

\* Both for what the parts of a player report and for nothing at all.
LEMMA NextInTime ==
    InTime(NoUpdate) /\ \A next \in NextUpdates : InTime(next)
<1>1. InTime(NoUpdate)
  BY NoUpdateType DEF InTime
<1>2. ASSUME NEW next \in NextUpdates PROVE InTime(next)
  <2>1. PICK updates \in Reported : next = MinNextUpdate(UpdateTick, updates)
    BY Zenon DEF NextUpdates
  <2>2. updates \in Seq([source : STRING, dt : Int])
    BY PlayerAssumption, Zenon
  <2> DEFINE r == FoldFromLeft(Sooner, NoUpdate, updates)
  <2>3. r \in Updates
    BY <2>2, SoonestType, Zenon
  <2>4. next = IF 0 <= r.dt /\ r.dt < UpdateTick THEN [r EXCEPT !.dt = UpdateTick] ELSE r
    BY <2>1, Zenon DEF MinNextUpdate
  <2> HIDE DEF r
  <2>5. UpdateTick \in Nat \ {0}
    BY PlayerAssumption, Zenon
  <2>6. CASE 0 <= r.dt /\ r.dt < UpdateTick
    <3>1. next = [r EXCEPT !.dt = UpdateTick]
      BY <2>4, <2>6, Zenon
    <3>2. next \in Updates /\ next.dt = UpdateTick
      BY <2>3, <2>5, <3>1 DEF Updates
    <3> QED
      BY <2>5, <3>2 DEF InTime
  <2>7. CASE ~(0 <= r.dt /\ r.dt < UpdateTick)
    <3>1. next = r
      BY <2>4, <2>7, Zenon
    <3>2. r.dt \in Int
      BY <2>3, Zenon DEF Updates
    <3> QED
      BY <2>3, <2>5, <2>7, <3>1, <3>2 DEF InTime
  <2> QED
    BY <2>6, <2>7, Zenon
<1> QED
  BY <1>1, <1>2, Zenon

-----------------------------------------------------------------------------
Fields == {"uid", "off"}

\* An actor, at time t.
States(t) == [value : Values(0 .. t), dirty : SUBSET Fields]

Actors(t) ==
    [pc : {"none", "mounted", "offline", "running", "unloading", "stopped", "saving", "panicked"},
     state : States(t), logicTime : 0 .. t, last : 0 .. t, needUnload : BOOLEAN,
     began : 0 .. t, remain : 0 .. t, rounds : Nat, next : Updates, count : Nat,
     resume : {"none", "running", "stopped"}]

\* The time that an actor has handed out.
OnTime(a) ==
    /\ a.pc = "mounted" => a.rounds = 0
    /\ a.pc = "offline" =>
          /\ a.logicTime + a.remain = a.began
          /\ a.remain > 0 => a.rounds * UpdateTick <= a.logicTime - a.state.value.off
    /\ a.pc = "running" \/ (a.pc = "saving" /\ a.resume = "running") => a.logicTime <= a.last
    /\ a.pc = "saving" => a.resume \in {"running", "stopped"}
    /\ InTime(a.next)

ActorOK(a, t) == a \in Actors(t) /\ OnTime(a)

\* A list that Load can read, at time t.
Loadable(l, t) ==
    /\ \E S : l \in Seq(S)
    /\ ListOK(l, 0 .. t)
    /\ Len(l) > 0 => l[1].full

TimeInv ==
    /\ now \in Nat
    /\ Loadable(list, now)
    /\ actor = [n \in Nodes |-> actor[n]]
    /\ \A n \in Nodes : ActorOK(actor[n], now)

\* It says what TimeAccounted says.
LEMMA TimeInvAccounts == TimeInv => TimeAccounted
<1> SUFFICES ASSUME TimeInv, NEW n \in Nodes
             PROVE  LET a == actor[n] IN
                       /\ a.logicTime <= now
                       /\ a.pc = "offline" =>
                             /\ a.remain >= 0 /\ a.logicTime + a.remain = a.began
                             /\ a.remain > 0 => a.rounds * UpdateTick <= a.logicTime - a.state.value.off
  BY Zenon DEF TimeAccounted
<1>1. actor[n] \in Actors(now) /\ OnTime(actor[n]) /\ now \in Nat
  BY Zenon DEF TimeInv, ActorOK
<1>2. actor[n].logicTime <= now /\ actor[n].remain >= 0
  BY <1>1 DEF Actors
<1> QED
  BY <1>1, <1>2, Zenon DEF OnTime

\* An actor that is not there is in order.
LEMMA NoActorOK ==
    ASSUME NEW t \in Nat PROVE ActorOK(NoActor, t)
<1>1. InTime(NoUpdate)
  BY NextInTime, Zenon
<1>2. NoActor \in Actors(t)
  <2>1. NewPlayer \in Values(0 .. t)
    BY PlayerAssumption DEF Values, NewPlayer
  <2>2. [value |-> NewPlayer, dirty |-> {}] \in States(t)
    BY <2>1, Zenon DEF States
  <2>3. 0 \in 0 .. t /\ 0 \in Nat /\ FALSE \in BOOLEAN
    OBVIOUS
  <2>4. NoUpdate \in Updates
    BY NoUpdateType, Zenon
  <2> QED
    BY <2>2, <2>3, <2>4 DEF NoActor, Actors
<1>3. OnTime(NoActor)
  BY <1>1, Zenon DEF OnTime, NoActor
<1> QED
  BY <1>2, <1>3, Zenon DEF ActorOK

\* The first state.
LEMMA InitTime == Init => TimeInv
<1> SUFFICES ASSUME Init PROVE TimeInv
  BY Zenon
<1>1. now = 1 /\ list = <<>> /\ actor = [n \in Nodes |-> NoActor]
  BY Zenon DEF Init
<1>2. now \in Nat /\ list \in Seq({}) /\ ListOK(list, 0 .. now) /\ Len(list) = 0
  BY <1>1 DEF ListOK
<1>3. \A n \in Nodes : actor[n] = NoActor
  BY <1>1, Zenon
<1>4. \A n \in Nodes : ActorOK(actor[n], now)
  BY <1>2, <1>3, NoActorOK, Zenon
<1> QED
  BY <1>1, <1>2, <1>4 DEF TimeInv, Loadable

\* A step of one actor.
LEMMA ActorListStep ==
    ASSUME TimeInv, NEW n \in Nodes, NEW x, ActorOK(x, now),
           actor' = [actor EXCEPT ![n] = x], now' = now, Loadable(list', now)
    PROVE  TimeInv'
<1>1. /\ actor' = [m \in Nodes |-> actor'[m]] /\ actor'[n] = x
      /\ \A m \in Nodes \ {n} : actor'[m] = actor[m]
  BY Zenon DEF TimeInv
<1>2. ASSUME NEW m \in Nodes PROVE ActorOK(actor'[m], now)
  BY <1>1, Zenon DEF TimeInv
<1> QED
  BY <1>1, <1>2, Zenon DEF TimeInv

\* A step of one actor that leaves the list alone.
LEMMA ActorStep ==
    ASSUME TimeInv, NEW n \in Nodes, NEW x, ActorOK(x, now),
           actor' = [actor EXCEPT ![n] = x], now' = now, list' = list
    PROVE  TimeInv'
<1>1. Loadable(list', now)
  BY Zenon DEF TimeInv
<1> QED
  BY <1>1, ActorListStep, Zenon

\* An actor that keeps to its fields.
LEMMA ActorFields ==
    ASSUME TimeInv, NEW n \in Nodes
    PROVE  /\ n \in DOMAIN actor /\ actor[n] \in Actors(now) /\ OnTime(actor[n])
           /\ now \in Nat
BY Zenon DEF TimeInv, ActorOK

\* What Load returns, at the time it is called.
LEMMA LoadedNow ==
    ASSUME TimeInv
    PROVE  Loaded(list) \in Values(0 .. now)
<1>1. PICK S : list \in Seq(S)
  BY Zenon DEF TimeInv, Loadable
<1>2. 0 \in 0 .. now /\ ListOK(list, 0 .. now) /\ (Len(list) > 0 => list[1].full)
  BY DEF TimeInv, Loadable
<1> QED
  BY <1>1, <1>2, LoadedType, Zenon

\* The clock: what was in order stays so.
LEMMA TickTime ==
    ASSUME TimeInv, Tick PROVE TimeInv'
<1>1. /\ now \in Nat /\ now' = now + 1 /\ now' \in Nat /\ list' = list /\ actor' = actor
      /\ 0 .. now \subseteq 0 .. now'
  BY DEF TimeInv, Tick
<1>2. ASSUME NEW a \in Actors(now) PROVE a \in Actors(now')
  <2>1. Values(0 .. now) \subseteq Values(0 .. now')
    BY <1>1, Zenon DEF Values
  <2>2. States(now) \subseteq States(now')
    BY <2>1, Zenon DEF States
  <2> QED
    BY <1>1, <2>2 DEF Actors
<1>3. ListOK(list, 0 .. now')
  <2>1. ASSUME NEW e, EntryOK(e, 0 .. now) PROVE EntryOK(e, 0 .. now')
    <3>1. CASE e.full
      BY <1>1, <2>1, <3>1 DEF EntryOK, Values
    <3>2. CASE ~e.full
      BY <1>1, <2>1, <3>2, Zenon DEF EntryOK, DiffOK
    <3> QED
      BY <3>1, <3>2
  <2> QED
    BY <2>1, Zenon DEF ListOK, TimeInv, Loadable
<1> QED
  BY <1>1, <1>2, <1>3, Zenon DEF TimeInv, Loadable, ActorOK

\* Load.
LEMMA LoadTime ==
    ASSUME TimeInv, NEW n \in Nodes, LoadPlayerActor(n) PROVE TimeInv'
<1> DEFINE v == Loaded(list)
           x == [NoActor EXCEPT !.pc = "mounted", !.state.value = v]
<1>1. actor' = [actor EXCEPT ![n] = x] /\ now' = now /\ list' = list /\ now \in Nat
  BY Zenon DEF LoadPlayerActor, TimeInv
<1>2. v \in Values(0 .. now)
  BY LoadedNow, Zenon
<1>3. NoActor \in Actors(now) /\ OnTime(NoActor)
  BY <1>1, NoActorOK, Zenon DEF ActorOK
<1> HIDE DEF v
<1>4. x \in Actors(now)
  BY <1>2, <1>3 DEF Actors, States
<1>5. x.pc = "mounted" /\ x.rounds = 0 /\ x.next = NoUpdate
  BY Zenon DEF NoActor
<1>6. OnTime(x)
  BY <1>5, NextInTime, Zenon DEF OnTime
<1> HIDE DEF x
<1> QED
  BY <1>1, <1>4, <1>6, ActorStep DEF ActorOK

\* Steps that change neither the times nor the list.
LEMMA UnloadTime ==
    ASSUME TimeInv, NEW n \in Nodes, RequestUnload(n) PROVE TimeInv'
<1> DEFINE x == [actor[n] EXCEPT !.needUnload = TRUE]
<1>0. n \in DOMAIN actor /\ actor[n] \in Actors(now) /\ OnTime(actor[n])
  BY ActorFields, Zenon
<1>1. actor' = [actor EXCEPT ![n] = x] /\ now' = now /\ list' = list
  BY <1>0, Zenon DEF RequestUnload
<1>2. x \in Actors(now)
  BY <1>0, Zenon DEF Actors
<1>3. OnTime(x)
  BY <1>0, Zenon DEF OnTime, Actors
<1> HIDE DEF x
<1> QED
  BY <1>1, <1>2, <1>3, ActorStep DEF ActorOK

\* OnStart: the time away begins, or there is none.
LEMMA OnStartTime ==
    ASSUME TimeInv, NEW n \in Nodes, OnStart(n) PROVE TimeInv'
<1> DEFINE b == actor[n]
           a == Recovered(b)
           off == a.state.value.off
<1>0. n \in DOMAIN actor /\ b \in Actors(now) /\ OnTime(b) /\ now \in Nat
  BY ActorFields
<1>1. now' = now /\ list' = list /\ b.pc = "mounted" /\ b.rounds = 0
  BY <1>0, Zenon DEF OnStart, OnTime
<1>2. b.state.value.off \in 0 .. now
  BY <1>0, Zenon DEF Actors, States, Values
<1>3. /\ a \in Actors(now) /\ a.state = b.state /\ a.rounds = 0 /\ a.next = b.next
      /\ a.logicTime = IF b.state.value.off = 0 THEN now ELSE b.state.value.off
  BY <1>0, <1>1, <1>2 DEF Recovered, Actors
<1>4. off = b.state.value.off
  BY <1>3, Zenon
<1>5. InTime(b.next) /\ a.logicTime \in 0 .. now
  BY <1>0, <1>3, Zenon DEF OnTime, Actors
<1>6. \/ /\ off # 0 /\ now > off
         /\ \E next \in NextUpdates :
               actor' = [actor EXCEPT ![n] =
                   [Update(a, 0, next) EXCEPT !.pc = "offline", !.began = now, !.remain = now - off]]
      \/ actor' = [actor EXCEPT ![n] = [a EXCEPT !.pc = "running", !.last = now]]
  BY Zenon DEF OnStart
<1> HIDE DEF a, off, b
<1>7. CASE /\ off # 0 /\ now > off
           /\ \E next \in NextUpdates :
                 actor' = [actor EXCEPT ![n] =
                     [Update(a, 0, next) EXCEPT !.pc = "offline", !.began = now, !.remain = now - off]]
  <2>1. PICK next \in NextUpdates :
          actor' = [actor EXCEPT ![n] =
              [Update(a, 0, next) EXCEPT !.pc = "offline", !.began = now, !.remain = now - off]]
    BY <1>7, Zenon
  <2> DEFINE x == [Update(a, 0, next) EXCEPT !.pc = "offline", !.began = now, !.remain = now - off]
  <2>2. InTime(next)
    BY NextInTime, Zenon
  <2>3. now - off \in 0 .. now /\ now \in 0 .. now /\ a.logicTime + 0 = a.logicTime
    BY <1>0, <1>2, <1>4, <1>5, <1>7
  <2>4. /\ x \in Actors(now) /\ x.pc = "offline" /\ x.rounds = 0 /\ x.next = next
        /\ x.logicTime = a.logicTime /\ x.remain = now - off /\ x.began = now /\ x.state = a.state
    BY <1>3, <1>5, <2>2, <2>3 DEF Update, Actors, InTime
  <2> HIDE DEF x
  <2>5. a.logicTime = off /\ x.state.value.off = off /\ off \in Nat
    BY <1>2, <1>3, <1>4, <1>7, <2>4
  <2>6. UpdateTick \in Nat
    BY PlayerAssumption, Zenon
  <2>7. x.rounds * UpdateTick = 0
    BY <2>4, <2>6
  <2>8. OnTime(x)
    BY <1>0, <2>2, <2>4, <2>5, <2>7 DEF OnTime
  <2>9. actor' = [actor EXCEPT ![n] = x]
    BY <2>1, Zenon DEF x
  <2> QED
    BY <1>1, <2>4, <2>8, <2>9, ActorStep DEF ActorOK
<1>8. CASE actor' = [actor EXCEPT ![n] = [a EXCEPT !.pc = "running", !.last = now]]
  <2> DEFINE x == [a EXCEPT !.pc = "running", !.last = now]
  <2>1. /\ x \in Actors(now) /\ x.pc = "running" /\ x.last = now /\ x.next = b.next
        /\ x.logicTime = a.logicTime
    <3>1. now \in 0 .. now
      BY <1>0
    <3>2. x \in Actors(now)
      BY <1>3, <3>1, Zenon DEF Actors
    <3>3. x.pc = "running" /\ x.last = now /\ x.next = a.next /\ x.logicTime = a.logicTime
      BY <1>3, Zenon DEF Actors
    <3> QED
      BY <1>3, <3>2, <3>3, Zenon
  <2>2. OnTime(x)
    BY <1>0, <1>5, <2>1 DEF OnTime
  <2> QED
    BY <1>1, <1>8, <2>1, <2>2, ActorStep DEF ActorOK
<1> QED
  BY <1>6, <1>7, <1>8, Zenon

\* One more round of at least a tick.
LEMMA RoundAdds ==
    ASSUME NEW r \in Nat, NEW k \in Nat, NEW t \in Int, NEW d \in Int, r * k <= t, k <= d
    PROVE  (r + 1) * k <= t + d
<1>1. (r + 1) * k = r * k + k /\ r * k \in Int
  OBVIOUS
<1> QED
  BY <1>1

\* A round of RunOffline.
LEMMA RoundTime ==
    ASSUME TimeInv, NEW n \in Nodes, OfflineRound(n) PROVE TimeInv'
<1> DEFINE a == actor[n]
           d == Delta(a)
<1>0. n \in DOMAIN actor /\ a \in Actors(now) /\ OnTime(a) /\ now \in Nat
  BY ActorFields, Zenon
<1>1. now' = now /\ list' = list /\ a.pc = "offline" /\ a.remain > 0
  BY Zenon DEF OfflineRound
<1>2. /\ a.next.dt \in Int /\ a.remain \in 0 .. now /\ a.logicTime \in 0 .. now
      /\ a.began \in 0 .. now /\ a.rounds \in Nat /\ a.state.value.off \in 0 .. now
  BY <1>0, Zenon DEF Actors, States, Values, Updates
<1>3. /\ a.logicTime + a.remain = a.began
      /\ a.rounds * UpdateTick <= a.logicTime - a.state.value.off
      /\ a.next.dt < 0 \/ UpdateTick <= a.next.dt
  BY <1>0, <1>1, Zenon DEF OnTime, InTime
<1>4. UpdateTick \in Nat \ {0}
  BY PlayerAssumption, Zenon
<1>5. d \in Int /\ d > 0 /\ d <= a.remain /\ (d # a.remain => d >= UpdateTick)
  BY <1>1, <1>2, <1>3, <1>4 DEF Delta
<1>6. PICK next \in NextUpdates :
        actor' = [actor EXCEPT ![n] =
            [Update(a, d, next) EXCEPT !.remain = @ - d, !.rounds = @ + 1]]
  <2>1. d # 0
    BY <1>5
  <2> QED
    BY <2>1, Zenon DEF OfflineRound
<1> HIDE DEF a, d
<1> DEFINE x == [Update(a, d, next) EXCEPT !.remain = @ - d, !.rounds = @ + 1]
<1>7. InTime(next)
  BY NextInTime, Zenon
<1>8. /\ a.logicTime + d \in 0 .. now /\ a.remain - d \in 0 .. now /\ a.rounds + 1 \in Nat
      /\ next \in Updates
  BY <1>0, <1>2, <1>3, <1>5, <1>7 DEF InTime
<1>9. /\ x \in Actors(now) /\ x.pc = "offline" /\ x.began = a.began /\ x.state = a.state
      /\ x.logicTime = a.logicTime + d /\ x.remain = a.remain - d /\ x.rounds = a.rounds + 1
      /\ x.next = next
  BY <1>0, <1>1, <1>8 DEF Update, Actors
<1> HIDE DEF x
<1>10. x.logicTime + x.remain = x.began
  BY <1>2, <1>3, <1>5, <1>9
<1>11. x.remain > 0 => x.rounds * UpdateTick <= x.logicTime - x.state.value.off
  <2> SUFFICES ASSUME x.remain > 0
               PROVE  (a.rounds + 1) * UpdateTick <= (a.logicTime - a.state.value.off) + d
    BY <1>2, <1>5, <1>9
  <2>1. UpdateTick <= d
    BY <1>2, <1>4, <1>5, <1>9
  <2> QED
    BY <1>2, <1>3, <1>4, <1>5, <2>1, RoundAdds
<1>12. OnTime(x)
  BY <1>7, <1>9, <1>10, <1>11 DEF OnTime
<1>13. actor' = [actor EXCEPT ![n] = x]
  BY <1>6, Zenon DEF x
<1> QED
  BY <1>1, <1>9, <1>12, <1>13, ActorStep DEF ActorOK

\* RunOffline is through.
LEMMA DoneTime ==
    ASSUME TimeInv, NEW n \in Nodes, OfflineDone(n) PROVE TimeInv'
<1> DEFINE a == actor[n]
           x == [a EXCEPT !.pc = "running", !.last = now, !.next = NoUpdate, !.began = 0,
                          !.remain = 0, !.rounds = 0]
<1>0. n \in DOMAIN actor /\ a \in Actors(now) /\ OnTime(a) /\ now \in Nat
  BY ActorFields, Zenon
<1>1. now' = now /\ list' = list /\ a.pc = "offline"
  BY Zenon DEF OfflineDone
<1>2. actor' = [actor EXCEPT ![n] = x]
  BY <1>0, Zenon DEF OfflineDone, Actors
<1>3. a.logicTime \in 0 .. now /\ now \in 0 .. now /\ 0 \in 0 .. now /\ NoUpdate \in Updates
  BY <1>0, NoUpdateType DEF Actors
<1> HIDE DEF a
<1>4. /\ x \in Actors(now) /\ x.pc = "running" /\ x.last = now /\ x.logicTime = a.logicTime
      /\ x.next = NoUpdate
  BY <1>0, <1>3, Zenon DEF Actors
<1> HIDE DEF x
<1>5. OnTime(x)
  BY <1>0, <1>3, <1>4, NextInTime DEF OnTime
<1> QED
  BY <1>1, <1>2, <1>4, <1>5, ActorStep DEF ActorOK

\* OnUpdate.
LEMMA OnUpdateTime ==
    ASSUME TimeInv, NEW n \in Nodes, OnUpdate(n) PROVE TimeInv'
<1> DEFINE a == actor[n]
           pc == IF a.needUnload THEN "unloading" ELSE a.pc
           x == [Update(a, now - a.last, NoUpdate)
                   EXCEPT !.last = now, !.pc = IF a.needUnload THEN "unloading" ELSE @]
<1>0. n \in DOMAIN actor /\ a \in Actors(now) /\ OnTime(a) /\ now \in Nat
  BY ActorFields, Zenon
<1>1. now' = now /\ list' = list /\ a.pc = "running" /\ actor' = [actor EXCEPT ![n] = x]
  BY Zenon DEF OnUpdate
<1>2. a.logicTime \in 0 .. now /\ a.last \in 0 .. now /\ a.logicTime <= a.last
  BY <1>0, <1>1, Zenon DEF Actors, OnTime
<1>3. a.logicTime + (now - a.last) \in 0 .. now /\ now \in 0 .. now /\ NoUpdate \in Updates
  BY <1>0, <1>2, NoUpdateType
<1> HIDE DEF a
<1>4. pc \in {"running", "unloading"}
  BY <1>1, Zenon
<1>5. /\ x \in Actors(now) /\ x.pc = pc /\ x.last = now /\ x.next = NoUpdate
      /\ x.logicTime = a.logicTime + (now - a.last)
  BY <1>0, <1>1, <1>3 DEF Actors, Update
<1> HIDE DEF x, pc
<1>6. OnTime(x)
  BY <1>0, <1>3, <1>4, <1>5, NextInTime DEF OnTime
<1> QED
  BY <1>1, <1>5, <1>6, ActorStep DEF ActorOK

\* Setting a field.
LEMMA SetFieldType ==
    ASSUME NEW t \in Nat, NEW state \in States(t),
           NEW f \in Fields, NEW v, f = "uid" => v \in Uids, f = "off" => v \in 0 .. t
    PROVE  SetField(state, f, v) \in States(t)
<1>1. state.value \in Values(0 .. t) /\ state.dirty \in SUBSET Fields
  BY Zenon DEF States
<1>2. [state.value EXCEPT ![f] = v] \in Values(0 .. t)
  BY <1>1, Zenon DEF Values, Fields
<1>3. state.dirty \cup {f} \in SUBSET Fields
  BY <1>1, Zenon
<1> QED
  BY <1>2, <1>3, Zenon DEF SetField, States

\* A handler sets uid.
LEMMA SetUidTime ==
    ASSUME TimeInv, NEW n \in Nodes, NEW u \in Uids, SetUid(n, u) PROVE TimeInv'
<1> DEFINE a == actor[n]
           st == SetField(a.state, "uid", u)
           x == [a EXCEPT !.state = st]
<1>0. n \in DOMAIN actor /\ a \in Actors(now) /\ OnTime(a) /\ now \in Nat
  BY ActorFields, Zenon
<1>1. now' = now /\ list' = list /\ a.pc = "running"
  BY Zenon DEF SetUid
<1>2. actor' = [actor EXCEPT ![n] = x]
  BY <1>0, Zenon DEF SetUid, Actors
<1>3. st \in States(now)
  <2>1. a.state \in States(now)
    BY <1>0, Zenon DEF Actors
  <2> QED
    BY <1>0, <2>1, SetFieldType DEF Fields
<1> HIDE DEF a, st
<1>4. /\ x \in Actors(now) /\ x.pc = "running" /\ x.last = a.last /\ x.next = a.next
      /\ x.logicTime = a.logicTime
  BY <1>0, <1>1, <1>3 DEF Actors
<1> HIDE DEF x
<1>5. OnTime(x)
  BY <1>0, <1>1, <1>4 DEF OnTime
<1> QED
  BY <1>1, <1>2, <1>4, <1>5, ActorStep DEF ActorOK

\* OnStop.
LEMMA OnStopTime ==
    ASSUME TimeInv, NEW n \in Nodes, OnStop(n) PROVE TimeInv'
<1> DEFINE a == actor[n]
           st == SetField(a.state, "off", now)
           x == [a EXCEPT !.pc = "stopped", !.logicTime = now, !.last = 0, !.needUnload = FALSE,
                          !.state = st]
<1>0. n \in DOMAIN actor /\ a \in Actors(now) /\ OnTime(a) /\ now \in Nat
  BY ActorFields, Zenon
<1>1. now' = now /\ list' = list
  BY Zenon DEF OnStop
<1>2. actor' = [actor EXCEPT ![n] = x]
  BY <1>0, Zenon DEF OnStop, Actors
<1>3. st \in States(now) /\ now \in 0 .. now /\ 0 \in 0 .. now
  <2>1. a.state \in States(now)
    BY <1>0, Zenon DEF Actors
  <2> QED
    BY <1>0, <2>1, SetFieldType DEF Fields
<1> HIDE DEF a, st
<1>4. x \in Actors(now) /\ x.pc = "stopped" /\ x.next = a.next
  BY <1>0, <1>3 DEF Actors
<1> HIDE DEF x
<1>5. OnTime(x)
  BY <1>0, <1>4 DEF OnTime
<1> QED
  BY <1>1, <1>2, <1>4, <1>5, ActorStep DEF ActorOK

\* Save reads the length of the list.
LEMMA CountsTime ==
    ASSUME TimeInv, NEW n \in Nodes, SaveCounts(n) PROVE TimeInv'
<1> DEFINE a == actor[n]
           x == [a EXCEPT !.pc = "saving", !.count = Len(list), !.resume = a.pc]
<1>0. n \in DOMAIN actor /\ a \in Actors(now) /\ OnTime(a) /\ now \in Nat
  BY ActorFields, Zenon
<1>1. now' = now /\ list' = list /\ a.pc \in {"running", "stopped"}
  BY Zenon DEF SaveCounts
<1>2. actor' = [actor EXCEPT ![n] = x]
  BY <1>0, Zenon DEF SaveCounts, Actors
<1>3. Len(list) \in Nat
  BY Zenon DEF TimeInv, Loadable, ListOK
<1> HIDE DEF a
<1>4. /\ x \in Actors(now) /\ x.pc = "saving" /\ x.resume = a.pc /\ x.last = a.last
      /\ x.next = a.next /\ x.logicTime = a.logicTime
  BY <1>0, <1>1, <1>3 DEF Actors
<1> HIDE DEF x
<1>5. OnTime(x)
  BY <1>0, <1>1, <1>4 DEF OnTime
<1> QED
  BY <1>1, <1>2, <1>4, <1>5, ActorStep DEF ActorOK

\* A dirty field's value goes into the difference.
LEMMA WriteDiffOK ==
    ASSUME NEW t, NEW state \in States(t)
    PROVE  DiffOK(WriteDiff(state), 0 .. t)
<1>1. state.value \in Values(0 .. t) /\ state.dirty \in SUBSET Fields
  BY Zenon DEF States
<1>2. state.value["uid"] \in Uids /\ state.value["off"] \in 0 .. t
  BY <1>1 DEF Values
<1> QED
  BY <1>2, Zenon DEF WriteDiff, DiffOK

\* What Save writes can be read.
LEMMA WrittenOK ==
    ASSUME NEW t, NEW l, Loadable(l, t), NEW count \in Nat, count > 0 => Len(l) > 0,
           NEW state \in States(t)
    PROVE  Loadable(Written(count, l, WriteDiff(state), state.value), t)
<1> DEFINE d == WriteDiff(state)
           e == Diff(d)
           k == Written(count, l, d, state.value)
<1>0. PICK S : l \in Seq(S)
  BY Zenon DEF Loadable
<1>1. CASE count > 0 /\ count < CompactCount
  <2>1. k = Append(l, e) /\ Len(l) > 0 /\ l[1].full
    BY <1>1, Zenon DEF Written, Loadable
  <2>2. EntryOK(e, 0 .. t) /\ ListOK(l, 0 .. t)
    <3>1. DiffOK(d, 0 .. t)
      BY WriteDiffOK, Zenon
    <3> QED
      BY <3>1, Zenon DEF EntryOK, Diff, Loadable
  <2> HIDE DEF e, k
  <2> DEFINE T == S \cup {e}
  <2>3. l \in Seq(T) /\ e \in T
    BY <1>0
  <2> HIDE DEF T
  <2>4. /\ k \in Seq(T) /\ Len(k) = Len(l) + 1 /\ DOMAIN k = 1 .. Len(k) /\ k[Len(k)] = e
        /\ Len(l) \in Nat /\ \A i \in 1 .. Len(l) : k[i] = l[i]
    BY <2>1, <2>3
  <2>5. k[1] = l[1] /\ Len(k) > 0 /\ Len(k) \in Nat
    BY <2>1, <2>4
  <2>6. ASSUME NEW i \in 1 .. Len(k) PROVE EntryOK(k[i], 0 .. t)
    <3>1. CASE i = Len(k)
      BY <2>2, <2>4, <3>1, Zenon
    <3>2. CASE i # Len(k)
      <4>1. i \in 1 .. Len(l)
        BY <2>4, <3>2
      <4> QED
        BY <2>2, <2>4, <4>1, Zenon DEF ListOK
    <3> QED
      BY <3>1, <3>2, Zenon
  <2> QED
    BY <2>1, <2>4, <2>5, <2>6, Zenon DEF ListOK, Loadable, k
<1>2. CASE ~(count > 0 /\ count < CompactCount)
  <2> DEFINE f == Full(state.value)
  <2>1. k = <<f>>
    BY <1>2, Zenon DEF Written
  <2>2. f.full /\ EntryOK(f, 0 .. t)
    BY Zenon DEF States, Full, EntryOK
  <2> HIDE DEF f, k
  <2>3. k \in Seq({f}) /\ Len(k) = 1 /\ DOMAIN k = 1 .. 1 /\ k[1] = f
    BY <2>1
  <2>4. \A i \in 1 .. 1 : k[i] = f
    BY <2>3
  <2> QED
    BY <2>2, <2>3, <2>4 DEF ListOK, Loadable, k
<1> QED
  BY <1>1, <1>2, Zenon

\* The list after Save.
LEMMA AfterSaveOK ==
    ASSUME TimeInv, ListInv, NEW n \in Nodes, actor[n].pc = "saving"
    PROVE  Loadable(AfterSave(actor[n]), now)
<1>1. Loadable(list, now) /\ actor[n].count \in Nat /\ (actor[n].count > 0 => Len(list) > 0)
  BY Zenon DEF TimeInv, ListInv, SaverOK
<1>2. actor[n].state \in States(now)
  BY ActorFields, Zenon DEF Actors
<1> QED
  BY <1>1, <1>2, WrittenOK, Zenon DEF AfterSave

\* Save writes, or fails.
LEMMA SaveTime ==
    ASSUME TimeInv, ListInv, NEW n \in Nodes, SaveWrites(n) \/ SaveFails(n) PROVE TimeInv'
<1> DEFINE a == actor[n]
<1>0. n \in DOMAIN actor /\ a \in Actors(now) /\ OnTime(a) /\ now \in Nat
  BY ActorFields, Zenon
<1>1. now' = now /\ a.pc = "saving" /\ list' \in {list, AfterSave(a)}
  BY Zenon DEF SaveWrites, SaveFails
<1>2. Loadable(list', now)
  <2>1. Loadable(list, now)
    BY Zenon DEF TimeInv
  <2>2. Loadable(AfterSave(a), now)
    BY <1>1, AfterSaveOK
  <2> QED
    BY <1>1, <2>1, <2>2, Zenon
<1>3. a.state \in States(now)
  BY <1>0, Zenon DEF Actors
<1>4. [a.state EXCEPT !.dirty = {}] \in States(now)
  BY <1>3, Zenon DEF States
<1>5. ASSUME NEW st \in States(now),
             actor' = [actor EXCEPT ![n] = [a EXCEPT !.pc = a.resume, !.count = 0,
                                                     !.resume = "none", !.state = st]]
      PROVE  TimeInv'
  <2> DEFINE x == [a EXCEPT !.pc = a.resume, !.count = 0, !.resume = "none", !.state = st]
  <2>1. a.resume \in {"running", "stopped"}
    BY <1>0, <1>1, Zenon DEF OnTime
  <2> HIDE DEF a
  <2>2. /\ x \in Actors(now) /\ x.pc = a.resume /\ x.last = a.last /\ x.next = a.next
        /\ x.logicTime = a.logicTime
    BY <1>0, <1>5, <2>1 DEF Actors
  <2>3. actor' = [actor EXCEPT ![n] = x]
    BY <1>5, Zenon
  <2> HIDE DEF x
  <2>4. OnTime(x)
    BY <1>0, <1>1, <2>1, <2>2 DEF OnTime
  <2> QED
    BY <1>1, <1>2, <2>2, <2>3, <2>4, ActorListStep DEF ActorOK
<1>6. CASE SaveWrites(n)
  <2>1. actor' = [actor EXCEPT ![n] = [a EXCEPT !.pc = a.resume, !.count = 0, !.resume = "none",
                                                !.state = [a.state EXCEPT !.dirty = {}]]]
    BY <1>0, <1>6 DEF SaveWrites, Actors, States
  <2> QED
    BY <1>4, <1>5, <2>1
<1>7. CASE SaveFails(n)
  <2>1. actor' = [actor EXCEPT ![n] = [a EXCEPT !.pc = a.resume, !.count = 0, !.resume = "none",
                                                !.state = a.state]]
    BY <1>0, <1>7 DEF SaveFails, Actors
  <2> QED
    BY <1>3, <1>5, <2>1
<1> QED
  BY <1>6, <1>7

\* Every step keeps the time.
LEMMA NextTime == ListInv /\ TimeInv /\ [Next]_vars => TimeInv'
<1> SUFFICES ASSUME ListInv, TimeInv, [Next]_vars PROVE TimeInv'
  BY Zenon
<1>1. CASE UNCHANGED vars
  BY <1>1, Zenon DEF vars, TimeInv
<1>2. CASE Tick
  BY <1>2, TickTime, Zenon
<1>3. ASSUME NEW n \in Nodes, LoadPlayerActor(n) \/ Start(n) PROVE TimeInv'
  BY <1>3, LoadTime, OnStartTime, RoundTime, DoneTime, Zenon DEF Start
<1>4. ASSUME NEW n \in Nodes,
             \/ OnUpdate(n) \/ RequestUnload(n) \/ OnStop(n)
             \/ \E u \in Uids : SetUid(n, u)
      PROVE  TimeInv'
  BY <1>4, OnUpdateTime, UnloadTime, OnStopTime, SetUidTime, Zenon
<1>5. ASSUME NEW n \in Nodes, SaveCounts(n) \/ SaveWrites(n) \/ SaveFails(n) PROVE TimeInv'
  BY <1>5, CountsTime, SaveTime, Zenon
<1>6. ASSUME NEW n \in Nodes, Removed(n) \/ Crash(n) PROVE TimeInv'
  <2>1. now' = now /\ list' = list /\ actor' = [actor EXCEPT ![n] = NoActor]
    BY <1>6, Zenon DEF Removed, Crash
  <2>2. ActorOK(NoActor, now)
    BY NoActorOK, Zenon DEF TimeInv
  <2> QED
    BY <2>1, <2>2, ActorStep
<1>7. ASSUME NEW n \in Nodes, GuardLost(n) PROVE TimeInv'
  BY <1>7, Zenon DEF GuardLost, TimeInv
<1> QED
  BY <1>1, <1>2, <1>3, <1>4, <1>5, <1>6, <1>7, Zenon DEF Next

\* RunOffline hands out the time away exactly, in rounds of at least UpdateTick
\* but for the last, and the logic time is never ahead of the clock, whatever
\* the parts of a player ask for and however often it is saved and loaded.
THEOREM TimeAccountedHolds == Spec => []TimeAccounted
<1>1. Spec => [](ListInv /\ TimeInv)
  <2>1. Init => ListInv /\ TimeInv
    BY InitList, InitTime, Zenon
  <2>2. ListInv /\ TimeInv /\ [Next]_vars => (ListInv /\ TimeInv)'
    BY NextList, NextTime, Zenon
  <2> QED
    BY <2>1, <2>2, PTL DEF Spec
<1> QED
  BY <1>1, TimeInvAccounts, PTL

-----------------------------------------------------------------------------
\* The fields that are not dirty are what Load would return.
Unmarked(st, w) == \A f \in Fields \ st.dirty : st.value[f] = w[f]
Clean(a, l) == Unmarked(a.state, Loaded(l))

\* As long as every node works under the guard, one actor at most is there, and
\* what it has not marked is stored.
SaveInv ==
    ~contended =>
        /\ \A n \in Nodes : actor[n].pc # "none" => guard = n /\ Clean(actor[n], list)
        /\ Loaded(list) \in stored

\* Save makes Load return the value that was saved: the differences complete
\* what the list holds.
LEMMA SaveIsLoaded ==
    ASSUME TimeInv, ListInv, NEW n \in Nodes, actor[n].pc = "saving", Clean(actor[n], list)
    PROVE  Loaded(AfterSave(actor[n])) = actor[n].state.value
<1> DEFINE a == actor[n]
           v == a.state.value
           d == WriteDiff(a.state)
<1>1. PICK S : list \in Seq(S)
  BY Zenon DEF TimeInv, Loadable
<1>2. /\ ListOK(list, 0 .. now) /\ (Len(list) > 0 => list[1].full)
      /\ a.count \in Nat /\ (a.count > 0 => Len(list) > 0)
  BY Zenon DEF TimeInv, Loadable, ListInv, SaverOK
<1>3. a.state \in States(now)
  BY ActorFields, Zenon DEF Actors
<1>4. v \in Values(0 .. now) /\ a.state.dirty \in SUBSET Fields
  BY <1>3, Zenon DEF States
<1>5. CASE a.count > 0 /\ a.count < CompactCount
  <2>1. AfterSave(a) = Append(list, Diff(d))
    BY <1>5, Zenon DEF AfterSave, Written
  <2>2. DiffOK(d, 0 .. now)
    BY <1>3, WriteDiffOK, Zenon
  <2>3. Len(list) > 0 /\ list[1].full
    BY <1>2, <1>5, Zenon
  <2>4. Loaded(Append(list, Diff(d))) = ApplyDiff(Loaded(list), d)
    <3> HIDE DEF d
    <3> QED
      BY <1>1, <1>2, <2>2, <2>3, LoadedAppend
  <2>5. Loaded(list) \in Values(0 .. now)
    BY LoadedNow, Zenon
  <2>6. ApplyDiff(Loaded(list), d) = v
    <3> DEFINE w == Loaded(list)
               r == ApplyDiff(w, d)
    <3>1. DOMAIN w = Fields /\ DOMAIN v = Fields
      BY <1>4, <2>5 DEF Values, Fields
    <3>2. v = [f \in Fields |-> v[f]]
      BY <1>4, Zenon DEF Values, Fields
    <3>3. ASSUME NEW f \in Fields
          PROVE  (IF f \in DOMAIN d THEN d[f] ELSE w[f]) = v[f]
      <4>1. CASE f \in a.state.dirty
        BY <4>1, Zenon DEF WriteDiff
      <4>2. CASE f \notin a.state.dirty
        <5>1. v[f] = w[f]
          BY <4>2, Zenon DEF Clean, Unmarked
        <5>2. f \notin DOMAIN d
          BY <4>2, Zenon DEF WriteDiff
        <5> QED
          BY <5>1, <5>2, Zenon
      <4> QED
        BY <4>1, <4>2, Zenon
    <3>4. r = [f \in Fields |-> IF f \in DOMAIN d THEN d[f] ELSE w[f]]
      BY <3>1, Zenon DEF ApplyDiff
    <3> HIDE DEF v, w, d, r
    <3>5. r = [f \in Fields |-> v[f]]
      BY <3>3, <3>4, Zenon
    <3> QED
      BY <3>2, <3>5, Zenon DEF r, w
  <2> QED
    BY <2>1, <2>4, <2>6, Zenon
<1>6. CASE ~(a.count > 0 /\ a.count < CompactCount)
  <2>1. AfterSave(a) = <<Full(v)>>
    BY <1>6, Zenon DEF AfterSave, Written
  <2> HIDE DEF v
  <2>2. Loaded(<<Full(v)>>) = v
    BY <1>4, LoadedFull, Zenon
  <2> QED
    BY <2>1, <2>2, Zenon DEF v
<1> QED
  BY <1>5, <1>6, Zenon

\* A step of the node that has the actor, which keeps the list.
LEMMA OwnerStep ==
    ASSUME SaveInv, NEW n \in Nodes, actor[n].pc # "none",
           \A m \in Nodes \ {n} : actor'[m] = actor[m],
           Clean(actor[n], list) => Clean(actor'[n], list),
           UNCHANGED <<list, guard, stored, contended>>
    PROVE  SaveInv'
<1> SUFFICES ASSUME ~contended
             PROVE  /\ \A m \in Nodes : actor'[m].pc # "none" => guard = m /\ Clean(actor'[m], list)
                    /\ Loaded(list) \in stored
  BY Zenon DEF SaveInv, Clean
<1>1. /\ \A m \in Nodes : actor[m].pc # "none" => guard = m /\ Clean(actor[m], list)
      /\ Loaded(list) \in stored
  BY Zenon DEF SaveInv
<1>2. guard = n /\ Clean(actor[n], list)
  BY <1>1, Zenon
<1> QED
  BY <1>1, <1>2, Zenon

\* Steps that leave the state of the actor alone.
LEMMA KeepsState ==
    ASSUME TimeInv, SaveInv, NEW n \in Nodes, actor[n].pc # "none",
           \A m \in Nodes \ {n} : actor'[m] = actor[m], actor'[n].state = actor[n].state,
           UNCHANGED <<list, guard, stored, contended>>
    PROVE  SaveInv'
<1>1. Clean(actor[n], list) => Clean(actor'[n], list)
  BY Zenon DEF Clean
<1> QED
  BY <1>1, OwnerStep, Zenon

\* The start of an actor.
LEMMA StartSave ==
    ASSUME TimeInv, SaveInv, NEW n \in Nodes, Start(n) PROVE SaveInv'
<1> DEFINE a == actor[n]
<1>0. actor = [m \in Nodes |-> actor[m]] /\ a \in Actors(now)
  BY Zenon DEF TimeInv, ActorOK
<1>1. CASE OnStart(n)
  <2>1. UNCHANGED <<list, guard, stored, contended>> /\ a.pc # "none"
    BY <1>1, Zenon DEF OnStart
  <2>2. PICK x : actor' = [actor EXCEPT ![n] = x] /\ x.state = a.state
    <3> DEFINE b == Recovered(a)
    <3>1. b.state = a.state /\ DOMAIN b = DOMAIN a /\ "state" \in DOMAIN a
      BY <1>0, Zenon DEF Recovered, Actors
    <3>2. \/ actor' = [actor EXCEPT ![n] = [b EXCEPT !.pc = "running", !.last = now]]
          \/ \E next \in NextUpdates :
                actor' = [actor EXCEPT ![n] =
                    [Update(b, 0, next) EXCEPT !.pc = "offline", !.began = now,
                                               !.remain = now - b.state.value.off]]
      BY <1>1, Zenon DEF OnStart
    <3> HIDE DEF b
    <3>3. CASE actor' = [actor EXCEPT ![n] = [b EXCEPT !.pc = "running", !.last = now]]
      <4> DEFINE y == [b EXCEPT !.pc = "running", !.last = now]
      <4>1. y.state = a.state
        BY <3>1, Zenon
      <4> HIDE DEF y
      <4>2. actor' = [actor EXCEPT ![n] = y]
        BY <3>3, Zenon DEF y
      <4> QED
        BY <4>1, <4>2, Zenon
    <3>4. CASE \E next \in NextUpdates :
                 actor' = [actor EXCEPT ![n] =
                     [Update(b, 0, next) EXCEPT !.pc = "offline", !.began = now,
                                                !.remain = now - b.state.value.off]]
      <4>0. PICK next \in NextUpdates :
              actor' = [actor EXCEPT ![n] =
                  [Update(b, 0, next) EXCEPT !.pc = "offline", !.began = now,
                                             !.remain = now - b.state.value.off]]
        BY <3>4, Zenon
      <4> DEFINE y == [Update(b, 0, next) EXCEPT !.pc = "offline", !.began = now,
                                                 !.remain = now - b.state.value.off]
      <4>1. y.state = a.state
        BY <3>1, Zenon DEF Update
      <4> HIDE DEF y
      <4>2. actor' = [actor EXCEPT ![n] = y]
        BY <4>0, Zenon DEF y
      <4> QED
        BY <4>1, <4>2, Zenon
    <3> QED
      BY <3>2, <3>3, <3>4, Zenon
  <2>3. actor'[n].state = a.state /\ \A m \in Nodes \ {n} : actor'[m] = actor[m]
    BY <1>0, <2>2
  <2> QED
    BY <2>1, <2>3, KeepsState
<1>2. CASE OfflineRound(n)
  <2>1. UNCHANGED <<list, guard, stored, contended>> /\ a.pc # "none"
    BY <1>2, Zenon DEF OfflineRound
  <2>2. PICK x : actor' = [actor EXCEPT ![n] = x] /\ x.state = a.state
    <3>2. "state" \in DOMAIN a
      BY <1>0 DEF Actors
    <3>3. CASE actor' = [actor EXCEPT ![n].pc = "panicked"]
      <4> DEFINE y == [a EXCEPT !.pc = "panicked"]
      <4>1. y.state = a.state
        BY <3>2, Zenon
      <4>2. actor' = [actor EXCEPT ![n] = y]
        BY <3>3
      <4> HIDE DEF y
      <4> QED
        BY <4>1, <4>2, Zenon
    <3>4. ASSUME NEW next \in NextUpdates,
                 actor' = [actor EXCEPT ![n] =
                     [Update(a, Delta(a), next) EXCEPT !.remain = @ - Delta(a), !.rounds = @ + 1]]
          PROVE  \E x : actor' = [actor EXCEPT ![n] = x] /\ x.state = a.state
      <4> DEFINE y == [Update(a, Delta(a), next) EXCEPT !.remain = @ - Delta(a), !.rounds = @ + 1]
      <4>1. y.state = a.state
        BY <3>2, Zenon DEF Update
      <4>2. actor' = [actor EXCEPT ![n] = y]
        BY <3>4
      <4> HIDE DEF y
      <4> QED
        BY <4>1, <4>2, Zenon
    <3> QED
      BY <1>2, <3>3, <3>4, Zenon DEF OfflineRound
  <2>3. actor'[n].state = a.state /\ \A m \in Nodes \ {n} : actor'[m] = actor[m]
    BY <1>0, <2>2, Zenon
  <2> QED
    BY <2>1, <2>3, KeepsState, Zenon
<1>3. CASE OfflineDone(n)
  <2>1. UNCHANGED <<list, guard, stored, contended>> /\ a.pc # "none"
    BY <1>3, Zenon DEF OfflineDone
  <2>2. actor'[n].state = a.state /\ \A m \in Nodes \ {n} : actor'[m] = actor[m]
    BY <1>0, <1>3, Zenon DEF OfflineDone, Actors
  <2> QED
    BY <2>1, <2>2, KeepsState, Zenon
<1> QED
  BY <1>1, <1>2, <1>3 DEF Start

\* A field that is set is marked.
LEMMA SetFieldClean ==
    ASSUME NEW t, NEW st \in States(t), NEW f \in Fields, NEW v, NEW w, Unmarked(st, w)
    PROVE  Unmarked(SetField(st, f, v), w)
<1> DEFINE r == SetField(st, f, v)
<1>1. CASE st.value[f] = v
  BY <1>1, Zenon DEF SetField
<1>2. CASE st.value[f] # v
  <2>1. r.dirty = st.dirty \cup {f} /\ r.value = [st.value EXCEPT ![f] = v]
    BY <1>2, Zenon DEF SetField
  <2>2. DOMAIN st.value = Fields
    BY Zenon DEF States, Values, Fields
  <2> HIDE DEF r
  <2>3. \A g \in Fields \ r.dirty : r.value[g] = w[g]
    BY <2>1, <2>2, Zenon DEF Unmarked
  <2> QED
    BY <2>3, Zenon DEF r, Unmarked
<1> QED
  BY <1>1, <1>2, Zenon

\* An actor that runs, until it is stopped.
LEMMA RunSave ==
    ASSUME TimeInv, SaveInv, NEW n \in Nodes,
           \/ OnUpdate(n) \/ RequestUnload(n) \/ OnStop(n) \/ SaveCounts(n)
           \/ \E u \in Uids : SetUid(n, u)
    PROVE  SaveInv'
<1> DEFINE a == actor[n]
<1>0. actor = [m \in Nodes |-> actor[m]] /\ a \in Actors(now)
  BY Zenon DEF TimeInv, ActorOK
<1>1. UNCHANGED <<list, guard, stored, contended>> /\ a.pc # "none"
  BY Zenon DEF OnUpdate, RequestUnload, OnStop, SaveCounts, SetUid
<1>2. a.state \in States(now)
  BY <1>0, Zenon DEF Actors
<1>3. ASSUME NEW f \in Fields, NEW v, actor'[n].state = SetField(a.state, f, v),
             \A m \in Nodes \ {n} : actor'[m] = actor[m]
      PROVE  SaveInv'
  <2> DEFINE st == a.state
             r == SetField(st, f, v)
             w == Loaded(list)
  <2>1. Unmarked(st, w) => Unmarked(r, w)
    <3> HIDE DEF w, a
    <3> QED
      BY <1>2, SetFieldClean, Zenon
  <2>2. Clean(a, list) => Clean(actor'[n], list)
    <3> HIDE DEF r
    <3>1. actor'[n].state = r
      BY <1>3, Zenon DEF r
    <3> QED
      BY <2>1, <3>1, Zenon DEF Clean
  <2> QED
    BY <1>1, <1>3, <2>2, OwnerStep, Zenon
<1>4. CASE OnUpdate(n)
  <2>1. actor'[n].state = a.state /\ \A m \in Nodes \ {n} : actor'[m] = actor[m]
    BY <1>0, <1>4 DEF OnUpdate, Update, Actors
  <2> QED
    BY <1>1, <2>1, KeepsState
<1>5. CASE RequestUnload(n) \/ SaveCounts(n)
  <2>1. actor'[n].state = a.state /\ \A m \in Nodes \ {n} : actor'[m] = actor[m]
    BY <1>0, <1>5 DEF RequestUnload, SaveCounts, Actors
  <2> QED
    BY <1>1, <2>1, KeepsState, Zenon
<1>6. CASE OnStop(n)
  <2>1. /\ actor'[n].state = SetField(a.state, "off", now)
        /\ \A m \in Nodes \ {n} : actor'[m] = actor[m]
    BY <1>0, <1>6, Zenon DEF OnStop, Actors
  <2> QED
    BY <1>3, <2>1, Zenon DEF Fields
<1>7. CASE \E u \in Uids : SetUid(n, u)
  <2>1. PICK u \in Uids : SetUid(n, u)
    BY <1>7, Zenon
  <2>2. /\ actor'[n].state = SetField(a.state, "uid", u)
        /\ \A m \in Nodes \ {n} : actor'[m] = actor[m]
    BY <1>0, <2>1, Zenon DEF SetUid, Actors
  <2> QED
    BY <1>3, <2>2, Zenon DEF Fields
<1> QED
  BY <1>4, <1>5, <1>6, <1>7

\* A node loads the actor: no other has it.
LEMMA LoadSave ==
    ASSUME TimeInv, SaveInv, NEW n \in Nodes, LoadPlayerActor(n) PROVE SaveInv'
<1>0. actor = [m \in Nodes |-> actor[m]]
  BY Zenon DEF TimeInv
<1>1. guard = NoNode /\ guard' = n /\ UNCHANGED <<list, stored, contended>>
  BY Zenon DEF LoadPlayerActor
<1>2. /\ actor'[n].state.value = Loaded(list)
      /\ \A m \in Nodes \ {n} : actor'[m] = actor[m]
  BY <1>0, Zenon DEF LoadPlayerActor, NoActor
<1>3. Clean(actor'[n], list)
  BY <1>2, Zenon DEF Clean, Unmarked
<1> SUFFICES ASSUME ~contended
             PROVE  /\ \A m \in Nodes : actor'[m].pc # "none" => n = m /\ Clean(actor'[m], list)
                    /\ Loaded(list) \in stored
  BY <1>1, Zenon DEF SaveInv, Clean
<1>4. \A m \in Nodes : actor[m].pc = "none"
  BY <1>1, PlayerAssumption, Zenon DEF SaveInv
<1>5. Loaded(list) \in stored
  BY Zenon DEF SaveInv
<1> QED
  BY <1>2, <1>3, <1>4, <1>5, Zenon

\* Save writes, or fails.
LEMMA SaveSave ==
    ASSUME TimeInv, ListInv, SaveInv, NEW n \in Nodes, SaveWrites(n) \/ SaveFails(n)
    PROVE  SaveInv'
<1> DEFINE a == actor[n]
<1>0. actor = [m \in Nodes |-> actor[m]] /\ a \in Actors(now)
  BY Zenon DEF TimeInv, ActorOK
<1>1. a.pc = "saving" /\ guard' = guard /\ contended' = contended
  BY Zenon DEF SaveWrites, SaveFails
<1>2. actor'[n].state.value = a.state.value /\ \A m \in Nodes \ {n} : actor'[m] = actor[m]
  BY <1>0 DEF SaveWrites, SaveFails, Actors, States
<1> SUFFICES ASSUME ~contended
             PROVE  /\ \A m \in Nodes : actor'[m].pc # "none" => guard = m /\ Clean(actor'[m], list')
                    /\ Loaded(list') \in stored'
  BY <1>1, Zenon DEF SaveInv, Clean
<1>3. /\ \A m \in Nodes : actor[m].pc # "none" => guard = m /\ Clean(actor[m], list)
      /\ Loaded(list) \in stored
  BY Zenon DEF SaveInv
<1>4. a.pc # "none"
  BY <1>1, Zenon
<1>5. guard = n /\ Clean(a, list)
  BY <1>3, <1>4, Zenon
<1>6. \A m \in Nodes \ {n} : actor'[m].pc = "none"
  BY <1>2, <1>3, <1>5, Zenon
<1>7. Loaded(AfterSave(a)) = a.state.value
  BY <1>1, <1>5, SaveIsLoaded
<1>8. CASE list' = AfterSave(a) /\ a.state.value \in stored'
  <2>1. Clean(actor'[n], list')
    BY <1>2, <1>7, <1>8, Zenon DEF Clean, Unmarked
  <2> QED
    BY <1>5, <1>6, <1>7, <1>8, <2>1, Zenon
<1>9. CASE SaveFails(n) /\ list' = list
  <2>1. actor'[n].state = a.state /\ Loaded(list) \in stored'
    BY <1>0, <1>3, <1>9 DEF SaveFails, Actors
  <2>2. Clean(actor'[n], list')
    BY <1>5, <1>9, <2>1, Zenon DEF Clean
  <2> QED
    BY <1>5, <1>6, <1>9, <2>1, <2>2, Zenon
<1>10. \/ list' = AfterSave(a) /\ a.state.value \in stored'
       \/ SaveFails(n) /\ list' = list
  BY Zenon DEF SaveWrites, SaveFails
<1> QED
  BY <1>8, <1>9, <1>10, Zenon

\* The actor is removed, or dies with its process.
LEMMA GoneSave ==
    ASSUME TimeInv, SaveInv, NEW n \in Nodes, Removed(n) \/ Crash(n) PROVE SaveInv'
<1>0. actor = [m \in Nodes |-> actor[m]]
  BY Zenon DEF TimeInv
<1>1. UNCHANGED <<list, stored, contended>> /\ guard' = IF guard = n THEN NoNode ELSE guard
  BY Zenon DEF Removed, Crash
<1>2. actor'[n].pc = "none" /\ \A m \in Nodes \ {n} : actor'[m] = actor[m]
  BY <1>0 DEF Removed, Crash, NoActor
<1> SUFFICES ASSUME ~contended
             PROVE  /\ \A m \in Nodes : actor'[m].pc # "none" => guard' = m /\ Clean(actor'[m], list)
                    /\ Loaded(list) \in stored
  BY <1>1, Zenon DEF SaveInv, Clean
<1> QED
  BY <1>1, <1>2, Zenon DEF SaveInv

\* Every step keeps what is stored.
LEMMA NextSave == ListInv /\ TimeInv /\ SaveInv /\ [Next]_vars => SaveInv'
<1> SUFFICES ASSUME ListInv, TimeInv, SaveInv, [Next]_vars PROVE SaveInv'
  BY Zenon
<1>1. CASE Tick \/ UNCHANGED vars
  <2>1. UNCHANGED <<list, actor, guard, stored, contended>>
    BY <1>1, Zenon DEF Tick, vars
  <2> QED
    BY <2>1, Zenon DEF SaveInv, Clean
<1>2. ASSUME NEW n \in Nodes, LoadPlayerActor(n) \/ Start(n) PROVE SaveInv'
  BY <1>2, LoadSave, StartSave, Zenon
<1>3. ASSUME NEW n \in Nodes,
             \/ OnUpdate(n) \/ RequestUnload(n) \/ OnStop(n) \/ SaveCounts(n)
             \/ \E u \in Uids : SetUid(n, u)
      PROVE  SaveInv'
  BY <1>3, RunSave, Zenon
<1>4. ASSUME NEW n \in Nodes, SaveWrites(n) \/ SaveFails(n) PROVE SaveInv'
  BY <1>4, SaveSave, Zenon
<1>5. ASSUME NEW n \in Nodes, Removed(n) \/ Crash(n) PROVE SaveInv'
  BY <1>5, GoneSave, Zenon
<1>6. ASSUME NEW n \in Nodes, GuardLost(n) PROVE SaveInv'
  BY <1>6, Zenon DEF GuardLost, SaveInv
<1> QED
  BY <1>1, <1>2, <1>3, <1>4, <1>5, <1>6, Zenon DEF Next

\* A player that was never saved.
LEMMA InitSave == Init => SaveInv
<1> SUFFICES ASSUME Init PROVE SaveInv
  BY Zenon
<1>1. Loaded(list) \in stored
  BY Zenon DEF Init, Loaded
<1>2. \A n \in Nodes : actor[n].pc = "none"
  BY Zenon DEF Init, NoActor
<1> QED
  BY <1>1, <1>2, Zenon DEF SaveInv

\* As long as every node works under the guard, Load returns what the last
\* successful Save stored, or what a Save with an unknown outcome after it was
\* given: for any number of nodes, of values and of failures.
THEOREM SavedIsLoadedHolds == Spec => []SavedIsLoaded
<1>1. Init => ListInv /\ TimeInv /\ SaveInv
  BY InitList, InitTime, InitSave, Zenon
<1>2. ListInv /\ TimeInv /\ SaveInv /\ [Next]_vars => (ListInv /\ TimeInv /\ SaveInv)'
  BY NextList, NextTime, NextSave, Zenon
<1>3. SaveInv => SavedIsLoaded
  BY Zenon DEF SaveInv, SavedIsLoaded
<1> QED
  BY <1>1, <1>2, <1>3, PTL DEF Spec

=============================================================================
