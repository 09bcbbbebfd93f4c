------------------------------- MODULE Player -------------------------------
(***************************************************************************)
(* The actor of one player (app/Player) on the nodes that may own it: its  *)
(* state is loaded from a list of differences in Redis                     *)
(* (internal/diff_manager), tracked by field (pb/player/actor), brought up *)
(* to date with the time the player was away (internal/util/leave_cal.go), *)
(* updated, unloaded, stopped and saved.                                   *)
(*                                                                         *)
(* External: the runtime of the actors, which starts, updates and stops an *)
(* actor and lets one node at a time own it (actorGuard, a lease that may  *)
(* be lost); Redis; the clock.  The repository calls neither Save nor      *)
(* SetUid yet: the model lets the owner call them whenever the actor is    *)
(* not busy, the way their interfaces ask for (the difference since the    *)
(* last successful Save; ClearDirty after it).                             *)
(***************************************************************************)
EXTENDS Integers, Sequences, FiniteSets, FiniteSetsExt

CONSTANTS Nodes,
          Uids, Uid,       \* values of the field uid; the player's own
          CompactCount,    \* playerDiffCount
          UpdateTick,
          Reported,        \* what the parts of a player may ask for: sequences of updates
          MaxNow, MaxSets, MaxFaults

NoNode == "no node"

ASSUME PlayerAssumption ==
    /\ IsFiniteSet(Nodes) /\ NoNode \notin Nodes /\ Uid \in Uids
    /\ CompactCount \in Nat \ {0} /\ UpdateTick \in Nat \ {0}
    /\ Reported \subseteq Seq([source : STRING, dt : Int])
    /\ MaxNow \in Nat /\ MaxSets \in Nat /\ MaxFaults \in Nat

VARIABLES now,
          list,      \* the Redis list
          actor,     \* the actor on each node, and the call it is in
          guard,     \* the node that holds the guard, if any
          stored,    \* history: what Load may return
          contended, \* history: a node went on without the guard
          sets, faults

vars == <<now, list, actor, guard, stored, contended, sets, faults>>

-----------------------------------------------------------------------------
\* A loop over a sequence: op with the result so far and the next element.
FoldFromLeft(op(_, _), base, s) ==
    MapThenFoldSet(LAMBDA e, result : op(result, e), base,
                   LAMBDA i : s[i], LAMBDA is : Max(is), DOMAIN s)

-----------------------------------------------------------------------------
\* PlayerState: a value, and the fields changed since ClearDirty.

NewPlayer == [uid |-> Uid, off |-> 0]

\* SetUid, SetLastOfflineTime.
SetReplacesDirty(state, field, v) ==
    IF state.value[field] = v THEN state
    ELSE [value |-> [state.value EXCEPT ![field] = v], dirty |-> {field}]

SetField(state, field, v) ==
    IF state.value[field] = v THEN state
    ELSE [value |-> [state.value EXCEPT ![field] = v], dirty |-> state.dirty \cup {field}]

\* WriteDiff: the fields that are dirty.
WriteDiff(state) == [field \in state.dirty |-> state.value[field]]

\* ApplyPlayerDiff.
ApplyDiff(value, d) ==
    [field \in DOMAIN value |-> IF field \in DOMAIN d THEN d[field] ELSE value[field]]

-----------------------------------------------------------------------------
\* The list: a snapshot and then differences.

Full(value) == [full |-> TRUE, data |-> value]
Diff(d) == [full |-> FALSE, data |-> d]

\* Load: the head is a snapshot, and only differences are taken from the rest.
ApplyEntry(value, e) == IF e.full THEN value ELSE ApplyDiff(value, e.data)
Loaded(l) == IF l = <<>> THEN NewPlayer ELSE FoldFromLeft(ApplyEntry, l[1].data, Tail(l))

\* Save, once the length is known: one more difference, or a snapshot instead
\* of the whole list.
AlwaysAppends(count, l, d, value) == IF count > 0 THEN Append(l, Diff(d)) ELSE <<Full(value)>>

Written(count, l, d, value) ==
    IF count > 0 /\ count < CompactCount THEN Append(l, Diff(d)) ELSE <<Full(value)>>

-----------------------------------------------------------------------------
\* The next update that is due.

NoUpdateDt == -1
NoUpdate == [source |-> "", dt |-> NoUpdateDt]

Sooner(result, update) ==
    IF update.dt >= 0 /\ (result.dt < 0 \/ update.dt < result.dt) THEN update ELSE result

NoFloor(tick, updates) == FoldFromLeft(Sooner, NoUpdate, updates)

MinNextUpdate(tick, updates) ==
    LET result == FoldFromLeft(Sooner, NoUpdate, updates)
    IN  IF 0 <= result.dt /\ result.dt < tick THEN [result EXCEPT !.dt = tick] ELSE result

\* Player.update: the logic time advances, and something may be due next.
Update(a, delta, next) == [a EXCEPT !.logicTime = @ + delta, !.next = next]
NextUpdates == {MinNextUpdate(UpdateTick, updates) : updates \in Reported}

-----------------------------------------------------------------------------
NoActor ==
    [pc |-> "none", state |-> [value |-> NewPlayer, dirty |-> {}], logicTime |-> 0, last |-> 0,
     needUnload |-> FALSE, began |-> 0, remain |-> 0, rounds |-> 0, next |-> NoUpdate,
     count |-> 0, resume |-> "none"]

Init ==
    /\ now = 1
    /\ list = <<>>
    /\ actor = [n \in Nodes |-> NoActor]
    /\ guard = NoNode
    /\ stored = {NewPlayer}
    /\ contended = FALSE
    /\ sets = 0 /\ faults = 0

Fault == faults < MaxFaults /\ faults' = faults + 1

\* The clock (external).
Tick ==
    /\ now < MaxNow
    /\ now' = now + 1
    /\ UNCHANGED <<list, actor, guard, stored, contended, sets, faults>>

\* actorGuard lets a node load the actor (external); loadPlayerActor: Load, New
\* and Mount.  A Load that fails leaves everything as it was.
LoadPlayerActor(n) ==
    /\ guard = NoNode /\ actor[n].pc = "none"
    /\ guard' = n
    /\ actor' = [actor EXCEPT ![n] = [NoActor EXCEPT !.pc = "mounted",
                                                     !.state.value = Loaded(list)]]
    /\ UNCHANGED <<now, list, stored, contended, sets, faults>>

\* Recover.
Recovered(a) == [a EXCEPT !.logicTime = IF a.state.value.off = 0 THEN now ELSE a.state.value.off]

\* OnStart, and RunOffline up to its loop.
OnStart(n) ==
    LET a == Recovered(actor[n])
        off == a.state.value.off
    IN  /\ actor[n].pc = "mounted"
        /\ IF off # 0 /\ now > off
           THEN \E next \in NextUpdates :
                   actor' = [actor EXCEPT ![n] =
                       [Update(a, 0, next) EXCEPT !.pc = "offline", !.began = now,
                                                  !.remain = now - off]]
           ELSE actor' = [actor EXCEPT ![n] = [a EXCEPT !.pc = "running", !.last = now]]
        /\ UNCHANGED <<now, list, guard, stored, contended, sets, faults>>

\* A round of RunOffline's loop; a round of no length panics.
Uncapped(a) == IF 0 <= a.next.dt THEN a.next.dt ELSE a.remain
Delta(a) == IF 0 <= a.next.dt /\ a.next.dt < a.remain THEN a.next.dt ELSE a.remain

OfflineRound(n) ==
    LET a == actor[n] IN
    /\ a.pc = "offline" /\ a.remain > 0
    /\ IF Delta(a) = 0
       THEN actor' = [actor EXCEPT ![n].pc = "panicked"]
       ELSE \E next \in NextUpdates :
               actor' = [actor EXCEPT ![n] =
                   [Update(a, Delta(a), next) EXCEPT !.remain = @ - Delta(a), !.rounds = @ + 1]]
    /\ UNCHANGED <<now, list, guard, stored, contended, sets, faults>>

OfflineDone(n) ==
    /\ actor[n].pc = "offline" /\ actor[n].remain <= 0
    /\ actor' = [actor EXCEPT ![n].pc = "running", ![n].last = now, ![n].next = NoUpdate,
                              ![n].began = 0, ![n].remain = 0, ![n].rounds = 0]
    /\ UNCHANGED <<now, list, guard, stored, contended, sets, faults>>

\* OnUpdate, with the time since the update before; when it is called again, for
\* which it returns the update that is due, is up to the runtime (external).
OnUpdate(n) ==
    LET a == actor[n] IN
    /\ a.pc = "running"
    /\ now > a.last \/ a.needUnload
    /\ actor' = [actor EXCEPT ![n] =
           [Update(a, now - a.last, NoUpdate)
               EXCEPT !.last = now, !.pc = IF a.needUnload THEN "unloading" ELSE @]]
    /\ UNCHANGED <<now, list, guard, stored, contended, sets, faults>>

\* The Offload request.
RequestUnload(n) ==
    /\ actor[n].pc = "running" /\ ~actor[n].needUnload
    /\ actor' = [actor EXCEPT ![n].needUnload = TRUE]
    /\ UNCHANGED <<now, list, guard, stored, contended, sets, faults>>

\* A handler changes the field uid.
SetUid(n, u) ==
    /\ actor[n].pc = "running" /\ sets < MaxSets
    /\ actor' = [actor EXCEPT ![n].state = SetField(@, "uid", u)]
    /\ sets' = sets + 1
    /\ UNCHANGED <<now, list, guard, stored, contended, faults>>

\* OnStop, when the actor asked for it or the process shuts down; what only a
\* running actor uses goes back to its initial value.
OnStop(n) ==
    /\ actor[n].pc \in {"running", "unloading"}
    /\ actor' = [actor EXCEPT ![n].pc = "stopped", ![n].logicTime = now, ![n].last = 0,
                              ![n].needUnload = FALSE,
                              ![n].state = SetField(@, "off", now)]
    /\ UNCHANGED <<now, list, guard, stored, contended, sets, faults>>

-----------------------------------------------------------------------------
\* Save begins: it reads the length of the list.
SaveCounts(n) ==
    /\ actor[n].pc \in {"running", "stopped"} /\ actor[n].state.dirty # {}
    /\ actor' = [actor EXCEPT ![n].pc = "saving", ![n].count = Len(list), ![n].resume = actor[n].pc]
    /\ UNCHANGED <<now, list, guard, stored, contended, sets, faults>>

AfterSave(a) == Written(a.count, list, WriteDiff(a.state), a.state.value)

\* RPush, or Del and RPush in one transaction; then the caller clears the marks.
SaveWrites(n) ==
    LET a == actor[n] IN
    /\ a.pc = "saving"
    /\ list' = AfterSave(a)
    /\ stored' = {a.state.value}
    /\ actor' = [actor EXCEPT ![n].pc = a.resume, ![n].count = 0, ![n].resume = "none",
                              ![n].state.dirty = {}]
    /\ UNCHANGED <<now, guard, contended, sets, faults>>

\* A call of Save fails before it has an effect, or its answer is lost; the
\* marks stay.
SaveFails(n) ==
    LET a == actor[n] IN
    /\ a.pc = "saving"
    /\ Fault
    /\ list' \in {list, AfterSave(a)}
    /\ stored' = stored \cup {a.state.value}
    /\ actor' = [actor EXCEPT ![n].pc = a.resume, ![n].count = 0, ![n].resume = "none"]
    /\ UNCHANGED <<now, guard, contended, sets>>

\* A stopped actor is saved and removed, and its guard released (external).
Removed(n) ==
    /\ actor[n].pc = "stopped" /\ actor[n].state.dirty = {}
    /\ actor' = [actor EXCEPT ![n] = NoActor]
    /\ guard' = IF guard = n THEN NoNode ELSE guard
    /\ UNCHANGED <<now, list, stored, contended, sets, faults>>

\* The process dies.
Crash(n) ==
    /\ actor[n].pc # "none"
    /\ Fault
    /\ actor' = [actor EXCEPT ![n] = NoActor]
    /\ guard' = IF guard = n THEN NoNode ELSE guard
    /\ UNCHANGED <<now, list, stored, contended, sets>>

\* The lease of the guard runs out under a node that is still at work.
GuardLost(n) ==
    /\ guard = n
    /\ Fault
    /\ guard' = NoNode /\ contended' = TRUE
    /\ UNCHANGED <<now, list, actor, stored, sets>>

Start(n) == OnStart(n) \/ OfflineRound(n) \/ OfflineDone(n)

Next ==
    \/ Tick
    \/ \E n \in Nodes :
          \/ LoadPlayerActor(n) \/ Start(n) \/ OnUpdate(n) \/ RequestUnload(n)
          \/ OnStop(n) \/ SaveCounts(n) \/ SaveWrites(n) \/ SaveFails(n)
          \/ Removed(n) \/ Crash(n) \/ GuardLost(n)
          \/ \E u \in Uids : SetUid(n, u)

\* A start that has begun goes on.
Spec == Init /\ [][Next]_vars /\ \A n \in Nodes : WF_vars(Start(n))

-----------------------------------------------------------------------------
\* Load can always read the list: its head is a snapshot and the rest are
\* differences (Load skips a snapshot that is not the head), although Save
\* looks at the length before it writes and another node may write in between;
\* and every node adds at most one difference too many before it compacts.
ListShape ==
    /\ \A i \in DOMAIN list : list[i].full <=> i = 1
    /\ Len(list) <= CompactCount + Cardinality(Nodes) - 1

\* As long as every node works under the guard, Load returns what the last
\* successful Save stored, or what a later Save with an unknown outcome was
\* given, never a mixture: no field is lost or comes back, whatever failed, was
\* repeated or died in between.
SavedIsLoaded == ~contended => Loaded(list) \in stored

\* RunOffline hands out the time away exactly: what was handed out and what
\* remains add up, no round but the last is shorter than UpdateTick, and the
\* logic time is never ahead of the clock.
TimeAccounted ==
    \A n \in Nodes : LET a == actor[n] IN
        /\ a.logicTime <= now
        /\ a.pc = "offline" =>
              /\ a.remain >= 0 /\ a.logicTime + a.remain = a.began
              /\ a.remain > 0 => a.rounds * UpdateTick <= a.logicTime - a.state.value.off

\* A start comes to its end, however long the player was away and whatever the
\* parts of the player ask for: RunOffline neither loops for ever nor panics.
StartEnds == \A n \in Nodes : actor[n].pc = "mounted" ~> actor[n].pc \in {"running", "none"}

=============================================================================
