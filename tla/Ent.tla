-------------------------------- MODULE Ent --------------------------------
(***************************************************************************)
(* The generated data access layer (package ent of the login, items and    *)
(* payment services): builders that collect what is to be written in a     *)
(* mutation, the statement Save makes of it, transactions and queries.     *)
(*                                                                         *)
(* The three generated packages have the same code for every table and     *)
(* differ in the lists of columns, which EntSchema reads off; Schemas maps  *)
(* a table to its record.  A value is a number; a text is modelled by      *)
(* its length (n times the same letter), so that order, prefixes and       *)
(* concatenation are those of texts.                                       *)
(*                                                                         *)
(* MySQL is external: a table maps ids to rows, keys with a null do not    *)
(* collide, SET clauses are evaluated from left to right.                  *)
(***************************************************************************)
EXTENDS Integers, Sequences, FiniteSets, SequencesExt, Functions

CONSTANTS Schemas, Ids, Null, Unset, NoRow, NoId,
          Tried,         \* the columns of a table that calls are made about
          Predicates,    \* the predicates that are tried on it
          MaxCalls, MaxTrips, MaxFaults

VARIABLES entity,   \* the table at hand
          table,    \* what the statements of the session see
          saved,    \* what is committed
          tx,       \* the transactions begun so far, and whether the last one is open
          b,        \* the builder of the last write
          q,        \* the query builder, and its clone
          answer,   \* what the last query returned
          calls, trips, faults

vars == <<entity, table, saved, tx, b, q, answer, calls, trips, faults>>

schema == Schemas[entity]
Columns == schema.columns
Nulls == [c \in Columns |-> Null]
Nothing == [c \in {} |-> 0]
Exists(t, i) == t[i] # NoRow

\* The seconds timex.NowUnix returns: time moves on from one statement to the next.
Now == 3 + trips

-----------------------------------------------------------------------------
\* Predicates (where.go).  A comparison with NULL is neither true nor false,
\* and neither is its negation.

Compare(op, x, v) ==
    CASE op \in {"EQ", "EqualFold", "In"} -> x = v
      [] op \in {"NEQ", "NotIn"} -> x # v
      [] op = "GT" -> x > v
      [] op \in {"GTE", "Contains", "HasPrefix", "HasSuffix", "ContainsFold"} -> x >= v
      [] op = "LT" -> x < v
      [] op = "LTE" -> x <= v

Holds(p, row) ==
    LET x == row[p.col] IN
    CASE p.op = "IsNil" -> (x = Null) # p.not
      [] p.op = "NotNil" -> (x # Null) # p.not
      [] OTHER -> x # Null /\ Compare(p.op, x, p.val) # p.not

\* A builder's predicates are joined by AND.
Selected(t, ps) == {i \in Ids : Exists(t, i) /\ \A p \in ps : Holds(p, t[i])}

-----------------------------------------------------------------------------
\* Mutations (mutation.go).  The domains of m.set and m.add are the fields whose
\* pointers are not nil, m.cleared is clearedFields.  An appended list is kept
\* with the additions.

NoMutation == [set |-> Nothing, add |-> Nothing, cleared |-> {}]

Without(f, S) == Restrict(f, DOMAIN f \ S)

PutKeepsAdd(m, c, v) == [m EXCEPT !.set = (c :> v) @@ @]
Put(m, c, v) == [m EXCEPT !.set = (c :> v) @@ @, !.add = Without(@, {c})]

Increase(m, c, v) ==
    [m EXCEPT !.add = (c :> IF c \in DOMAIN @ THEN @[c] + v ELSE v) @@ @]

Clear(m, c) ==
    [set |-> Without(m.set, {c}), add |-> Without(m.add, {c}), cleared |-> m.cleared \cup {c}]

Reset(m, c) ==
    [set |-> Without(m.set, {c}), add |-> Without(m.add, {c}), cleared |-> m.cleared \ {c}]

\* One call on an update builder or on its mutation.  The builder's setter of a
\* column that can be added to resets the column first.
Applied(m, call) ==
    CASE call.kind = "set" /\ call.via = "builder" /\ "add" \in schema.kinds[call.col] ->
           Put(Reset(m, call.col), call.col, call.val)
      [] call.kind = "set" -> Put(m, call.col, call.val)
      [] call.kind \in {"add", "append"} -> Increase(m, call.col, call.val)
      [] call.kind = "clear" -> Clear(m, call.col)
      [] call.kind = "reset" -> Reset(m, call.col)

-----------------------------------------------------------------------------
\* What Save makes of a mutation.

\* defaults() of a create builder fills in what was not set.
WithDefaults(set) ==
    set @@ [c \in DOMAIN schema.defaults |->
               IF schema.defaults[c].now THEN Now ELSE schema.defaults[c].val]

InLimits(c, v) == schema.limits[c].min <= v /\ v <= schema.limits[c].max

CreateUnchecked(set) == \A c \in DOMAIN schema.limits \cap DOMAIN set : InLimits(c, set[c])

\* check() of a create builder.
CreateOK(set) ==
    /\ schema.required \subseteq DOMAIN set
    /\ \A c \in DOMAIN schema.limits \cap DOMAIN set : InLimits(c, set[c])

\* createSpec() names the columns that were set; the others are NULL.
InsertedRow(set) == Restrict(set, schema.inserted \cap DOMAIN set) @@ Nulls

\* defaults() of an update builder sets the refreshed columns that were not set.
Refreshed(m) ==
    LET stale == schema.refreshed \ DOMAIN m.set
    IN  [m EXCEPT !.set = @ @@ [c \in stale |-> Now], !.add = Without(@, stale)]

\* check() of an update builder.
UpdateOK(m) == \A c \in schema.checked \cap DOMAIN m.set : InLimits(c, m.set[c])

UpdatesEverySet(spec, m, row) == m.set @@ row

\* sqlSave() of an update builder: the columns cleared, set and added to, in the
\* order in which the statement assigns them.
UpdatedRow(spec, m, row) ==
    LET assigned == Restrict(m.set, spec.set \cap DOMAIN m.set)
                      @@ [c \in spec.clear \cap m.cleared |-> Null] @@ row
        sum(x, v) == (IF x = Null THEN 0 ELSE x) + v
    IN  [c \in spec.add \cap DOMAIN m.add |-> sum(assigned[c], m.add[c])] @@ assigned

-----------------------------------------------------------------------------
\* The statements (external: MySQL through sqlgraph).

Collide(t, i, row, k) ==
    \E j \in Ids \ {i} :
        Exists(t, j) /\ \A c \in k : row[c] # Null /\ t[j][c] = row[c]

Unique(t) == \A i \in Ids : Exists(t, i) => \A k \in schema.keys : ~Collide(t, i, t[i], k)

\* The rows an insert meets: the one with its id and the ones with its keys.
Conflicts(t, i, row) ==
    {j \in Ids : Exists(t, j) /\ (j = i \/ \E k \in schema.keys : \A c \in k :
                                               row[c] # Null /\ t[j][c] = row[c])}

\* ON DUPLICATE KEY UPDATE, as the conflict options ask for it.
Resolved(conflict, up, set, row) ==
    CASE conflict.kind = "ignore" -> row
      [] conflict.kind = "newValues" ->
           Without(set, up.ignored) @@ row
      [] conflict.kind = "set" -> [row EXCEPT ![conflict.col] = conflict.val]
      [] conflict.kind = "update" -> [row EXCEPT ![conflict.col] = InsertedRow(set)[conflict.col]]
      [] conflict.kind = "add" ->
           [row EXCEPT ![conflict.col] = (IF @ = Null THEN 0 ELSE @) + conflict.val]

\* Every outcome of inserting one row: none when it is refused.  Without an id
\* the row gets one of its own.  id is the row inserted or met.
Insert(t, up, conflict, one) ==
    LET row == InsertedRow(one.set)
        hit == Conflicts(t, one.id, row)
        free == IF one.id = NoId THEN {j \in Ids : ~Exists(t, j)} ELSE {one.id}
        inserted == {[t |-> [t EXCEPT ![j] = row], id |-> j] : j \in free}
        resolved == {[t |-> [t EXCEPT ![j] = Resolved(conflict, up, one.set, @)], id |-> j] :
                        j \in hit}
    IN  CASE hit = {} -> inserted
          [] hit # {} /\ conflict.kind = "none" -> {}
          [] OTHER -> {u \in resolved : Unique(u.t)}

\* A batch is one statement: all rows or none.
InsertAll(t, up, conflict, batch) ==
    LET after[n \in 0 .. Len(batch)] ==
            IF n = 0 THEN {[t |-> t, ids |-> <<>>]}
            ELSE UNION {{[t |-> v.t, ids |-> Append(u.ids, v.id)] :
                            v \in Insert(u.t, up, conflict, batch[n])} : u \in after[n - 1]}
    IN  after[Len(batch)]

-----------------------------------------------------------------------------
\* Builders.

NoBuilder ==
    [op |-> "none", id |-> NoId, batch |-> <<>>, conflict |-> [kind |-> "none"], own |-> FALSE,
     m |-> NoMutation, preds |-> {}, calls |-> <<>>, old |-> Unset,
     before |-> NoRow, done |-> FALSE, res |-> "none", tx |-> 0]

\* A builder of the transaction's client keeps the transaction's driver.
Driver == IF tx.open THEN tx.n ELSE 0
OfClosedTx == b.tx # 0 /\ ~(tx.open /\ tx.n = b.tx)

\* The bounds: one builder, and statements of one client at a time.
Fresh == b.op = "none" /\ ~q.on
MayCall == b.op # "none" /\ trips < MaxTrips /\ (b.tx = 0 => ~tx.open)

New(builder) ==
    /\ Fresh
    /\ b' = [builder EXCEPT !.tx = Driver]
    /\ UNCHANGED <<entity, table, saved, tx, q, answer, calls, trips, faults>>

\* A value a validator refuses: a number too small, a text too long.
Beyond(c) ==
    IF "add" \in schema.kinds[c] THEN schema.limits[c].min - 1 ELSE schema.limits[c].max + 1

\* A value of the column's type; a boolean column has no order.
Other(c) == IF c \in DOMAIN schema.where /\ schema.where[c] = {"EQ", "NEQ"} THEN 1 ELSE 2

\* Create().SetX(v)...: the columns without a default, except perhaps one, and
\* perhaps one column with another value.
Needed == schema.required \ DOMAIN schema.defaults
Given(S) == [c \in S |-> 1]
Basic(i) == [id |-> i, set |-> Given(Needed)]
Chains ==
    {Basic(i) : i \in Ids \cup {NoId}}
      \cup {[id |-> NoId, set |-> Given(Needed \ {c})] : c \in Needed \cap Tried[entity]}
      \cup {[id |-> NoId, set |-> (c :> Other(c)) @@ Given(Needed)] :
               c \in schema.setters \cap Tried[entity]}
      \cup {[id |-> NoId, set |-> (c :> Beyond(c)) @@ Given(Needed)] :
               c \in DOMAIN schema.limits \cap Tried[entity]}

\* OnConflict without a resolution, with Ignore, UpdateNewValues, SetX, AddX or
\* UpdateX.
Options(up) ==
    {[kind |-> "none"]}
      \cup (IF up.upsert THEN {[kind |-> k] : k \in {"empty", "ignore", "newValues"}} ELSE {})
      \cup UNION {{[kind |-> k, col |-> c, val |-> 2] : k \in up.calls[c]} : c \in DOMAIN up.calls \cap Tried[entity]}

NewCreate ==
    Fresh /\ \E one \in Chains : \E conflict \in Options(schema.upsertOne) :
        New([NoBuilder EXCEPT !.op = "create", !.batch = <<one>>, !.conflict = conflict])

\* own: OnConflict was called on one of the builders as well.
NewCreateBulk ==
    Fresh /\ \E one \in Chains, i \in Ids \cup {NoId}, own \in BOOLEAN :
    \E conflict \in Options(schema.upsertBulk) :
        /\ own => schema.upsertBulk.upsert /\ one = Basic(NoId)
        /\ New([NoBuilder EXCEPT !.op = "bulk", !.conflict = conflict, !.own = own,
                  !.batch = <<one, Basic(i)>>])

NewUpdate == New([NoBuilder EXCEPT !.op = "update"])

NewDelete == New([NoBuilder EXCEPT !.op = "delete"])

NewDeleteOneID == \E i \in Ids : New([NoBuilder EXCEPT !.op = "deleteOne", !.id = i])

NewUpdateOneID ==
    \E i \in Ids : New([NoBuilder EXCEPT !.op = "updateOne", !.id = i, !.before = table[i]])

\* UpdateOne(node): the node is the old value.
NewUpdateOne ==
    \E i \in Ids :
        /\ Exists(table, i)
        /\ New([NoBuilder EXCEPT !.op = "updateOne", !.id = i, !.old = table[i],
                  !.before = table[i]])

-----------------------------------------------------------------------------
\* Calls on an update builder, or by name on its mutation.

BuilderCalls ==
    LET offered == IF b.op = "update" THEN schema.calls ELSE schema.callsOne
    IN  UNION {{[via |-> "builder", kind |-> k, col |-> c,
                 val |-> IF k = "set" THEN Other(c) ELSE 1] : k \in offered[c]} : c \in DOMAIN offered}
          \cup {[via |-> "builder", kind |-> "set", col |-> c, val |-> Beyond(c)] :
                   c \in schema.checked}

NamedCalls ==
    UNION {{[via |-> "name", kind |-> k, col |-> c, val |-> 1] : c \in schema.names[k]} :
              k \in DOMAIN schema.names}

\* A bound: the calls on one builder are about one column.
Call ==
    /\ MayCall /\ b.op \in {"update", "updateOne"}
    /\ calls < MaxCalls
    /\ \E call \in BuilderCalls \cup NamedCalls :
         /\ call.col \in Tried[entity]
         /\ \A n \in DOMAIN b.calls : b.calls[n].via = "defaults" \/ b.calls[n].col = call.col
         /\ b' = [b EXCEPT !.m = Applied(@, call), !.calls = Append(@, call)]
    /\ calls' = calls + 1
    /\ UNCHANGED <<entity, table, saved, tx, q, answer, trips, faults>>

\* Bounds: Where comes first, with an operator or two; queries try them all.
Where ==
    /\ MayCall /\ b.op \in {"update", "updateOne", "delete", "deleteOne"}
    /\ calls < MaxCalls /\ b.preds = {} /\ b.calls = <<>> /\ b.res = "none"
    /\ \E p \in Predicates[entity] :
          p.op \in {"EQ", "IsNil"} /\ b' = [b EXCEPT !.preds = {p}]
    /\ calls' = calls + 1
    /\ UNCHANGED <<entity, table, saved, tx, q, answer, trips, faults>>

OldEvenAfterSave == ~OfClosedTx

\* OldX(ctx): the row is read once; after Save it is refused, for good.
OldAllowed == ~b.done /\ ~OfClosedTx

Old ==
    /\ MayCall /\ b.op = "updateOne" /\ b.old = Unset
    /\ b' = [b EXCEPT !.old = IF OldAllowed THEN table[b.id] ELSE NoRow]
    /\ trips' = trips + 1
    /\ UNCHANGED <<entity, table, saved, tx, q, answer, calls, faults>>

-----------------------------------------------------------------------------
\* Save and Exec.

\* History: a refreshed column that nobody set is set by defaults().
Chosen(seq, c) ==
    \E n \in DOMAIN seq :
        /\ seq[n].kind = "set" /\ seq[n].col = c
        /\ \A k \in n + 1 .. Len(seq) : seq[k].kind = "reset" => seq[k].col # c
Stamps(seq) ==
    SetToSeq({[via |-> "defaults", kind |-> "set", col |-> c, val |-> Now] :
                 c \in {d \in schema.refreshed : ~Chosen(seq, d)}})

\* defaults() runs first and stays in the builder, whatever comes of the save.
Prepared ==
    CASE b.op \in {"create", "bulk"} ->
           [b EXCEPT !.batch = <<>> @@ [n \in DOMAIN @ |-> [@[n] EXCEPT !.set = WithDefaults(@)]]]
      [] b.op \in {"update", "updateOne"} ->
           [b EXCEPT !.m = Refreshed(@), !.calls = @ \o Stamps(@)]
      [] OTHER -> b

Targets ==
    LET byId == IF b.op \in {"updateOne", "deleteOne"} THEN {b.id} ELSE Ids
    IN  Selected(table, b.preds) \cap byId

Outcome(t, res, ids) == [t |-> t, res |-> res, ids |-> ids]
Refused(res) == {Outcome(table, res, <<>>)}

CreateOutcomes(p) ==
    LET up == IF p.op = "create" THEN schema.upsertOne ELSE schema.upsertBulk
        done == InsertAll(table, up, p.conflict, p.batch)
    IN  CASE \E n \in DOMAIN p.batch : ~CreateOK(p.batch[n].set) -> Refused("validation")
          [] done = {} -> Refused("constraint")
          [] OTHER -> {Outcome(u.t, "ok", u.ids) : u \in done}

UpdateOutcomes(p) ==
    LET spec == IF p.op = "update" THEN schema.spec ELSE schema.specOne
        after == [i \in Targets |-> UpdatedRow(spec, p.m, table[i])] @@ table
    IN  CASE ~UpdateOK(p.m) -> Refused("validation")
          [] p.op = "updateOne" /\ Targets = {} -> Refused("notFound")
          [] ~Unique(after) -> Refused("constraint")
          [] OTHER -> {Outcome(after, "ok", <<>>)}

DeleteOutcomes(p) ==
    {Outcome([i \in Targets |-> NoRow] @@ table,
             IF p.op = "deleteOne" /\ Targets = {} THEN "notFound" ELSE "ok", <<>>)}

Outcomes(p) ==
    CASE p.op \in {"create", "bulk"} -> CreateOutcomes(p)
      [] p.op \in {"update", "updateOne"} -> UpdateOutcomes(p)
      [] OTHER -> DeleteOutcomes(p)

\* A delete counts as done whatever happened; the others when they succeeded.
Finished(p, res) == res = "ok" \/ p.op \in {"delete", "deleteOne"}

Settled(p, res, ids) ==
    [p EXCEPT !.res = res, !.done = @ \/ Finished(p, res),
              !.batch = IF ids = <<>> THEN @
                        ELSE [n \in DOMAIN @ |-> [@[n] EXCEPT !.id = ids[n]]]]

\* Outside a transaction a statement commits by itself.
Committed(t) == saved' = IF b.tx = 0 THEN t ELSE saved

\* An upsert without a resolution is refused before anything is done, and so is
\* a batch one of whose builders has conflict options of its own.
UpsertRefused ==
    b.conflict.kind = "empty" \/ (b.op = "bulk" /\ b.conflict.kind # "none" /\ b.own)

\* A bound: an upsert that succeeded is not executed again.
MaySave == MayCall /\ (b.done => b.conflict.kind = "none")

SaveRefused ==
    /\ MaySave /\ UpsertRefused
    /\ b' = [b EXCEPT !.res = "missing"]
    /\ trips' = trips + 1
    /\ UNCHANGED <<entity, table, saved, tx, q, answer, calls, faults>>

Save ==
    /\ MaySave /\ ~UpsertRefused /\ ~OfClosedTx
    /\ \E o \in Outcomes(Prepared) :
         /\ table' = o.t
         /\ Committed(o.t)
         /\ b' = Settled(Prepared, o.res, o.ids)
    /\ trips' = trips + 1
    /\ UNCHANGED <<entity, tx, q, answer, calls, faults>>

\* The driver of a closed transaction refuses; the connection fails before the
\* statement runs or, outside a transaction, before its answer arrives.
SaveFails ==
    /\ MaySave /\ ~UpsertRefused
    /\ OfClosedTx \/ faults < MaxFaults
    /\ faults' = IF OfClosedTx THEN faults ELSE faults + 1
    /\ \/ table' = table
       \/ b.tx = 0 /\ \E o \in Outcomes(Prepared) : o.res = "ok" /\ table' = o.t
    /\ Committed(table')
    /\ b' = Settled(Prepared, "error", <<>>)
    /\ trips' = trips + 1
    /\ UNCHANGED <<entity, tx, q, answer, calls>>

-----------------------------------------------------------------------------
\* Transactions.  Tx of a transaction's client is refused and changes nothing.

Begin ==
    /\ Fresh /\ ~tx.open /\ calls < MaxCalls
    /\ tx' = [n |-> tx.n + 1, open |-> TRUE]
    /\ calls' = calls + 1
    /\ UNCHANGED <<entity, table, saved, b, q, answer, trips, faults>>

Commit ==
    /\ tx.open
    /\ tx' = [tx EXCEPT !.open = FALSE]
    /\ saved' = table
    /\ UNCHANGED <<entity, table, b, q, answer, calls, trips, faults>>

Rollback ==
    /\ tx.open
    /\ tx' = [tx EXCEPT !.open = FALSE]
    /\ table' = saved
    /\ UNCHANGED <<entity, saved, b, q, answer, calls, trips, faults>>

-----------------------------------------------------------------------------
\* Queries.  q.main is the builder, q.clone a copy of it; part of a terminal
\* call stays in the builder: First leaves its limit, IDs its selected column.

NoLimit == Cardinality(Ids) + 1
NoOrder == "none"
NewQuery ==
    [preds |-> {}, order |-> NoOrder, limit |-> NoLimit, idOnly |-> FALSE, lock |-> FALSE,
     used |-> FALSE]
NoQuery == [on |-> FALSE, main |-> NewQuery, clone |-> NewQuery, hasClone |-> FALSE]
NoAnswer == [op |-> "none"]

Query ==
    /\ Fresh
    /\ q' = [NoQuery EXCEPT !.on = TRUE]
    /\ UNCHANGED <<entity, table, saved, tx, b, answer, calls, trips, faults>>

Refine(change) ==
    /\ q.on /\ trips = 0 /\ ~q.hasClone /\ calls < MaxCalls
    /\ q' = [q EXCEPT !.main = change]
    /\ calls' = calls + 1
    /\ UNCHANGED <<entity, table, saved, tx, b, answer, trips, faults>>

QueryWhere ==
    /\ q.on /\ q.main.preds = {}
    /\ \E p \in Predicates[entity] : Refine([q.main EXCEPT !.preds = {p}])

\* Order(Desc(create_at_unix))
QueryOrder ==
    /\ q.main.order = NoOrder
    /\ "create_at_unix" \in Columns
    /\ Refine([q.main EXCEPT !.order = "create_at_unix"])

ForUpdate == ~q.main.lock /\ Refine([q.main EXCEPT !.lock = TRUE])

\* The copy has everything but the modifiers, among them the lock.
Copy(r) == [r EXCEPT !.lock = FALSE]

Clone ==
    /\ q.on /\ ~q.hasClone /\ calls < MaxCalls
    /\ q' = [q EXCEPT !.clone = Copy(q.main), !.hasClone = TRUE]
    /\ calls' = calls + 1
    /\ UNCHANGED <<entity, table, saved, tx, b, answer, trips, faults>>

OnlyTakesFirst == 1

\* The limits the terminal calls set.
FirstLimit == 1
OnlyLimit == 2

\* What a terminal call leaves in the builder.
Narrowed(r, op) ==
    CASE op = "first" -> [r EXCEPT !.limit = FirstLimit]
      [] op = "only" -> [r EXCEPT !.limit = OnlyLimit]
      [] op = "exist" -> [r EXCEPT !.limit = FirstLimit, !.idOnly = TRUE]
      [] op = "ids" -> [r EXCEPT !.idOnly = TRUE]
      [] OTHER -> r

Before(r, i, j) == r.order # NoOrder /\ table[i][r.order] > table[j][r.order]

\* The rows a limit lets through: as many as there are up to the limit, none
\* of them after one that is left out.
Limited(r) ==
    LET found == Selected(table, r.preds)
        n == IF Cardinality(found) < r.limit THEN Cardinality(found) ELSE r.limit
    IN  {S \in SUBSET found :
            Cardinality(S) = n /\ \A i \in S, j \in found \ S : ~Before(r, j, i)}

Answer(r, op, S, which) ==
    [op |-> op, of |-> which, ids |-> S, full |-> ~r.idOnly, locked |-> r.lock, at |-> trips,
     count |-> Cardinality(IF op = "count" THEN Selected(table, r.preds) ELSE S),
     err |-> CASE op \in {"first", "only"} /\ S = {} -> "notFound"
               [] op = "only" /\ Cardinality(S) > 1 -> "notSingular"
               [] OTHER -> "none"]

Terminal(r, op, which) ==
    /\ trips < MaxTrips
    /\ \E S \in Limited(Narrowed(r, op)) : answer' = Answer(Narrowed(r, op), op, S, which)
    /\ q' = [q EXCEPT ![which] = [Narrowed(r, op) EXCEPT !.used = TRUE]]
    /\ trips' = trips + 1
    /\ UNCHANGED <<entity, table, saved, tx, b, calls, faults>>

All == q.on /\ Terminal(q.main, "all", "main")
First == q.on /\ Terminal(q.main, "first", "main")
Only == q.on /\ Terminal(q.main, "only", "main")
QueryIDs == q.on /\ Terminal(q.main, "ids", "main")
Count == q.on /\ Terminal(q.main, "count", "main")
Exist == q.on /\ Terminal(q.main, "exist", "main")
OnClone ==
    q.hasClone /\ \E op \in {"all", "first", "only", "ids", "count", "exist"} :
        Terminal(q.clone, op, "clone")

-----------------------------------------------------------------------------
\* Rows the tables may hold: no row, one, or two of which the second has its
\* nullable columns.
FirstRow == [c \in Columns |-> IF c \in schema.nullable THEN Null ELSE 1]
SecondRow(v) == [c \in Columns |-> IF c \in schema.nullable THEN 2 ELSE IF Other(c) = 1 THEN 0 ELSE v]
Seeds ==
    LET seed(S, v) == [i \in Ids |-> CASE i \notin S -> NoRow
                                        [] i = 1 -> FirstRow
                                        [] OTHER -> SecondRow(v)]
    IN  {t \in {seed({}, 1), seed({1}, 1), seed({1, 2}, 1), seed({1, 2}, 2)} : Unique(t)}

Init ==
    /\ entity \in DOMAIN Schemas
    /\ table \in Seeds
    /\ saved = table
    /\ tx = [n |-> 0, open |-> FALSE]
    /\ b = NoBuilder
    /\ q = NoQuery
    /\ answer = NoAnswer
    /\ calls = 0 /\ trips = 0 /\ faults = 0

Next ==
    \/ NewCreate \/ NewCreateBulk \/ NewUpdate \/ NewUpdateOne \/ NewUpdateOneID
    \/ NewDelete \/ NewDeleteOneID
    \/ Call \/ Where \/ Old \/ SaveRefused \/ Save \/ SaveFails
    \/ Begin \/ Commit \/ Rollback
    \/ Query \/ QueryWhere \/ QueryOrder \/ ForUpdate \/ Clone
    \/ All \/ First \/ Only \/ QueryIDs \/ Count \/ Exist \/ OnClone

Spec == Init /\ [][Next]_vars

-----------------------------------------------------------------------------
\* Whatever builders, options and failures did, a row has a value in every
\* column that is not nullable (missing required fields are refused by check of
\* the create builders), no text longer than its MaxLen validator allows, and
\* no two rows share a unique key.
RowsWhole ==
    /\ \A i \in Ids : Exists(table, i) =>
          /\ \A c \in Columns \ schema.nullable : table[i][c] # Null
          /\ \A c \in DOMAIN schema.limits :
                "add" \notin schema.kinds[c] /\ table[i][c] # Null
                    => table[i][c] <= schema.limits[c].max
    /\ Unique(table)

\* No save, upsert or repeated save gives a row another value in a column that
\* the schema declares immutable, whether the column was named to the builder,
\* to the mutation or to the upsert.  A nullable immutable column may still be
\* cleared by name: sqlSave of the update builders has that statement.
ImmutableKept ==
    [][trips' # trips =>
          \A i \in Ids : Exists(table, i) /\ Exists(table', i) =>
             \A c \in schema.immutable :
                \/ table'[i][c] = table[i][c]
                \/ c \in schema.nullable /\ table'[i][c] = Null]_vars

\* What a sequence of calls on one column means for its value x: the last Set or
\* Clear and the additions since, and nothing from before a Reset.
Meaning(seq, x) ==
    LET value[n \in 0 .. Len(seq)] ==
            IF n = 0 THEN x
            ELSE CASE seq[n].kind = "set" -> seq[n].val
                   [] seq[n].kind = "clear" -> Null
                   [] seq[n].kind = "reset" -> x
                   [] OTHER -> (IF value[n - 1] = Null THEN 0 ELSE value[n - 1]) + seq[n].val
    IN  value[Len(seq)]

\* A successful save of an update writes to every selected row what the calls
\* before it mean, in whatever order Set, Add, Append, Clear and Reset came,
\* before or after an earlier try.  A refreshed column that was not set is set by
\* the first try, which also stands for the later ones.
UpdateMeansCalls ==
    [][trips' # trips /\ b.op \in {"update", "updateOne"} /\ b'.res = "ok" /\ b'.old = b.old =>
          \A i \in Targets : \A c \in DOMAIN schema.calls :
             table'[i][c] =
                Meaning(SelectSeq(b'.calls, LAMBDA call : call.col = c), table[i][c])]_vars

\* The old value an UpdateOne hands to its caller is the row from before its
\* Save: once Save has succeeded the row is not read any more.
OldPrecedesSave == b.old \notin {Unset, NoRow} /\ faults = 0 => b.old = b.before

\* A query answers what it was asked, whatever it, its clone or the query it was
\* cloned from was used for before: it finds nothing its predicates do not
\* select, First is a row none comes before, Only the one row or an error, and
\* Count and Exist have no regard to limits.  For whole rows and complete lists
\* it has to be used for the first time, since a terminal call leaves its limit
\* and its selected column in the builder; then All and IDs give everything.
\* The builder that ForUpdate was called on locks the rows; a clone of it does
\* not, although the comment of Clone says it has "all associated steps", and
\* nothing is claimed of it here.
QueryAnswers ==
    [][answer' # answer =>
          LET a == answer'
              r == q[a.of]
              found == Selected(table, r.preds)
          IN  /\ a.ids \subseteq found
              /\ a.op = "count" => a.count = Cardinality(found)
              /\ a.op \in {"first", "exist"} => (a.ids = {}) = (found = {})
              /\ a.op = "first" =>
                   /\ (a.err = "notFound") = (found = {})
                   /\ \A i \in a.ids : \A j \in found : ~Before(r, j, i)
              /\ a.op = "only" =>
                   /\ (a.err = "notFound") = (found = {})
                   /\ (a.err = "notSingular") = (Cardinality(found) > 1)
                   /\ a.err = "none" => a.ids = found
              /\ ~r.used =>
                   /\ a.op \in {"all", "ids"} => a.ids = found
                   /\ a.op \notin {"ids", "exist"} => a.full
              /\ a.of = "main" => a.locked = r.lock]_vars

=============================================================================
