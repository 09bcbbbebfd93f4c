------------------------------- MODULE MCEnt -------------------------------
(***************************************************************************)
(* Ent on the six tables, with two ids.                                    *)
(***************************************************************************)
EXTENDS Ent, EntSchema

Tables ==
    [Account |-> Account, Identity |-> Identity, Item |-> Item, ItemNonce |-> ItemNonce,
     ItemUserLock |-> ItemUserLock, PaymentOrder |-> PaymentOrder]

\* Everything the generated code has to say about a column.  Columns of which it
\* says the same are interchangeable.
Profile(s, c) ==
    LET offered(f) == IF c \in DOMAIN f THEN f[c] ELSE {}
        written(spec) == <<c \in spec.set, c \in spec.add, c \in spec.clear>>
    IN  << <<c \in s.nullable, c \in s.immutable, c \in s.required, c \in s.inserted>>,
           <<c \in s.refreshed, c \in s.checked, c \in s.setters, c \in DOMAIN s.limits>>,
           s.kinds[c], {k \in DOMAIN s.names : c \in s.names[k]},
           c \in DOMAIN s.defaults /\ s.defaults[c].now, c \in DOMAIN s.defaults,
           offered(s.calls), offered(s.callsOne), written(s.spec), written(s.specOne),
           offered(s.upsertOne.calls), offered(s.upsertBulk.calls),
           c \in s.upsertOne.ignored, c \in s.upsertBulk.ignored, offered(s.where),
           {Cardinality(k) : k \in {k \in s.keys : c \in k}} >>

\* One column of every kind.
Representatives(s) ==
    {CHOOSE c \in s.columns : Profile(s, c) = p : p \in {Profile(s, c) : c \in s.columns}}

ColumnOfEachKind ==
    [Account |-> Representatives(Account), Identity |-> Representatives(Identity),
     Item |-> Representatives(Item), ItemNonce |-> Representatives(ItemNonce),
     ItemUserLock |-> Representatives(ItemUserLock),
     PaymentOrder |-> Representatives(PaymentOrder)]

\* For every operator one column that is nullable and one that is not, plain
\* and negated.
PredicatesOn(s) ==
    LET offers(c, op) == c \in DOMAIN s.where /\ op \in s.where[c]
        tried(op, S) == IF \E c \in S : offers(c, op) THEN {CHOOSE c \in S : offers(c, op)} ELSE {}
        ops == UNION {s.where[c] : c \in DOMAIN s.where}
    IN  UNION {{[col |-> c, op |-> op, val |-> 1, not |-> n] :
                   c \in tried(op, s.nullable) \cup tried(op, s.columns \ s.nullable),
                   n \in BOOLEAN} : op \in ops}

PredicatesOnTables ==
    [Account |-> PredicatesOn(Account), Identity |-> PredicatesOn(Identity),
     Item |-> PredicatesOn(Item), ItemNonce |-> PredicatesOn(ItemNonce),
     ItemUserLock |-> PredicatesOn(ItemUserLock), PaymentOrder |-> PredicatesOn(PaymentOrder)]

\* The values of the constants.
AllSchemas == Tables
TriedColumns == ColumnOfEachKind
TriedPredicates == PredicatesOnTables

=============================================================================
