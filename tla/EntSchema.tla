----------------------------- MODULE EntSchema -----------------------------
(***************************************************************************)
(* The six tables as the generated ent code knows them.  Each definition   *)
(* reads off one part of a generated file: which columns a switch, a       *)
(* chain of setters or a list of checks names.  Ent is parameterised by    *)
(* the records at the end of this module.                                  *)
(*                                                                         *)
(* Column "id" is the key of a table and is left out of the column sets.   *)
(***************************************************************************)
EXTENDS Integers, TLC

\* The changes a mutation keeps for one column: a pointer for Set, one for
\* Add, a list for Append, membership of clearedFields for Clear.
Number == {"set", "add"}
Plain == {"set"}
Nullable == {"set", "clear"}
Json == {"set", "append", "clear"}

\* The setters of an upsert: UpdateX takes the value that was to be inserted.
Excluded == {"set", "add", "update"}

\* The predicates generated for a column, by the type of the column.
Equal == {"EQ", "NEQ"}
Ordered == Equal \cup {"In", "NotIn", "GT", "GTE", "LT", "LTE"}
Text == Ordered \cup {"Contains", "HasPrefix", "HasSuffix", "EqualFold", "ContainsFold"}
NilCheck == {"IsNil", "NotNil"}

\* The defaults: the zero value (0, false or the empty text), or the time of the
\* save (timex.NowUnix).
Zero == [now |-> FALSE, val |-> 0]
NowUnix == [now |-> TRUE, val |-> 0]

\* Bounds a validator accepts, on the values the model gives to columns: a
\* count is not negative, a text is no longer than two letters.
MinZero == [min |-> 0, max |-> 9]
MaxLen == [min |-> 0, max |-> 2]

NoUpsert == [upsert |-> FALSE, ignored |-> {}, calls |-> [c \in {} |-> {}]]

-----------------------------------------------------------------------------
\* login: account
AccountImmutable == {"create_at_unix"}
AccountColumns == {"is_deleted", "create_at_unix", "update_at_unix"}
AccountNil == {}
AccountKinds == [is_deleted |-> Plain, create_at_unix |-> Number, update_at_unix |-> Number]
AccountByName ==
    [set |-> {"is_deleted", "create_at_unix", "update_at_unix"},
     add |-> {"create_at_unix", "update_at_unix"}, clear |-> {},
     reset |-> {"is_deleted", "create_at_unix", "update_at_unix"}]
AccountCreateSetters == {"is_deleted", "create_at_unix", "update_at_unix"}
AccountDefaults == [is_deleted |-> Zero, create_at_unix |-> NowUnix, update_at_unix |-> NowUnix]
AccountRequired == {"is_deleted", "create_at_unix", "update_at_unix"}
AccountInserted == {"is_deleted", "create_at_unix", "update_at_unix"}
AccountUpdateCalls == [is_deleted |-> Plain, update_at_unix |-> Number]
AccountUpdateOneCalls == [is_deleted |-> Plain, update_at_unix |-> Number]
AccountUpdateDefaults == {"update_at_unix"}
AccountUpdateSpec ==
    [set |-> {"is_deleted", "update_at_unix"}, add |-> {"update_at_unix"}, clear |-> {}]
AccountUpdateOneSpec ==
    [set |-> {"is_deleted", "update_at_unix"}, add |-> {"update_at_unix"}, clear |-> {}]
AccountWhere == [is_deleted |-> Equal, create_at_unix |-> Ordered, update_at_unix |-> Ordered]
AccountKeys == {}

Account ==
    [columns |-> AccountColumns, nullable |-> AccountNil, immutable |-> AccountImmutable,
     kinds |-> AccountKinds, names |-> AccountByName, setters |-> AccountCreateSetters,
     defaults |-> AccountDefaults, required |-> AccountRequired, limits |-> [c \in {} |-> 0],
     inserted |-> AccountInserted, calls |-> AccountUpdateCalls, callsOne |-> AccountUpdateOneCalls,
     refreshed |-> AccountUpdateDefaults, checked |-> {}, spec |-> AccountUpdateSpec,
     specOne |-> AccountUpdateOneSpec, where |-> AccountWhere, keys |-> AccountKeys,
     upsertOne |-> NoUpsert, upsertBulk |-> NoUpsert]

-----------------------------------------------------------------------------
\* login: identity
IdentityImmutable == {"uid", "login_type", "app_id", "open_id", "union_id", "create_at_unix"}
IdentityColumns == {"uid", "login_type", "app_id", "open_id", "union_id", "create_at_unix"}
IdentityNil == {"union_id"}
IdentityNumbers == [uid |-> Number, login_type |-> Number]
IdentityTexts == [app_id |-> Plain, open_id |-> Plain]
IdentityOptional == [union_id |-> Nullable, create_at_unix |-> Number]
IdentityByName ==
    [set |-> {"uid", "login_type", "app_id", "open_id", "union_id", "create_at_unix"},
     add |-> {"uid", "login_type", "create_at_unix"}, clear |-> {"union_id"},
     reset |-> {"uid", "login_type", "app_id", "open_id", "union_id", "create_at_unix"}]
IdentityCreateSetters == {"uid", "login_type", "app_id", "open_id", "union_id", "create_at_unix"}
IdentityDefaults == [create_at_unix |-> NowUnix]
IdentityRequired == {"uid", "login_type", "app_id", "open_id", "create_at_unix"}
IdentityLimits == [app_id |-> MaxLen, open_id |-> MaxLen, union_id |-> MaxLen]
IdentityInserted == {"uid", "login_type", "app_id", "open_id", "union_id", "create_at_unix"}
IdentityUpdateSpec == [set |-> {}, add |-> {}, clear |-> {"union_id"}]
IdentityUpdateOneSpec == [set |-> {}, add |-> {}, clear |-> {"union_id"}]
IdentityWhereNumbers == [uid |-> Ordered, login_type |-> Ordered]
IdentityWhereTexts == [app_id |-> Text, open_id |-> Text]
IdentityWhereOptional == [union_id |-> Text \cup NilCheck, create_at_unix |-> Ordered]
IdentityKeys == {{"login_type", "app_id", "open_id"}, {"uid", "login_type", "app_id"}}

Identity ==
    [columns |-> IdentityColumns, nullable |-> IdentityNil, immutable |-> IdentityImmutable,
     kinds |-> IdentityNumbers @@ IdentityTexts @@ IdentityOptional, names |-> IdentityByName,
     setters |-> IdentityCreateSetters, defaults |-> IdentityDefaults,
     required |-> IdentityRequired, limits |-> IdentityLimits, inserted |-> IdentityInserted,
     calls |-> [c \in {} |-> {}], callsOne |-> [c \in {} |-> {}], refreshed |-> {}, checked |-> {},
     spec |-> IdentityUpdateSpec, specOne |-> IdentityUpdateOneSpec,
     where |-> IdentityWhereNumbers @@ IdentityWhereTexts @@ IdentityWhereOptional,
     keys |-> IdentityKeys, upsertOne |-> NoUpsert, upsertBulk |-> NoUpsert]

-----------------------------------------------------------------------------
\* items: item
ItemImmutable == {"uid", "item_id", "source", "create_at_unix"}
ItemColumns ==
    {"uid", "item_id", "count", "used_count", "expire_at_unix", "source", "create_at_unix",
     "update_at_unix"}
ItemNil == {}
ItemOwnerKinds == [uid |-> Number, item_id |-> Number]
ItemCountKinds == [count |-> Number, used_count |-> Number]
ItemLifeKinds == [expire_at_unix |-> Number, source |-> Plain]
ItemTimeKinds == [create_at_unix |-> Number, update_at_unix |-> Number]
ItemSetField ==
    {"uid", "item_id", "count", "used_count", "expire_at_unix", "source", "create_at_unix",
     "update_at_unix"}
ItemAddField ==
    {"uid", "item_id", "count", "used_count", "expire_at_unix", "create_at_unix", "update_at_unix"}
ItemResetField ==
    {"uid", "item_id", "count", "used_count", "expire_at_unix", "source", "create_at_unix",
     "update_at_unix"}
ItemCreateSetters ==
    {"uid", "item_id", "count", "used_count", "expire_at_unix", "source", "create_at_unix",
     "update_at_unix"}
ItemDefaults ==
    [used_count |-> Zero, expire_at_unix |-> Zero, source |-> Zero, create_at_unix |-> NowUnix,
     update_at_unix |-> NowUnix]
ItemRequired ==
    {"uid", "item_id", "count", "used_count", "expire_at_unix", "source", "create_at_unix",
     "update_at_unix"}
ItemLimits == [count |-> MinZero, used_count |-> MinZero, source |-> MaxLen]
ItemInserted ==
    {"uid", "item_id", "count", "used_count", "expire_at_unix", "source", "create_at_unix",
     "update_at_unix"}
ItemUpdateCalls ==
    [count |-> Number, used_count |-> Number, expire_at_unix |-> Number, update_at_unix |-> Number]
ItemUpdateOneCalls ==
    [count |-> Number, used_count |-> Number, expire_at_unix |-> Number, update_at_unix |-> Number]
ItemUpdateDefaults == {"update_at_unix"}
ItemUpdateChecks == {"count", "used_count"}
ItemUpdateSpec ==
    [set |-> {"count", "used_count", "expire_at_unix", "update_at_unix"},
     add |-> {"count", "used_count", "expire_at_unix", "update_at_unix"}, clear |-> {}]
ItemUpdateOneSpec ==
    [set |-> {"count", "used_count", "expire_at_unix", "update_at_unix"},
     add |-> {"count", "used_count", "expire_at_unix", "update_at_unix"}, clear |-> {}]
ItemWhereOwner == [uid |-> Ordered, item_id |-> Ordered]
ItemWhereCounts == [count |-> Ordered, used_count |-> Ordered, expire_at_unix |-> Ordered]
ItemWhereOrigin == [source |-> Text, create_at_unix |-> Ordered, update_at_unix |-> Ordered]
ItemKeys == {}
ItemUpsertCalls ==
    [count |-> Excluded, used_count |-> Excluded, expire_at_unix |-> Excluded,
     update_at_unix |-> Excluded]
ItemUpsertOne ==
    [upsert |-> TRUE, ignored |-> {"uid", "item_id", "source", "create_at_unix"},
     calls |-> ItemUpsertCalls]
ItemUpsertBulk ==
    [upsert |-> TRUE, ignored |-> {"uid", "item_id", "source", "create_at_unix"},
     calls |-> ItemUpsertCalls]

Item ==
    [columns |-> ItemColumns, nullable |-> ItemNil, immutable |-> ItemImmutable,
     kinds |-> ItemOwnerKinds @@ ItemCountKinds @@ ItemLifeKinds @@ ItemTimeKinds,
     names |-> [set |-> ItemSetField, add |-> ItemAddField, clear |-> {}, reset |-> ItemResetField],
     setters |-> ItemCreateSetters, defaults |-> ItemDefaults, required |-> ItemRequired,
     limits |-> ItemLimits, inserted |-> ItemInserted, calls |-> ItemUpdateCalls,
     callsOne |-> ItemUpdateOneCalls, refreshed |-> ItemUpdateDefaults,
     checked |-> ItemUpdateChecks, spec |-> ItemUpdateSpec, specOne |-> ItemUpdateOneSpec,
     where |-> ItemWhereOwner @@ ItemWhereCounts @@ ItemWhereOrigin, keys |-> ItemKeys,
     upsertOne |-> ItemUpsertOne, upsertBulk |-> ItemUpsertBulk]

-----------------------------------------------------------------------------
\* items: nonce
ItemNonceImmutable == {"uid", "nonce", "op_type", "create_at_unix"}
ItemNonceColumns == {"uid", "nonce", "op_type", "create_at_unix"}
ItemNonceNil == {}
ItemNonceKeyKinds == [uid |-> Number, nonce |-> Plain]
ItemNonceOpKinds == [op_type |-> Number, create_at_unix |-> Number]
ItemNonceByName ==
    [set |-> {"uid", "nonce", "op_type", "create_at_unix"},
     add |-> {"uid", "op_type", "create_at_unix"}, clear |-> {},
     reset |-> {"uid", "nonce", "op_type", "create_at_unix"}]
ItemNonceCreateSetters == {"uid", "nonce", "op_type", "create_at_unix"}
ItemNonceDefaults == [create_at_unix |-> NowUnix]
ItemNonceRequired == {"uid", "nonce", "op_type", "create_at_unix"}
ItemNonceLimits == [nonce |-> MaxLen]
ItemNonceInserted == {"uid", "nonce", "op_type", "create_at_unix"}
ItemNonceUpdateSpec == [set |-> {}, add |-> {}, clear |-> {}]
ItemNonceUpdateOneSpec == [set |-> {}, add |-> {}, clear |-> {}]
ItemNonceWhereKey == [uid |-> Ordered, nonce |-> Text]
ItemNonceWhereOp == [op_type |-> Ordered, create_at_unix |-> Ordered]
ItemNonceKeys == {{"uid", "nonce", "op_type"}}
ItemNonceUpsertOne ==
    [upsert |-> TRUE, ignored |-> {"uid", "nonce", "op_type", "create_at_unix"},
     calls |-> [c \in {} |-> {}]]
ItemNonceUpsertBulk ==
    [upsert |-> TRUE, ignored |-> {"uid", "nonce", "op_type", "create_at_unix"},
     calls |-> [c \in {} |-> {}]]

ItemNonce ==
    [columns |-> ItemNonceColumns, nullable |-> ItemNonceNil, immutable |-> ItemNonceImmutable,
     kinds |-> ItemNonceKeyKinds @@ ItemNonceOpKinds, names |-> ItemNonceByName,
     setters |-> ItemNonceCreateSetters, defaults |-> ItemNonceDefaults,
     required |-> ItemNonceRequired, limits |-> ItemNonceLimits, inserted |-> ItemNonceInserted,
     calls |-> [c \in {} |-> {}], callsOne |-> [c \in {} |-> {}], refreshed |-> {}, checked |-> {},
     spec |-> ItemNonceUpdateSpec, specOne |-> ItemNonceUpdateOneSpec,
     where |-> ItemNonceWhereKey @@ ItemNonceWhereOp, keys |-> ItemNonceKeys,
     upsertOne |-> ItemNonceUpsertOne, upsertBulk |-> ItemNonceUpsertBulk]

-----------------------------------------------------------------------------
\* items: the row a transaction locks, a key and nothing else
ItemUserLockColumns == {}
ItemUserLockNil == {}
ItemUserLockByName == [set |-> {}, add |-> {}, clear |-> {}, reset |-> {}]
ItemUserLockRequired == {}
ItemUserLockInserted == {}
ItemUserLockUpdateSpec == [set |-> {}, add |-> {}, clear |-> {}]
ItemUserLockUpdateOneSpec == [set |-> {}, add |-> {}, clear |-> {}]
ItemUserLockWhere == [c \in {} |-> {}]
ItemUserLockUpsertOne == [upsert |-> TRUE, ignored |-> {}, calls |-> [c \in {} |-> {}]]
ItemUserLockUpsertBulk == [upsert |-> TRUE, ignored |-> {}, calls |-> [c \in {} |-> {}]]

ItemUserLock ==
    [columns |-> ItemUserLockColumns, nullable |-> ItemUserLockNil, immutable |-> {},
     kinds |-> [c \in {} |-> {}], names |-> ItemUserLockByName, setters |-> {},
     defaults |-> [c \in {} |-> 0], required |-> ItemUserLockRequired, limits |-> [c \in {} |-> 0],
     inserted |-> ItemUserLockInserted, calls |-> [c \in {} |-> {}], callsOne |-> [c \in {} |-> {}],
     refreshed |-> {}, checked |-> {}, spec |-> ItemUserLockUpdateSpec,
     specOne |-> ItemUserLockUpdateOneSpec, where |-> ItemUserLockWhere, keys |-> {},
     upsertOne |-> ItemUserLockUpsertOne, upsertBulk |-> ItemUserLockUpsertBulk]

-----------------------------------------------------------------------------
\* payment: order.  The columns fall into what was ordered, what was paid, how
\* far the order is and when that happened.
OrderedColumns ==
    {"uid", "product_id", "third_party_product_id", "payment_type", "order_amount_unit",
     "order_amount_nanos", "order_currency"}
PaidColumns ==
    {"real_amount_unit", "real_amount_nanos", "real_currency", "third_party_order_id",
     "credential", "credential_hash", "rewards"}
StateColumns == {"status", "retry_times", "cancel_reason", "refund_reason", "is_sandbox"}
TimeColumns ==
    {"create_at_unix", "update_at_unix", "pay_at_unix", "refund_at_unix", "cancel_at_unix"}

PaymentOrderImmutable == OrderedColumns \cup {"create_at_unix"}
PaymentOrderColumns == OrderedColumns \cup PaidColumns \cup StateColumns \cup TimeColumns
PaymentOrderNil == {"third_party_order_id", "credential", "credential_hash", "rewards"}
PaymentOrderOrderedKinds ==
    [uid |-> Number, product_id |-> Number, third_party_product_id |-> Plain]
PaymentOrderPriceKinds ==
    [payment_type |-> Number, status |-> Number, order_amount_unit |-> Number]
PaymentOrderAmountKinds ==
    [order_amount_nanos |-> Number, order_currency |-> Plain, real_amount_unit |-> Number]
PaymentOrderPaidKinds ==
    [real_amount_nanos |-> Number, real_currency |-> Plain, third_party_order_id |-> Nullable]
PaymentOrderProofKinds ==
    [credential |-> Nullable, credential_hash |-> Nullable, rewards |-> Json]
PaymentOrderStateKinds ==
    [retry_times |-> Number, cancel_reason |-> Plain, refund_reason |-> Plain, is_sandbox |-> Plain]
PaymentOrderClockKinds ==
    [create_at_unix |-> Number, update_at_unix |-> Number, pay_at_unix |-> Number]
PaymentOrderEndKinds == [refund_at_unix |-> Number, cancel_at_unix |-> Number]
PaymentOrderSetField == OrderedColumns \cup PaidColumns \cup StateColumns \cup TimeColumns
PaymentOrderAddField ==
    {"uid", "product_id", "payment_type", "status", "order_amount_unit", "order_amount_nanos",
     "real_amount_unit", "real_amount_nanos", "retry_times"} \cup TimeColumns
PaymentOrderClearField == {"third_party_order_id", "credential", "credential_hash", "rewards"}
PaymentOrderResetField == OrderedColumns \cup PaidColumns \cup StateColumns \cup TimeColumns
PaymentOrderCreateSetters == OrderedColumns \cup PaidColumns \cup StateColumns \cup TimeColumns
PaymentOrderDefaults ==
    [status |-> Zero, real_amount_unit |-> Zero, real_amount_nanos |-> Zero, real_currency |-> Zero,
     retry_times |-> Zero, cancel_reason |-> Zero, refund_reason |-> Zero, is_sandbox |-> Zero,
     create_at_unix |-> NowUnix, update_at_unix |-> NowUnix, pay_at_unix |-> Zero,
     refund_at_unix |-> Zero, cancel_at_unix |-> Zero]
PaymentOrderRequired ==
    OrderedColumns \cup StateColumns \cup TimeColumns
        \cup {"real_amount_unit", "real_amount_nanos", "real_currency"}
PaymentOrderInserted == OrderedColumns \cup PaidColumns \cup StateColumns \cup TimeColumns
PaymentOrderPaidCalls ==
    [status |-> Number, real_amount_unit |-> Number, real_amount_nanos |-> Number,
     real_currency |-> Plain, third_party_order_id |-> Nullable, credential |-> Nullable]
PaymentOrderStateCalls ==
    [credential_hash |-> Nullable, rewards |-> Json, retry_times |-> Number,
     cancel_reason |-> Plain, refund_reason |-> Plain, is_sandbox |-> Plain]
PaymentOrderTimeCalls ==
    [update_at_unix |-> Number, pay_at_unix |-> Number, refund_at_unix |-> Number,
     cancel_at_unix |-> Number]
PaymentOrderOnePaidCalls ==
    [status |-> Number, real_amount_unit |-> Number, real_amount_nanos |-> Number,
     real_currency |-> Plain, third_party_order_id |-> Nullable, credential |-> Nullable]
PaymentOrderOneStateCalls ==
    [credential_hash |-> Nullable, rewards |-> Json, retry_times |-> Number,
     cancel_reason |-> Plain, refund_reason |-> Plain, is_sandbox |-> Plain]
PaymentOrderOneTimeCalls ==
    [update_at_unix |-> Number, pay_at_unix |-> Number, refund_at_unix |-> Number,
     cancel_at_unix |-> Number]
PaymentOrderUpdateDefaults == {"update_at_unix"}
PaymentOrderUpdateSpec ==
    [set |-> PaidColumns \cup StateColumns \cup (TimeColumns \ {"create_at_unix"}),
     add |-> {"status", "real_amount_unit", "real_amount_nanos", "rewards", "retry_times"}
                \cup (TimeColumns \ {"create_at_unix"}),
     clear |-> {"third_party_order_id", "credential", "credential_hash", "rewards"}]
PaymentOrderUpdateOneSpec ==
    [set |-> PaidColumns \cup StateColumns \cup (TimeColumns \ {"create_at_unix"}),
     add |-> {"status", "real_amount_unit", "real_amount_nanos", "rewards", "retry_times"}
                \cup (TimeColumns \ {"create_at_unix"}),
     clear |-> {"third_party_order_id", "credential", "credential_hash", "rewards"}]
PaymentOrderWhereOrdered ==
    [uid |-> Ordered, product_id |-> Ordered, third_party_product_id |-> Text]
PaymentOrderWherePrice ==
    [payment_type |-> Ordered, status |-> Ordered, order_amount_unit |-> Ordered]
PaymentOrderWhereAmount ==
    [order_amount_nanos |-> Ordered, order_currency |-> Text, real_amount_unit |-> Ordered]
PaymentOrderWherePaid == [real_amount_nanos |-> Ordered, real_currency |-> Text]
PaymentOrderWhereProof ==
    [third_party_order_id |-> Text \cup NilCheck, credential |-> Text \cup NilCheck]
PaymentOrderWhereHash ==
    [credential_hash |-> Text \cup NilCheck, rewards |-> NilCheck, retry_times |-> Ordered]
PaymentOrderWhereReason ==
    [cancel_reason |-> Text, refund_reason |-> Text, is_sandbox |-> Equal]
PaymentOrderWhereClock ==
    [create_at_unix |-> Ordered, update_at_unix |-> Ordered, pay_at_unix |-> Ordered]
PaymentOrderWhereEnd == [refund_at_unix |-> Ordered, cancel_at_unix |-> Ordered]
PaymentOrderKeys == {{"payment_type", "third_party_order_id"}, {"payment_type", "credential_hash"}}

PaymentOrder ==
    [columns |-> PaymentOrderColumns, nullable |-> PaymentOrderNil,
     immutable |-> PaymentOrderImmutable,
     kinds |-> PaymentOrderOrderedKinds @@ PaymentOrderPriceKinds @@ PaymentOrderAmountKinds
                 @@ PaymentOrderPaidKinds @@ PaymentOrderProofKinds @@ PaymentOrderStateKinds
                 @@ PaymentOrderClockKinds @@ PaymentOrderEndKinds,
     names |-> [set |-> PaymentOrderSetField, add |-> PaymentOrderAddField,
                clear |-> PaymentOrderClearField, reset |-> PaymentOrderResetField],
     setters |-> PaymentOrderCreateSetters, defaults |-> PaymentOrderDefaults,
     required |-> PaymentOrderRequired, limits |-> [c \in {} |-> 0],
     inserted |-> PaymentOrderInserted,
     calls |-> PaymentOrderPaidCalls @@ PaymentOrderStateCalls @@ PaymentOrderTimeCalls,
     callsOne |-> PaymentOrderOnePaidCalls @@ PaymentOrderOneStateCalls @@ PaymentOrderOneTimeCalls,
     refreshed |-> PaymentOrderUpdateDefaults, checked |-> {}, spec |-> PaymentOrderUpdateSpec,
     specOne |-> PaymentOrderUpdateOneSpec,
     where |-> PaymentOrderWhereOrdered @@ PaymentOrderWherePrice @@ PaymentOrderWhereAmount
                 @@ PaymentOrderWherePaid @@ PaymentOrderWhereProof @@ PaymentOrderWhereHash
                 @@ PaymentOrderWhereReason @@ PaymentOrderWhereClock @@ PaymentOrderWhereEnd,
     keys |-> PaymentOrderKeys, upsertOne |-> NoUpsert, upsertBulk |-> NoUpsert]

=============================================================================
