---------------------------- MODULE StateInjection ----------------------------
(***************************************************************************)
(* How inject_args of utils/state.py hands a step its arguments and stores *)
(* what the step returns: subscription models are loaded from the          *)
(* database, wherever the state names them, and every model in the         *)
(* returned state is saved.  Between two steps the state is stored as JSON *)
(* (_db_log_step).                                                         *)
(***************************************************************************)
EXTENDS Integers, Sequences, SequencesExt

SubIds == {"s", "t"}

\* What a state holds under a key: k tells a live "model", the "dict" it is dumped to, the
\* "id" as a string, a "uuid", a "list", a "map", a "value", a "wrapped" value, or "none".
\* v is the content of a model or value, items are those of a list or a map.
Term(k, id, v, items) == [k |-> k, id |-> id, v |-> v, items |-> items]

NoId == ""

Model(id, v)  == Term("model", id, v, <<>>)
Id(id)        == Term("id", id, 0, <<>>)
Uuid(id)      == Term("uuid", id, 0, <<>>)
Value(v)      == Term("value", NoId, v, <<>>)
Wrapped(v)    == Term("wrapped", NoId, v, <<>>)
ListOf(items) == Term("list", NoId, 0, items)
MapOf(items)  == Term("map", NoId, 0, items)
None          == Term("none", NoId, 0, <<>>)

Error == Term("error", NoId, 0, <<>>)

\* There is no such key.
Missing == Term("missing", NoId, 0, <<>>)

IsContainer(t) == t.k \in {"list", "map"}

\* json_dumps and json_loads
RECURSIVE Json(_)
Json(t) ==
  CASE t.k = "model"  -> [t EXCEPT !.k = "dict"]
    [] t.k = "uuid"   -> Id(t.id)
    [] IsContainer(t) -> [t EXCEPT !.items = [i \in DOMAIN t.items |-> Json(t.items[i])]]
    [] OTHER          -> t

-----------------------------------------------------------------------------
(* What a step returns *)

\* _unwrap_state
RECURSIVE Unwrap(_)
Unwrap(t) ==
  IF t.k = "wrapped" THEN Value(t.v)
  ELSE IF IsContainer(t) THEN [t EXCEPT !.items = [i \in DOMAIN t.items |-> Unwrap(t.items[i])]]
  ELSE t

\* _save_models: depth first, in the order of keys and items.
RECURSIVE SaveModels(_, _)
SaveModels(db, t) ==
  IF t.k = "model" THEN [db EXCEPT ![t.id] = t.v]
  ELSE IF IsContainer(t) THEN FoldLeft(SaveModels, db, t.items)
  ELSE db

\* inject_args: what is left in the database and in the state when the step has returned.
InjectArgs(db, returned) ==
  LET unwrapped == Unwrap(returned)
  IN  [db |-> SaveModels(db, unwrapped), state |-> Json(unwrapped)]

-----------------------------------------------------------------------------
(* What a step is called with *)

\* _get_sub_id; a live model raises an AssertionError.
GetSubId(t) == IF t.k \in {"dict", "id", "uuid"} THEN t.id ELSE NoId

\* from_subscription
FromSubscription(db, id) == Model(id, db[id])

\* _handle_subscription_model_param
ModelParam(db, t) ==
  IF GetSubId(t) = NoId THEN Error ELSE FromSubscription(db, GetSubId(t))

\* _handle_subscription_model_list_param: one item without an id spoils the list.
ModelListParam(db, t) ==
  LET ids == [i \in DOMAIN t.items |-> GetSubId(t.items[i])]
  IN  IF NoId \in ToSet(ids) THEN Error
      ELSE ListOf([i \in DOMAIN ids |-> FromSubscription(db, ids[i])])

\* _handle_optional_subscription_model_param
OptionalModelParam(db, t) ==
  IF GetSubId(t) = NoId THEN None ELSE FromSubscription(db, GetSubId(t))

\* _convert_to_uuid raises a ValueError for what is no UUID.
ConvertToUuid(t) == IF t.k \in {"id", "uuid"} THEN Uuid(t.id) ELSE Error

\* _apply_type_conversion
TypeConversion(annotation, t) ==
  CASE annotation = "UUID" -> ConvertToUuid(t)
    [] annotation = "list[UUID]" ->
         LET items == [i \in DOMAIN t.items |-> ConvertToUuid(t.items[i])]
         IN  IF Error \in ToSet(items) THEN Error ELSE ListOf(items)
    [] annotation = "UUID | None" -> IF t.k = "none" THEN t ELSE ConvertToUuid(t)
    [] annotation = "Wrapped" -> Wrapped(t.v)
    [] OTHER -> t

\* _handle_value_param: a default is not converted, a required key has to be there.
ValueParam(annotation, t, default) ==
  IF t = Missing THEN default ELSE IF t = default THEN t ELSE TypeConversion(annotation, t)

\* _build_arguments, for one parameter; a required one has the default Error.
Argument(db, annotation, t, default) ==
  CASE annotation = "Model" -> ModelParam(db, t)
    [] annotation = "list[Model]" -> ModelListParam(db, t)
    [] annotation = "Model | None" -> OptionalModelParam(db, t)
    [] OTHER -> ValueParam(annotation, t, default)

-----------------------------------------------------------------------------
(* The reference *)

\* What a step may return under a key that the next one declares with this annotation.
Declared(annotation) ==
  LET models == {Model(s, v) : s \in SubIds, v \in 1..2}
      uuids  == {Uuid(s) : s \in SubIds}
      Lists(S) == {ListOf(l) : l \in UNION {[1..n -> S] : n \in 0..2}}
  IN  CASE annotation = "Model" -> models
        [] annotation = "list[Model]" -> Lists(models)
        [] annotation = "Model | None" -> models \cup {None}
        [] annotation = "UUID" -> uuids
        [] annotation = "list[UUID]" -> Lists(uuids)
        [] annotation = "UUID | None" -> uuids \cup {None}
        [] annotation = "Wrapped" -> {Wrapped(1), Wrapped(2)}
        [] annotation = "dict" -> {MapOf(<<Value(1)>>), MapOf(<<Value(1), ListOf(<<Value(2)>>)>>)}

\* Not among them: a list of wrapped values, whose items are not wrapped again.
Annotations ==
  {"Model", "list[Model]", "Model | None", "UUID", "list[UUID]", "UUID | None", "Wrapped", "dict"}

\* The containers below which a step may return another model.
Elsewhere ==
  LET model == Model("s", 3)
  IN  {None, model, ListOf(<<model>>), MapOf(<<Value(1), model>>), MapOf(<<ListOf(<<model>>)>>)}

\* All live models in the order in which the state is read.
RECURSIVE Live(_)
Live(t) ==
  IF t.k = "model" THEN <<t>> ELSE FlattenSeq([i \in DOMAIN t.items |-> Live(t.items[i])])

\* The content of a subscription is that of the last model of it, if there is one.
Content(db, models, id) ==
  LET mine == SelectSeq(models, LAMBDA m : m.id = id)
  IN  IF mine = <<>> THEN db[id] ELSE Last(mine).v

RECURSIVE WithContent(_, _, _)
WithContent(t, db, models) ==
  IF t.k = "model" THEN Model(t.id, Content(db, models, t.id))
  ELSE [t EXCEPT !.items = [i \in DOMAIN t.items |-> WithContent(t.items[i], db, models)]]

\* Whatever a step returns under a key, the next step that declares it gets it back, with
\* every model, wherever it was returned, as it was saved last; a key that holds the id or a
\* dictionary of an older state of a subscription gives its current state; and a list is
\* never handed over without an item that names no subscription.
InjectionExact ==
  LET db == [s \in SubIds |-> 0]
  IN  /\ \A annotation \in Annotations : \A t \in Declared(annotation), other \in Elsewhere :
           LET done == InjectArgs(db, MapOf(<<t, other>>))
           IN  Argument(done.db, annotation, done.state.items[1], Error) =
                 WithContent(t, db, Live(MapOf(<<t, other>>)))
      /\ \A id \in SubIds : \A t \in {Id(id), Uuid(id), Json(Model(id, 9))} :
           /\ Argument(db, "Model", t, Error) = Model(id, 0)
           /\ Argument(db, "Model | None", t, Error) = Model(id, 0)
           /\ \A other \in {Value(1), None, MapOf(<<>>)} :
                Argument(db, "list[Model]", ListOf(<<t, other>>), Error) = Error
      /\ \A annotation \in Annotations : \A default \in {Error, None} :
           Argument(db, annotation, Missing, default) =
             CASE annotation = "Model" -> Error
               [] annotation = "list[Model]" -> ListOf(<<>>)
               [] annotation = "Model | None" -> None
               [] OTHER -> default
=============================================================================
