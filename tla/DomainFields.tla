----------------------------- MODULE DomainFields -----------------------------
(***************************************************************************)
(* What domain/base.py reads from the annotation of a field of a domain    *)
(* model, with the functions of types.py: whether it holds product blocks, *)
(* which ones, a list or an optional one, what a new model starts with and *)
(* what becomes of the field in another life cycle status.  And how fields *)
(* that hold no product blocks are stored as rows and loaded again.        *)
(*                                                                         *)
(* A type is a term.  Annotated stands for Annotated[t, Len(min)], with 0  *)
(* for any other annotation.                                               *)
(***************************************************************************)
EXTENDS Integers, Sequences, SequencesExt

Type(k, name, args, min) == [k |-> k, name |-> name, args |-> args, min |-> min]
Class(name)       == Type("class", name, <<>>, 0)
Union(args)       == Type("union", "", args, 0)
ListOf(t)         == Type("list", "", <<t>>, 0)
Annotated(t, min) == Type("annotated", "", <<t>>, min)

NoneType == Class("None")

ProductBlockModels == {"A", "B"}

IsNotNone(t) == t # NoneType

\* get_origin_and_args: the type without Annotated.
Unwrapped(t) == IF t.k = "annotated" THEN t.args[1] ELSE t

\* is_of_type with the base class of all product blocks.
IsBlock(t) == t.k = "class" /\ t.name \in ProductBlockModels

\* The optional argument test_type of the functions.
Fits(t, test) == test = "anything" \/ IsBlock(t)

-----------------------------------------------------------------------------
(* types.py *)

is_union_type(t, test) ==
  LET u == Unwrapped(t) IN u.k = "union" /\ \E a \in ToSet(u.args) : Fits(a, test)

is_optional_type(t, test) ==
  LET u == Unwrapped(t)
  IN  /\ u.k = "union"
      /\ NoneType \in ToSet(u.args)
      /\ Fits(SelectSeq(u.args, IsNotNone)[1], test)

\* Only the first member of a union of items is looked at.
RECURSIVE is_list_type(_, _)
is_list_type(t, test) ==
  LET u == Unwrapped(t)
  IN  \/ u = Class("list") /\ Fits(u, test)
      \/ u.k = "union" /\ \E a \in ToSet(u.args) : is_list_type(a, test)
      \/ /\ u.k = "list"
         /\ LET item == u.args[1]
            IN  Fits(IF item.k = "union" THEN item.args[1] ELSE item, test)

\* Pairwise different names, in the order of the union.
get_possible_product_block_types(t) ==
  IF is_union_type(t, "anything")
  THEN LET classes == SelectSeq(Unwrapped(t).args, IsNotNone)
       IN  [i \in DOMAIN classes |-> classes[i].name]
  ELSE <<t.name>>

\* The default item of list_factory: of a union the last one.
DefaultItem(base) ==
  LET item == base.args[1]
  IN  IF is_union_type(item, "anything") THEN Last(SelectSeq(Unwrapped(item).args, IsNotNone)).name
      ELSE item.name

list_factory(t) ==
  IF t.k \in {"class", "list"} \/ t.args[1] = Class("list") THEN <<>>
  ELSE [i \in 1..t.min |-> DefaultItem(t.args[1])]

-----------------------------------------------------------------------------
(* domain/base.py *)

\* A value of a field: None, one product block or value, or a list, by the names of their
\* classes.
NoValue       == [list |-> FALSE, items |-> <<>>]
OneOf(name)   == [list |-> FALSE, items |-> <<name>>]
ManyOf(names) == [list |-> TRUE, items |-> names]

\* _find_special_fields
IsProductBlockField(t) ==
  \/ is_union_type(t, "block")
  \/ is_list_type(t, "block")
  \/ is_optional_type(t, "block")
  \/ IsBlock(t)

\* flatten_product_block_types
FlattenedTypes(t) ==
  get_possible_product_block_types(IF is_list_type(t, "anything") THEN Unwrapped(t).args[1] ELSE t)

\* _get_depends_on_product_block_types and get_depends_on_product_block_type_list
DependsOnTypes(t) ==
  LET u == Unwrapped(t)
      field_type ==
        IF \/ is_list_type(t, "anything")
           \/ is_optional_type(t, "anything") /\ Len(t.args) <= 2
        THEN u.args[1] ELSE t
      classes == IF is_union_type(field_type, "anything") THEN Unwrapped(field_type).args
                 ELSE <<field_type>>
  IN  {c.name : c \in {d \in ToSet(classes) : IsNotNone(d)}}

\* _init_instance raises for a union that is not optional.
InitRaises(t) ==
  /\ ~is_list_type(t, "anything")
  /\ ~is_optional_type(t, "block")
  /\ is_union_type(t, "anything")

InitInstance(t) ==
  IF is_list_type(t, "anything") THEN ManyOf(list_factory(t))
  ELSE IF is_optional_type(t, "block") THEN NoValue
  ELSE OneOf(t.name)

\* _data_from_lifecycle: what becomes of the value of a field, by the type of the field in
\* the other status; "raises" stands for the KeyError of an item of another type.
DataFromLifecycle(t, value) ==
  IF value = NoValue THEN value
  ELSE IF is_list_type(t, "anything")
       THEN IF ToSet(value.items) \subseteq ToSet(FlattenedTypes(t)) THEN value ELSE OneOf("raises")
  ELSE IF is_union_type(t, "anything") /\ value.items[1] \notin ToSet(FlattenedTypes(t))
       THEN IF is_optional_type(t, "anything") THEN NoValue ELSE value
  ELSE value

-----------------------------------------------------------------------------
(* Values that are no product blocks *)

NewId == 10

ByValue(rows) == SortSeq(rows, LAMBDA q, r : q.value < r.value)

\* _save_instance_values: the rows of one resource type after saving; 0 is None.
SaveList(current, values) ==
  LET row(i) == [id |-> IF i <= Len(current) THEN current[i].id ELSE NewId + i, value |-> values[i]]
  IN  SelectSeq([i \in DOMAIN values |-> row(i)], LAMBDA r : r.value # 0)

SaveScalar(current, value) ==
  IF value = 0 THEN <<>>
  ELSE <<[id |-> IF current = <<>> THEN NewId ELSE current[1].id, value |-> value]>>

\* _load_instances_values, and subscription_instance_fields_as_json: rows come by value.
LoadList(rows) == [i \in DOMAIN rows |-> ByValue(rows)[i].value]

\* A scalar field without a row is None.
LoadScalar(rows) == IF rows = <<>> THEN 0 ELSE Last(ByValue(rows)).value

\* _value_list_to_value after subscription_instance_as_json raises when there are several.
JsonScalarRaises(rows) == Len(rows) > 1

-----------------------------------------------------------------------------
(* The reference: what values a type admits *)

RECURSIVE Admits(_)
Admits(t) ==
  CASE t.k = "class" /\ t.name = "None" -> {NoValue}
    [] t.k = "class" /\ t.name = "list" -> {ManyOf(s) : s \in {<<>>, <<"str">>}}
    [] t.k = "class" /\ t.name \notin {"None", "list"} -> {OneOf(t.name)}
    [] t.k = "list" ->
         LET items == {v.items[1] : v \in Admits(t.args[1])}
         IN  {ManyOf(s) : s \in UNION {[1..n -> items] : n \in 0..2}}
    [] t.k = "union" -> UNION {Admits(t.args[i]) : i \in DOMAIN t.args}
    [] t.k = "annotated" -> {v \in Admits(t.args[1]) : v.list => Len(v.items) >= t.min}

Blocks == {Class("A"), Class("B")}
Unions == {Union(<<a, b>>) : a \in Blocks, b \in Blocks} \ {Union(<<a, a>>) : a \in Blocks}
Optionals(ts) == {Union(<<t, NoneType>>) : t \in ts} \cup {Union(<<NoneType, t>>) : t \in ts}
OptionalUnions == {Union(Append(u.args, NoneType)) : u \in Unions}
Lists(ts) == {ListOf(t) : t \in ts}

\* The types of fields with product blocks.  Not among them: an annotated product block,
\* which counts as a value, an optional list, which is flattened to nothing, and an annotated
\* optional union, of which the diff finds the first member.
BlockTypes ==
  LET plain == Unions \cup Optionals(Blocks) \cup OptionalUnions
      lists == Lists(Blocks \cup Unions)
  IN  Blocks \cup plain \cup lists \cup {Annotated(t, 0) : t \in plain \ OptionalUnions} \cup
      {Annotated(t, n) : t \in lists, n \in 0..2}

ValueTypes ==
  LET strings == {Class("str")}
      lists == Lists(strings) \cup {Class("list")}
      plain == strings \cup Optionals(strings) \cup lists \cup Optionals(lists)
  IN  plain \cup {Annotated(t, n) : t \in plain, n \in 0..1}

\* _get_depends_on_product_block_types takes the first member of an optional type.
NoneFirst(t) == Unwrapped(t).k = "union" /\ Unwrapped(t).args[1] = NoneType

\* Every annotation is read as what it admits: whether it holds product blocks and which
\* ones, lists and None; a new model starts with an admitted value and every admitted value
\* survives the change of the life cycle status.  The diff with the database alone does not
\* find the product block of None | A.
TypesExact ==
  \A t \in BlockTypes \cup ValueTypes :
    LET values == Admits(t)
        names  == UNION {ToSet(v.items) : v \in values}
    IN  /\ IsProductBlockField(t) <=> names \cap ProductBlockModels # {}
        /\ is_list_type(t, "anything") <=> \E v \in values : v.list
        /\ is_optional_type(t, "anything") <=> NoValue \in values
        /\ t \in BlockTypes =>
             /\ ToSet(FlattenedTypes(t)) = names
             /\ DependsOnTypes(t) = IF NoneFirst(t) THEN {} ELSE names
             /\ IF InitRaises(t) THEN Unwrapped(t) \in Unions ELSE InitInstance(t) \in values
             /\ \A v \in values : DataFromLifecycle(t, v) = v

SeqsOf(S, n) == UNION {[1..k -> S] : k \in 0..n}

\* What is saved over whatever is stored is loaded again, lists in the order of their values;
\* rows are reused before new ones are made, and none is used twice.
ValuesExact ==
  \A old \in SeqsOf(1..3, 2) :
    LET current == ByValue([i \in DOMAIN old |-> [id |-> i, value |-> old[i]]])
    IN  /\ \A values \in SeqsOf(0..3, 3) :
             LET saved == SaveList(current, values)
                 kept  == SelectSeq(values, LAMBDA v : v # 0)
             IN  /\ LoadList(saved) = SortSeq(kept, <)
                 /\ IsInjective([i \in DOMAIN saved |-> saved[i].id])
                 /\ kept = values =>
                      Len(SelectSeq(saved, LAMBDA r : r.id > NewId)) =
                        IF Len(values) > Len(old) THEN Len(values) - Len(old) ELSE 0
        /\ \A value \in 0..3 :
             LET saved == SaveScalar(current, value)
             IN  LoadScalar(saved) = value /\ ~JsonScalarRaises(saved)
=============================================================================
