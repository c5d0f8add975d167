----------------------------- MODULE SearchFields -----------------------------
(***************************************************************************)
(* Which fields of a model the search index gets, and with which types:    *)
(* search/indexing/traverse.py walks through instances, field_types.py     *)
(* through their classes, and a filter on a field relies on both.          *)
(* Types are the terms of DomainFields.                                    *)
(***************************************************************************)
EXTENDS DomainFields

\* A value of a field; items holds those of a list, or of the fields of an instance.
ValueOf(k, class, items) == [k |-> k, class |-> class, items |-> items]
Nothing   == ValueOf("none", "", <<>>)
Scalar    == ValueOf("scalar", "", <<>>)

\* Classes have fields in order: classes[c] is a sequence of names and types.
Field(name, type) == [name |-> name, type |-> type]

IsModel(classes, t) == t.k = "class" /\ t.name \in DOMAIN classes

Digits == <<"0", "1", "2">>

Extracted(path, type) == [path |-> path, type |-> type]

-----------------------------------------------------------------------------
(* search/core/types.py *)

ScalarTypes == {"int", "float", "bool", "str", "datetime", "UUID"}

FieldTypeName(c) ==
  CASE c \in {"int", "IntEnum"} -> "integer"
    [] c \in ScalarTypes \ {"int", "str"} -> c
    [] c \in ProductBlockModels -> "block"
    [] OTHER -> "string"

RECURSIVE from_type_hint(_)
from_type_hint(t) ==
  CASE t.k \in {"annotated", "list"} -> from_type_hint(t.args[1])
    [] t.k = "union" -> from_type_hint(SelectSeq(t.args, IsNotNone)[1])
    [] OTHER -> FieldTypeName(t.name)

UIType(field_type) ==
  CASE field_type \in {"integer", "float"} -> "number"
    [] field_type = "bool" -> "boolean"
    [] field_type = "datetime" -> "datetime"
    [] OTHER -> "string"

-----------------------------------------------------------------------------
(* search/indexing/traverse.py *)

\* iter_model_field_annotations: pydantic takes Annotated off the type of a field.
Annotation(field) == Unwrapped(field.type)

\* get_args(annotation)[0]
ElementAnnotation(annotation) == annotation.args[1]

RECURSIVE Traverse(_, _, _), FieldsForValue(_, _, _, _)

\* BaseTraverser.traverse: an instance is walked through by its own class.
Traverse(classes, value, path) ==
  LET fields == classes[value.class]
  IN  UNION {FieldsForValue(classes, value.items[i], Append(path, fields[i].name), Annotation(fields[i])) :
               i \in DOMAIN fields}

FieldsForValue(classes, value, path, annotation) ==
  CASE value.k = "none"   -> {}
    [] value.k = "list"   ->
         IF annotation.args = <<>> THEN {}
         ELSE UNION {FieldsForValue(classes, value.items[i], Append(path, Digits[i]),
                                    ElementAnnotation(annotation)) : i \in DOMAIN value.items}
    [] value.k = "model"  -> Traverse(classes, value, path)
    [] value.k = "scalar" -> {Extracted(path, from_type_hint(annotation))}

\* ProductTraverser._extract_block_schema of the template of a product.
RECURSIVE BlockSchema(_, _, _)
BlockSchema(classes, block, path) ==
  LET Rows(i) ==
        LET name  == classes[block.class][i].name
            value == block.items[i]
            below == Append(path, name)
            row   == <<Extracted(below, "resource_type")>>
        IN  CASE value.k = "model" -> BlockSchema(classes, value, below)
              [] value.k = "list" /\ value.items # <<>> /\ value.items[1].k = "model" ->
                   row \o BlockSchema(classes, value.items[1], Append(below, "0"))
              [] OTHER -> row
  IN  <<Extracted(path, "block")>> \o FlattenSeq([i \in DOMAIN classes[block.class] |-> Rows(i)])

\* ProductTraverser._sanitize_for_ltree: "-" stands for what a label may not hold.
SanitizeForLtree(name) ==
  LET replaced  == [i \in DOMAIN name |-> IF name[i] = "-" THEN "_" ELSE name[i]]
      collapsed == FoldLeft(LAMBDA s, c : IF c = "_" /\ s # <<>> /\ Last(s) = "_" THEN s ELSE Append(s, c),
                            <<>>, replaced)
      first     == IF collapsed # <<>> /\ Head(collapsed) = "_" THEN Tail(collapsed) ELSE collapsed
      stripped  == IF first # <<>> /\ Last(first) = "_" THEN Front(first) ELSE first
  IN  IF stripped = <<>> THEN <<"unnamed_product">> ELSE stripped

-----------------------------------------------------------------------------
(* search/indexing/field_types.py *)

\* _model_types
RECURSIVE ModelTypes(_, _)
ModelTypes(classes, t) ==
  IF IsModel(classes, t) THEN {t.name} ELSE UNION {ModelTypes(classes, a) : a \in ToSet(t.args)}

\* _collect_field_types with _field_type_entries: a class is not entered within itself.
RECURSIVE CollectFieldTypes(_, _, _, _)
CollectFieldTypes(classes, class, path, ancestors) ==
  IF class \in ancestors THEN {}
  ELSE UNION {LET below   == Append(path, field.name)
                  indexed == IF is_list_type(field.type, "anything") THEN Append(below, "*") ELSE below
                  nested  == ModelTypes(classes, field.type)
              IN  IF nested = {} THEN {Extracted(indexed, from_type_hint(field.type))}
                  ELSE UNION {CollectFieldTypes(classes, c, indexed, ancestors \cup {class}) : c \in nested}
              : field \in ToSet(classes[class])}

\* _subscription_field_types of all registered models.
SubscriptionFieldTypes(classes, registered) ==
  UNION {CollectFieldTypes(classes, c, <<"subscription">>, {}) : c \in registered}

\* Indices become wild cards.
SchemaPath(path) == [i \in DOMAIN path |-> IF path[i] \in ToSet(Digits) THEN "*" ELSE path[i]]

\* resolve_field_types of a path, or of the last segment of some.
ResolveFieldTypes(known, path) ==
  IF Len(path) > 1 THEN {k.type : k \in {e \in known : e.path = SchemaPath(path)}}
  ELSE {k.type : k \in {e \in known : Last(e.path) = path[1]}}

\* resolve_field_value_kind
Ambiguous == "ambiguous"
ResolveFieldValueKind(known, path) ==
  LET types == ResolveFieldTypes(known, path)
  IN  CASE types = {"string"} -> "string"
        [] types # {} /\ types \subseteq {"integer", "float"} -> "number"
        [] OTHER -> Ambiguous

-----------------------------------------------------------------------------
(* What is claimed of it *)

Optional(t) == Union(<<t, NoneType>>)

\* None | t
OrNone(t) == Union(<<NoneType, t>>)

Leaves  == {Class(c) : c \in {"int", "str", "float", "bool", "A"}}
Shallow == Leaves \cup {Union(<<Class("int"), Class("str")>>), Class("list")} \cup
           UNION {{ListOf(t), Optional(t), OrNone(t)} : t \in Leaves}
FieldTerms == Shallow \cup UNION {{ListOf(t), Annotated(t, 0)} : t \in Shallow} \cup
              {Optional(ListOf(t)) : t \in Leaves} \cup {OrNone(ListOf(t)) : t \in Leaves}

\* Two registered subscription models, and a product block that may use one of its class.
ClassesWith(t, u) ==
  [Sub   |-> <<Field("f", t), Field("g", Class("int"))>>,
   Other |-> <<Field("f", u)>>,
   A     |-> <<Field("g", Class("int")), Field("h", Class("str")), Field("self", Optional(Class("A")))>>]

\* Values of a type, with one block at most within another.
RECURSIVE Values(_)
Values(t) ==
  LET leaf  == ValueOf("model", "A", <<Scalar, Scalar, Nothing>>)
      ListsOf(vs) == {ValueOf("list", "", s) : s \in {<<>>} \cup {<<v>> : v \in vs} \cup (vs \X vs)}
  IN  CASE t = NoneType     -> {Nothing}
        [] t = Class("A")   -> {leaf, ValueOf("model", "A", <<Scalar, Scalar, leaf>>)}
        [] t = Class("list") -> ListsOf({Scalar})
        [] t.k = "class"    -> {Scalar}
        [] t.k = "union"    -> UNION {Values(a) : a \in ToSet(t.args)}
        [] t.k = "annotated" -> Values(t.args[1])
        [] t.k = "list"     -> ListsOf(Values(t.args[1]))

\* The elements of a list are typed by the first member of None | list.
RECURSIVE ListOrNone(_)
ListOrNone(t) ==
  \/ t.k = "union" /\ t.args[1] = NoneType /\ t.args[2].k = "list"
  \/ \E a \in ToSet(t.args) : ListOrNone(a)

ListInList(t) == t.k = "list" /\ is_list_type(t.args[1], "anything")

WithinItself(path) == \E i \in DOMAIN path : path[i] = "self"

\* What is known of a field from the classes is what its row gets, so that a filter for
\* numbers or strings leaves out no row, and every path of the index is known, but for lists
\* in lists and blocks that use one of their own class.
FieldsExact ==
  \A t \in FieldTerms : \A u \in {Class("int"), Class("str"), ListOf(Class("str")), Class("A")} :
    LET classes == ClassesWith(t, u)
        known   == SubscriptionFieldTypes(classes, {"Sub", "Other"})
    IN  \A value \in Values(t) :
          LET sub == ValueOf("model", "Sub", <<value, Scalar>>)
          IN  \A field \in Traverse(classes, sub, <<"subscription">>) :
                /\ ~ListInList(Unwrapped(t)) /\ ~WithinItself(field.path) /\ ~ListOrNone(Unwrapped(t))
                     => field.type \in ResolveFieldTypes(known, field.path)
                /\ \A path \in {field.path, <<Last(field.path)>>} :
                     ListOrNone(Unwrapped(t)) \/ ResolveFieldValueKind(known, path) \in {Ambiguous, UIType(field.type)}

\* The schema of a product lists every field of every block once.
SchemaExact ==
  \A t \in FieldTerms : \A value \in Values(t) :
    LET classes == ClassesWith(Class("A"), t)
        rows    == BlockSchema(classes, ValueOf("model", "Other", <<value>>), <<"b">>)
        paths   == {row.path : row \in ToSet(rows)}
    IN  /\ Cardinality(paths) = Len(rows)
        /\ <<"b", "f">> \in paths
        /\ \A row \in ToSet(rows) :
             row.type = "block" /\ row.path # <<"b">>
               => {Append(row.path, name) : name \in {"g", "h", "self"}} \subseteq paths

\* A label is not empty and has neither empty nor forbidden parts.
LabelsExact ==
  \A name \in UNION {[1..n -> {"x", "_", "-"}] : n \in 0..5} :
    LET label == SanitizeForLtree(name)
    IN  /\ label # <<>> /\ "-" \notin ToSet(label)
        /\ Head(label) # "_" /\ Last(label) # "_"
        /\ \A i \in 1..(Len(label) - 1) : ~(label[i] = "_" /\ label[i + 1] = "_")
        /\ SelectSeq(label, LAMBDA c : c = "x") = SelectSeq(name, LAMBDA c : c = "x")

=============================================================================
