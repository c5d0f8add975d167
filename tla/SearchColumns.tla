----------------------------- MODULE SearchColumns -----------------------------
(***************************************************************************)
(* Paths and columns of the search: the checks of filters and of counting  *)
(* queries before they run (search/query/validation.py, mixins.py,         *)
(* queries.py), the columns that these become (query/builder.py,           *)
(* aggregations/base.py), the list of paths, and what is highlighted in    *)
(* the rows that are found (query/results.py).                             *)
(***************************************************************************)
EXTENDS Integers, FiniteSets, FiniteSetsExt, Sequences, SequencesExt

-----------------------------------------------------------------------------
(* Paths and their columns *)

\* A path is a sequence of labels, and a label a sequence of words that are joined by
\* underscores: <<"x">>, <<"a", "b">> is x.a_b.
IndexPaths == {<<<<"x">>, <<"a">>, <<"b">>>>, <<<<"x">>, <<"a", "b">>>>, <<<<"x">>, <<"n">>>>}

\* BaseAggregation.field_to_alias
Alias(path) == FlattenSeq(path)

Types == {"string", "integer", "float", "boolean", "datetime"}

\* The type of every path of the index, "absent" when no row has it.
Indices == [IndexPaths -> Types \cup {"absent"}]

\* process_response_columns: columns are read back by their alias, the last path wins.
ResponseColumns(paths, value) ==
  LET last(a) == Max({i \in DOMAIN paths : Alias(paths[i]) = a})
  IN  [p \in {paths[last(Alias(paths[i]))] : i \in DOMAIN paths} |-> value[p]]

\* Every requested path comes back with its value, unless another one has the same alias.
ColumnsComeBack ==
  \A paths \in UNION {[1..n -> IndexPaths] : n \in 1..3}, value \in [IndexPaths -> {0, 1}] :
    LET columns == ResponseColumns(paths, value)
        clash == \E i, j \in DOMAIN paths : paths[i] # paths[j] /\ Alias(paths[i]) = Alias(paths[j])
    IN  /\ (DOMAIN columns = ToSet(paths)) <=> ~clash
        /\ \A p \in DOMAIN columns : columns[p] = value[p]

\* process_path_rows: numbers are left out; the last label is a leaf, those between the
\* first and the last are components.
IsDigit(label) == label = <<"0">>
Clean(path) == SelectSeq(path, LAMBDA l : ~IsDigit(l))

ListedLeaves(paths) == {Last(Clean(p)) : p \in {q \in paths : Clean(q) # <<>>}}
PathsOf(leaf, paths) == {p \in paths : Clean(p) # <<>> /\ Last(Clean(p)) = leaf}
Components(paths) ==
  UNION {{Clean(p)[i] : i \in 2..(Len(Clean(p)) - 1)} : p \in paths}

\* Every path is listed below exactly one leaf, and each label but the first of a path is a
\* leaf or a component.
ListedExactly ==
  LET labels == {<<"x">>, <<"a">>, <<"0">>, <<"a", "b">>} IN
  \A paths \in {{p, q} : p, q \in UNION {[1..n -> labels] : n \in 1..3}} :
    /\ \A p \in paths : Clean(p) # <<>> =>
         Cardinality({l \in ListedLeaves(paths) : p \in PathsOf(l, paths)}) = 1
    /\ \A p \in paths : \A i \in 2..Len(Clean(p)) :
         Clean(p)[i] \in ListedLeaves(paths) \cup Components(paths)

-----------------------------------------------------------------------------
(* Filters that are accepted *)

\* operators_for
Operators(type) ==
  CASE type \in {"integer", "float", "datetime"} -> {"eq", "neq", "lt", "lte", "gt", "gte", "between"}
    [] type = "boolean" -> {"eq", "neq"}
    [] OTHER -> {"eq", "neq", "like"}

Conditions == {"eq", "neq", "lt", "like", "between", "regexp", "lquery"}

\* validate_filter_path
TypeAt(index, path) == IF path \in DOMAIN index THEN index[path] ELSE "absent"

\* complete_filter_validation: what it answers, for a path of entities whose paths start
\* with x; the last label of "*" stands for a path with a wildcard.
CheckFilter(index, path, op, valid_lquery) ==
  CASE op = "lquery" -> IF valid_lquery THEN "ok" ELSE "invalid pattern"
    [] op # "lquery" /\ path = <<>> -> "empty"
    [] op # "lquery" /\ path # <<>> ->
         CASE TypeAt(index, path) = "absent" -> "not found"
           [] TypeAt(index, path) # "absent" /\ op \notin Operators(TypeAt(index, path)) -> "incompatible"
           [] OTHER -> IF Head(path) \in {<<"x">>, <<"*">>} THEN "ok" ELSE "wrong prefix"

\* PathFilter.matched_row_predicate: a path of one label matches every path that ends in it.
RowsFor(index, path) ==
  {p \in DOMAIN index : index[p] # "absent" /\ (p = path \/ (Len(path) = 1 /\ Last(p) = path[1]))}

\* The index also holds the paths of other entities.
OtherPath == <<<<"y">>, <<"n">>>>
WholeIndices == [IndexPaths \cup {OtherPath} -> Types \cup {"absent"}]

\* A value filter that is accepted has rows to look at and an operator that their type
\* knows, and is of these entities; one with a path of one label, which a search understands, is never accepted.
FiltersChecked ==
  \A index \in WholeIndices, op \in Conditions :
  \A path \in IndexPaths \cup {OtherPath, <<>>, <<<<"n">>>>, <<<<"*">>, <<"n">>>>} :
    LET answer == CheckFilter(index, path, op, TRUE) IN
    /\ (op # "lquery" /\ answer = "ok") =>
         RowsFor(index, path) = {path} /\ op \in Operators(index[path]) /\ path # OtherPath
    /\ (op # "lquery" /\ Len(path) = 1) => answer = "not found"
    /\ (op # "lquery" /\ RowsFor(index, path) = {}) => answer \in {"not found", "empty"}

-----------------------------------------------------------------------------
(* Counting *)

None == <<>>

\* A query that counts: what it groups by, the period of a time, what it aggregates (the
\* function and a path), running totals, and the column or the path it is ordered by.
Functions == {"count", "sum", "avg", "min", "max"}
CountAlias == <<"count">>
AggAlias == <<"total">>

Queries ==
  [group : {None} \cup IndexPaths, time : {None} \cup IndexPaths,
   aggregate : [fn : Functions, path : IndexPaths], cumulative : BOOLEAN,
   order : {None, <<AggAlias>>, <<<<"x", "n", "month">>>>} \cup IndexPaths]

\* GroupingMixin.validate_grouping_constraints and validate_cumulative_aggregation_types
WellFormed(q) ==
  /\ q.order # None => q.group # None \/ q.time # None
  /\ q.cumulative => q.time # None /\ q.aggregate.fn \notin {"avg", "min", "max"}

\* validate_grouping_fields, validate_temporal_grouping_field, validate_aggregation_field
\* and validate_order_by_fields
Checked(index, q) ==
  /\ q.group # None => index[q.group] # "absent"
  /\ q.time # None => index[q.time] = "datetime"
  /\ q.aggregate.fn \in {"sum", "avg"} => index[q.aggregate.path] \in {"integer", "float"}
  /\ q.aggregate.fn \in {"min", "max"} => index[q.aggregate.path] \in {"integer", "float", "datetime"}
  /\ Len(q.order) > 1 => index[q.order] # "absent"

\* get_pivot_fields
PivotFields(q) ==
  ({q.group, q.time} \ {None}) \cup (IF q.aggregate.fn = "count" THEN {} ELSE {q.aggregate.path})

TimeAlias(q) == Append(Alias(q.time), "month")
GroupColumns(q) ==
  (IF q.group = None THEN {} ELSE {Alias(q.group)}) \cup (IF q.time = None THEN {} ELSE {TimeAlias(q)})
ColumnsOf(q) == GroupColumns(q) \cup {AggAlias}

\* _apply_ordering: a column by its name, the time by its field or name, a path by its alias.
OrderColumn(q) ==
  LET name == Alias(q.order) IN
  CASE Len(q.order) = 1 /\ name \in ColumnsOf(q) -> name
    [] ~(Len(q.order) = 1 /\ name \in ColumnsOf(q)) /\ q.time # None /\ q.order = q.time -> TimeAlias(q)
    [] ~(Len(q.order) = 1 /\ name \in ColumnsOf(q)) /\ ~(q.time # None /\ q.order = q.time) ->
         IF name \in ColumnsOf(q) THEN name ELSE None

\* A query that is well formed and checked can be ordered by whatever it groups by, and by
\* what it aggregates only by name: other paths are refused when the query is built. The
\* path of the time means the period even when it is grouped by itself as well.
OrderResolves ==
  \A q \in {r \in Queries : WellFormed(r) /\ r.order # None} :
    LET column == OrderColumn(q) IN
    /\ q.order = q.time => column = TimeAlias(q)
    /\ (q.order = q.group /\ q.order # q.time) => column = Alias(q.group)
    /\ (column = None) <=>
         /\ q.order # <<AggAlias>>
         /\ ~(q.time # None /\ (q.order = q.time \/ (Len(q.order) = 1 /\ Alias(q.order) = TimeAlias(q))))
         /\ ~(q.group # None /\ Alias(q.order) = Alias(q.group))

\* FieldAggregation.to_expression: the text of the index is cast to an integer.
Castable(index, q) == q.aggregate.fn = "count" \/ index[q.aggregate.path] = "integer"

\* What is checked runs, but for floats and times, which the check admits and the cast
\* does not.
CheckedRuns ==
  \A index \in Indices, q \in {r \in Queries : WellFormed(r) /\ r.order = None} :
    Checked(index, q) =>
      (~Castable(index, q) <=>
         q.aggregate.fn # "count" /\ index[q.aggregate.path] \in {"float", "datetime"})

\* _build_pivot_cte: the entities with a row at one of the fields, and those counted:
\* execute_aggregation pivots all queries but a count without groups.
Pivoted(has, fields) == {e \in DOMAIN has : has[e] \cap fields # {}}
Counted(has, q, simple) ==
  IF simple /\ q.group = None /\ q.time = None THEN DOMAIN has ELSE Pivoted(has, PivotFields(q))

\* A group counts the entities with its field, the total all of them; but the count that
\* is asked for as an aggregate without groups counts none.
CountsTheRight ==
  \A has \in [{1, 2} -> SUBSET IndexPaths], q \in {r \in Queries : WellFormed(r) /\ r.order = None} :
    LET ungrouped == q.group = None /\ q.time = None IN
    q.aggregate.fn = "count" =>
      /\ ungrouped => Counted(has, q, TRUE) = {1, 2} /\ Counted(has, q, FALSE) = {}
      /\ (q.group # None /\ q.time = None) =>
           Counted(has, q, FALSE) = {e \in {1, 2} : q.group \in has[e]}

-----------------------------------------------------------------------------
(* Highlights *)

\* A text is a sequence of characters: letters, a dash and a space.
Letter(c) == c \in {"a", "b"}
MaxText == 5
HighlightTexts == UNION {[1..n -> {"a", "b", "-", " "}] : n \in 0..MaxText}
Words == {<<"a">>, <<"a", "b">>, <<"a", "a">>, <<"a", "-", "a">>, <<"-">>}

Starts(text, word) ==
  {i \in 0..(Len(text) - Len(word)) : SubSeq(text, i + 1, i + Len(word)) = word}

\* A boundary of words before character i + 1.
Boundary(text, i) ==
  LET letter(k) == k \in DOMAIN text /\ Letter(text[k]) IN letter(i) # letter(i + 1)

\* re.finditer: from the left, without overlap.
RECURSIVE FindIter(_, _, _)
FindIter(starts, length, from) ==
  LET ahead == {i \in starts : i >= from} IN
  IF ahead = {} THEN {} ELSE {Min(ahead)} \cup FindIter(starts, length, Min(ahead) + length)

\* generate_highlight_indices
HighlightIndices(text, words) ==
  UNION {LET starts == Starts(text, w)
             whole == {i \in starts : Boundary(text, i) /\ Boundary(text, i + Len(w))}
         IN  {<<i, i + Len(w)>> : i \in FindIter(whole, Len(w), 0) \cup FindIter(starts, Len(w), 0)} :
           w \in words}

\* What is highlighted spells a word, and every occurrence of a word meets a highlight of
\* it, though not each has one of its own.
HighlightsSpell ==
  \A text \in HighlightTexts, words \in {{v, w} : v, w \in Words} :
    LET spans == HighlightIndices(text, words) IN
    /\ \A s \in spans : SubSeq(text, s[1] + 1, s[2]) \in words
    /\ \A w \in words : \A i \in Starts(text, w) :
         \E s \in spans : s[2] - s[1] = Len(w) /\ s[1] < i + Len(w) /\ i < s[2]

\* The leaves of a filter by what they match with; those on components report nothing
\* (get_highlightable_leaves).
LeafKinds == {"eq", "neq", "like", "regexp", "not_regexp", "lquery", "has_component"}
Highlightable(leaves) == SelectSeq(leaves, LAMBDA l : l.kind # "has_component")

\* _leaf_matches_json: the rows that a leaf matches, with its place among those leaves.
Matches(leaves) ==
  FlattenSeq([i \in DOMAIN Highlightable(leaves) |->
    LET leaf == Highlightable(leaves)[i] IN
    [n \in 1..Cardinality(leaf.rows) |-> [row |-> SetToSortSeq(leaf.rows, <)[n], idx |-> i]]])

\* _resolve_structured_matching_fields: a row that several leaves match is reported for the
\* last one; leaves that negate or that match on paths have nothing to highlight.
MatchingFields(leaves) ==
  LET matches == Matches(leaves)
      last(r) == Max({n \in DOMAIN matches : matches[n].row = r})
      kind(r) == Highlightable(leaves)[matches[last(r)].idx].kind
  IN  [r \in {matches[n].row : n \in DOMAIN matches} |->
         IF kind(r) \in {"neq", "not_regexp", "lquery"} THEN "none" ELSE kind(r)]

\* All rows that a leaf matches are reported, once, and highlighted by the condition of a
\* leaf that matches them.
MatchesResolve ==
  \A leaves \in UNION {[1..n -> [kind : LeafKinds, rows : SUBSET {1, 2}]] : n \in 0..3} :
    LET fields == MatchingFields(leaves)
        shown == {i \in DOMAIN leaves : leaves[i].kind # "has_component"}
    IN  /\ DOMAIN fields = UNION {leaves[i].rows : i \in shown}
        /\ \A r \in DOMAIN fields : \E i \in shown :
             /\ r \in leaves[i].rows
             /\ fields[r] \in {leaves[i].kind, "none"}
             /\ \A j \in shown : j > i => r \notin leaves[j].rows

ColumnsExact ==
  /\ ColumnsComeBack /\ ListedExactly
  /\ FiltersChecked /\ OrderResolves /\ CheckedRuns /\ CountsTheRight
  /\ HighlightsSpell /\ MatchesResolve
=============================================================================
