----------------------------- MODULE SearchFilter -----------------------------
(***************************************************************************)
(* Structured search: an Elasticsearch query is translated to a tree of    *)
(* filters (search/filters/elastic_dsl.py), and the tree is compiled to a  *)
(* condition on the rows of the search index (search/filters/base.py).     *)
(*                                                                         *)
(* A document is what the index has of one subscription: one row with the  *)
(* number "n", one with the string "s", and rows below its components.     *)
(* Patterns and regular expressions stand for the strings they match.      *)
(***************************************************************************)
EXTENDS Naturals, Sequences, SequencesExt

Numbers == 0..2

Strings == {"x", "y"}

Documents == [n : Numbers, s : Strings, components : SUBSET {"port"}]

-----------------------------------------------------------------------------
(* Filters *)

Leaf(path, op, value) == [leaf |-> TRUE, path |-> path, op |-> op, value |-> value]

Tree(op, children) == [leaf |-> FALSE, op |-> op, children |-> children]

\* Faulty: the bound itself is left out on both sides.
InvertOp_Strict ==
  [EQ |-> "NEQ", NEQ |-> "EQ", GT |-> "LT", GTE |-> "LT", LT |-> "GT", LTE |-> "GT",
   CONTAINS |-> "NOT_CONTAINS", NOT_CONTAINS |-> "CONTAINS",
   HAS_COMPONENT |-> "NOT_HAS_COMPONENT", NOT_HAS_COMPONENT |-> "HAS_COMPONENT"]

\* _INVERT_OP
InvertOp ==
  [EQ |-> "NEQ", NEQ |-> "EQ", GT |-> "LTE", GTE |-> "LT", LT |-> "GTE", LTE |-> "GT",
   CONTAINS |-> "NOT_CONTAINS", NOT_CONTAINS |-> "CONTAINS",
   HAS_COMPONENT |-> "NOT_HAS_COMPONENT", NOT_HAS_COMPONENT |-> "HAS_COMPONENT"]

Compare(op, x, y) ==
  CASE op = "EQ" -> x = y
    [] op = "NEQ" -> x # y
    [] op = "GT" -> x > y
    [] op = "GTE" -> x >= y
    [] op = "LT" -> x < y
    [] op = "LTE" -> x =< y

\* PathFilter.to_expression: some row of the document matches, or, for
\* not_has_component, none does.
LeafHolds(filter, doc) ==
  CASE filter.op = "BETWEEN" -> doc[filter.path] \in filter.value[1]..filter.value[2]
    [] filter.op \in {"LIKE", "CONTAINS"} -> doc[filter.path] \in filter.value
    [] filter.op = "NOT_CONTAINS" -> doc[filter.path] \notin filter.value
    [] filter.op = "HAS_COMPONENT" -> filter.value \in doc.components
    [] filter.op = "NOT_HAS_COMPONENT" -> filter.value \notin doc.components
    [] OTHER -> Compare(filter.op, doc[filter.path], filter.value)

\* FilterTree.to_expression
RECURSIVE Holds(_, _)
Holds(node, doc) ==
  IF node.leaf THEN LeafHolds(node, doc)
  ELSE IF node.op = "AND" THEN \A i \in DOMAIN node.children : Holds(node.children[i], doc)
  ELSE \E i \in DOMAIN node.children : Holds(node.children[i], doc)

-----------------------------------------------------------------------------
(* Translation *)

OpOfBound == [gt |-> "GT", gte |-> "GTE", lt |-> "LT", lte |-> "LTE"]

HasBound(bounds, key) == \E i \in DOMAIN bounds : bounds[i][1] = key

Bound(bounds, key) == (CHOOSE i \in DOMAIN bounds : bounds[i][1] = key)

\* _translate_range: two inclusive bounds are a range; otherwise only the first counts.
TranslateRange(query) ==
  LET bounds == query.bounds
  IN  IF HasBound(bounds, "gte") /\ HasBound(bounds, "lte")
      THEN Leaf("n", "BETWEEN", <<bounds[Bound(bounds, "gte")][2], bounds[Bound(bounds, "lte")][2]>>)
      ELSE Leaf("n", OpOfBound[bounds[1][1]], bounds[1][2])

\* _translate_term, _translate_wildcard, _translate_regexp, _translate_exists
TranslateLeaf(query) ==
  CASE query.kind = "term" -> Leaf(query.field, "EQ", query.value)
    [] query.kind = "range" -> TranslateRange(query)
    [] query.kind = "wildcard" -> Leaf("s", "LIKE", query.value)
    [] query.kind = "regexp" -> Leaf("s", "CONTAINS", query.value)
    [] query.kind = "exists" -> Leaf("*", "HAS_COMPONENT", query.field)

\* _negate_node: a range becomes two alternatives; patterns and trees stay as they are.
Negate(node) ==
  IF ~node.leaf \/ node.op = "LIKE" THEN node
  ELSE IF node.op = "BETWEEN"
       THEN Tree("OR", <<Leaf(node.path, "LT", node.value[1]), Leaf(node.path, "GT", node.value[2])>>)
       ELSE [node EXCEPT !.op = InvertOp[@]]

Map(f(_), list) == [i \in DOMAIN list |-> f(list[i])]

Single(op, children) == IF Len(children) = 1 THEN children[1] ELSE Tree(op, children)

\* _translate_bool: without must, should is all that is returned.
RECURSIVE Translate(_)
Translate(query) ==
  IF query.kind # "bool" THEN TranslateLeaf(query)
  ELSE LET must   == Map(Translate, query.must)
           should == Map(Translate, query.should)
           not    == Map(LAMBDA q : Negate(Translate(q)), query.must_not)
       IN  IF must # <<>> /\ should # <<>>
           THEN Tree("AND", must \o <<Tree("OR", should)>> \o not)
           ELSE IF should # <<>> THEN Single("OR", should)
           ELSE Single("AND", must \o not)

\* elastic_to_filter_tree
elastic_to_filter_tree(query) ==
  LET node == Translate(query) IN IF node.leaf THEN Tree("AND", <<node>>) ELSE node

-----------------------------------------------------------------------------
(* What a query means *)

RECURSIVE Means(_, _)
Means(query, doc) ==
  CASE query.kind = "term" -> doc[query.field] = query.value
    [] query.kind = "range" ->
         \A i \in DOMAIN query.bounds :
           Compare(OpOfBound[query.bounds[i][1]], doc.n, query.bounds[i][2])
    [] query.kind \in {"wildcard", "regexp"} -> doc.s \in query.value
    [] query.kind = "exists" -> query.field \in doc.components
    [] query.kind = "bool" ->
         /\ \A i \in DOMAIN query.must : Means(query.must[i], doc)
         /\ query.should = <<>> \/ \E i \in DOMAIN query.should : Means(query.should[i], doc)
         /\ \A i \in DOMAIN query.must_not : ~Means(query.must_not[i], doc)

Ranges ==
  {[kind |-> "range", bounds |-> <<<<key, 1>>>>] : key \in {"gt", "gte", "lt", "lte"}} \cup
  {[kind |-> "range", bounds |-> <<<<"lte", 1>>, <<"gte", 0>>>>]}

\* The queries of which _negate_node turns the meaning round.
Invertible ==
  Ranges \cup
  {[kind |-> "term", field |-> "n", value |-> 1], [kind |-> "regexp", value |-> {"x"}],
   [kind |-> "exists", field |-> "port"]}

Wildcard == [kind |-> "wildcard", value |-> {"y"}]

UpTo(n, queries) == UNION {[1..k -> queries] : k \in 0..n}

Bools(must, should, not) ==
  {b \in [kind : {"bool"}, must : must, should : should, must_not : not] :
     Len(b.must) + Len(b.should) + Len(b.must_not) > 0}

\* Clauses next to each other, and queries below queries.
FlatQueries ==
  Bools(UpTo(1, Invertible \cup {Wildcard}), UpTo(2, Invertible \cup {Wildcard}), UpTo(1, Invertible))

NestedQueries ==
  LET inner == {b \in FlatQueries : Len(b.must) + Len(b.should) + Len(b.must_not) = 2}
  IN  Bools(UpTo(1, inner), UpTo(1, Invertible), UpTo(1, Invertible)) \cup
      Bools({<<>>, <<Wildcard>>}, UpTo(1, inner), {<<>>})

TranslatedExactly(query) ==
  \A doc \in Documents : Holds(elastic_to_filter_tree(query), doc) <=> Means(query, doc)

\* A bool query whose must_not stands next to nothing but should.
RECURSIVE OnlyShould(_)
OnlyShould(query) ==
  /\ query.kind = "bool"
  /\ \/ query.must = <<>> /\ query.should # <<>> /\ query.must_not # <<>>
     \/ \E i \in DOMAIN query.must : OnlyShould(query.must[i])
     \/ \E i \in DOMAIN query.should : OnlyShould(query.should[i])

\* The filters select exactly the documents the query means, however must, should and
\* must_not are combined and nested, but for must_not with should alone.
TranslationExact(queries) ==
  \A query \in queries : ~OnlyShould(query) => TranslatedExactly(query)

=============================================================================
