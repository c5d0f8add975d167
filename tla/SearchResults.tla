----------------------------- MODULE SearchResults -----------------------------
(***************************************************************************)
(* The results of a search: candidates from the rows of the index          *)
(* (search/query/builder.py), the retriever that ranks them and its keyset *)
(* pagination (search/retrieval), the numbers of a page (query/engine.py), *)
(* and counts per group.                                                   *)
(*                                                                         *)
(* values[e][p] is what the search is about in the row of entity e at path *)
(* p: the value to order or to group by, or how well the row matches the   *)
(* text.  0 stands for a row that is not there or does not match.          *)
(***************************************************************************)
EXTENDS Integers, FiniteSets, Sequences, SequencesExt, FiniteSetsExt

Entities == 1..3

Paths == 1..2

PERFECT == 2          \* perfect_threshold, on the scale of the values
K == 2                \* the constant k of reciprocal rank fusion
CandidatesLimit == 3  \* field_candidates_limit

-----------------------------------------------------------------------------
(* Routing *)

Retrievers == {"fuzzy", "semantic", "hybrid"}

\* A search: the chosen retriever, and what its text is.  A text of one word is a fuzzy
\* term, and one that is not a UUID can be embedded.
Searches == [retriever : Retrievers \cup {"auto"}, text : {"none", "word", "words", "uuid"},
             process : BOOLEAN]

Accepted(q) == q.retriever = "auto" \/ q.text # "none"

vector_query(q) == q.text \in {"word", "words"}
fuzzy_term(q) == q.text \in {"word", "uuid"}

\* Retriever._plan
Plan(q) ==
  LET planned ==
        CASE q.retriever # "auto" -> q.retriever
          [] q.retriever = "auto" /\ vector_query(q) /\ fuzzy_term(q) -> "hybrid"
          [] q.retriever = "auto" /\ vector_query(q) /\ ~fuzzy_term(q) -> "semantic"
          [] q.retriever = "auto" /\ ~vector_query(q) /\ fuzzy_term(q) -> "fuzzy"
          [] OTHER -> "structured"
  IN  IF q.process /\ planned \in {"fuzzy", "hybrid"} THEN "process" ELSE planned

\* Retriever.needs_embedding
NeedsEmbedding(q) ==
  \/ Plan(q) \in {"semantic", "hybrid"}
  \/ /\ Plan(q) = "process"
     /\ q.retriever # "fuzzy"
     /\ q.retriever = "hybrid" \/ vector_query(q)

\* Retriever.route: "unreachable" stands for the RuntimeError at its end.
Route(q, embedded) ==
  LET text == q.text # "none" /\ (q.retriever # "auto" \/ fuzzy_term(q))
  IN  IF NeedsEmbedding(q) /\ ~embedded
      THEN IF q.retriever # "auto" THEN "refused" ELSE IF q.process THEN "process" ELSE "fuzzy"
      ELSE CASE Plan(q) = "structured" -> "structured"
             [] Plan(q) \in {"fuzzy", "process"} /\ text -> Plan(q)
             [] Plan(q) = "semantic" /\ embedded -> "semantic"
             [] Plan(q) = "hybrid" /\ embedded /\ text -> "hybrid"
             [] OTHER -> "unreachable"

\* Whether _execute_search has an embedding: a UUID is not embedded, the embedder may fail.
Embedded(q, available) == NeedsEmbedding(q) /\ vector_query(q) /\ available

\* Every search that is accepted reaches a retriever or is refused for want of an
\* embedding, and an automatic choice is never refused.
RouteTotal ==
  \A q \in {s \in Searches : Accepted(s)}, available \in BOOLEAN :
    LET route == Route(q, Embedded(q, available))
    IN  /\ route # "unreachable"
        /\ q.retriever = "auto" => route # "refused"
        /\ route = "structured" <=> q.text = "none"

-----------------------------------------------------------------------------
(* Ranking: an ordered list of entities is given by the key of each, a fraction. *)

Less(x, y) == x[1] * y[2] < y[1] * x[2]

Equal(x, y) == x[1] * y[2] = y[1] * x[2]

NULL == <<0, 0>>

Rows(values) == {r \in Entities \X Paths : values[r[1]][r[2]] # 0}

RowsOf(e, rows) == {r \in rows : r[1] = e}

Value(values, r) == values[r[1]][r[2]]

\* StructuredRetriever without order_by: every entity has the score 1.
ById == [key |-> [e \in Entities |-> <<1, 1>>], direction |-> "desc"]

\* StructuredRetriever: the value at a path, if the entity has one.
ByValue(values, path, direction) ==
  [key |-> [e \in Entities |-> IF values[e][path] = 0 THEN NULL ELSE <<values[e][path], 1>>],
   direction |-> direction]

\* FuzzyRetriever and SemanticRetriever: the best row of each entity that has any.
ByScore(values) ==
  [key |-> [e \in {r[1] : r \in Rows(values)} |->
              <<Max({Value(values, r) : r \in RowsOf(e, Rows(values))}), 1>>],
   direction |-> "desc"]

\* The field candidates of RrfHybridRetriever: the best rows up to the limit.
FieldCandidates(values) ==
  LET Better(r, s) == \/ Value(values, r) > Value(values, s)
                      \/ /\ Value(values, r) = Value(values, s)
                         /\ 10 * r[1] + r[2] < 10 * s[1] + s[2]
  IN  {r \in Rows(values) : Cardinality({s \in Rows(values) : Better(s, r)}) < CandidatesLimit}

Average(values, rows) == <<FoldSet(LAMBDA r, sum : sum + Value(values, r), 0, rows), Cardinality(rows)>>

\* dense_rank over a score and the id.
Rank(score, e) ==
  1 + Cardinality({d \in DOMAIN score :
        Less(score[e], score[d]) \/ (Equal(score[d], score[e]) /\ d < e)})

\* beta of compute_rrf_hybrid_score_sql: 5% more than the best sum of ranks.
Beta == <<21, 10 * (K + 1)>>

\* compute_rrf_hybrid_score_sql; the normalisation keeps the order and is left out.
Fused(sem_rank, fuzzy_rank, perfect) ==
  LET num == 2 * K + sem_rank + fuzzy_rank
      den == (K + sem_rank) * (K + fuzzy_rank)
  IN  IF perfect THEN <<num * Beta[2] + den * Beta[1], den * Beta[2]>> ELSE <<num, den>>

\* RrfHybridRetriever.apply; nearer entities have the smaller number in distance.
ByFusion(values, distance) ==
  LET candidates == FieldCandidates(values)
      found == {r[1] : r \in candidates}
      fuzzy == [e \in found |-> Average(values, RowsOf(e, candidates))]
      near  == [e \in found |-> <<1, distance[e]>>]
  IN  [key |-> [e \in found |-> Fused(Rank(near, e), Rank(fuzzy, e), ~Less(fuzzy[e], <<PERFECT, 1>>))],
       direction |-> "desc"]

\* A perfect match ranks above every other match, wherever they are in either ranking.
PerfectFirst ==
  \A sem, fuzzy, s, f \in 1..4 : Less(Fused(s, f, FALSE), Fused(sem, fuzzy, TRUE))

-----------------------------------------------------------------------------
(* Pages *)

\* The first of two keys in the order of the list.
Ahead(list, x, y) == IF list.direction = "desc" THEN Less(y, x) ELSE Less(x, y)

\* ORDER BY key, entity_id: the database sorts missing keys as the largest.
Before(list, d, e) ==
  LET x == list.key[d]
      y == list.key[e]
  IN  \/ x # NULL /\ y # NULL /\ Ahead(list, x, y)
      \/ IF list.direction = "desc" THEN x = NULL /\ y # NULL ELSE x # NULL /\ y = NULL
      \/ x = NULL /\ y = NULL /\ d < e
      \/ x # NULL /\ y # NULL /\ Equal(x, y) /\ d < e

NoCursor == [id |-> 0, key |-> NULL]

\* Faulty: rows with the key of the cursor are taken to be on the last page.
Selected_NoTie(list, cursor) ==
  {e \in DOMAIN list.key :
     cursor.key = NULL \/ (list.key[e] # NULL /\ Ahead(list, cursor.key, list.key[e]))}

\* _apply_order_value_pagination, _apply_id_pagination, _apply_score_pagination: without a
\* key in the cursor all rows are selected; a missing key is never compared.
Selected(list, cursor) ==
  {e \in DOMAIN list.key :
     \/ cursor.key = NULL
     \/ /\ list.key[e] # NULL
        /\ \/ Ahead(list, cursor.key, list.key[e])
           \/ Equal(cursor.key, list.key[e]) /\ e > cursor.id}

Statement(list, cursor) == SetToSortSeq(Selected(list, cursor), LAMBDA d, e : Before(list, d, e))

First(n, rows) == SubSeq(rows, 1, Min({n, Len(rows)}))

\* execute_search and _create_cursor_info: one row more than the limit is fetched.
Page(list, cursor, limit) ==
  LET rows  == First(limit + 1, Statement(list, cursor))
      start == Cardinality(DOMAIN list.key) - Len(Statement(list, cursor))
  IN  [results |-> First(limit, rows), has_more |-> Len(rows) > limit, start_cursor |-> start,
       end_cursor |-> start + Len(rows) - (IF Len(rows) > limit THEN 2 ELSE 1)]

\* encode_next_page_cursor
NextCursor(list, page) == [id |-> Last(page.results), key |-> list.key[Last(page.results)]]

\* The pages that a client gets who follows the cursors.
Pages(list, limit) ==
  LET pages[n \in 1..(Cardinality(Entities) + 1)] ==
        IF n = 1 THEN <<Page(list, NoCursor, limit)>>
        ELSE LET before == pages[n - 1]
             IN  IF ~Last(before).has_more THEN before
                 ELSE Append(before, Page(list, NextCursor(list, Last(before)), limit))
  IN  pages[Cardinality(Entities) + 1]

\* The pages hold the whole list in its order, and say where in it they are.
PagedExactly(list) ==
  \A limit \in 1..3 :
    LET pages == Pages(list, limit)
        all   == Statement(list, NoCursor)
    IN  /\ FlattenSeq([i \in DOMAIN pages |-> pages[i].results]) = all
        /\ \A i \in DOMAIN pages : pages[i].results # <<>> =>
             SubSeq(all, pages[i].start_cursor + 1, pages[i].end_cursor + 1) = pages[i].results

\* At the second path, a row matches perfectly or not at all.
AllValues == [Entities -> {<<v, w>> : v \in 0..PERFECT, w \in {0, PERFECT}}]

\* Following the cursors, a client gets every result once and in the order of the list,
\* for every ranking; for order_by only if every entity has a value.
PagesExact(all) ==
  /\ PagedExactly(ById)
  /\ \A values \in all :
       /\ PagedExactly(ByScore(values))
       /\ PagedExactly(ByFusion(values, <<2, 2, 1>>))
       /\ (\A e \in Entities : values[e][1] # 0) =>
            \A direction \in {"asc", "desc"} : PagedExactly(ByValue(values, 1, direction))

-----------------------------------------------------------------------------
(* Counts per group *)

\* _build_pivot_cte: entities with a row at any of the paths, one column for each.
Pivoted(values, paths) == {e \in Entities : \E p \in paths : values[e][p] # 0}

\* build_aggregation_query
GroupCounts(values, paths) ==
  LET GroupOf(e) == [p \in paths |-> values[e][p]]
  IN  [g \in {GroupOf(e) : e \in Pivoted(values, paths)} |->
         Cardinality({e \in Pivoted(values, paths) : GroupOf(e) = g})]

\* _apply_cumulative_aggregations: path 2 is the time, NULL the last.
Time(g) == IF g[2] = 0 THEN PERFECT + 1 ELSE g[2]

Cumulative(counts, g) ==
  LET upTo == {h \in DOMAIN counts : h[1] = g[1] /\ Time(h) =< Time(g)}
  IN  FoldSet(LAMBDA h, sum : sum + counts[h], 0, upTo)

\* The counts of the groups add up to the entities that have any of the fields, and the last
\* cumulative count of a category to those in the category.
CountsExact(all) ==
  \A values \in all :
    LET counts == GroupCounts(values, Paths)
    IN  /\ FoldSet(LAMBDA g, sum : sum + counts[g], 0, DOMAIN counts) =
             Cardinality({r[1] : r \in Rows(values)})
        /\ \A g \in DOMAIN counts :
             (\A h \in DOMAIN counts : h[1] = g[1] => Time(h) =< Time(g)) =>
               Cumulative(counts, g) = Cardinality({e \in Pivoted(values, Paths) : values[e][1] = g[1]})

-----------------------------------------------------------------------------
(* Highlights *)

Dots == <<0, 0, 0>>

\* truncate_text_with_highlights: positions start at 0, an end is the position after.
Truncated(text, highlights, max_length, context_chars) ==
  LET about == IF highlights[1][1] > context_chars THEN highlights[1][1] - context_chars ELSE 0
      end   == Min({Len(text), about + max_length})
      start == IF end = Len(text) /\ end - about < max_length THEN Max({0, end - max_length}) ELSE about
      offset == start - (IF start > 0 THEN Len(Dots) ELSE 0)
      kept  == SelectSeq(highlights, LAMBDA h : h[1] >= start /\ h[2] =< end)
  IN  IF Len(text) =< max_length THEN [text |-> text, highlights |-> highlights]
      ELSE [text |-> (IF start > 0 THEN Dots ELSE <<>>) \o SubSeq(text, start + 1, end) \o
                     (IF end < Len(text) THEN Dots ELSE <<>>),
            highlights |-> [i \in DOMAIN kept |-> <<kept[i][1] - offset, kept[i][2] - offset>>]]

\* The highlights of a truncated text are highlights of the text, and the first is one of
\* them unless it is too long.
HighlightsExact ==
  \A n \in 1..7, max_length \in 2..4, context_chars \in 0..1 :
    LET text  == [i \in 1..n |-> i]
        spans == {h \in (0..n) \X (0..n) : h[1] < h[2]}
        Marked(t, h) == SubSeq(t, h[1] + 1, h[2])
    IN  \A h, k \in spans : h[1] =< k[1] =>
          LET short == Truncated(text, <<h, k>>, max_length, context_chars)
              marks == {Marked(short.text, short.highlights[i]) : i \in DOMAIN short.highlights}
          IN  /\ marks \subseteq {Marked(text, h), Marked(text, k)}
              /\ h[2] - h[1] =< max_length - context_chars => Marked(text, h) \in marks
              /\ Len(short.text) =< max_length + 2 * Len(Dots)

\* Everything that is claimed of search results.
ResultsExact(all) ==
  RouteTotal /\ PerfectFirst /\ PagesExact(all) /\ CountsExact(all) /\ HighlightsExact
=============================================================================
