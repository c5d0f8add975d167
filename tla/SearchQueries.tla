----------------------------- MODULE SearchQueries -----------------------------
(***************************************************************************)
(* Broadening a search that finds nothing (search/fallback.py): which      *)
(* filters are kept, which queries are tried in which order, and what is   *)
(* told about the one that found something.                                *)
(***************************************************************************)
EXTENDS Integers, FiniteSets, FiniteSetsExt, Sequences, SequencesExt

-----------------------------------------------------------------------------
(* Broadening *)

\* Leaves 1 and 2 of a filter are exact, leaf 3 is a loose text filter.
Leaves == 1..3
IsRelaxable(leaf) == leaf = 3

Leaf(i) == [op |-> "LEAF", leaf |-> i, children |-> <<>>]
Group(op, children) == [op |-> op, leaf |-> 0, children |-> children]

NoFilter == Group("NONE", <<>>)

Filters ==
  LET flat == {Group(op, [i \in DOMAIN s |-> Leaf(s[i])]) :
                 op \in {"AND", "OR"}, s \in {<<1>>, <<3>>, <<1, 2>>, <<1, 3>>, <<3, 2>>}}
  IN  flat \cup {Group(op, <<Leaf(i), g>>) : op \in {"AND", "OR"}, i \in Leaves, g \in flat}

\* FilterTree.get_all_leaves, in groups of two levels.
AllLeaves(filters) ==
  FlattenSeq([i \in DOMAIN filters.children |->
    LET child == filters.children[i] IN
    IF child.op = "LEAF" THEN <<child.leaf>>
    ELSE [j \in DOMAIN child.children |-> child.children[j].leaf]])

\* What a filter selects, when leaf i selects matches[i] of all entities.
RECURSIVE Candidates(_, _, _)
Candidates(filters, matches, all) ==
  LET below == {Candidates(filters.children[i], matches, all) : i \in DOMAIN filters.children}
  IN  CASE filters.op = "NONE" -> all
        [] filters.op = "LEAF" -> matches[filters.leaf]
        [] filters.op = "AND" -> {e \in all : \A S \in below : e \in S}
        [] filters.op = "OR" -> UNION below

\* _high_signal_filters: NoFilter also stands for a rung that is of no use.
HighSignal(filters) ==
  LET leaves == AllLeaves(filters)
      kept == SelectSeq(leaves, LAMBDA l : ~IsRelaxable(l))
  IN  IF kept = <<>> \/ kept = leaves THEN NoFilter
      ELSE Group("AND", [i \in DOMAIN kept |-> Leaf(kept[i])])

\* _broadening_ladder
Rung(filters, retriever) == [filters |-> filters, retriever |-> retriever]

Ladder(filters) ==
  LET reduced == HighSignal(filters)
  IN  (IF reduced = NoFilter THEN <<>> ELSE <<Rung(reduced, "auto")>>)
        \o <<Rung(NoFilter, "hybrid"), Rung(NoFilter, "semantic")>>

Passes == [low |-> 0, medium |-> 1, high |-> 3]

\* Embeddings are off, fail when they are asked for, or work.
EmbeddingStates == {"off", "failing", "on"}

\* _effective_retriever
Effective(retriever, embedding) ==
  IF retriever \in {"semantic", "hybrid"} /\ embedding = "off" THEN "fuzzy" ELSE retriever

\* Engine: an explicit retriever that needs an embedding raises without one.
Raises(rung, embedding) == rung.retriever \in {"semantic", "hybrid"} /\ embedding # "on"

\* A world: what the leaves match and what each retriever ranks of all entities.
Found(rung, world) ==
  Candidates(rung.filters, world.matches, world.all) \cap world.hits[rung.retriever]

\* _run_broadening_fallback: the first rung with rows, or none (0).
FirstRung(steps, world) ==
  LET tried == [i \in DOMAIN steps |->
                  Rung(steps[i].filters, Effective(steps[i].retriever, world.embedding))]
      good == {i \in DOMAIN tried : /\ ~Raises(tried[i], world.embedding)
                                    /\ Found(tried[i], world) # {}}
  IN  IF good = {} THEN Rung(NoFilter, "none") ELSE tried[Min(good)]

Answer(rows, rung, fallback) == [rows |-> rows, executed |-> rung, fallback |-> fallback]
Failed == Answer({}, Rung(NoFilter, "none"), FALSE)

\* execute_search_with_fallback
Search(filters, text, retriever, effort, world) ==
  LET rung == Rung(filters, IF text THEN Effective(retriever, world.embedding) ELSE "auto")
      ladder == Ladder(filters)
      steps == SubSeq(ladder, 1, Min({Passes[effort], Len(ladder)}))
      broader == FirstRung(steps, world)
  IN  IF Raises(rung, world.embedding) THEN Failed
      ELSE IF Found(rung, world) # {} \/ ~text \/ broader.retriever = "none"
      THEN Answer(Found(rung, world), rung, FALSE)
      ELSE Answer(Found(broader, world), broader, TRUE)

\* The rows are those of the query that is told to have run; one that found rows is never
\* broadened; no more rungs are tried than the effort allows, and filters are dropped only
\* when nothing is found with the exact ones alone; with the highest effort nothing is told
\* only when the ranking of the last rung over everything finds nothing.
FallbackExact(all) ==
  \A filters \in all, text \in BOOLEAN, effort \in DOMAIN Passes :
  \A retriever \in {"auto", "fuzzy", "hybrid", "semantic"}, embedding \in EmbeddingStates :
  \A matches \in [Leaves -> SUBSET {1}] :
  \A hits \in [{"auto", "fuzzy", "hybrid", "semantic"} -> SUBSET {1}] :
    LET world == [all |-> {1}, matches |-> matches, hits |-> hits, embedding |-> embedding]
        a == Search(filters, text, retriever, effort, world)
        reduced == HighSignal(filters)
    IN  /\ a # Failed => a.rows = Found(a.executed, world)
        /\ a = Failed => text /\ retriever \in {"hybrid", "semantic"} /\ embedding = "failing"
        /\ a.fallback => /\ text /\ effort # "low" /\ a.rows # {}
                         /\ Found(Rung(filters, Effective(retriever, embedding)), world) = {}
        /\ (a.fallback /\ effort = "medium" /\ reduced # NoFilter) => a.executed.filters = reduced
        /\ (a.fallback /\ a.executed.filters = NoFilter /\ reduced # NoFilter) =>
             Found(Rung(reduced, "auto"), world) = {}
        /\ (text /\ a # Failed /\ effort = "high" /\ a.rows = {} /\ embedding # "failing") =>
             hits[Effective("semantic", embedding)] = {}


\* Relaxing keeps every candidate of a filter without OR; next to an OR the rest, which is
\* flattened to an AND, can select less than the filter did.
RelaxingBroadens ==
  \A filters \in {f \in Filters : HighSignal(f) # NoFilter} :
    LET conjunctive == \A g \in {filters} \cup ToSet(filters.children) :
                         g.op = "OR" => Len(g.children) = 1
    IN  conjunctive =>
          \A matches \in [Leaves -> SUBSET {1, 2}] :
            Candidates(filters, matches, {1, 2})
              \subseteq Candidates(HighSignal(filters), matches, {1, 2})

RelaxingMayNarrow ==
  \E filters \in Filters : \E matches \in [Leaves -> SUBSET {1, 2}] :
    /\ HighSignal(filters) # NoFilter
    /\ ~(Candidates(filters, matches, {1, 2})
           \subseteq Candidates(HighSignal(filters), matches, {1, 2}))
=============================================================================
