------------------------ MODULE SubscriptionRelations ------------------------
(***************************************************************************)
(* The traversal of relations between subscriptions that the API and the   *)
(* GraphQL loaders use (services/subscription_relations.py), checked on    *)
(* every graph of three subscriptions, cycles included.  Lists are sets:   *)
(* their order follows the database.                                       *)
(***************************************************************************)
EXTENDS Naturals, FiniteSets

Nodes == 1..3

Limits == 0..2

\* get_in_use_by_subscriptions for one id: uses holds the relations between the
\* instances of subscriptions, wanted the subscriptions with a status asked for.
FetchInUseBy(uses, wanted, s) ==
  {u \in Nodes \ {s} : <<u, s>> \in uses /\ u \in wanted}

FetchDependsOn(uses, wanted, s) ==
  {d \in Nodes \ {s} : <<s, d>> \in uses /\ d \in wanted}

\* Faulty: one level too deep.
Recurses_TooDeep(limit, depth, next) == limit >= depth /\ next # {}

Recurses(limit, depth, next) == limit > depth /\ next # {}

\* get_recursive_relations: recursed are the subscriptions whose product type is
\* one of recurse_product_types.
RECURSIVE RecursiveRelations(_, _, _, _, _, _)
RecursiveRelations(ids, fetch, recursed, limit, depth, used) ==
  LET relations == UNION {fetch[s] : s \in ids}
      next == (relations \cap recursed) \ used
  IN  relations \cup
        IF Recurses(limit, depth, next)
        THEN RecursiveRelations(next, fetch, recursed, limit, depth + 1, used \cup next)
        ELSE {}

-----------------------------------------------------------------------------
(* The reference: what walks of a bounded length reach. *)

\* The ends of walks of n steps that only pass through recursed subscriptions.
EndsOfWalks(ids, edges, recursed) ==
  LET ends[n \in Nat] ==
        IF n = 0 THEN ids
        ELSE LET through == IF n = 1 THEN ids ELSE ends[n - 1] \cap recursed
             IN  {e[2] : e \in {f \in edges : f[1] \in through}}
  IN  ends

\* However the relations are cyclic, the traversal returns exactly what walks of
\* at most limit + 1 relations reach in one direction through subscriptions with
\* the recursed product types, and asking from the other end agrees.
TraversalExact ==
  \A uses \in SUBSET {e \in Nodes \X Nodes : e[1] # e[2]} :
    /\ \A wanted \in SUBSET Nodes, recursed \in SUBSET Nodes, limit \in Limits,
         start \in Nodes :
         LET fetch == [s \in Nodes |-> FetchInUseBy(uses, wanted, s)]
             edges == {<<e[2], e[1]>> : e \in {f \in uses : f[1] \in wanted}}
             ends  == EndsOfWalks({start}, edges, recursed)
         IN  RecursiveRelations({start}, fetch, recursed, limit, 0, {start})
               = UNION {ends[n] : n \in 1..(limit + 1)}
    /\ \A s, t \in Nodes :
         s \in FetchInUseBy(uses, Nodes, t) <=> t \in FetchDependsOn(uses, Nodes, s)
=============================================================================
