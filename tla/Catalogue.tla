------------------------------- MODULE Catalogue -------------------------------
(***************************************************************************)
(* The product catalogue (products, product blocks, resource types,        *)
(* workflows and the links between them) and the helpers with which        *)
(* database migrations change it (migrations/helpers.py), as functions on  *)
(* what is stored.  A statement that violates a key raises and the whole   *)
(* migration is rolled back.  Names stand for identifiers.                 *)
(***************************************************************************)
EXTENDS Naturals, FiniteSets

DEFAULT_PRODUCT_WORKFLOWS == {"modify_note"}

-----------------------------------------------------------------------------
(* Upgrades *)

\* create_product_blocks: blocks that exist are skipped, their relations are not.
CreateBlocks(db, new) ==
  [db EXCEPT !.blocks = @ \cup new.blocks,
             !.blockRelations = @ \cup new.blockRelations]

\* create_products
CreateProducts(db, new) ==
  [db EXCEPT !.products = @ \cup new.products,
             !.productBlocks = @ \cup new.productBlocks]

\* create_resource_types_for_product_blocks: only stored blocks get their types.
CreateTypes(db, new) ==
  [db EXCEPT !.types = @ \cup new.types,
             !.blockTypes = @ \cup {l \in new.blockTypes : l[1] \in db.blocks}]

\* create_workflows: every stored product with the tag is linked.
CreateWorkflows(db, new) ==
  [db EXCEPT !.workflows = @ \cup new.workflows,
             !.productWorkflows = @ \cup
               {l \in new.productWorkflows : l[1] \in db.products}]

ensure_default_workflows(db) ==
  [db EXCEPT !.productWorkflows = @ \cup
     db.products \X (db.workflows \cap DEFAULT_PRODUCT_WORKFLOWS)]

\* Names that are looked up and not found, and links and workflows that are
\* inserted without ON CONFLICT and are there already.
CreateRaises(db, new) ==
  \/ \E r \in new.blockRelations : ~({r[1], r[2]} \subseteq db.blocks \cup new.blocks)
  \/ \E l \in new.productBlocks : l[2] \notin db.blocks \cup new.blocks
  \/ new.blockRelations \cap db.blockRelations # {}
  \/ new.productBlocks \cap db.productBlocks # {}
  \/ new.blockTypes \cap db.blockTypes # {}
  \/ new.workflows \cap db.workflows # {}

\* create
Upgrade(db, new) ==
  IF CreateRaises(db, new) THEN db
  ELSE ensure_default_workflows(
         CreateWorkflows(CreateTypes(CreateProducts(CreateBlocks(db, new), new), new), new))

-----------------------------------------------------------------------------
(* Downgrades; foreign keys delete what refers to a deleted row. *)

\* Faulty: the links of the type stay.
DeleteTypes_KeepsLinks(db, names) == [db EXCEPT !.types = @ \ names]

\* delete_resource_type for every name.
DeleteTypes(db, names) ==
  [db EXCEPT !.types = @ \ names,
             !.blockTypes = {l \in @ : l[2] \notin names}]

\* delete_product_block for every name.
DeleteProductBlocks(db, names) ==
  [db EXCEPT !.blocks = @ \ names,
             !.productBlocks = {l \in @ : l[2] \notin names},
             !.blockTypes = {l \in @ : l[1] \notin names},
             !.blockRelations = {r \in @ : names \cap {r[1], r[2]} = {}}]

\* delete_product for every name.
DeleteProducts(db, names) ==
  [db EXCEPT !.products = @ \ names,
             !.productBlocks = {l \in @ : l[1] \notin names},
             !.productWorkflows = {l \in @ : l[1] \notin names}]

\* delete_workflow for every name.
DeleteWorkflows(db, names) ==
  [db EXCEPT !.workflows = @ \ names,
             !.productWorkflows = {l \in @ : l[2] \notin names}]

\* delete
Downgrade(db, old) ==
  DeleteWorkflows(
    DeleteProducts(
      DeleteProductBlocks(DeleteTypes(db, old.types), old.blocks),
      old.products),
    old.workflows)

-----------------------------------------------------------------------------
(* Relations between subscriptions as values and as relations of instances *)

\* Faulty: only the first instance of a used subscription is related.
UsedInstances_First(owner, s) ==
  {i \in DOMAIN owner : owner[i] = s /\ \A j \in DOMAIN owner : owner[j] = s => i <= j}

\* Every instance of the used subscription, whatever its block.
UsedInstances(owner, s) == {i \in DOMAIN owner : owner[i] = s}

\* The rows that convert_resource_type_relations_to_instance_relations inserts
\* for the values <<instance, subscription>>: order counts them per instance, in
\* any order.  A row with a key that is taken is not inserted.
Inserted(owner, values, relations) ==
  LET pairs == UNION {{v[1]} \X UsedInstances(owner, v[2]) : v \in values}
      of(i) == {p \in pairs : p[1] = i}
      numberings == {n \in [pairs -> 0..(Cardinality(pairs) - 1)] :
                       \A p, q \in pairs :
                         /\ n[p] < Cardinality(of(p[1]))
                         /\ p # q /\ p[1] = q[1] => n[p] # n[q]}
  IN  {{[inUseBy |-> p[1], dependsOn |-> p[2], order |-> n[p], attr |-> "new"] :
          p \in {q \in pairs : ~\E r \in relations :
                   r.inUseBy = q[1] /\ r.dependsOn = q[2] /\ r.order = n[q]}} :
        n \in numberings}

\* convert_instance_relations_to_resource_type_relations_by_domain_model_attr
ToValues(owner, relations) ==
  {<<r.inUseBy, owner[r.dependsOn]>> : r \in {q \in relations : q.attr = "new"}}

-----------------------------------------------------------------------------
(* Properties *)

\* What a catalogue without the named entries looks like.
Without(db, old) ==
  [products         |-> db.products \ old.products,
   blocks           |-> db.blocks \ old.blocks,
   types            |-> db.types \ old.types,
   workflows        |-> db.workflows \ old.workflows,
   productBlocks    |-> db.productBlocks \cap
                          ((db.products \ old.products) \X (db.blocks \ old.blocks)),
   blockTypes       |-> db.blockTypes \cap
                          ((db.blocks \ old.blocks) \X (db.types \ old.types)),
   blockRelations   |-> db.blockRelations \cap
                          ((db.blocks \ old.blocks) \X (db.blocks \ old.blocks)),
   productWorkflows |-> db.productWorkflows \cap
                          ((db.products \ old.products) \X (db.workflows \ old.workflows))]

\* Entries "p", "b", "t", "w" are stored, "q", "c", "u", "x" may be new.
Catalogues ==
  [products : {{"p"}}, blocks : {{"b", "d"}}, types : {{"t"}},
   workflows : {{"w"}, {"w", "modify_note"}},
   productBlocks : SUBSET {<<"p", "b">>}, blockTypes : SUBSET {<<"b", "t">>, <<"d", "t">>},
   blockRelations : SUBSET {<<"b", "d">>}, productWorkflows : SUBSET {<<"p", "w">>}]

Migrations ==
  {[products |-> ps, blocks |-> bs, types |-> ts, workflows |-> {"x"},
    productBlocks |-> ps \X {"c"}, blockTypes |-> bs \X ts,
    blockRelations |-> bs \X rel, productWorkflows |-> {<<"p", "x">>, <<"q", "x">>}] :
     ps \in SUBSET {"p", "q"}, bs \in SUBSET {"b", "c"},
     ts \in SUBSET {"t", "u"}, rel \in SUBSET {"d"}}

\* A downgrade that deletes what its upgrade created leaves the catalogue without
\* the entries that were named, those that existed before included, and without
\* dangling links; everything else is as before, except that every product has
\* the default workflows.
DowngradeExact ==
  \A db \in Catalogues : \A new \in Migrations :
    CreateRaises(db, new) \/
      Downgrade(Upgrade(db, new), new) = Without(ensure_default_workflows(db), new)

\* Moving relations from values to instances loses none: what used a subscription
\* with instances is related to each of them, and moving back finds it again
\* unless an older relation had the key of the new one.
NoRelationLost ==
  \A owner \in [1..3 -> {"s", "t"}] :
    \A values \in SUBSET ({1} \X {"s", "t"}) :
      \A relations \in SUBSET
           [inUseBy : {1}, dependsOn : {2, 3}, order : {0}, attr : {"old"}] :
        \A rows \in Inserted(owner, values, relations) :
          \A v \in values : UsedInstances(owner, v[2]) # {} =>
            /\ \A i \in 1..3 : owner[i] = v[2] =>
                 \E r \in relations \cup rows : r.inUseBy = v[1] /\ r.dependsOn = i
            /\ v \in ToValues(owner, rows) \/ relations # {}
=============================================================================
