---------------------------- MODULE ModelMigration ----------------------------
(***************************************************************************)
(* `db migrate-domain-models' (cli/migrate_domain_models.py): the domain   *)
(* models are compared with the products, blocks and resource types of the *)
(* database, the differences are mapped to changes, partly by asking which *)
(* name replaces which, and the changes are written as the statements of   *)
(* an upgrade and of a downgrade, in a fixed order.                        *)
(*                                                                         *)
(* The models and the database have the same shape.  Every link starts at  *)
(* its owner: a product has fixed inputs and blocks, a block has resource  *)
(* types and blocks it depends on.  Instances of blocks are left out.      *)
(***************************************************************************)
EXTENDS Naturals, FiniteSets, Sequences, SequencesExt

ProductLinks == {"inputs", "productBlocks"}

BlockLinks == {"blockBlocks", "blockTypes"}

Links == ProductLinks \cup BlockLinks

Old(rename) == rename[1]
New(rename) == rename[2]

-----------------------------------------------------------------------------
(* The differences *)

\* The blocks that the models of the products use, directly or not.
ReachedBlocks(models, products) ==
  LET direct == {l[2] : l \in {k \in models.productBlocks : k[1] \in products}}
      reached[n \in 0..Cardinality(models.blocks)] ==
        IF n = 0 THEN direct
        ELSE reached[n - 1] \cup
             {l[2] : l \in {k \in models.blockBlocks : k[1] \in reached[n - 1]}}
  IN  reached[Cardinality(models.blocks)]

\* map_differences_unique compares products that are stored and have a model, and
\* the blocks that these use.
Compared(db, models) ==
  LET known == db.products \cap models.products
  IN  known \cup ReachedBlocks(models, known)

\* diff_product_in_database, diff_product_block_in_database
MissingInDb(db, models, kind) ==
  {l \in models[kind] \ db[kind] : l[1] \in Compared(db, models)}

MissingInModel(db, models, kind) ==
  {l \in db[kind] \ models[kind] : l[1] \in Compared(db, models)}

-----------------------------------------------------------------------------
(* From differences to changes *)

\* generic_mapper lists the differences model by model and groups neighbours with
\* the same name: of several groups with one name the last stays.
Grouped(list) ==
  {list[i] : i \in {j \in DOMAIN list :
     \A k \in j..Len(list) :
       list[k][2] = list[j][2] => \A h \in j..k : list[h][2] = list[j][2]}}

ModelByModel(list) ==
  \A i, k \in DOMAIN list : i < k /\ list[i][1] = list[k][1] =>
    \A h \in i..k : list[h][1] = list[i][1]

generic_mapper(links) == {Grouped(list) : list \in {s \in SetToSeqs(links) : ModelByModel(s)}}

OneToOne(renames) ==
  \A r, q \in renames : (Old(r) = Old(q) \/ New(r) = New(q)) => r = q

TypesOf(links) == {l[2] : l \in links}

\* map_rename_resource_types: the answers may rename a type that no model has any
\* longer to one that is not stored yet, both differences of one block.
map_rename_resource_types(db, models) ==
  LET Gone(b)  == {l[2] : l \in {k \in MissingInModel(db, models, "blockTypes") : k[1] = b}}
                    \ TypesOf(models.blockTypes)
      Fresh(b) == {l[2] : l \in {k \in MissingInDb(db, models, "blockTypes") : k[1] = b}}
                    \ db.types
  IN  {r \in SUBSET (UNION {Gone(b) \X Fresh(b) : b \in models.blocks}) : OneToOne(r)}

\* map_update_product_block_resource_types: one answer per block is kept, the last.
map_update_product_block_resource_types(db, models, renames) ==
  LET offered == {u \in models.blocks \X (db.types \X models.types) :
                    /\ <<u[1], Old(u[2])>> \in MissingInModel(db, models, "blockTypes")
                    /\ <<u[1], New(u[2])>> \in MissingInDb(db, models, "blockTypes")
                    /\ \A r \in renames : Old(r) # Old(u[2]) /\ New(r) # New(u[2])}
  IN  {u \in SUBSET offered : \A v, w \in u : v[1] = w[1] => v = w}

\* map_update_fixed_inputs offers to rename when exactly one name differs.
map_update_fixed_inputs(db, models) ==
  LET Of(p, links) == {l[2] : l \in {k \in links : k[1] = p}}
      offered ==
        {u \in models.products \X (TypesOf(db.inputs) \X TypesOf(models.inputs)) :
           /\ Of(u[1], MissingInModel(db, models, "inputs")) = {Old(u[2])}
           /\ Of(u[1], MissingInDb(db, models, "inputs")) = {New(u[2])}}
  IN  SUBSET offered

\* remove_updated_properties: what a rename or an update of that owner takes care of.
Updated(db, models, renames, updates) ==
  LET dropped == MissingInModel(db, models, "blockTypes")
      added   == MissingInDb(db, models, "blockTypes")
      both    == {u \in models.blocks \X renames :
                    <<u[1], Old(u[2])>> \in dropped /\ <<u[1], New(u[2])>> \in added}
      all     == both \cup updates
  IN  [old |-> {<<u[1], Old(u[2])>> : u \in all}, new |-> {<<u[1], New(u[2])>> : u \in all}]

\* map_product_additional_relations and map_product_block_additional_relations: the
\* links of what is created.
Additional(db, models, kind) ==
  {l \in models[kind] : l[1] \notin IF kind \in ProductLinks THEN db.products ELSE db.blocks}

\* Links of one kind to create and to delete, but for those that are done already.
CreatedLinks(db, models, done, kind) ==
  {g \cup Additional(db, models, kind) :
     g \in generic_mapper(MissingInDb(db, models, kind) \ done)}

DeletedLinks(db, models, done, kind) ==
  generic_mapper(MissingInModel(db, models, kind) \ done)

\* map_changes for given answers, when `new' is to be linked and `gone' unlinked.
ChangesOf(db, models, renames, updates, inputs, new, gone) ==
  [renames |-> renames, updates |-> updates, inputUpdates |-> inputs,
   created |-> [products |-> models.products \ db.products,
                blocks |-> models.blocks \ db.blocks,
                inputs |-> new.inputs, productBlocks |-> new.productBlocks,
                blockBlocks |-> new.blockBlocks, blockTypes |-> new.blockTypes,
                types |-> (TypesOf(new.blockTypes) \cup {New(u[2]) : u \in updates})
                            \ (db.types \cup {New(r) : r \in renames})],
   deleted |-> [products |-> db.products \ models.products,
                blocks |-> db.blocks \ models.blocks,
                inputs |-> gone.inputs, productBlocks |-> gone.productBlocks,
                blockBlocks |-> gone.blockBlocks, blockTypes |-> gone.blockTypes,
                types |-> (TypesOf(gone.blockTypes) \cap db.types)
                            \ (TypesOf(models.blockTypes) \cup {Old(r) : r \in renames})]]

ChangesFor(db, models, renames, updates, inputs) ==
  LET done == Updated(db, models, renames, updates \cup inputs)
      C(kind) == CreatedLinks(db, models, done.new, kind)
      D(kind) == DeletedLinks(db, models, done.old, kind)
  IN  {ChangesOf(db, models, renames, updates, inputs, new, gone) :
         new \in [inputs : C("inputs"), productBlocks : C("productBlocks"),
                  blockBlocks : C("blockBlocks"), blockTypes : C("blockTypes")],
         gone \in [inputs : D("inputs"), productBlocks : D("productBlocks"),
                   blockBlocks : D("blockBlocks"), blockTypes : D("blockTypes")]}

\* All answers.
map_changes(db, models) ==
  UNION {UNION {ChangesFor(db, models, renames, updates, inputs) :
                  updates \in map_update_product_block_resource_types(db, models, renames),
                  inputs \in map_update_fixed_inputs(db, models)} :
           renames \in map_rename_resource_types(db, models)}

-----------------------------------------------------------------------------
(* The statements *)

\* generate_delete_resource_type_relations_sql, and so on for every kind of link.
UnlinkTypes(db, links) == [db EXCEPT !.blockTypes = @ \ links]
UnlinkBlocks(db, links) == [db EXCEPT !.blockBlocks = @ \ links]
UnlinkProducts(db, links) == [db EXCEPT !.productBlocks = @ \ links]
DropInputs(db, inputs) == [db EXCEPT !.inputs = @ \ inputs]

\* generate_create_resource_type_relations_sql, and so on.
LinkTypes(db, links) == [db EXCEPT !.blockTypes = @ \cup links]
LinkBlocks(db, links) == [db EXCEPT !.blockBlocks = @ \cup links]
LinkProducts(db, links) == [db EXCEPT !.productBlocks = @ \cup links]
InsertInputs(db, inputs) == [db EXCEPT !.inputs = @ \cup inputs]

InsertProducts(db, products) == [db EXCEPT !.products = @ \cup products]
InsertBlocks(db, blocks) == [db EXCEPT !.blocks = @ \cup blocks]
InsertTypes(db, types) == [db EXCEPT !.types = @ \cup types]

\* Foreign keys delete the links of what is deleted.
DropTypes(db, types) ==
  [db EXCEPT !.types = @ \ types,
             !.blockTypes = {l \in @ : l[2] \notin types}]

DropBlocks(db, blocks) ==
  [db EXCEPT !.blocks = @ \ blocks,
             !.blockTypes = {l \in @ : l[1] \notin blocks},
             !.blockBlocks = {l \in @ : {l[1], l[2]} \cap blocks = {}},
             !.productBlocks = {l \in @ : l[2] \notin blocks}]

DropProducts(db, products) ==
  [db EXCEPT !.products = @ \ products,
             !.inputs = {l \in @ : l[1] \notin products},
             !.productBlocks = {l \in @ : l[1] \notin products}]

\* A name after renames.
NameOf(name, renames) ==
  IF \E r \in renames : Old(r) = name
  THEN New(CHOOSE r \in renames : Old(r) = name) ELSE name

RenameTypes(db, renames) ==
  [db EXCEPT !.types = {NameOf(t, renames) : t \in @},
             !.blockTypes = {<<l[1], NameOf(l[2], renames)>> : l \in @}]

\* Updates of one owner's links.
UpdateLinks(db, kind, updates) ==
  [db EXCEPT ![kind] =
     {<<l[1], NameOf(l[2], {u[2] : u \in {v \in updates : v[1] = l[1]}})>> : l \in @}]

\* generate_upgrade_sql
Upgraded(db, c) ==
  LET renamed  == RenameTypes(UpdateLinks(db, "inputs", c.inputUpdates), c.renames)
      unlinked == UnlinkProducts(
                    UnlinkBlocks(UnlinkTypes(renamed, c.deleted.blockTypes),
                                 c.deleted.blockBlocks),
                    c.deleted.productBlocks)
      dropped  == DropBlocks(DropTypes(unlinked, c.deleted.types), c.deleted.blocks)
      left     == DropProducts(DropInputs(dropped, c.deleted.inputs), c.deleted.products)
      products == InsertInputs(InsertProducts(left, c.created.products), c.created.inputs)
      created  == InsertTypes(InsertBlocks(products, c.created.blocks), c.created.types)
      updated  == UpdateLinks(created, "blockTypes", c.updates)
  IN  LinkTypes(LinkBlocks(LinkProducts(updated, c.created.productBlocks),
                           c.created.blockBlocks),
                c.created.blockTypes)

Reversed(updates) == {<<u[1], <<New(u[2]), Old(u[2])>>>> : u \in updates}

\* Faulty: the new types are deleted before the blocks have their old ones again.
RevertTypes_First(db, c) ==
  UpdateLinks(DropTypes(UnlinkTypes(db, c.created.blockTypes), c.created.types),
              "blockTypes", Reversed(c.updates))

RevertTypes(db, c) ==
  DropTypes(UpdateLinks(UnlinkTypes(db, c.created.blockTypes), "blockTypes", Reversed(c.updates)),
            c.created.types)

\* generate_downgrade_sql: of what the upgrade deleted, fixed inputs come back.
Downgraded(db, c) ==
  LET unlinked == UnlinkBlocks(UnlinkProducts(RevertTypes(db, c), c.created.productBlocks),
                               c.created.blockBlocks)
      dropped  == DropProducts(DropBlocks(DropInputs(unlinked, c.created.inputs),
                                          c.created.blocks),
                               c.created.products)
      inputs   == InsertInputs(dropped, c.deleted.inputs)
  IN  UpdateLinks(RenameTypes(inputs, {<<New(r), Old(r)>> : r \in c.renames}),
                  "inputs", Reversed(c.inputUpdates))

-----------------------------------------------------------------------------
(* The inputs and what is claimed of them *)

\* Models of the products with these links; blocks and types are those in use.
ModelsOf(products, inputs, productBlocks, blockBlocks, blockTypes) ==
  LET direct == {l[2] : l \in productBlocks}
      blocks == direct \cup {l[2] : l \in {k \in blockBlocks : k[1] \in direct}}
      used   == {l \in blockTypes : l[1] \in blocks}
  IN  [products |-> products, blocks |-> blocks, types |-> TypesOf(used), inputs |-> inputs,
       productBlocks |-> productBlocks,
       blockBlocks |-> {l \in blockBlocks : l[1] \in blocks}, blockTypes |-> used]

\* Which products there are and which of two blocks they use.
ProductsWithBlocks ==
  {<<{"P"}, links>> : links \in SUBSET ({"P"} \X {"X", "Y"})} \cup
  {<<{"P", "Q"}, links>> :
     links \in {{}, {<<"P", "X">>, <<"Q", "Y">>},
               {<<"P", "X">>, <<"P", "Y">>, <<"Q", "X">>}}}

\* Block X may use block Y; each has any of two resource types.
BlockModels ==
  {ModelsOf(p[1], {}, p[2], nested, types) :
     p \in ProductsWithBlocks, nested \in SUBSET {<<"X", "Y">>},
     types \in SUBSET ({"X", "Y"} \X {"a", "b"})}

\* Products with fixed inputs.
InputModels ==
  {ModelsOf(products, inputs, {}, {}, {}) :
     products \in {{"P"}, {"P", "Q"}}, inputs \in SUBSET ({"P"} \X {"f", "g"})}

Pairs == (BlockModels \X BlockModels) \cup (InputModels \X InputModels)

\* Resource types that no block has any longer may stay.
Agrees(db, models) ==
  /\ \A part \in {"products", "blocks"} \cup Links : db[part] = models[part]
  /\ models.types \subseteq db.types

\* The databases after some migrations, whatever is answered.
Migrated(db, models, rounds) ==
  LET after[n \in 0..rounds] ==
        IF n = 0 THEN {db}
        ELSE UNION {{Upgraded(d, c) : c \in map_changes(d, models)} : d \in after[n - 1]}
  IN  after[rounds]

Rounds == 2

\* One migration may leave differences; when it is repeated, they disappear.
MigrationConverges(pairs) ==
  \A pair \in pairs : \A db \in Migrated(pair[1], pair[2], Rounds) : Agrees(db, pair[2])

DeletesOnlyInputs(c) ==
  \A part \in {"products", "blocks", "types", "productBlocks", "blockBlocks", "blockTypes"} :
    c.deleted[part] = {}

\* A downgrade undoes an upgrade that deleted nothing but fixed inputs.
MigrationReverts(pairs) ==
  \A pair \in pairs : \A c \in map_changes(pair[1], pair[2]) :
    DeletesOnlyInputs(c) => Downgraded(Upgraded(pair[1], c), c) = pair[1]
=============================================================================
