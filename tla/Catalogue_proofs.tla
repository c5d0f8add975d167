--------------------------- MODULE Catalogue_proofs ---------------------------
(* Migrations of every catalogue: what delete() leaves of what create() has   *)
(* made, what the conversion of relations keeps, and what a downgrade that    *)
(* `db migrate-domain-models' wrote undoes.                                   *)
EXTENDS Catalogue, ModelMigration, TLAPS

TableNames ==
  {"products", "blocks", "types", "workflows",
   "productBlocks", "blockTypes", "blockRelations", "productWorkflows"}

\* A record with these tables and nothing else.
IsRecord(db) == db = [t \in TableNames |-> db[t]]

\* What the foreign keys guarantee of the database.
IsCatalogue(db) ==
  /\ IsRecord(db)
  /\ db.productBlocks \subseteq db.products \X db.blocks
  /\ db.blockTypes \subseteq db.blocks \X db.types
  /\ db.blockRelations \subseteq db.blocks \X db.blocks
  /\ db.productWorkflows \subseteq db.products \X db.workflows

\* What create() and delete() are given: the blocks of a product and the relations of a
\* block are written below its name, the types below that of a block which may be stored
\* already, and the products of a workflow are found by its tag.
IsMigration(new) ==
  /\ \A l \in new.productBlocks : l[1] \in new.products
  /\ \A l \in new.blockTypes : l[2] \in new.types
  /\ \A r \in new.blockRelations : r[1] \in new.blocks
  /\ \A l \in new.productWorkflows : l[2] \in new.workflows

-----------------------------------------------------------------------------
\* The tables are the fields.
LEMMA TablesOfRecord ==
  ASSUME NEW db, IsRecord(db)
  PROVE  DOMAIN db = TableNames
BY DEF IsRecord

\* Databases with the same tables are the same.
LEMMA SameTables ==
  ASSUME NEW db, NEW other, IsRecord(db), IsRecord(other),
         \A t \in TableNames : db[t] = other[t]
  PROVE  db = other
BY DEF IsRecord

\* The tables after an upgrade, one by one.
LEMMA UpgradeTables ==
  ASSUME NEW db, NEW new, IsRecord(db), ~ CreateRaises(db, new)
  PROVE  /\ IsRecord(Upgrade(db, new))
         /\ Upgrade(db, new).products = db.products \cup new.products
         /\ Upgrade(db, new).blocks = db.blocks \cup new.blocks
         /\ Upgrade(db, new).types = db.types \cup new.types
         /\ Upgrade(db, new).workflows = db.workflows \cup new.workflows
         /\ Upgrade(db, new).productBlocks = db.productBlocks \cup new.productBlocks
         /\ Upgrade(db, new).blockRelations = db.blockRelations \cup new.blockRelations
         /\ Upgrade(db, new).blockTypes =
              db.blockTypes \cup {l \in new.blockTypes : l[1] \in db.blocks \cup new.blocks}
         /\ Upgrade(db, new).productWorkflows =
              (db.productWorkflows \cup
                 {l \in new.productWorkflows : l[1] \in db.products \cup new.products})
              \cup ((db.products \cup new.products) \X
                      ((db.workflows \cup new.workflows) \cap DEFAULT_PRODUCT_WORKFLOWS))
<1> DEFINE one   == CreateBlocks(db, new)
           two   == CreateProducts(one, new)
           three == CreateTypes(two, new)
           four  == CreateWorkflows(three, new)
           five  == ensure_default_workflows(four)
<1>1. /\ IsRecord(one)
      /\ one.blocks = db.blocks \cup new.blocks
      /\ one.blockRelations = db.blockRelations \cup new.blockRelations
      /\ \A t \in TableNames \ {"blocks", "blockRelations"} : one[t] = db[t]
  BY TablesOfRecord DEF CreateBlocks, IsRecord, TableNames
<1> HIDE DEF one
<1>2. /\ IsRecord(two)
      /\ two.products = one.products \cup new.products
      /\ two.productBlocks = one.productBlocks \cup new.productBlocks
      /\ \A t \in TableNames \ {"products", "productBlocks"} : two[t] = one[t]
  BY <1>1, TablesOfRecord DEF CreateProducts, IsRecord, TableNames
<1> HIDE DEF two
<1>3. /\ IsRecord(three)
      /\ three.types = two.types \cup new.types
      /\ three.blockTypes =
           two.blockTypes \cup {l \in new.blockTypes : l[1] \in two.blocks}
      /\ \A t \in TableNames \ {"types", "blockTypes"} : three[t] = two[t]
  BY <1>2, TablesOfRecord DEF CreateTypes, IsRecord, TableNames
<1> HIDE DEF three
<1>4. /\ IsRecord(four)
      /\ four.workflows = three.workflows \cup new.workflows
      /\ four.productWorkflows =
           three.productWorkflows \cup {l \in new.productWorkflows : l[1] \in three.products}
      /\ \A t \in TableNames \ {"workflows", "productWorkflows"} : four[t] = three[t]
  BY <1>3, TablesOfRecord DEF CreateWorkflows, IsRecord, TableNames
<1> HIDE DEF four
<1>5. /\ IsRecord(five)
      /\ five.productWorkflows = four.productWorkflows \cup
           (four.products \X (four.workflows \cap DEFAULT_PRODUCT_WORKFLOWS))
      /\ \A t \in TableNames \ {"productWorkflows"} : five[t] = four[t]
  BY <1>4, TablesOfRecord DEF ensure_default_workflows, IsRecord, TableNames
<1> HIDE DEF five
<1>6. Upgrade(db, new) = five
  BY DEF Upgrade, one, two, three, four, five
<1>7. /\ five.products = db.products \cup new.products
      /\ five.blocks = db.blocks \cup new.blocks
      /\ five.types = db.types \cup new.types
      /\ five.workflows = db.workflows \cup new.workflows
      /\ five.productBlocks = db.productBlocks \cup new.productBlocks
      /\ five.blockRelations = db.blockRelations \cup new.blockRelations
  BY <1>1, <1>2, <1>3, <1>4, <1>5 DEF TableNames
<1>8. five.blockTypes =
        db.blockTypes \cup {l \in new.blockTypes : l[1] \in db.blocks \cup new.blocks}
  BY <1>1, <1>2, <1>3, <1>4, <1>5 DEF TableNames
<1>9. five.productWorkflows =
        (db.productWorkflows \cup
           {l \in new.productWorkflows : l[1] \in db.products \cup new.products})
        \cup ((db.products \cup new.products) \X
                ((db.workflows \cup new.workflows) \cap DEFAULT_PRODUCT_WORKFLOWS))
  BY <1>1, <1>2, <1>3, <1>4, <1>5 DEF TableNames
<1> QED
  BY <1>5, <1>6, <1>7, <1>8, <1>9

\* The tables after a downgrade, one by one.
LEMMA DowngradeTables ==
  ASSUME NEW db, NEW old, IsRecord(db)
  PROVE  /\ IsRecord(Downgrade(db, old))
         /\ Downgrade(db, old).products = db.products \ old.products
         /\ Downgrade(db, old).blocks = db.blocks \ old.blocks
         /\ Downgrade(db, old).types = db.types \ old.types
         /\ Downgrade(db, old).workflows = db.workflows \ old.workflows
         /\ Downgrade(db, old).productBlocks =
              {l \in db.productBlocks : l[2] \notin old.blocks /\ l[1] \notin old.products}
         /\ Downgrade(db, old).blockRelations =
              {r \in db.blockRelations : old.blocks \cap {r[1], r[2]} = {}}
         /\ Downgrade(db, old).blockTypes =
              {l \in db.blockTypes : l[2] \notin old.types /\ l[1] \notin old.blocks}
         /\ Downgrade(db, old).productWorkflows =
              {l \in db.productWorkflows : l[1] \notin old.products /\ l[2] \notin old.workflows}
<1> DEFINE one   == DeleteTypes(db, old.types)
           two   == DeleteProductBlocks(one, old.blocks)
           three == DeleteProducts(two, old.products)
           four  == DeleteWorkflows(three, old.workflows)
<1>1. /\ IsRecord(one)
      /\ one.types = db.types \ old.types
      /\ one.blockTypes = {l \in db.blockTypes : l[2] \notin old.types}
      /\ \A t \in TableNames \ {"types", "blockTypes"} : one[t] = db[t]
  BY TablesOfRecord DEF DeleteTypes, IsRecord, TableNames
<1> HIDE DEF one
<1>2. /\ IsRecord(two)
      /\ two.blocks = one.blocks \ old.blocks
      /\ two.productBlocks = {l \in one.productBlocks : l[2] \notin old.blocks}
      /\ two.blockTypes = {l \in one.blockTypes : l[1] \notin old.blocks}
      /\ two.blockRelations =
           {r \in one.blockRelations : old.blocks \cap {r[1], r[2]} = {}}
      /\ \A t \in {"products", "types", "workflows", "productWorkflows"} : two[t] = one[t]
  BY <1>1, TablesOfRecord DEF DeleteProductBlocks, IsRecord, TableNames
<1> HIDE DEF two
<1>3. /\ IsRecord(three)
      /\ three.products = two.products \ old.products
      /\ three.productBlocks = {l \in two.productBlocks : l[1] \notin old.products}
      /\ three.productWorkflows = {l \in two.productWorkflows : l[1] \notin old.products}
      /\ \A t \in TableNames \ {"products", "productBlocks", "productWorkflows"} :
           three[t] = two[t]
  BY <1>2, TablesOfRecord DEF DeleteProducts, IsRecord, TableNames
<1> HIDE DEF three
<1>4. /\ IsRecord(four)
      /\ four.workflows = three.workflows \ old.workflows
      /\ four.productWorkflows = {l \in three.productWorkflows : l[2] \notin old.workflows}
      /\ \A t \in TableNames \ {"workflows", "productWorkflows"} : four[t] = three[t]
  BY <1>3, TablesOfRecord DEF DeleteWorkflows, IsRecord, TableNames
<1> HIDE DEF four
<1>5. Downgrade(db, old) = four
  BY DEF Downgrade, one, two, three, four
<1>6. /\ four.products = db.products \ old.products
      /\ four.blocks = db.blocks \ old.blocks
      /\ four.types = db.types \ old.types
      /\ four.workflows = db.workflows \ old.workflows
      /\ four.blockRelations =
           {r \in db.blockRelations : old.blocks \cap {r[1], r[2]} = {}}
  BY <1>1, <1>2, <1>3, <1>4 DEF TableNames
<1>7. four.productBlocks =
        {l \in db.productBlocks : l[2] \notin old.blocks /\ l[1] \notin old.products}
  BY <1>1, <1>2, <1>3, <1>4 DEF TableNames
<1>8. four.blockTypes =
        {l \in db.blockTypes : l[2] \notin old.types /\ l[1] \notin old.blocks}
  BY <1>1, <1>2, <1>3, <1>4 DEF TableNames
<1>9. four.productWorkflows =
        {l \in db.productWorkflows : l[1] \notin old.products /\ l[2] \notin old.workflows}
  BY <1>1, <1>2, <1>3, <1>4 DEF TableNames
<1> QED
  BY <1>4, <1>5, <1>6, <1>7, <1>8, <1>9

\* ensure_default_workflows writes one table.
LEMMA DefaultTables ==
  ASSUME NEW db, IsRecord(db)
  PROVE  /\ ensure_default_workflows(db).productWorkflows = db.productWorkflows \cup
              (db.products \X (db.workflows \cap DEFAULT_PRODUCT_WORKFLOWS))
         /\ \A t \in TableNames \ {"productWorkflows"} : ensure_default_workflows(db)[t] = db[t]
BY TablesOfRecord DEF ensure_default_workflows, TableNames

\* Links between what is left: those that are stored and none that came with the upgrade.
LEMMA LinksLeft ==
  ASSUME NEW A, NEW B, NEW C, NEW D, NEW links, NEW more,
         links \subseteq A \X B,
         \A l \in more : l[1] \in C \/ l[2] \in D
  PROVE  {l \in links \cup more : l[1] \notin C /\ l[2] \notin D}
           = links \cap ((A \ C) \X (B \ D))
OBVIOUS

\* A downgrade takes away what its upgrade has brought, and of what was there before
\* what it names: nothing else is lost and no link is left that leads nowhere.
THEOREM DowngradeUndoes ==
  ASSUME NEW db, NEW new, IsCatalogue(db), IsMigration(new), ~ CreateRaises(db, new)
  PROVE  Downgrade(Upgrade(db, new), new) = Without(ensure_default_workflows(db), new)
<1> DEFINE up == Upgrade(db, new)
           down == Downgrade(up, new)
           all == ensure_default_workflows(db)
<1>1. IsRecord(db)
  BY DEF IsCatalogue
<1>2. IsRecord(up) /\ IsRecord(down)
  BY <1>1, UpgradeTables, DowngradeTables
<1>3. /\ down.products = db.products \ new.products
      /\ down.blocks = db.blocks \ new.blocks
      /\ down.types = db.types \ new.types
      /\ down.workflows = db.workflows \ new.workflows
  BY <1>1, <1>2, UpgradeTables, DowngradeTables
<1>4. down.productBlocks = db.productBlocks \cap
        ((db.products \ new.products) \X (db.blocks \ new.blocks))
  <2>1. down.productBlocks =
          {l \in db.productBlocks \cup new.productBlocks :
             l[2] \notin new.blocks /\ l[1] \notin new.products}
    BY <1>1, <1>2, UpgradeTables, DowngradeTables
  <2> QED
    BY <2>1, LinksLeft DEF IsCatalogue, IsMigration
<1>5. down.blockTypes = db.blockTypes \cap
        ((db.blocks \ new.blocks) \X (db.types \ new.types))
  <2>1. down.blockTypes =
          {l \in db.blockTypes \cup
                   {k \in new.blockTypes : k[1] \in db.blocks \cup new.blocks} :
             l[2] \notin new.types /\ l[1] \notin new.blocks}
    BY <1>1, <1>2, UpgradeTables, DowngradeTables
  <2> QED
    BY <2>1, LinksLeft DEF IsCatalogue, IsMigration
<1>6. down.blockRelations = db.blockRelations \cap
        ((db.blocks \ new.blocks) \X (db.blocks \ new.blocks))
  <2>1. down.blockRelations =
          {r \in db.blockRelations \cup new.blockRelations :
             new.blocks \cap {r[1], r[2]} = {}}
    BY <1>1, <1>2, UpgradeTables, DowngradeTables
  <2>2. down.blockRelations =
          {r \in db.blockRelations \cup new.blockRelations :
             r[1] \notin new.blocks /\ r[2] \notin new.blocks}
    BY <2>1
  <2> QED
    BY <2>2, LinksLeft DEF IsCatalogue, IsMigration
<1>7. down.productWorkflows =
        (db.productWorkflows \cup
           (db.products \X (db.workflows \cap DEFAULT_PRODUCT_WORKFLOWS)))
        \cap ((db.products \ new.products) \X (db.workflows \ new.workflows))
  <2> DEFINE linked == db.productWorkflows \cup
                         (db.products \X (db.workflows \cap DEFAULT_PRODUCT_WORKFLOWS))
             own == {l \in new.productWorkflows : l[1] \in db.products \cup new.products}
             pairs == (db.products \cup new.products) \X
                        ((db.workflows \cup new.workflows) \cap DEFAULT_PRODUCT_WORKFLOWS)
             more == own \cup {l \in pairs : l[1] \in new.products \/ l[2] \in new.workflows}
  <2>1. down.productWorkflows =
          {l \in (db.productWorkflows \cup own) \cup pairs :
             l[1] \notin new.products /\ l[2] \notin new.workflows}
    BY <1>1, <1>2, UpgradeTables, DowngradeTables
  <2>2. (db.productWorkflows \cup own) \cup pairs = linked \cup more
    OBVIOUS
  <2>3. linked \subseteq db.products \X db.workflows
    BY DEF IsCatalogue
  <2>4. \A l \in more : l[1] \in new.products \/ l[2] \in new.workflows
    BY DEF IsMigration
  <2> HIDE DEF linked, own, pairs, more
  <2>5. down.productWorkflows =
          linked \cap ((db.products \ new.products) \X (db.workflows \ new.workflows))
    BY <2>1, <2>2, <2>3, <2>4, LinksLeft
  <2> QED
    BY <2>5 DEF linked
<1>8. /\ all.products = db.products /\ all.blocks = db.blocks /\ all.types = db.types
      /\ all.workflows = db.workflows /\ all.productBlocks = db.productBlocks
      /\ all.blockTypes = db.blockTypes /\ all.blockRelations = db.blockRelations
      /\ all.productWorkflows = db.productWorkflows \cup
           (db.products \X (db.workflows \cap DEFAULT_PRODUCT_WORKFLOWS))
  BY <1>1, DefaultTables DEF TableNames
<1> HIDE DEF up, down, all
<1> QED
  <2>1. down = Without(all, new)
    <3>1. IsRecord(Without(all, new))
      BY DEF Without, IsRecord, TableNames
    <3>2. /\ down.products = Without(all, new).products
          /\ down.blocks = Without(all, new).blocks
          /\ down.types = Without(all, new).types
          /\ down.workflows = Without(all, new).workflows
      BY <1>3, <1>8 DEF Without
    <3>3. down.productBlocks = Without(all, new).productBlocks
      BY <1>4, <1>8 DEF Without
    <3>4. down.blockTypes = Without(all, new).blockTypes
      BY <1>5, <1>8 DEF Without
    <3>5. down.blockRelations = Without(all, new).blockRelations
      BY <1>6, <1>8 DEF Without
    <3>6. down.productWorkflows = Without(all, new).productWorkflows
      BY <1>7, <1>8 DEF Without
    <3>7. \A t \in TableNames : down[t] = Without(all, new)[t]
      BY <3>2, <3>3, <3>4, <3>5, <3>6 DEF TableNames
    <3> QED
      BY <1>2, <3>1, <3>7, SameTables
  <2> QED
    BY <2>1 DEF up, down, all

-----------------------------------------------------------------------------
\* The rows that the conversion inserts are new, and there is one for every pair of an
\* instance and one of a subscription it has used, unless a relation has its key.
THEOREM ConversionLosesNothing ==
  ASSUME NEW owner, NEW values, NEW relations, NEW rows \in Inserted(owner, values, relations),
         NEW user, NEW used, <<user, used>> \in values
  PROVE  /\ \A i \in UsedInstances(owner, used) :
              \E r \in relations \cup rows : r.inUseBy = user /\ r.dependsOn = i
         /\ UsedInstances(owner, used) # {} =>
              <<user, used>> \in ToValues(owner, rows) \/ relations # {}
<1> DEFINE pairs == UNION {{v[1]} \X UsedInstances(owner, v[2]) : v \in values}
           RowOf(p, n) == [inUseBy |-> p[1], dependsOn |-> p[2], order |-> n[p], attr |-> "new"]
           free(n) == {q \in pairs : ~\E r \in relations :
                         r.inUseBy = q[1] /\ r.dependsOn = q[2] /\ r.order = n[q]}
<1>1. PICK n : rows = {RowOf(p, n) : p \in free(n)}
  BY DEF Inserted
<1>2. \A i \in UsedInstances(owner, used) : <<user, i>> \in pairs
  OBVIOUS
<1>3. ASSUME NEW i \in UsedInstances(owner, used)
      PROVE  \/ \E r \in relations : r.inUseBy = user /\ r.dependsOn = i
             \/ RowOf(<<user, i>>, n) \in rows
  BY <1>1, <1>2
<1>4. ASSUME NEW i \in UsedInstances(owner, used)
      PROVE  /\ RowOf(<<user, i>>, n).inUseBy = user
             /\ RowOf(<<user, i>>, n).dependsOn = i
             /\ RowOf(<<user, i>>, n).attr = "new"
  OBVIOUS
<1>5. \A i \in UsedInstances(owner, used) : owner[i] = used
  BY DEF UsedInstances
<1> HIDE DEF pairs, RowOf, free
<1>6. ASSUME NEW i \in UsedInstances(owner, used)
      PROVE  \E r \in relations \cup rows : r.inUseBy = user /\ r.dependsOn = i
  BY <1>3, <1>4
<1>7. ASSUME UsedInstances(owner, used) # {}, relations = {}
      PROVE  <<user, used>> \in ToValues(owner, rows)
  <2>1. PICK i : i \in UsedInstances(owner, used)
    BY <1>7
  <2>2. RowOf(<<user, i>>, n) \in {q \in rows : q.attr = "new"}
    BY <1>3, <1>4, <1>7, <2>1
  <2>3. <<user, used>> = <<RowOf(<<user, i>>, n).inUseBy, owner[RowOf(<<user, i>>, n).dependsOn]>>
    BY <1>4, <1>5, <2>1
  <2> QED
    BY <2>2, <2>3 DEF ToValues
<1> QED
  BY <1>6, <1>7

-----------------------------------------------------------------------------
\* The catalogues and migrations of the run are such catalogues and migrations.
LEMMA CataloguesAreSuch == \A db \in Catalogues : IsCatalogue(db)
BY DEF Catalogues, IsCatalogue, IsRecord, TableNames

LEMMA MigrationsAreSuch == \A new \in Migrations : IsMigration(new)
BY DEF Migrations, IsMigration

\* What TLC checks of the helpers are instances of the two theorems.
THEOREM HelpersExact == DowngradeExact /\ NoRelationLost
<1>1. DowngradeExact
  BY CataloguesAreSuch, MigrationsAreSuch, DowngradeUndoes DEF DowngradeExact
<1>2. NoRelationLost
  <2> SUFFICES ASSUME NEW owner \in [1..3 -> {"s", "t"}],
                      NEW values \in SUBSET ({1} \X {"s", "t"}),
                      NEW relations \in SUBSET
                        [inUseBy : {1}, dependsOn : {2, 3}, order : {0}, attr : {"old"}],
                      NEW rows \in Inserted(owner, values, relations),
                      NEW v \in values, UsedInstances(owner, v[2]) # {}
               PROVE  /\ \A i \in 1..3 : owner[i] = v[2] =>
                           \E r \in relations \cup rows : r.inUseBy = v[1] /\ r.dependsOn = i
                      /\ v \in ToValues(owner, rows) \/ relations # {}
    BY DEF NoRelationLost
  <2>1. v = <<v[1], v[2]>>
    OBVIOUS
  <2>2. /\ \A i \in UsedInstances(owner, v[2]) :
             \E r \in relations \cup rows : r.inUseBy = v[1] /\ r.dependsOn = i
        /\ v \in ToValues(owner, rows) \/ relations # {}
    BY <2>1, ConversionLosesNothing
  <2>3. \A i \in 1..3 : owner[i] = v[2] => i \in UsedInstances(owner, v[2])
    BY DEF UsedInstances
  <2> QED
    BY <2>2, <2>3
<1> QED
  BY <1>1, <1>2

-----------------------------------------------------------------------------
(* Migrations of models *)

\* The parts of a database or of the models.
PartNames == {"products", "blocks", "types"} \cup Links

IsParts(db) == db = [part \in PartNames |-> db[part]]

\* What the foreign keys guarantee of the database, and what the models are by their shape.
IsModelled(db) ==
  /\ IsParts(db)
  /\ \A l \in db.inputs \cup db.productBlocks : l = <<l[1], l[2]>> /\ l[1] \in db.products
  /\ \A l \in db.blockBlocks \cup db.blockTypes : l = <<l[1], l[2]>> /\ l[1] \in db.blocks
  /\ \A l \in db.productBlocks \cup db.blockBlocks : l[2] \in db.blocks
  /\ \A l \in db.blockTypes : l[2] \in db.types

\* Links after renames, and after updates of some owners.
Renamed(links, renames) == {<<l[1], NameOf(l[2], renames)>> : l \in links}

RenamedTypes(types, renames) == {NameOf(t, renames) : t \in types}

\* Links that neither start nor end there.
Outside(links, owners, ends) == {l \in links : l[1] \notin owners /\ l[2] \notin ends}

UpdatesOf(updates, owner) == {u[2] : u \in {v \in updates : v[1] = owner}}

Changed(links, updates) == {<<l[1], NameOf(l[2], UpdatesOf(updates, l[1]))>> : l \in links}

Backwards(renames) == {<<New(r), Old(r)>> : r \in renames}

-----------------------------------------------------------------------------
\* Renames leave other names alone.
LEMMA NameMissed ==
  ASSUME NEW renames, NEW name, \A r \in renames : Old(r) # name
  PROVE  NameOf(name, renames) = name
BY DEF NameOf

\* A name is replaced by the one rename that has it.
LEMMA NameFound ==
  ASSUME NEW renames, NEW r \in renames, \A q \in renames : Old(q) = Old(r) => q = r
  PROVE  NameOf(Old(r), renames) = New(r)
<1> DEFINE chosen == CHOOSE q \in renames : Old(q) = Old(r)
<1>1. chosen \in renames /\ Old(chosen) = Old(r)
  OBVIOUS
<1>2. chosen = r
  BY <1>1
<1> QED
  BY <1>2 DEF NameOf

\* A name is kept or replaced.
LEMMA NameIs ==
  ASSUME NEW renames, OneToOne(renames), NEW name
  PROVE  \/ NameOf(name, renames) = name /\ \A r \in renames : Old(r) # name
         \/ \E r \in renames : Old(r) = name /\ NameOf(name, renames) = New(r)
<1>1. CASE \A r \in renames : Old(r) # name
  BY <1>1, NameMissed
<1>2. CASE \E r \in renames : Old(r) = name
  <2>1. PICK r \in renames : Old(r) = name
    BY <1>2
  <2> QED
    BY <2>1, NameFound DEF OneToOne
<1> QED
  BY <1>1, <1>2

\* Renaming to names that were not there can be undone.
LEMMA NameBack ==
  ASSUME NEW renames, OneToOne(renames), NEW name, \A r \in renames : New(r) # name
  PROVE  NameOf(NameOf(name, renames), Backwards(renames)) = name
<1>1. \A q \in Backwards(renames) : \E r \in renames : Old(q) = New(r) /\ New(q) = Old(r)
  BY DEF Backwards, Old, New
<1>2. CASE NameOf(name, renames) = name /\ \A r \in renames : Old(r) # name
  BY <1>1, <1>2, NameMissed
<1>3. CASE \E r \in renames : Old(r) = name /\ NameOf(name, renames) = New(r)
  <2>1. PICK r \in renames : Old(r) = name /\ NameOf(name, renames) = New(r)
    BY <1>3
  <2> DEFINE back == <<New(r), Old(r)>>
  <2>2. back \in Backwards(renames) /\ Old(back) = New(r) /\ New(back) = Old(r)
    BY DEF Backwards, Old, New
  <2>3. \A q \in Backwards(renames) : Old(q) = Old(back) => q = back
    BY <2>2 DEF Backwards, OneToOne, Old, New
  <2> HIDE DEF back
  <2>4. NameOf(Old(back), Backwards(renames)) = New(back)
    BY <2>2, <2>3, NameFound
  <2> QED
    BY <2>1, <2>2, <2>4
<1> QED
  BY <1>2, <1>3, NameIs

\* So can the renames of all links, and of all types.
LEMMA LinksBack ==
  ASSUME NEW links, \A l \in links : l = <<l[1], l[2]>>,
         NEW renames, OneToOne(renames),
         \A l \in links : \A r \in renames : New(r) # l[2]
  PROVE  Renamed(Renamed(links, renames), Backwards(renames)) = links
<1>1. \A l \in links :
        <<l[1], NameOf(NameOf(l[2], renames), Backwards(renames))>> = l
  BY NameBack
<1> DEFINE back == Renamed(Renamed(links, renames), Backwards(renames))
<1>2. ASSUME NEW l \in links PROVE l \in back
  <2>1. <<l[1], NameOf(l[2], renames)>> \in Renamed(links, renames)
    BY DEF Renamed
  <2>2. <<l[1], NameOf(NameOf(l[2], renames), Backwards(renames))>> \in back
    BY <2>1 DEF Renamed
  <2> QED
    BY <1>1, <2>2
<1>3. ASSUME NEW l \in back PROVE l \in links
  <2>1. PICK k \in Renamed(links, renames) : l = <<k[1], NameOf(k[2], Backwards(renames))>>
    BY DEF Renamed
  <2>2. PICK m \in links : k = <<m[1], NameOf(m[2], renames)>>
    BY DEF Renamed
  <2> QED
    BY <1>1, <2>1, <2>2
<1> QED
  BY <1>2, <1>3

\* The same of types.
LEMMA TypesBack ==
  ASSUME NEW types, NEW renames, OneToOne(renames), \A r \in renames : New(r) \notin types
  PROVE  RenamedTypes(RenamedTypes(types, renames), Backwards(renames)) = types
<1>1. \A t \in types : NameOf(NameOf(t, renames), Backwards(renames)) = t
  BY NameBack
<1>2. {NameOf(t, Backwards(renames)) : t \in {NameOf(s, renames) : s \in types}} =
        {NameOf(NameOf(s, renames), Backwards(renames)) : s \in types}
  OBVIOUS
<1> QED
  BY <1>1, <1>2 DEF RenamedTypes

\* Every owner has one update at most, to a name that it did not have.
LEMMA UpdatesBack ==
  ASSUME NEW links, \A l \in links : l = <<l[1], l[2]>>,
         NEW updates, \A u, v \in updates : u[1] = v[1] => u = v,
         \A u \in updates : <<u[1], New(u[2])>> \notin links
  PROVE  Changed(Changed(links, updates), Reversed(updates)) = links
<1>1. \A owner : UpdatesOf(Reversed(updates), owner) = Backwards(UpdatesOf(updates, owner))
  <2> SUFFICES ASSUME NEW owner
               PROVE  UpdatesOf(Reversed(updates), owner) = Backwards(UpdatesOf(updates, owner))
    OBVIOUS
  <2>1. \A r \in UpdatesOf(Reversed(updates), owner) :
          \E u \in updates : u[1] = owner /\ r = <<New(u[2]), Old(u[2])>>
    BY DEF UpdatesOf, Reversed
  <2>2. \A u \in updates : u[1] = owner =>
          <<New(u[2]), Old(u[2])>> \in UpdatesOf(Reversed(updates), owner)
    <3> SUFFICES ASSUME NEW u \in updates, u[1] = owner
                 PROVE  <<New(u[2]), Old(u[2])>> \in UpdatesOf(Reversed(updates), owner)
      OBVIOUS
    <3> DEFINE v == <<u[1], <<New(u[2]), Old(u[2])>>>>
    <3>1. v \in Reversed(updates) /\ v[1] = owner /\ v[2] = <<New(u[2]), Old(u[2])>>
      BY DEF Reversed
    <3> HIDE DEF v
    <3> QED
      BY <3>1 DEF UpdatesOf
  <2>3. Backwards(UpdatesOf(updates, owner)) =
          {<<New(r), Old(r)>> : r \in UpdatesOf(updates, owner)}
    BY DEF Backwards
  <2>4. \A r : r \in UpdatesOf(updates, owner) <=>
               \E u \in updates : u[1] = owner /\ r = u[2]
    BY DEF UpdatesOf
  <2> QED
    BY <2>1, <2>2, <2>3, <2>4
<1>2. \A owner : OneToOne(UpdatesOf(updates, owner))
  BY DEF OneToOne, UpdatesOf
<1>3. \A l \in links : \A r \in UpdatesOf(updates, l[1]) : New(r) # l[2]
  BY DEF UpdatesOf
<1>4. \A l \in links :
        NameOf(NameOf(l[2], UpdatesOf(updates, l[1])), UpdatesOf(Reversed(updates), l[1])) = l[2]
  BY <1>1, <1>2, <1>3, NameBack
<1> DEFINE back == Changed(Changed(links, updates), Reversed(updates))
<1>5. ASSUME NEW l \in links PROVE l \in back
  <2> DEFINE k == <<l[1], NameOf(l[2], UpdatesOf(updates, l[1]))>>
  <2>1. k \in Changed(links, updates) /\ k[1] = l[1]
        /\ k[2] = NameOf(l[2], UpdatesOf(updates, l[1]))
    BY DEF Changed
  <2> HIDE DEF k
  <2>2. <<k[1], NameOf(k[2], UpdatesOf(Reversed(updates), k[1]))>> \in back
    BY <2>1 DEF Changed
  <2> QED
    BY <1>4, <2>1, <2>2
<1>6. ASSUME NEW l \in back PROVE l \in links
  <2>1. PICK k \in Changed(links, updates) :
          l = <<k[1], NameOf(k[2], UpdatesOf(Reversed(updates), k[1]))>>
    BY DEF Changed
  <2>2. PICK m \in links : k = <<m[1], NameOf(m[2], UpdatesOf(updates, m[1]))>>
    BY DEF Changed
  <2>3. k[1] = m[1] /\ k[2] = NameOf(m[2], UpdatesOf(updates, m[1]))
    BY <2>2
  <2>4. l = <<m[1], m[2]>>
    BY <1>4, <2>1, <2>3
  <2> QED
    BY <2>4
<1> QED
  BY <1>5, <1>6

-----------------------------------------------------------------------------
\* The parts are the fields.
LEMMA PartsOfRecord ==
  ASSUME NEW db, IsParts(db)
  PROVE  DOMAIN db = PartNames
BY DEF IsParts

\* The database after an upgrade that deletes nothing but fixed inputs, part by part.
LEMMA UpgradedParts ==
  ASSUME NEW db, IsParts(db), NEW c, DeletesOnlyInputs(c)
  PROVE  /\ IsParts(Upgraded(db, c))
         /\ Upgraded(db, c).products = db.products \cup c.created.products
         /\ Upgraded(db, c).blocks = db.blocks \cup c.created.blocks
         /\ Upgraded(db, c).types =
              RenamedTypes(db.types, c.renames) \cup c.created.types
         /\ Upgraded(db, c).inputs =
              (Changed(db.inputs, c.inputUpdates) \ c.deleted.inputs) \cup c.created.inputs
         /\ Upgraded(db, c).productBlocks = db.productBlocks \cup c.created.productBlocks
         /\ Upgraded(db, c).blockBlocks = db.blockBlocks \cup c.created.blockBlocks
         /\ Upgraded(db, c).blockTypes =
              Changed(Renamed(db.blockTypes, c.renames), c.updates) \cup c.created.blockTypes
<1> USE DEF PartNames, Links, ProductLinks, BlockLinks
<1> DEFINE renamed  == RenameTypes(UpdateLinks(db, "inputs", c.inputUpdates), c.renames)
           unlinked == UnlinkProducts(
                         UnlinkBlocks(UnlinkTypes(renamed, c.deleted.blockTypes),
                                      c.deleted.blockBlocks),
                         c.deleted.productBlocks)
           dropped  == DropBlocks(DropTypes(unlinked, c.deleted.types), c.deleted.blocks)
           left     == DropProducts(DropInputs(dropped, c.deleted.inputs), c.deleted.products)
           products == InsertInputs(InsertProducts(left, c.created.products), c.created.inputs)
           created  == InsertTypes(InsertBlocks(products, c.created.blocks), c.created.types)
           updated  == UpdateLinks(created, "blockTypes", c.updates)
           linked   == LinkTypes(LinkBlocks(LinkProducts(updated, c.created.productBlocks),
                                            c.created.blockBlocks),
                                 c.created.blockTypes)
<1>1. /\ IsParts(renamed)
      /\ renamed.types = RenamedTypes(db.types, c.renames)
      /\ renamed.inputs = Changed(db.inputs, c.inputUpdates)
      /\ renamed.blockTypes = Renamed(db.blockTypes, c.renames)
      /\ \A part \in {"products", "blocks", "productBlocks", "blockBlocks"} :
           renamed[part] = db[part]
  <2> DEFINE first == UpdateLinks(db, "inputs", c.inputUpdates)
  <2>1. /\ IsParts(first)
        /\ first.inputs = Changed(db.inputs, c.inputUpdates)
        /\ \A part \in PartNames \ {"inputs"} : first[part] = db[part]
    BY PartsOfRecord DEF UpdateLinks, Changed, UpdatesOf, IsParts
  <2> HIDE DEF first
  <2>2. /\ IsParts(RenameTypes(first, c.renames))
        /\ RenameTypes(first, c.renames).types = RenamedTypes(first.types, c.renames)
        /\ RenameTypes(first, c.renames).blockTypes = Renamed(first.blockTypes, c.renames)
        /\ \A part \in PartNames \ {"types", "blockTypes"} :
             RenameTypes(first, c.renames)[part] = first[part]
    BY <2>1, PartsOfRecord DEF RenameTypes, RenamedTypes, Renamed, IsParts
  <2> QED
    BY <2>1, <2>2 DEF first
<1> HIDE DEF renamed
<1>2. unlinked = renamed
  <2>1. /\ UnlinkTypes(renamed, {}) = renamed /\ UnlinkBlocks(renamed, {}) = renamed
        /\ UnlinkProducts(renamed, {}) = renamed
    BY <1>1, PartsOfRecord DEF UnlinkTypes, UnlinkBlocks, UnlinkProducts, IsParts
  <2> QED
    BY <2>1 DEF DeletesOnlyInputs
<1>3. dropped = renamed
  <2>1. DropTypes(renamed, {}) = renamed /\ DropBlocks(renamed, {}) = renamed
    BY <1>1, PartsOfRecord DEF DropTypes, DropBlocks, IsParts
  <2> QED
    BY <1>2, <2>1 DEF DeletesOnlyInputs
<1> HIDE DEF unlinked, dropped
<1>4. /\ IsParts(left)
      /\ left.inputs = renamed.inputs \ c.deleted.inputs
      /\ \A part \in PartNames \ {"inputs"} : left[part] = renamed[part]
  <2> DEFINE first == DropInputs(renamed, c.deleted.inputs)
  <2>1. /\ IsParts(first)
        /\ first.inputs = renamed.inputs \ c.deleted.inputs
        /\ \A part \in PartNames \ {"inputs"} : first[part] = renamed[part]
    BY <1>1, PartsOfRecord DEF DropInputs, IsParts
  <2> HIDE DEF first
  <2>2. DropProducts(first, {}) = first
    BY <2>1, PartsOfRecord DEF DropProducts, IsParts
  <2> QED
    BY <1>3, <2>1, <2>2 DEF first, DeletesOnlyInputs
<1> HIDE DEF left
<1>5. /\ IsParts(products)
      /\ products.products = left.products \cup c.created.products
      /\ products.inputs = left.inputs \cup c.created.inputs
      /\ \A part \in PartNames \ {"products", "inputs"} : products[part] = left[part]
  BY <1>4, PartsOfRecord DEF InsertProducts, InsertInputs, IsParts
<1> HIDE DEF products
<1>6. /\ IsParts(created)
      /\ created.blocks = products.blocks \cup c.created.blocks
      /\ created.types = products.types \cup c.created.types
      /\ \A part \in PartNames \ {"blocks", "types"} : created[part] = products[part]
  BY <1>5, PartsOfRecord DEF InsertBlocks, InsertTypes, IsParts
<1> HIDE DEF created
<1>7. /\ IsParts(updated)
      /\ updated.blockTypes = Changed(created.blockTypes, c.updates)
      /\ \A part \in PartNames \ {"blockTypes"} : updated[part] = created[part]
  BY <1>6, PartsOfRecord DEF UpdateLinks, Changed, UpdatesOf, IsParts
<1> HIDE DEF updated
<1>8. /\ IsParts(linked)
      /\ linked.productBlocks = updated.productBlocks \cup c.created.productBlocks
      /\ linked.blockBlocks = updated.blockBlocks \cup c.created.blockBlocks
      /\ linked.blockTypes = updated.blockTypes \cup c.created.blockTypes
      /\ \A part \in {"products", "blocks", "types", "inputs"} : linked[part] = updated[part]
  BY <1>7, PartsOfRecord DEF LinkTypes, LinkBlocks, LinkProducts, IsParts
<1> HIDE DEF linked
<1>9. Upgraded(db, c) = linked
  BY DEF Upgraded, renamed, unlinked, dropped, left, products, created, updated, linked
<1> QED
  BY <1>1, <1>4, <1>5, <1>6, <1>7, <1>8, <1>9

\* The database after a downgrade, part by part.
LEMMA DowngradedParts ==
  ASSUME NEW db, IsParts(db), NEW c
  PROVE  /\ IsParts(Downgraded(db, c))
         /\ Downgraded(db, c).products = db.products \ c.created.products
         /\ Downgraded(db, c).blocks = db.blocks \ c.created.blocks
         /\ Downgraded(db, c).types =
              RenamedTypes(db.types \ c.created.types, Backwards(c.renames))
         /\ Downgraded(db, c).inputs =
              Changed(Outside(db.inputs \ c.created.inputs, c.created.products, {})
                        \cup c.deleted.inputs,
                      Reversed(c.inputUpdates))
         /\ Downgraded(db, c).productBlocks =
              Outside(db.productBlocks \ c.created.productBlocks,
                      c.created.products, c.created.blocks)
         /\ Downgraded(db, c).blockBlocks =
              Outside(db.blockBlocks \ c.created.blockBlocks,
                      c.created.blocks, c.created.blocks)
         /\ Downgraded(db, c).blockTypes =
              Renamed(Outside(Changed(db.blockTypes \ c.created.blockTypes, Reversed(c.updates)),
                      c.created.blocks, c.created.types),
                      Backwards(c.renames))
<1> USE DEF PartNames, Links, ProductLinks, BlockLinks
<1> DEFINE reverted == RevertTypes(db, c)
           unlinked == UnlinkBlocks(UnlinkProducts(reverted, c.created.productBlocks),
                                    c.created.blockBlocks)
           blocks   == DropBlocks(DropInputs(unlinked, c.created.inputs), c.created.blocks)
           dropped  == DropProducts(blocks, c.created.products)
           inputs   == InsertInputs(dropped, c.deleted.inputs)
           renamed  == RenameTypes(inputs, {<<New(r), Old(r)>> : r \in c.renames})
           updated  == UpdateLinks(renamed, "inputs", Reversed(c.inputUpdates))
<1>1. /\ IsParts(reverted)
      /\ reverted.types = db.types \ c.created.types
      /\ reverted.blockTypes =
           {l \in Changed(db.blockTypes \ c.created.blockTypes, Reversed(c.updates)) :
              l[2] \notin c.created.types}
      /\ \A part \in PartNames \ {"types", "blockTypes"} : reverted[part] = db[part]
  <2> DEFINE first  == UnlinkTypes(db, c.created.blockTypes)
             second == UpdateLinks(first, "blockTypes", Reversed(c.updates))
  <2>1. /\ IsParts(first)
        /\ first.blockTypes = db.blockTypes \ c.created.blockTypes
        /\ \A part \in PartNames \ {"blockTypes"} : first[part] = db[part]
    BY PartsOfRecord DEF UnlinkTypes, IsParts
  <2> HIDE DEF first
  <2>2. /\ IsParts(second)
        /\ second.blockTypes = Changed(first.blockTypes, Reversed(c.updates))
        /\ \A part \in PartNames \ {"blockTypes"} : second[part] = first[part]
    BY <2>1, PartsOfRecord DEF UpdateLinks, Changed, UpdatesOf, IsParts
  <2> HIDE DEF second
  <2>3. /\ IsParts(DropTypes(second, c.created.types))
        /\ DropTypes(second, c.created.types).types = second.types \ c.created.types
        /\ DropTypes(second, c.created.types).blockTypes =
             {l \in second.blockTypes : l[2] \notin c.created.types}
        /\ \A part \in PartNames \ {"types", "blockTypes"} :
             DropTypes(second, c.created.types)[part] = second[part]
    BY <2>2, PartsOfRecord DEF DropTypes, IsParts
  <2>4. reverted = DropTypes(second, c.created.types)
    BY DEF RevertTypes, first, second
  <2> HIDE DEF reverted
  <2> QED
    BY <2>1, <2>2, <2>3, <2>4
<1> HIDE DEF reverted
<1>2. /\ IsParts(unlinked)
      /\ unlinked.productBlocks = reverted.productBlocks \ c.created.productBlocks
      /\ unlinked.blockBlocks = reverted.blockBlocks \ c.created.blockBlocks
      /\ \A part \in PartNames \ {"productBlocks", "blockBlocks"} :
           unlinked[part] = reverted[part]
  BY <1>1, PartsOfRecord DEF UnlinkBlocks, UnlinkProducts, IsParts
<1> HIDE DEF unlinked
<1>3. /\ IsParts(blocks)
      /\ blocks.inputs = unlinked.inputs \ c.created.inputs
      /\ blocks.blocks = unlinked.blocks \ c.created.blocks
      /\ blocks.blockTypes = {l \in unlinked.blockTypes : l[1] \notin c.created.blocks}
      /\ blocks.blockBlocks =
           {l \in unlinked.blockBlocks : {l[1], l[2]} \cap c.created.blocks = {}}
      /\ blocks.productBlocks = {l \in unlinked.productBlocks : l[2] \notin c.created.blocks}
      /\ blocks.products = unlinked.products /\ blocks.types = unlinked.types
  BY <1>2, PartsOfRecord DEF DropBlocks, DropInputs, IsParts
<1> HIDE DEF blocks
<1>4. /\ IsParts(dropped)
      /\ dropped.products = blocks.products \ c.created.products
      /\ dropped.inputs = {l \in blocks.inputs : l[1] \notin c.created.products}
      /\ dropped.productBlocks =
           {l \in blocks.productBlocks : l[1] \notin c.created.products}
      /\ \A part \in PartNames \ {"products", "inputs", "productBlocks"} :
           dropped[part] = blocks[part]
  BY <1>3, PartsOfRecord DEF DropProducts, IsParts
<1> HIDE DEF dropped
<1>5. /\ IsParts(inputs)
      /\ inputs.inputs = dropped.inputs \cup c.deleted.inputs
      /\ \A part \in PartNames \ {"inputs"} : inputs[part] = dropped[part]
  BY <1>4, PartsOfRecord DEF InsertInputs, IsParts
<1> HIDE DEF inputs
<1>6. /\ IsParts(renamed)
      /\ renamed.types = RenamedTypes(inputs.types, Backwards(c.renames))
      /\ renamed.blockTypes = Renamed(inputs.blockTypes, Backwards(c.renames))
      /\ \A part \in PartNames \ {"types", "blockTypes"} : renamed[part] = inputs[part]
  BY <1>5, PartsOfRecord DEF RenameTypes, RenamedTypes, Renamed, Backwards, IsParts
<1> HIDE DEF renamed
<1>7. /\ IsParts(updated)
      /\ updated.inputs = Changed(renamed.inputs, Reversed(c.inputUpdates))
      /\ \A part \in PartNames \ {"inputs"} : updated[part] = renamed[part]
  BY <1>6, PartsOfRecord DEF UpdateLinks, Changed, UpdatesOf, IsParts
<1> HIDE DEF updated
<1>8. Downgraded(db, c) = updated
  BY DEF Downgraded, reverted, unlinked, blocks, dropped, inputs, renamed, updated
<1>9. /\ updated.products = db.products \ c.created.products
      /\ updated.blocks = db.blocks \ c.created.blocks
      /\ updated.types = RenamedTypes(db.types \ c.created.types, Backwards(c.renames))
  <2>1. /\ inputs.products = db.products \ c.created.products
        /\ inputs.blocks = db.blocks \ c.created.blocks
        /\ inputs.types = db.types \ c.created.types
    BY <1>1, <1>2, <1>3, <1>4, <1>5
  <2>2. /\ updated.products = inputs.products /\ updated.blocks = inputs.blocks
        /\ updated.types = renamed.types
    BY <1>6, <1>7
  <2> QED
    BY <1>6, <2>1, <2>2
<1>10. updated.inputs =
         Changed(Outside(db.inputs \ c.created.inputs, c.created.products, {})
                   \cup c.deleted.inputs,
                 Reversed(c.inputUpdates))
  <2>1. inputs.inputs =
          Outside(db.inputs \ c.created.inputs, c.created.products, {}) \cup c.deleted.inputs
    BY <1>1, <1>2, <1>3, <1>4, <1>5 DEF Outside
  <2> QED
    BY <1>6, <1>7, <2>1
<1>11. updated.productBlocks =
         Outside(db.productBlocks \ c.created.productBlocks,
                      c.created.products, c.created.blocks)
  BY <1>1, <1>2, <1>3, <1>4, <1>5, <1>6, <1>7 DEF Outside
<1>12. updated.blockBlocks =
         Outside(db.blockBlocks \ c.created.blockBlocks,
                      c.created.blocks, c.created.blocks)
  BY <1>1, <1>2, <1>3, <1>4, <1>5, <1>6, <1>7 DEF Outside
<1>13. updated.blockTypes =
         Renamed(Outside(Changed(db.blockTypes \ c.created.blockTypes, Reversed(c.updates)),
                      c.created.blocks, c.created.types),
                 Backwards(c.renames))
  <2>1. inputs.blockTypes =
          Outside(Changed(db.blockTypes \ c.created.blockTypes, Reversed(c.updates)),
                      c.created.blocks, c.created.types)
    BY <1>1, <1>2, <1>3, <1>4, <1>5 DEF Outside
  <2> QED
    BY <1>6, <1>7, <2>1
<1> QED
  BY <1>7, <1>8, <1>9, <1>10, <1>11, <1>12, <1>13

\* Grouping differences leaves some out and adds none.
LEMMA GroupedSome ==
  ASSUME NEW links, NEW g \in generic_mapper(links)
  PROVE  g \subseteq links
<1>1. PICK list \in SetToSeqs(links) : g = Grouped(list)
  BY DEF generic_mapper
<1>2. \A i \in DOMAIN list : list[i] \in links
  BY <1>1 DEF SetToSeqs
<1> QED
  BY <1>1, <1>2 DEF Grouped

\* Changes for given answers have these answers, and create what only the models have.
LEMMA ChangesHave ==
  ASSUME NEW db, NEW models, NEW renames, NEW updates, NEW inputs,
         NEW c \in ChangesFor(db, models, renames, updates, inputs)
  PROVE  /\ c.renames = renames /\ c.updates = updates /\ c.inputUpdates = inputs
         /\ c.created.products = models.products \ db.products
         /\ c.created.blocks = models.blocks \ db.blocks
         /\ \A t \in c.created.types : t \notin db.types /\ \A r \in renames : New(r) # t
<1>1. \E new, gone : c = ChangesOf(db, models, renames, updates, inputs, new, gone)
  BY DEF ChangesFor
<1> QED
  BY <1>1 DEF ChangesOf

\* The links that they create and delete are differences that no answer settles.
LEMMA ChangesLink ==
  ASSUME NEW db, NEW models, NEW renames, NEW updates, NEW inputs,
         NEW c \in ChangesFor(db, models, renames, updates, inputs),
         NEW kind \in Links
  PROVE  LET done == Updated(db, models, renames, updates \cup inputs)
         IN  /\ c.created[kind] \subseteq
                  (MissingInDb(db, models, kind) \ done.new) \cup Additional(db, models, kind)
             /\ c.deleted[kind] \subseteq MissingInModel(db, models, kind) \ done.old
<1> DEFINE done == Updated(db, models, renames, updates \cup inputs)
           Created(k) == CreatedLinks(db, models, done.new, k)
           Deleted(k) == DeletedLinks(db, models, done.old, k)
<1>1. PICK new \in [inputs : Created("inputs"), productBlocks : Created("productBlocks"),
                    blockBlocks : Created("blockBlocks"), blockTypes : Created("blockTypes")],
           gone \in [inputs : Deleted("inputs"), productBlocks : Deleted("productBlocks"),
                     blockBlocks : Deleted("blockBlocks"), blockTypes : Deleted("blockTypes")] :
        c = ChangesOf(db, models, renames, updates, inputs, new, gone)
  BY DEF ChangesFor
<1> HIDE DEF Created, Deleted, done
<1>2. c.created[kind] \in Created(kind) /\ c.deleted[kind] \in Deleted(kind)
  BY <1>1 DEF ChangesOf, Links, ProductLinks, BlockLinks
<1>3. c.created[kind] \subseteq
        (MissingInDb(db, models, kind) \ done.new) \cup Additional(db, models, kind)
  <2>1. PICK g \in generic_mapper(MissingInDb(db, models, kind) \ done.new) :
          c.created[kind] = g \cup Additional(db, models, kind)
    BY <1>2 DEF Created, CreatedLinks
  <2> QED
    BY <2>1, GroupedSome
<1>4. c.deleted[kind] \subseteq MissingInModel(db, models, kind) \ done.old
  BY <1>2, GroupedSome DEF Deleted, DeletedLinks
<1> QED
  BY <1>3, <1>4 DEF done

\* What the answers may be.
LEMMA RenamesOffered ==
  ASSUME NEW db, NEW models, NEW renames \in map_rename_resource_types(db, models)
  PROVE  /\ OneToOne(renames)
         /\ \A r \in renames : Old(r) \notin TypesOf(models.blockTypes) /\ New(r) \notin db.types
<1>1. \A r \in renames : \E gone, fresh :
        /\ r \in gone \X fresh
        /\ gone \cap TypesOf(models.blockTypes) = {}
        /\ fresh \cap db.types = {}
  <2> DEFINE Gone(b) == {l[2] : l \in {k \in MissingInModel(db, models, "blockTypes") : k[1] = b}}
                          \ TypesOf(models.blockTypes)
             Fresh(b) == {l[2] : l \in {k \in MissingInDb(db, models, "blockTypes") : k[1] = b}}
                           \ db.types
  <2>1. renames \in SUBSET (UNION {Gone(b) \X Fresh(b) : b \in models.blocks})
    BY DEF map_rename_resource_types
  <2>2. \A b : Gone(b) \cap TypesOf(models.blockTypes) = {} /\ Fresh(b) \cap db.types = {}
    OBVIOUS
  <2> HIDE DEF Gone, Fresh
  <2> QED
    BY <2>1, <2>2
<1>2. OneToOne(renames)
  BY DEF map_rename_resource_types
<1> QED
  BY <1>1, <1>2 DEF Old, New

\* A block's update leads to a type that it has in its model only, by no rename.
LEMMA UpdatesOffered ==
  ASSUME NEW db, NEW models, NEW renames,
         NEW updates \in map_update_product_block_resource_types(db, models, renames)
  PROVE  /\ \A u, v \in updates : u[1] = v[1] => u = v
         /\ \A u \in updates :
              /\ <<u[1], New(u[2])>> \in MissingInDb(db, models, "blockTypes")
              /\ \A r \in renames : New(r) # New(u[2])
BY DEF map_update_product_block_resource_types

\* A product's update leads to a fixed input that it has in its model only.
LEMMA InputsOffered ==
  ASSUME NEW db, NEW models, IsModelled(models),
         NEW inputs \in map_update_fixed_inputs(db, models)
  PROVE  /\ \A u, v \in inputs : u[1] = v[1] => u = v
         /\ \A u \in inputs : <<u[1], New(u[2])>> \in MissingInDb(db, models, "inputs")
<1> DEFINE Of(p, links) == {l[2] : l \in {k \in links : k[1] = p}}
<1>1. ASSUME NEW u \in inputs
      PROVE  /\ u \in models.products \X (TypesOf(db.inputs) \X TypesOf(models.inputs))
             /\ Of(u[1], MissingInModel(db, models, "inputs")) = {Old(u[2])}
             /\ Of(u[1], MissingInDb(db, models, "inputs")) = {New(u[2])}
  BY DEF map_update_fixed_inputs
<1>2. ASSUME NEW u \in inputs, NEW v \in inputs, u[1] = v[1] PROVE u = v
  <2>1. /\ u = <<u[1], <<Old(u[2]), New(u[2])>>>>
        /\ v = <<v[1], <<Old(v[2]), New(v[2])>>>>
    BY <1>1 DEF Old, New
  <2> HIDE DEF Of
  <2>2. Old(u[2]) = Old(v[2]) /\ New(u[2]) = New(v[2])
    BY <1>1, <1>2
  <2> QED
    BY <1>2, <2>1, <2>2
<1>3. ASSUME NEW u \in inputs
      PROVE  <<u[1], New(u[2])>> \in MissingInDb(db, models, "inputs")
  <2>1. New(u[2]) \in Of(u[1], MissingInDb(db, models, "inputs"))
    BY <1>1
  <2>2. PICK l \in MissingInDb(db, models, "inputs") : l[1] = u[1] /\ l[2] = New(u[2])
    BY <2>1
  <2>3. l = <<l[1], l[2]>>
    BY DEF IsModelled, MissingInDb
  <2> QED
    BY <2>2, <2>3
<1> QED
  BY <1>2, <1>3

\* A link after updates of its owner is the link or its update.
LEMMA ChangedLink ==
  ASSUME NEW links, \A l \in links : l = <<l[1], l[2]>>,
         NEW updates, \A u, v \in updates : u[1] = v[1] => u = v,
         NEW y \in Changed(links, updates)
  PROVE  \/ y \in links
         \/ \E u \in updates : y = <<u[1], New(u[2])>> /\ \E l \in links : l[1] = u[1]
<1>1. PICK l \in links : y = <<l[1], NameOf(l[2], UpdatesOf(updates, l[1]))>>
  BY DEF Changed
<1>2. OneToOne(UpdatesOf(updates, l[1]))
  BY DEF OneToOne, UpdatesOf
<1>3. CASE NameOf(l[2], UpdatesOf(updates, l[1])) = l[2]
  BY <1>1, <1>3
<1>4. CASE \E r \in UpdatesOf(updates, l[1]) :
             Old(r) = l[2] /\ NameOf(l[2], UpdatesOf(updates, l[1])) = New(r)
  BY <1>1, <1>4 DEF UpdatesOf
<1> QED
  BY <1>2, <1>3, <1>4, NameIs

\* A link after renames is the link or its rename.
LEMMA RenamedLink ==
  ASSUME NEW links, \A l \in links : l = <<l[1], l[2]>>,
         NEW renames, OneToOne(renames), NEW y \in Renamed(links, renames)
  PROVE  \/ y \in links
         \/ \E r \in renames : \E l \in links : l = <<l[1], Old(r)>> /\ y = <<l[1], New(r)>>
<1>1. PICK l \in links : y = <<l[1], NameOf(l[2], renames)>>
  BY DEF Renamed
<1>2. CASE NameOf(l[2], renames) = l[2]
  BY <1>1, <1>2
<1>3. CASE \E r \in renames : Old(r) = l[2] /\ NameOf(l[2], renames) = New(r)
  BY <1>1, <1>3
<1> QED
  BY <1>2, <1>3, NameIs

\* Databases with the same parts are the same.
LEMMA SameParts ==
  ASSUME NEW a, NEW b, IsParts(a), IsParts(b),
         a.products = b.products, a.blocks = b.blocks, a.types = b.types,
         a.inputs = b.inputs, a.productBlocks = b.productBlocks,
         a.blockBlocks = b.blockBlocks, a.blockTypes = b.blockTypes
  PROVE  a = b
<1>1. \A part \in PartNames : a[part] = b[part]
  BY DEF PartNames, Links, ProductLinks, BlockLinks
<1>2. [part \in PartNames |-> a[part]] = [part \in PartNames |-> b[part]]
  BY <1>1
<1> QED
  BY <1>2 DEF IsParts

\* db migrate-domain-models: the downgrade of a migration that deletes nothing but fixed
\* inputs leaves the database as it was before the upgrade, whatever was answered when the
\* changes were mapped.
THEOREM MigrationIsUndone ==
  ASSUME NEW db, IsModelled(db), NEW models, IsModelled(models),
         NEW c \in map_changes(db, models), DeletesOnlyInputs(c)
  PROVE  Downgraded(Upgraded(db, c), c) = db
<1>1. PICK renames \in map_rename_resource_types(db, models) :
        \E updates \in map_update_product_block_resource_types(db, models, renames),
           inputs \in map_update_fixed_inputs(db, models) :
             c \in ChangesFor(db, models, renames, updates, inputs)
  BY DEF map_changes
<1>2. PICK updates \in map_update_product_block_resource_types(db, models, renames),
           inputs \in map_update_fixed_inputs(db, models) :
             c \in ChangesFor(db, models, renames, updates, inputs)
  BY <1>1
<1> DEFINE done == Updated(db, models, renames, updates \cup inputs)
           up   == Upgraded(db, c)
           down == Downgraded(up, c)
<1>3. /\ c.renames = renames /\ c.updates = updates /\ c.inputUpdates = inputs
      /\ c.created.products = models.products \ db.products
      /\ c.created.blocks = models.blocks \ db.blocks
      /\ \A t \in c.created.types : t \notin db.types /\ \A r \in renames : New(r) # t
  BY <1>2, ChangesHave
<1>4. ASSUME NEW kind \in Links
      PROVE  /\ c.created[kind] \subseteq
                  (MissingInDb(db, models, kind) \ done.new) \cup Additional(db, models, kind)
             /\ c.deleted[kind] \subseteq MissingInModel(db, models, kind) \ done.old
  BY <1>2, ChangesLink
<1>5. \A u \in updates \cup inputs :
        <<u[1], Old(u[2])>> \in done.old /\ <<u[1], New(u[2])>> \in done.new
  BY DEF Updated
<1>6. ASSUME NEW b \in models.blocks, NEW r \in renames,
             <<b, Old(r)>> \in MissingInModel(db, models, "blockTypes"),
             <<b, New(r)>> \in MissingInDb(db, models, "blockTypes")
      PROVE  <<b, New(r)>> \in done.new
  <2> DEFINE u == <<b, r>>
             both == {v \in models.blocks \X renames :
                        /\ <<v[1], Old(v[2])>> \in MissingInModel(db, models, "blockTypes")
                        /\ <<v[1], New(v[2])>> \in MissingInDb(db, models, "blockTypes")}
  <2>1. u \in both /\ u[1] = b /\ u[2] = r
    BY <1>6
  <2>2. done.new = {<<v[1], New(v[2])>> : v \in both \cup (updates \cup inputs)}
    BY DEF Updated
  <2> HIDE DEF u, both, done
  <2> QED
    BY <2>1, <2>2
<1> HIDE DEF done
<1>7. /\ OneToOne(renames)
      /\ \A r \in renames : Old(r) \notin TypesOf(models.blockTypes) /\ New(r) \notin db.types
  BY RenamesOffered
<1>8. /\ \A u, v \in updates : u[1] = v[1] => u = v
      /\ \A u \in updates :
           /\ <<u[1], New(u[2])>> \in MissingInDb(db, models, "blockTypes")
           /\ \A r \in renames : New(r) # New(u[2])
  BY UpdatesOffered
<1>9. /\ \A u, v \in inputs : u[1] = v[1] => u = v
      /\ \A u \in inputs : <<u[1], New(u[2])>> \in MissingInDb(db, models, "inputs")
  BY InputsOffered
<1>10. ASSUME NEW kind \in Links
       PROVE  c.created[kind] \cap db[kind] = {}
  <2>1. \A l \in db[kind] :
          IF kind \in ProductLinks THEN l[1] \in db.products ELSE l[1] \in db.blocks
    BY DEF IsModelled, Links, ProductLinks, BlockLinks
  <2> QED
    BY <1>4, <2>1 DEF MissingInDb, Additional
<1>11. IsParts(db) /\ IsParts(up)
  BY UpgradedParts DEF IsModelled
<1> HIDE DEF up
<1>18. IsParts(down)
  BY <1>11, DowngradedParts
<1>19. /\ up.products = db.products \cup c.created.products
       /\ up.blocks = db.blocks \cup c.created.blocks
       /\ down.products = up.products \ c.created.products
       /\ down.blocks = up.blocks \ c.created.blocks
  <2>1. /\ up.products = db.products \cup c.created.products
        /\ up.blocks = db.blocks \cup c.created.blocks
    BY <1>11, UpgradedParts DEF up
  <2>2. /\ down.products = up.products \ c.created.products
        /\ down.blocks = up.blocks \ c.created.blocks
    BY <1>11, DowngradedParts
  <2> QED
    BY <2>1, <2>2
<1>12. down.products = db.products /\ down.blocks = db.blocks
  <2>1. \A p \in db.products : p \notin c.created.products
    BY <1>3
  <2>2. \A b \in db.blocks : b \notin c.created.blocks
    BY <1>3
  <2> QED
    BY <1>19, <2>1, <2>2
<1>13. down.types = db.types
  <2>1. up.types = RenamedTypes(db.types, renames) \cup c.created.types
    BY <1>3, <1>11, UpgradedParts DEF up
  <2>2. \A t \in RenamedTypes(db.types, renames) :
          t \in db.types \/ \E r \in renames : New(r) = t
    BY <1>7, NameIs DEF RenamedTypes
  <2>3. up.types \ c.created.types = RenamedTypes(db.types, renames)
    BY <1>3, <2>1, <2>2
  <2>4. down.types = RenamedTypes(up.types \ c.created.types, Backwards(renames))
    BY <1>3, <1>11, DowngradedParts
  <2> QED
    BY <1>7, <2>3, <2>4, TypesBack
<1>14. down.productBlocks = db.productBlocks
  <2>1. up.productBlocks = db.productBlocks \cup c.created.productBlocks
    BY <1>11, UpgradedParts DEF up
  <2>2. up.productBlocks \ c.created.productBlocks = db.productBlocks
    BY <1>10, <2>1 DEF Links, ProductLinks
  <2>3. down.productBlocks =
          Outside(up.productBlocks \ c.created.productBlocks,
                  c.created.products, c.created.blocks)
    BY <1>11, DowngradedParts
  <2> QED
    BY <1>3, <2>2, <2>3 DEF IsModelled, Outside
<1>15. down.blockBlocks = db.blockBlocks
  <2>1. up.blockBlocks = db.blockBlocks \cup c.created.blockBlocks
    BY <1>11, UpgradedParts DEF up
  <2>2. up.blockBlocks \ c.created.blockBlocks = db.blockBlocks
    BY <1>10, <2>1 DEF Links, BlockLinks
  <2>3. down.blockBlocks =
          Outside(up.blockBlocks \ c.created.blockBlocks, c.created.blocks, c.created.blocks)
    BY <1>11, DowngradedParts
  <2> QED
    BY <1>3, <2>2, <2>3 DEF IsModelled, Outside
<1>16. down.inputs = db.inputs
  <2> DEFINE now == Changed(db.inputs, inputs)
  <2>1. up.inputs = (now \ c.deleted.inputs) \cup c.created.inputs
    BY <1>3, <1>11, UpgradedParts DEF up
  <2>2. \A l \in db.inputs : l = <<l[1], l[2]>> /\ l[1] \in db.products
    BY DEF IsModelled
  <2>3. ASSUME NEW y \in now
        PROVE  y[1] \in db.products /\ y \notin c.created.inputs
    <3>1. CASE y \in db.inputs
      BY <1>10, <2>2, <3>1 DEF Links, ProductLinks
    <3>2. CASE \E u \in inputs : y = <<u[1], New(u[2])>> /\ \E l \in db.inputs : l[1] = u[1]
      <4> PICK u \in inputs : y = <<u[1], New(u[2])>> /\ \E l \in db.inputs : l[1] = u[1]
        BY <3>2
      <4>1. y \in done.new /\ y[1] \in db.products
        <5>1. <<u[1], New(u[2])>> \in done.new
          BY <1>5
        <5>2. u[1] \in db.products
          BY <2>2
        <5> QED
          BY <5>1, <5>2
      <4>2. y \notin Additional(db, models, "inputs")
        BY <4>1 DEF Additional, ProductLinks
      <4> QED
        BY <1>4, <4>1, <4>2 DEF Links, ProductLinks
    <3> QED
      BY <1>9, <2>2, <3>1, <3>2, ChangedLink
  <2>4. ASSUME NEW l \in c.deleted.inputs PROVE l \in now
    <3>1. l \in db.inputs /\ l \notin done.old
      BY <1>4 DEF Links, ProductLinks, MissingInModel
    <3>2. \A r \in UpdatesOf(inputs, l[1]) : Old(r) # l[2]
      <4> SUFFICES ASSUME NEW u \in inputs, u[1] = l[1] PROVE Old(u[2]) # l[2]
        BY DEF UpdatesOf
      <4>1. <<u[1], Old(u[2])>> \in done.old
        BY <1>5
      <4> QED
        BY <2>2, <3>1, <4>1
    <3>3. NameOf(l[2], UpdatesOf(inputs, l[1])) = l[2]
      BY <3>2, NameMissed
    <3> QED
      BY <2>2, <3>1, <3>3 DEF Changed
  <2>5. down.inputs =
          Changed(Outside(up.inputs \ c.created.inputs, c.created.products, {})
                    \cup c.deleted.inputs,
                  Reversed(inputs))
    BY <1>3, <1>11, DowngradedParts
  <2> HIDE DEF now
  <2>6. Outside(up.inputs \ c.created.inputs, c.created.products, {}) \cup c.deleted.inputs = now
    BY <1>3, <2>1, <2>3, <2>4 DEF Outside
  <2>7. \A u \in inputs : <<u[1], New(u[2])>> \notin db.inputs
    BY <1>9 DEF MissingInDb
  <2> QED
    BY <1>9, <2>2, <2>5, <2>6, <2>7, UpdatesBack DEF now
<1>17. down.blockTypes = db.blockTypes
  <2> DEFINE X == Renamed(db.blockTypes, renames)
             Y == Changed(X, updates)
  <2>1. up.blockTypes = Y \cup c.created.blockTypes
    BY <1>3, <1>11, UpgradedParts DEF up
  <2>2. \A l \in db.blockTypes :
          l = <<l[1], l[2]>> /\ l[1] \in db.blocks /\ l[2] \in db.types
    BY DEF IsModelled
  <2>3. ASSUME NEW x \in X
        PROVE  \/ x \in db.blockTypes
               \/ \E r \in renames : \E l \in db.blockTypes :
                    l = <<l[1], Old(r)>> /\ x = <<l[1], New(r)>>
    BY <1>7, <2>2, RenamedLink
  <2>4. \A x \in X : /\ x = <<x[1], x[2]>> /\ x[1] \in db.blocks
                     /\ x[2] \in db.types \/ \E r \in renames : New(r) = x[2]
    BY <2>2, <2>3
  <2>5. \A x \in X : x \notin c.created.blockTypes
    <3> SUFFICES ASSUME NEW x \in X, x \in c.created.blockTypes PROVE FALSE
      OBVIOUS
    <3>1. x \notin Additional(db, models, "blockTypes")
      BY <2>4 DEF Additional, ProductLinks
    <3>2. x \in MissingInDb(db, models, "blockTypes") /\ x \notin done.new
      BY <1>4, <3>1 DEF Links, BlockLinks
    <3>3. PICK r \in renames, l \in db.blockTypes :
            l = <<l[1], Old(r)>> /\ x = <<l[1], New(r)>>
      BY <2>3, <3>2 DEF MissingInDb
    <3>4. x \in models.blockTypes /\ x[1] \in Compared(db, models) /\ x[1] = l[1]
      BY <3>2, <3>3 DEF MissingInDb
    <3>5. l[1] \in models.blocks
      BY <3>4 DEF IsModelled
    <3>6. l \notin models.blockTypes
      <4>1. l[2] = Old(r)
        BY <3>3
      <4> QED
        BY <1>7, <4>1 DEF TypesOf
    <3>7. <<l[1], Old(r)>> \in MissingInModel(db, models, "blockTypes")
      BY <3>3, <3>4, <3>6 DEF MissingInModel
    <3> QED
      BY <1>6, <3>2, <3>3, <3>5, <3>7
  <2> HIDE DEF X
  <2>6. ASSUME NEW y \in Y PROVE y \notin c.created.blockTypes
    <3>1. CASE y \in X
      BY <2>5, <3>1
    <3>2. CASE \E u \in updates : y = <<u[1], New(u[2])>> /\ \E l \in X : l[1] = u[1]
      <4> PICK u \in updates : y = <<u[1], New(u[2])>> /\ \E l \in X : l[1] = u[1]
        BY <3>2
      <4>1. y \in done.new /\ y[1] \in db.blocks
        <5>1. <<u[1], New(u[2])>> \in done.new
          BY <1>5
        <5>2. u[1] \in db.blocks
          BY <2>4
        <5> QED
          BY <5>1, <5>2
      <4>2. y \notin Additional(db, models, "blockTypes")
        BY <4>1 DEF Additional, ProductLinks
      <4> QED
        BY <1>4, <4>1, <4>2 DEF Links, BlockLinks
    <3> QED
      BY <1>8, <2>4, <3>1, <3>2, ChangedLink
  <2>7. up.blockTypes \ c.created.blockTypes = Y
    BY <2>1, <2>6
  <2>8. \A u \in updates : <<u[1], New(u[2])>> \notin X
    <3> SUFFICES ASSUME NEW u \in updates, <<u[1], New(u[2])>> \in X PROVE FALSE
      OBVIOUS
    <3>1. <<u[1], New(u[2])>> \notin db.blockTypes
      BY <1>8 DEF MissingInDb
    <3> QED
      BY <1>8, <2>3, <3>1
  <2>9. Changed(Y, Reversed(updates)) = X
    BY <1>8, <2>4, <2>8, UpdatesBack
  <2>10. down.blockTypes =
           Renamed(Outside(Changed(up.blockTypes \ c.created.blockTypes, Reversed(updates)),
                           c.created.blocks, c.created.types),
                   Backwards(renames))
    BY <1>3, <1>11, DowngradedParts
  <2>11. Outside(X, c.created.blocks, c.created.types) = X
    BY <1>3, <2>4 DEF Outside
  <2>12. Renamed(X, Backwards(renames)) = db.blockTypes
    BY <1>7, <2>2, LinksBack DEF X
  <2> QED
    BY <2>7, <2>9, <2>10, <2>11, <2>12
<1> QED
  BY <1>11, <1>18, <1>12, <1>13, <1>14, <1>15, <1>16, <1>17, SameParts DEF up

\* The models of the run have the shape that is assumed.
LEMMA ModelsAreSuch ==
  ASSUME NEW products, NEW inputs, NEW productBlocks, NEW blockBlocks, NEW blockTypes,
         inputs \subseteq products \X {"f", "g"},
         productBlocks \subseteq products \X {"X", "Y"},
         blockBlocks \subseteq {<<"X", "Y">>},
         blockTypes \subseteq {"X", "Y"} \X {"a", "b"}
  PROVE  IsModelled(ModelsOf(products, inputs, productBlocks, blockBlocks, blockTypes))
<1> DEFINE m == ModelsOf(products, inputs, productBlocks, blockBlocks, blockTypes)
<1>1. IsParts(m)
  BY DEF ModelsOf, IsParts, PartNames, Links, ProductLinks, BlockLinks
<1>2. /\ m.products = products /\ m.inputs = inputs /\ m.productBlocks = productBlocks
      /\ \A l \in productBlocks : l[2] \in m.blocks
      /\ m.blockTypes \subseteq blockTypes
      /\ \A l \in m.blockTypes : l[1] \in m.blocks /\ l[2] \in m.types
      /\ m.blockBlocks \subseteq blockBlocks
      /\ \A l \in m.blockBlocks : l[1] \in m.blocks
  BY DEF ModelsOf, TypesOf
<1>3. \A l \in m.blockBlocks : l[2] \in m.blocks
  BY DEF ModelsOf
<1> HIDE DEF m
<1>4. \A l \in m.inputs \cup m.productBlocks : l = <<l[1], l[2]>> /\ l[1] \in m.products
  BY <1>2
<1>5. \A l \in m.blockBlocks \cup m.blockTypes : l = <<l[1], l[2]>>
  BY <1>2
<1> QED
  BY <1>1, <1>2, <1>3, <1>4, <1>5 DEF IsModelled, m

\* So are all pairs.
LEMMA PairsAreSuch == \A pair \in Pairs : IsModelled(pair[1]) /\ IsModelled(pair[2])
<1>1. ASSUME NEW db \in BlockModels PROVE IsModelled(db)
  <2>1. PICK p \in ProductsWithBlocks, nested \in SUBSET {<<"X", "Y">>},
             types \in SUBSET ({"X", "Y"} \X {"a", "b"}) :
          db = ModelsOf(p[1], {}, p[2], nested, types)
    BY DEF BlockModels
  <2>2. p[2] \subseteq p[1] \X {"X", "Y"}
    BY DEF ProductsWithBlocks
  <2> QED
    BY <2>1, <2>2, ModelsAreSuch
<1>2. ASSUME NEW db \in InputModels PROVE IsModelled(db)
  <2>1. PICK products \in {{"P"}, {"P", "Q"}}, inputs \in SUBSET ({"P"} \X {"f", "g"}) :
          db = ModelsOf(products, inputs, {}, {}, {})
    BY DEF InputModels
  <2>2. inputs \subseteq products \X {"f", "g"}
    OBVIOUS
  <2> QED
    BY <2>1, <2>2, ModelsAreSuch
<1> QED
  BY <1>1, <1>2 DEF Pairs

\* MigrationReverts, which a run checks of Pairs, holds of all pairs of such databases and
\* models.
THEOREM MigrationsRevert ==
  ASSUME NEW pairs, \A pair \in pairs : IsModelled(pair[1]) /\ IsModelled(pair[2])
  PROVE  MigrationReverts(pairs)
BY MigrationIsUndone DEF MigrationReverts

\* Those of the run are such pairs.
COROLLARY PairsRevert == MigrationReverts(Pairs)
BY PairsAreSuch, MigrationsRevert
=============================================================================
