----------------------------- MODULE ProductChecks -----------------------------
(***************************************************************************)
(* task_validate_products (workflows/tasks/validate_products.py): whether  *)
(* the tables agree with the code.  It compares the workflows, what        *)
(* products have of them, and the fixed inputs of products with what       *)
(* utils/fixed_inputs.py reads from the domain models.                     *)
(*                                                                         *)
(* A step either passes or raises; what it reports is in the exception.    *)
(***************************************************************************)
EXTENDS Integers, Sequences, FiniteSets, SequencesExt, FiniteSetsExt

M == INSTANCE WorkflowMigration

-----------------------------------------------------------------------------
(* Workflows.  code maps the name of every registered workflow to its target *)

\* check_all_workflows_are_in_db
check_all_workflows_are_in_db(db, code) == M!InDatabase(db) = DOMAIN code

\* check_workflows_for_matching_targets_and_descriptions
check_workflows_for_matching_targets(db, code) ==
  \A n \in DOMAIN code : db[n] # M!Absent => db[n].target = code[n]

\* check_that_products_have_at_least_one_workflow
check_that_products_have_at_least_one_workflow(db) ==
  \A p \in UNION {M!ProductsOf[t] : t \in M!ProductTypes} : \E n \in M!Names : p \in db[n].products

-----------------------------------------------------------------------------
(* Fixed inputs *)

\* A product of the table: its tag, and the values of its fixed inputs by name; a domain
\* model, registered for the name of a product: the values of the enumeration of each field.
Product(tag, inputs) == [tag |-> tag, inputs |-> inputs]

Model(product, fields) == [product |-> product, fields |-> fields]

\* SUBSCRIPTION_MODEL_REGISTRY is a sequence of models, in the order of registration.
Models(registry) == ToSet(registry)

ModelsOfTag(products, registry, tag) ==
  {m \in Models(registry) : products[m.product].tag = tag}

\* fixed_input_configuration, "fixed_inputs": the values of the first model with that field.
ValuesOf(registry, name) ==
  LET first == SelectInSeq(registry, LAMBDA m : name \in DOMAIN m.fields)
  IN  IF first = 0 THEN {} ELSE registry[first].fields[name]

\* fixed_input_configuration, "by_tag": the fields of the models of a tag, and those of them
\* that no model of the tag lacks.
TagData(products, registry, tag) ==
  UNION {DOMAIN m.fields : m \in ModelsOfTag(products, registry, tag)}

Required(products, registry, tag) ==
  {name \in TagData(products, registry, tag) :
     \A m \in ModelsOfTag(products, registry, tag) : name \in DOMAIN m.fields}

\* A model without product makes the configuration raise.
IsConfigured(products, registry) == \A m \in Models(registry) : m.product \in DOMAIN products

\* Faulty: what is missing is not reported.
RowPasses_Missing(products, registry, p, name) ==
  LET product == products[p]
  IN  /\ product.inputs[name] \in ValuesOf(registry, name)
      /\ DOMAIN product.inputs \subseteq TagData(products, registry, product.tag)

\* check_db_fixed_input_config, for one row of the table of fixed inputs.
RowPasses(products, registry, p, name) ==
  LET product == products[p]
      tagData == TagData(products, registry, product.tag)
  IN  /\ product.inputs[name] \in ValuesOf(registry, name)
      /\ DOMAIN product.inputs \subseteq tagData
      /\ Required(products, registry, product.tag) \subseteq DOMAIN product.inputs

check_db_fixed_input_config(products, registry) ==
  /\ IsConfigured(products, registry)
  /\ \A p \in DOMAIN products : \A name \in DOMAIN products[p].inputs : RowPasses(products, registry, p, name)

-----------------------------------------------------------------------------
(* What the task may be relied on *)

\* What `db migrate-workflows' and `db migrate-tasks' offer is all chosen: workflows that are
\* not stored are added, those that are not registered deleted, as often as something is
\* offered.
AddMissing(db, code) ==
  LET missing   == DOMAIN code \ M!InDatabase(db)
      IsTask(n) == code[n] \in M!TaskTargets
      workflows == FoldSet(LAMBDA n, s : M!AddWorkflow(db, code, s, n, "T"), M!Nothing,
                           {n \in missing : ~IsTask(n)})
      tasks     == FoldSet(LAMBDA n, s : M!AddTask(db, code, s, n), M!Nothing, {n \in missing : IsTask(n)})
  IN  M!Upgraded(M!Upgraded(db, workflows, FALSE), tasks, TRUE)

Order == <<1, 2, 3>>

DeleteUnregistered(db, code) ==
  LET workflows == M!DeleteDanglingWorkflows(db, code, M!Nothing, Order)
      Tasks(d)  == M!Upgraded(d, M!DeleteDanglingTasks(d, code, M!Nothing, Order), TRUE)
  IN  Tasks(Tasks(M!Upgraded(db, workflows, FALSE)))

\* After the migrations the workflows of the database are those that are registered, exactly
\* if no workflow is stored that is not registered, is no task and has no product: no menu
\* offers it.  The targets match where they did; a workflow that was stored as a task is replaced;
\* validation workflows that are added as tasks never match.  Products have a workflow if one of
\* their type was added.
MigrationsPass(dbs, codes) ==
  \A db \in dbs, code \in codes :
    LET deleted  == DeleteUnregistered(db, code)
        migrated == AddMissing(deleted, code)
        added    == DOMAIN code \ M!InDatabase(deleted)
        stranded == {n \in M!InDatabase(db) \ DOMAIN code : ~db[n].is_task /\ db[n].products = {}}
    IN  /\ check_all_workflows_are_in_db(migrated, code) <=> (stranded = {})
        /\ check_workflows_for_matching_targets(migrated, code) <=>
             \A n \in DOMAIN code :
               \/ n \in M!InDatabase(db) /\ db[n].target = code[n]
               \/ db[n].is_task /\ code[n] \notin M!TaskTargets
               \/ n \notin M!InDatabase(db) /\ code[n] # "VALIDATE"
        /\ check_that_products_have_at_least_one_workflow(migrated) <=>
             \A t \in M!ProductTypes : \A p \in M!ProductsOf[t] :
               \/ t = "T" /\ \E n \in added : code[n] \notin M!TaskTargets
               \/ \E n \in M!InDatabase(db) \cap DOMAIN code : p \in db[n].products

\* The fixed inputs that the model of a product asks for, with values it can have.
Agrees(product, model) ==
  /\ DOMAIN product.inputs = DOMAIN model.fields
  /\ \A name \in DOMAIN model.fields : product.inputs[name] \in model.fields[name]

\* Models of a tag that have the same fields, and fields that have the same values.
Uniform(products, registry) ==
  \A m, n \in Models(registry) :
    /\ products[m.product].tag = products[n.product].tag => DOMAIN m.fields = DOMAIN n.fields
    /\ \A name \in DOMAIN m.fields \cap DOMAIN n.fields : m.fields[name] = n.fields[name]

\* Whether every product agrees with its model.
AllAgree(products, registry) ==
  \A m \in Models(registry) : Agrees(products[m.product], m)

\* When the models of a tag are uniform, the check passes exactly if every product that has a
\* fixed input agrees with its model: one that lacks all of them is not looked at.  A model whose
\* product is not stored never passes.
FixedInputsExact(stores, registries) ==
  \A products \in stores, registry \in registries :
    LET passes == check_db_fixed_input_config(products, registry)
    IN  IF ~IsConfigured(products, registry) THEN ~passes
        ELSE Uniform(products, registry) =>
               (passes <=> \A m \in Models(registry) :
                             products[m.product].inputs = <<>> \/ Agrees(products[m.product], m))

\* Where the models are not uniform, the check may fail although all products agree with their
\* models, and pass although one does not.
OnlyUniform(stores, registries) ==
  LET Some(passes, agree) ==
        \E products \in stores, registry \in registries :
          /\ IsConfigured(products, registry)
          /\ \A m \in Models(registry) : products[m.product].inputs # <<>>
          /\ check_db_fixed_input_config(products, registry) = passes
          /\ AllAgree(products, registry) = agree
  IN  Some(FALSE, TRUE) /\ Some(TRUE, FALSE)

-----------------------------------------------------------------------------
(* Small inputs *)

Stored == [M!Names -> M!Rows]

Values == {"x", "y"}

Inputs == UNION {[names -> Values] : names \in SUBSET {"speed", "size"}}

Fields == UNION {[names -> {{"x"}, {"x", "y"}}] : names \in SUBSET {"speed", "size"}}

\* Every product has a model; "p" and "q" are products, "r" is one that is not stored.
Stores == {[p |-> Product("A", i), q |-> Product(t, j)] : t \in {"A", "B"}, i, j \in Inputs}

Registries ==
  {<<Model("p", f), Model("q", g)>> : f, g \in Fields} \cup {<<Model("p", f), Model("q", f), Model("r", f)>> : f \in Fields}
=============================================================================
