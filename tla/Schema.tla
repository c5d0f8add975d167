------------------------------- MODULE Schema -------------------------------
(***************************************************************************)
(* The tables that the schema migrations create (migrations/versions/      *)
(* schema) and the models that the code uses for them (db/models.py): the  *)
(* foreign keys with what they do when the row they refer to is deleted,   *)
(* the relationships that delete rows from Python, and the rows and jobs   *)
(* that the migrations insert, mark and rewrite.                           *)
(*                                                                         *)
(* The migrations and the models are written by hand in two places.  The   *)
(* claims: they agree; a delete through a model and one in SQL remove the  *)
(* same rows; a delete takes what belongs to the row and nothing else.     *)
(***************************************************************************)
EXTENDS Naturals, Sequences, FiniteSets, SequencesExt

\* A foreign key; rule is what ON DELETE says, "restrict" when it says nothing.
Key(from, column, to, rule) == [from |-> from, column |-> column, to |-> to, rule |-> rule]
Owned(from, column, to) == Key(from, column, to, "cascade")
Needed(from, column, to) == Key(from, column, to, "restrict")

-----------------------------------------------------------------------------
(* Foreign keys that the migrations create. *)

\* The tables of the first schema that refer to no other one.
InitialEntities == {"processes", "product_blocks", "products", "resource_types", "workflows"}

InitialCatalogueKeys ==
  {Owned("fixed_inputs", "product_id", "products"),
   Owned("process_steps", "pid", "processes"),
   Owned("product_block_resource_types", "product_block_id", "product_blocks"),
   Owned("product_block_resource_types", "resource_type_id", "resource_types"),
   Owned("product_product_blocks", "product_block_id", "product_blocks"),
   Owned("product_product_blocks", "product_id", "products"),
   Owned("products_workflows", "product_id", "products"),
   Owned("products_workflows", "workflow_id", "workflows")}

InitialSubscriptionKeys ==
  {Needed("subscriptions", "product_id", "products"),
   Owned("processes_subscriptions", "pid", "processes"),
   Needed("processes_subscriptions", "subscription_id", "subscriptions"),
   Owned("subscription_customer_descriptions", "subscription_id", "subscriptions"),
   Needed("subscription_instances", "product_block_id", "product_blocks"),
   Owned("subscription_instances", "subscription_id", "subscriptions"),
   Owned("subscription_instance_relations", "child_id", "subscription_instances"),
   Owned("subscription_instance_relations", "parent_id", "subscription_instances"),
   Needed("subscription_instance_values", "resource_type_id", "resource_types"),
   Owned("subscription_instance_values", "subscription_instance_id", "subscription_instances")}

\* 6896a54e9483: relations between product blocks.
AddBlockRelations(keys) ==
  keys \cup {Owned("product_block_relations", "child_id", "product_blocks"),
             Owned("product_block_relations", "parent_id", "product_blocks")}

\* bed6bc0b197a: parents and children become users and what they depend on.
RenameRelations(keys) ==
  {[k EXCEPT !.column = CASE @ = "parent_id" -> "in_use_by_id"
                          [] @ = "child_id" -> "depends_on_id"
                          [] OTHER -> @] : k \in keys}

\* b1970225392d: metadata of subscriptions.
AddMetadata(keys) == keys \cup {Owned("subscription_metadata", "subscription_id", "subscriptions")}

\* 048219045729: processes refer to their workflow.
AddWorkflowId(keys) == keys \cup {Needed("processes", "workflow_id", "workflows")}

\* bac6be6f2b4f and fc5c993a4b4a: stored input, at first without a rule.
AddInputStates(keys) == keys \cup {Needed("input_states", "pid", "processes")}
CascadeInputStates(keys) ==
  {IF k.from = "input_states" THEN [k EXCEPT !.rule = "cascade"] ELSE k : k \in keys}

\* 961eddbd4c13: jobs of the scheduler.
AddScheduledJobs(keys) ==
  keys \cup {Owned("workflows_apscheduler_jobs", "workflow_id", "workflows"),
             Owned("workflows_apscheduler_jobs", "schedule_id", "apscheduler_jobs")}

\* 262744958e0c: runs of agents, their queries and snapshots.
AddAgentTables(keys) ==
  keys \cup {Owned("search_queries", "run_id", "agent_runs"),
             Owned("graph_snapshots", "run_id", "agent_runs")}

MigratedKeys ==
  LET renamed == RenameRelations(AddBlockRelations(InitialCatalogueKeys \cup InitialSubscriptionKeys))
      stored == AddInputStates(AddWorkflowId(AddMetadata(renamed)))
  IN AddAgentTables(AddScheduledJobs(CascadeInputStates(stored)))

-----------------------------------------------------------------------------
(* Foreign keys of the models. *)

ProcessModelKeys ==
  {Owned("input_states", "pid", "processes"), Needed("processes", "workflow_id", "workflows"),
   Owned("process_steps", "pid", "processes"), Owned("processes_subscriptions", "pid", "processes"),
   Needed("processes_subscriptions", "subscription_id", "subscriptions")}

CatalogueModelKeys ==
  {Owned("product_product_blocks", "product_id", "products"),
   Owned("product_product_blocks", "product_block_id", "product_blocks"),
   Owned("product_block_resource_types", "product_block_id", "product_blocks"),
   Owned("product_block_resource_types", "resource_type_id", "resource_types"),
   Owned("products_workflows", "product_id", "products"),
   Owned("products_workflows", "workflow_id", "workflows"),
   Owned("fixed_inputs", "product_id", "products")}

BlockModelKeys ==
  {Owned("product_block_relations", "in_use_by_id", "product_blocks"),
   Owned("product_block_relations", "depends_on_id", "product_blocks"),
   Owned("subscription_instance_relations", "in_use_by_id", "subscription_instances"),
   Owned("subscription_instance_relations", "depends_on_id", "subscription_instances")}

SubscriptionModelKeys ==
  {Owned("subscription_instances", "subscription_id", "subscriptions"),
   Needed("subscription_instances", "product_block_id", "product_blocks"),
   Owned("subscription_instance_values", "subscription_instance_id", "subscription_instances"),
   Needed("subscription_instance_values", "resource_type_id", "resource_types"),
   Owned("subscription_customer_descriptions", "subscription_id", "subscriptions"),
   Needed("subscriptions", "product_id", "products"),
   Owned("subscription_metadata", "subscription_id", "subscriptions")}

AgentModelKeys ==
  {Owned("search_queries", "run_id", "agent_runs"), Owned("graph_snapshots", "run_id", "agent_runs")}

JobModelKeys ==
  {Owned("workflows_apscheduler_jobs", "workflow_id", "workflows"),
   Owned("workflows_apscheduler_jobs", "schedule_id", "apscheduler_jobs")}

ModelKeys ==
  ProcessModelKeys \cup CatalogueModelKeys \cup BlockModelKeys \cup SubscriptionModelKeys
  \cup AgentModelKeys \cup JobModelKeys

\* The tables that the migrations leave behind are those that the models describe:
\* every key, with its column and what a delete does to it.
KeysAgree == MigratedKeys = ModelKeys

-----------------------------------------------------------------------------
(* Relationships of the models towards the tables that refer to them. A     *)
(* relationship that deletes makes Python delete the rows of child when     *)
(* their owner is deleted; a passive one leaves rows that are not loaded to *)
(* the database; a link is a row of an association table.                   *)

Rel(owner, child, kind, passive) == [owner |-> owner, child |-> child, kind |-> kind, passive |-> passive]

ProcessRelationships ==
  {Rel("processes", "process_steps", "deletes", TRUE), Rel("processes", "input_states", "deletes", FALSE),
   Rel("processes", "processes_subscriptions", "keeps", TRUE)}

CatalogueRelationships ==
  {Rel("products", "product_product_blocks", "link", TRUE), Rel("products", "products_workflows", "link", TRUE),
   Rel("products", "fixed_inputs", "deletes", TRUE), Rel("product_blocks", "product_product_blocks", "link", FALSE),
   Rel("product_blocks", "product_block_resource_types", "link", TRUE),
   Rel("product_blocks", "product_block_relations", "deletes", TRUE)}

WorkflowRelationships ==
  {Rel("resource_types", "product_block_resource_types", "link", FALSE),
   Rel("workflows", "products_workflows", "link", TRUE), Rel("workflows", "processes", "deletes", FALSE)}

SubscriptionRelationships ==
  {Rel("subscription_instances", "subscription_instance_values", "deletes", TRUE),
   Rel("subscription_instances", "subscription_instance_relations", "deletes", TRUE),
   Rel("subscriptions", "subscription_instances", "deletes", TRUE),
   Rel("subscriptions", "subscription_customer_descriptions", "deletes", TRUE),
   Rel("subscriptions", "processes_subscriptions", "keeps", FALSE)}

AgentRelationships ==
  {Rel("agent_runs", "search_queries", "deletes", TRUE), Rel("agent_runs", "graph_snapshots", "deletes", TRUE)}

Relationships ==
  ProcessRelationships \cup CatalogueRelationships \cup WorkflowRelationships
  \cup SubscriptionRelationships \cup AgentRelationships

\* What is not loaded is left to the database, so the database must delete it.
PassiveIsSafe ==
  \A r \in Relationships :
    r.passive => \A k \in MigratedKeys : k.from = r.child /\ k.to = r.owner => k.rule = "cascade"

-----------------------------------------------------------------------------
(* Rows. *)

\* A row: its table and the rows its columns refer to.
Row(id, table, refs) == [id |-> id, table |-> table, refs |-> refs]

World ==
  {Row("product", "products", {}), Row("block", "product_blocks", {}), Row("type", "resource_types", {}),
   Row("flow", "workflows", {}), Row("other flow", "workflows", {}), Row("job", "apscheduler_jobs", {}),
   Row("run", "agent_runs", {}),
   Row("fixed", "fixed_inputs", {"product"}), Row("has block", "product_product_blocks", {"product", "block"}),
   Row("has type", "product_block_resource_types", {"block", "type"}),
   Row("has flow", "products_workflows", {"product", "flow"}),
   Row("in block", "product_block_relations", {"block"}),
   Row("process", "processes", {"flow"}), Row("step", "process_steps", {"process"}),
   Row("input", "input_states", {"process"}), Row("about", "processes_subscriptions", {"process", "mine"}),
   Row("mine", "subscriptions", {"product"}), Row("yours", "subscriptions", {"product"}),
   Row("my block", "subscription_instances", {"mine", "block"}),
   Row("your block", "subscription_instances", {"yours", "block"}),
   Row("uses", "subscription_instance_relations", {"your block", "my block"}),
   Row("value", "subscription_instance_values", {"my block", "type"}),
   Row("words", "subscription_customer_descriptions", {"mine"}), Row("meta", "subscription_metadata", {"yours"}),
   Row("every day", "workflows_apscheduler_jobs", {"other flow", "job"}),
   Row("query", "search_queries", {"run"}), Row("snapshot", "graph_snapshots", {"run"})}

\* Between which tables a deletion goes on; python says whether the models take part.
Cascading(python) ==
  {<<k.from, k.to>> : k \in {k \in MigratedKeys : k.rule = "cascade"}} \cup
  IF python THEN {<<r.child, r.owner>> : r \in {r \in Relationships : r.kind # "keeps"}} ELSE {}

\* The rows of db that refer to one of rows.
Referring(db, rows) == {x \in db : \E y \in rows : y.id \in x.refs}

RECURSIVE Sweep(_, _, _)
\* The rows that disappear with rows.
Sweep(db, rows, python) ==
  LET goes == Cascading(python)
      more == rows \cup {x \in db : \E y \in rows : y.id \in x.refs /\ <<x.table, y.table>> \in goes}
  IN IF more = rows THEN rows ELSE Sweep(db, more, python)

\* What is left after deleting a row: everything when a row that stays refers to one that goes.
Delete(db, row, python) ==
  LET gone == Sweep(db, {row}, python)
  IN IF Referring(db \ gone, gone) = {} THEN db \ gone ELSE db

\* The world without one row and everything that refers to it, directly or not.
RECURSIVE Without(_, _)
Without(db, rows) ==
  LET more == rows \cup Referring(db, rows)
  IN IF more = rows THEN db \ rows ELSE Without(db, more)

Databases == {World} \cup {Without(World, {r}) : r \in World}

\* What an installation keeps for its own sake.
Entities == InitialEntities \cup {"subscriptions", "apscheduler_jobs", "agent_runs"}

\* Deleting in SQL takes no other entity along, and leaves the instances of other
\* subscriptions; a workflow that has run, a product, block or type that subscriptions
\* use and a subscription that a process has worked on cannot be deleted.
\* A delete through a model does the same, but for a workflow, whose processes it takes along.
DeletesOnlyItsOwn ==
  \A db \in Databases : \A row \in db :
    LET left == Delete(db, row, FALSE)
        Used(table) == \E x \in db : row.id \in x.refs /\ x.table = table
    IN /\ \A x \in db \ left : x = row \/ x.table \notin Entities
       /\ "your block" \in {x.id : x \in db \ left} => row.id \in {"yours", "your block"}
       /\ left = db <=>
            \/ row.table = "workflows" /\ Used("processes")
            \/ row.table = "products" /\ Used("subscriptions")
            \/ row.table = "product_blocks" /\ Used("subscription_instances")
            \/ row.table = "resource_types" /\ Used("subscription_instance_values")
            \/ row.table = "subscriptions" /\ Used("processes_subscriptions")
       /\ row.table # "workflows" => Delete(db, row, TRUE) = left
       /\ row.table = "workflows" =>
            {x \in db : x.table \in Entities /\ x \notin Delete(db, row, TRUE)}
              = {row} \cup {x \in db : x.table = "processes" /\ row.id \in x.refs}

-----------------------------------------------------------------------------
(* Workflows that the migrations insert. *)

Flow(name, target, is_task) == [name |-> name, target |-> target, is_task |-> is_task]

\* INSERT ... ON CONFLICT DO NOTHING, the name being unique.
InsertFlows(rows, new) == rows \cup {w \in new : \A r \in rows : r.name # w.name}
RemoveFlows(rows, names) == {r \in rows : r.name \notin names}
MarkTasks(rows, names) == {IF r.name \in names THEN [r EXCEPT !.is_task = TRUE] ELSE r : r \in rows}

\* a76b9185b334, 3c8b9185c221, 4fjdn13f83ga and 961eddbd4c13: not marked as tasks, a column that
\* 161918133bec adds with the value false.
GenericFlows ==
  {Flow("modify_note", "MODIFY", FALSE), Flow("task_clean_up_tasks", "SYSTEM", FALSE),
   Flow("task_resume_workflows", "SYSTEM", FALSE)}
ValidateProductsFlows == {Flow("task_validate_products", "SYSTEM", FALSE)}
ProductTypeFlows == {Flow("task_validate_product_type", "SYSTEM", FALSE)}
SubscriptionFlows == {Flow("task_validate_subscriptions", "SYSTEM", FALSE)}
AwaitingFlows == {Flow("task_validate_awaiting_callbacks", "SYSTEM", TRUE)}

\* 9736496e3eba and aa1b92d0d07d.
MarkedLater ==
  {"task_clean_up_tasks", "task_resume_workflows", "task_validate_products", "task_validate_subscriptions"}
MarkedLast == {"task_validate_product_type"}

Names(rows) == {r.name : r \in rows}

Revisions == 1..7

\* The upgrades that change workflows, in the order of their revisions.
Upgrade(i, rows) ==
  CASE i = 1 -> InsertFlows(rows, GenericFlows)
    [] i = 2 -> InsertFlows(rows, ValidateProductsFlows)
    [] i = 3 -> InsertFlows(rows, ProductTypeFlows)
    [] i = 4 -> InsertFlows(rows, SubscriptionFlows)
    [] i = 5 -> MarkTasks(rows, MarkedLater)
    [] i = 6 -> MarkTasks(rows, MarkedLast)
    [] i = 7 -> InsertFlows(rows, AwaitingFlows)

\* Their downgrades: marking is not undone.
Downgrade(i, rows) ==
  CASE i = 1 -> RemoveFlows(rows, Names(GenericFlows))
    [] i = 2 -> RemoveFlows(rows, Names(ValidateProductsFlows))
    [] i = 3 -> RemoveFlows(rows, Names(ProductTypeFlows))
    [] i = 4 -> RemoveFlows(rows, Names(SubscriptionFlows))
    [] i = 5 -> rows
    [] i = 6 -> rows
    [] i = 7 -> RemoveFlows(rows, Names(AwaitingFlows))

UpgradeFrom(i, rows) == FoldLeft(LAMBDA r, j : Upgrade(j, r), rows, [j \in 1..(8 - i) |-> i + j - 1])
DowngradeTo(i, rows) == FoldLeft(LAMBDA r, j : Downgrade(j, r), rows, [j \in 1..(8 - i) |-> 8 - j])

\* The workflows that the package registers, each a LazyWorkflowInstance.
Registered ==
  {"modify_note", "task_clean_up_tasks", "task_resume_workflows", "task_validate_awaiting_callbacks",
   "task_validate_products", "task_validate_product_type", "task_validate_subscriptions"}

\* Whatever generic workflows an installation had before, all that the package registers
\* have a row in the end, the tasks among them marked as such, and so after any
\* downgrade and upgrade.
TasksAreMarked ==
  \A old \in SUBSET (GenericFlows \cup ValidateProductsFlows \cup {Flow("mine", "CREATE", FALSE)}) :
    LET head == UpgradeFrom(1, old)
    IN /\ Names(head) = Registered \cup Names(old)
       /\ \A w \in head : w.is_task <=> w.name \in Registered \ {"modify_note"}
       /\ \A i \in Revisions : UpgradeFrom(i, DowngradeTo(i, head)) = head

-----------------------------------------------------------------------------
(* Data that migrations rewrite. *)

\* cab8b6a0ac92, _rewrite_func_ref: the reference of a job, a path; <<>> when unchanged.
RewriteRef(ref, old, new) ==
  IF IsPrefix(old, ref) /\ ~IsPrefix(new, ref) THEN new \o SubSeq(ref, Len(old) + 1, Len(ref)) ELSE <<>>

MigrateRef(ref, old, new) == IF RewriteRef(ref, old, new) = <<>> THEN ref ELSE RewriteRef(ref, old, new)

OldPrefix == <<"orchestrator">>
NewPrefix == <<"orchestrator", "core">>

\* After the upgrade no job refers to the old package, repeating it changes nothing. (The
\* downgrade tests for a prefix of its own new prefix and so never changes a job.)
JobsRefer ==
  \A ref \in {OldPrefix, NewPrefix, <<"mine">>} : \A f \in {<<"run">>, <<"tasks", "run">>, <<"core">>} :
    LET job == ref \o f
        done == MigrateRef(job, OldPrefix, NewPrefix)
    IN /\ IsPrefix(OldPrefix, done) => IsPrefix(NewPrefix, done)
       /\ MigrateRef(done, OldPrefix, NewPrefix) = done
       /\ done # job => done = NewPrefix \o f
       /\ MigrateRef(done, NewPrefix, OldPrefix) = done

\* 048219045729: a process gets the workflow with its name; refused when there is none.
BackfillWorkflow(processes, flows) ==
  IF \A p \in processes : \E w \in flows : w.name = p.workflow
  THEN {[id |-> p.id, flow |-> (CHOOSE w \in flows : w.name = p.workflow).id] : p \in processes}
  ELSE {}

RestoreName(processes, flows) ==
  {[id |-> p.id, workflow |-> (CHOOSE w \in flows : w.id = p.flow).name] : p \in processes}

\* The downgrade gives every process its name again, unless the upgrade was refused because of a
\* process whose workflow is gone.
NamesSurvive ==
  \A processes \in SUBSET [id : 1..2, workflow : {"a", "b", "gone"}] :
    LET flows == {[id |-> 7, name |-> "a"], [id |-> 8, name |-> "b"]}
        done == BackfillWorkflow(processes, flows)
    IN IF \E p \in processes : p.workflow = "gone" THEN done = {}
       ELSE RestoreName(done, flows) = processes

\* 93fc5834c7e5: a step has started when the one before it was completed, or with its process.
StartedAt(completed, step, start) ==
  LET before == {t \in completed : t < step}
  IN IF before = {} THEN start ELSE CHOOSE t \in before : \A u \in before : u <= t

\* The steps of a process follow each other without gaps from its start.
StepsTile ==
  \A completed \in SUBSET (2..6) :
    /\ \A s, t \in completed : s < t => StartedAt(completed, t, 1) >= s
    /\ \A s \in completed :
         LET from == StartedAt(completed, s, 1)
         IN from < s /\ (from = 1 \/ from \in completed) /\ \A t \in completed : ~(from < t /\ t < s)

\* All claims of this module.
SchemaExact ==
  /\ KeysAgree
  /\ PassiveIsSafe
  /\ DeletesOnlyItsOwn
  /\ TasksAreMarked
  /\ JobsRefer /\ NamesSurvive /\ StepsTile
=============================================================================
