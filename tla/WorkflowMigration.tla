--------------------------- MODULE WorkflowMigration ---------------------------
(***************************************************************************)
(* The commands `db migrate-workflows' and `db migrate-tasks': the menus   *)
(* of cli/migrate_workflows.py and cli/migrate_tasks.py, which collect     *)
(* what to add and to delete, and the migration that cli/database.py       *)
(* writes with the helpers create_workflow, create_task and                *)
(* delete_workflow of migrations/helpers.py.                               *)
(***************************************************************************)
EXTENDS Integers, Sequences, SequencesExt

\* Names of workflows and tasks.
Names == 1..3

\* The products of each product type.
ProductsOf == [T |-> {"p1", "p2"}, U |-> {"p3"}]

ProductTypes == DOMAIN ProductsOf

\* A row of the table workflows, with its rows in products_workflows.
Row(target, is_task, products) == [target |-> target, is_task |-> is_task, products |-> products]

Absent == Row("", FALSE, {})

InDatabase(db) == {n \in Names : db[n] # Absent}

\* The type of the first product.
NoType == ""
TypeOf(row) ==
  IF row.products = {} THEN NoType ELSE CHOOSE t \in ProductTypes : row.products \cap ProductsOf[t] # {}

\* The target of a workflow in the code: SYSTEM and VALIDATE are those of tasks.
TaskTargets == {"SYSTEM", "VALIDATE"}

-----------------------------------------------------------------------------
(* The menus *)

\* Items hold what the migration will need of a workflow or task.
Item(name, target, type) == [name |-> name, target |-> target, type |-> type]

Nothing == [add |-> <<>>, delete |-> <<>>]

Used(state) == {i.name : i \in ToSet(state.add) \cup ToSet(state.delete)}

\* _add_workflow offers every registered workflow that is no task of the database.
AddWorkflow(db, code, state, name, type) ==
  IF name \in DOMAIN code /\ ~db[name].is_task /\ name \notin Used(state)
  THEN [state EXCEPT !.add = Append(@, Item(name, code[name], type))] ELSE state

\* _delete_workflow offers what has products.
DeleteWorkflow(db, state, name) ==
  IF db[name].products # {} /\ name \notin Used(state)
  THEN [state EXCEPT !.delete = Append(@, Item(name, db[name].target, TypeOf(db[name])))] ELSE state

\* _add_task
AddTask(db, code, state, name) ==
  IF name \in DOMAIN code /\ code[name] \in TaskTargets /\ ~db[name].is_task /\ name \notin Used(state)
  THEN [state EXCEPT !.add = Append(@, Item(name, "SYSTEM", NoType))] ELSE state

\* _delete_task may list a task twice.
DeleteTask(db, state, name) ==
  IF db[name].is_task THEN [state EXCEPT !.delete = Append(@, Item(name, "SYSTEM", NoType))] ELSE state

\* The rows are zipped with the names of the columns: no more are looked at.
WorkflowColumns == 4
TaskColumns == 2

\* delete_dangling_workflows and delete_dangling_tasks, for the rows in this order.
Zipped(rows, columns) == SubSeq(rows, 1, IF Len(rows) < columns THEN Len(rows) ELSE columns)

DeleteDanglingWorkflows(db, code, state, order) ==
  LET unregistered == SelectSeq(order, LAMBDA n : n \in InDatabase(db) \ DOMAIN code)
  IN  FoldLeft(LAMBDA s, n : DeleteWorkflow(db, s, n), state, Zipped(unregistered, WorkflowColumns))

DeleteDanglingTasks(db, code, state, order) ==
  LET registered   == {n \in DOMAIN code : code[n] \in TaskTargets}
      unregistered == SelectSeq(order, LAMBDA n : db[n].is_task /\ n \notin registered)
  IN  FoldLeft(LAMBDA s, n : IF n \in Used(state) THEN s ELSE DeleteTask(db, s, n),
               state, Zipped(unregistered, TaskColumns))

-----------------------------------------------------------------------------
(* The migration *)

\* create_workflow: ON CONFLICT DO NOTHING, and links to products only for a new row.
create_workflow(db, item) ==
  IF db[item.name] # Absent THEN db
  ELSE [db EXCEPT ![item.name] = Row(item.target, FALSE, ProductsOf[item.type])]

create_task(db, item) ==
  IF db[item.name] # Absent THEN db ELSE [db EXCEPT ![item.name] = Row("SYSTEM", TRUE, {})]

delete_workflow(db, item) == [db EXCEPT ![item.name] = Absent]

\* `db migrate-workflows', and `db migrate-tasks' when the entries are tasks.
Create(db, item, tasks) == IF tasks THEN create_task(db, item) ELSE create_workflow(db, item)

Created(db, items, tasks) == FoldLeft(LAMBDA d, item : Create(d, item, tasks), db, items)

Upgraded(db, state, tasks) == FoldLeft(delete_workflow, Created(db, state.add, tasks), state.delete)

Downgraded(db, state, tasks) == Created(FoldLeft(delete_workflow, db, state.add), state.delete, tasks)

-----------------------------------------------------------------------------
(* The reference *)

Rows ==
  {Absent} \cup {Row("MODIFY", FALSE, ps) : ps \in {{}, {"p1"}, {"p1", "p2"}, {"p3"}}} \cup
  {Row(t, TRUE, {}) : t \in TaskTargets}

Codes == UNION {[S -> {"MODIFY", "SYSTEM"}] : S \in SUBSET {1, 2}} \cup {[n \in {3} |-> "VALIDATE"]}

\* Up to two choices in the menu.
Chosen(Offers(_)) ==
  LET once == Offers(Nothing) IN {Nothing} \cup once \cup UNION {Offers(s) : s \in once}

WorkflowChoices(db, code) ==
  LET offers(s) ==
        {AddWorkflow(db, code, s, n, t) : n \in Names, t \in ProductTypes} \cup
        {DeleteWorkflow(db, s, n) : n \in Names} \cup
        {DeleteDanglingWorkflows(db, code, s, order) : order \in {<<1, 2, 3>>, <<3, 2, 1>>}}
  IN  Chosen(offers)

TaskChoices(db, code) ==
  LET offers(s) ==
        {AddTask(db, code, s, n) : n \in Names} \cup {DeleteTask(db, s, n) : n \in Names} \cup
        {DeleteDanglingTasks(db, code, s, order) : order \in {<<1, 2, 3>>, <<3, 2, 1>>}}
  IN  Chosen(offers)

\* All products of a type have the same workflows, as the comment in migrate_workflows.py
\* demands.
Restored(row, tasks) ==
  IF tasks THEN row.target = "SYSTEM" ELSE row.products \in {ProductsOf[t] : t \in ProductTypes}

\* The migration does what was chosen and nothing else, and its downgrade undoes it, unless
\* what was added had been there before, what was deleted had not been linked to all
\* products of its type, or was a task for validation.
Migrates(db, state, tasks) ==
  LET upgraded == Upgraded(db, state, tasks)
      added    == {i.name : i \in ToSet(state.add)}
      deleted  == {i.name : i \in ToSet(state.delete)}
  IN  /\ added \cap deleted = {}
      /\ \A n \in Names :
           CASE n \in added   -> upgraded[n] # Absent /\ (db[n] # Absent => upgraded[n] = db[n])
             [] n \in deleted -> upgraded[n] = Absent
             [] OTHER         -> upgraded[n] = db[n]
      /\ (\A n \in added : db[n] = Absent) /\ (\A n \in deleted : Restored(db[n], tasks))
           => Downgraded(upgraded, state, tasks) = db

\* One run finds all unregistered workflows with products when there are no more rows than
\* columns.
FindsDangling(db, code) ==
  LET state == DeleteDanglingTasks(db, code, Nothing, <<1, 2, 3>>)
      tasks == {n \in Names : db[n].is_task /\ n \notin {c \in DOMAIN code : code[c] \in TaskTargets}}
      all   == DeleteDanglingWorkflows(db, code, Nothing, <<1, 2, 3>>)
  IN  /\ tasks \ Used(state) = {} \/ tasks = Names
      /\ Used(all) = {n \in InDatabase(db) \ DOMAIN code : db[n].products # {}}

WorkflowMigrationExact ==
  \A db \in [Names -> Rows] : \A code \in Codes :
    /\ \A state \in WorkflowChoices(db, code) : Migrates(db, state, FALSE)
    /\ \A state \in TaskChoices(db, code) : Migrates(db, state, TRUE)
    /\ FindsDangling(db, code)
=============================================================================
