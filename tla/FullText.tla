------------------------------ MODULE FullText ------------------------------
(***************************************************************************)
(* The text that searches of subscriptions look in, which the database     *)
(* derives from five tables (six with metadata): in the first schema a     *)
(* column tsv that row triggers keep up to date, repaired by 3323bcb934e7; *)
(* since e05bb1967eff a materialized view that triggers refresh when a     *)
(* transaction commits, since a09ac125ea73 at most every two minutes.      *)
(*                                                                         *)
(* Nothing in the code computes the text: when a trigger is missing or     *)
(* cancels another one, searches silently miss subscriptions.  The claims  *)
(* say after which sequences of changes the text is the current one.       *)
(***************************************************************************)
EXTENDS Naturals, Sequences, FiniteSets, SequencesExt

\* What a text is made of. A subscription: one version number for every part.
Parts == {"subscription", "product", "fixed_inputs", "values", "descriptions", "metadata"}
Null == <<>>

\* generate_subscription_tsv: the document of a subscription, metadata not among it.
Document(s) == [s.data EXCEPT !["metadata"] = 0]

\* subscriptions_ins_trigger: the other tables cannot refer to the row yet, and the fixed
\* inputs of the product are left out.
Inserted(fixed) ==
  LET data == [p \in Parts |-> CASE p = "fixed_inputs" -> fixed
                                 [] p \in {"subscription", "product"} -> 1
                                 [] OTHER -> 0]
  IN [data |-> data, tsv |-> [data EXCEPT !["fixed_inputs"] = 0]]

-----------------------------------------------------------------------------
(* The column and its triggers. *)

RECURSIVE AfterUpdate(_, _), AfterUpdateFixed(_, _)

\* subscriptions_upd_trigger of the first schema: only an update that leaves tsv as it is
\* computes a new one.
AfterUpdate(old, new) ==
  IF old.tsv = new.tsv /\ new.tsv # Document(new)
  THEN AfterUpdate(new, [new EXCEPT !.tsv = Document(new)])
  ELSE new

\* 3323bcb934e7: subscriptions_set_tsv_trigger computes what is NULL, then
\* subscriptions_upd_trigger makes NULL what an update has left as it was.
AfterUpdateFixed(old, new) ==
  LET computed == IF new.tsv = Null
                  THEN AfterUpdateFixed(new, [new EXCEPT !.tsv = Document(new)])
                  ELSE new
  IN IF old.tsv = new.tsv THEN AfterUpdateFixed(computed, [computed EXCEPT !.tsv = Null]) ELSE computed

\* A change of one table: the subscription itself, or a table whose trigger sets the tsv of the
\* subscriptions concerned to NULL when a row is inserted or updated.
Change(part, op) == [part |-> part, op |-> op]

Upserted == {Change(p, "upsert") : p \in Parts \ {"metadata", "subscription"}}
Deleted == {Change(p, "delete") : p \in {"fixed_inputs", "values", "descriptions"}}
ColumnChanges == {Change("subscription", "upsert")} \cup Upserted \cup Deleted

Touch(s, change) == [s EXCEPT !.data[change.part] = @ + 1]

\* fixed_inputs_trigger, products_trigger, subscription_customer_descriptions_trigger and
\* subscription_instance_values_trigger fire after an insert and after an update.
Changed(s, change, repaired) ==
  LET t == Touch(s, change)
      After(old, new) == IF repaired THEN AfterUpdateFixed(old, new) ELSE AfterUpdate(old, new)
  IN CASE change.part = "subscription" -> After(t, t)
       [] change \in Upserted -> After(t, [t EXCEPT !.tsv = Null])
       [] OTHER -> t

Scripts(changes, n) == UNION {[1..k -> changes] : k \in 0..n}

Played(s, script, repaired) == FoldLeft(LAMBDA r, c : Changed(r, c, repaired), s, script)

\* With the repaired triggers the text is that of the last insert or update; a row that is
\* deleted stays in the text until then.
RepairedText ==
  \A script \in Scripts(ColumnChanges, 4), fixed \in {0, 1} :
    LET fires == {i \in DOMAIN script : script[i].op = "upsert"}
        last == CHOOSE i \in fires : \A j \in fires : j <= i
        shown == Played(Inserted(fixed), SubSeq(script, 1, last), TRUE)
    IN Played(Inserted(fixed), script, TRUE).tsv =
         IF fires = {} THEN Inserted(fixed).tsv ELSE Document(shown)

\* What 3323bcb934e7 repairs: of the changes in other tables since the subscription itself
\* was updated, every second one makes the text NULL, so that no search finds it.
FirstText ==
  \A script \in Scripts(ColumnChanges, 4) :
    LET own == {i \in DOMAIN script : script[i].part = "subscription"}
        other == {i \in DOMAIN script : script[i] \in Upserted /\ \A j \in own : j < i}
        s == Played(Inserted(1), script, FALSE)
    IN s.tsv = Null <=> Cardinality(other) % 2 = 1

-----------------------------------------------------------------------------
(* The view. Time passes in minutes. *)

\* The tables and changes with a trigger that refreshes the view: not metadata, and of
\* fixed inputs and products only updates.
Refreshing ==
  {Change(p, op) : p \in {"subscription", "values", "descriptions"}, op \in {"upsert", "delete"}}
  \cup {Change("fixed_inputs", "update"), Change("product", "update")}

Silent ==
  {Change("metadata", "upsert"), Change("fixed_inputs", "insert"), Change("fixed_inputs", "delete")}

\* The view shows everything, metadata included since da5c9f4cce1c.
Refresh(s) == [s EXCEPT !.view = s.data]

\* refresh_subscriptions_search_view: the time of the last refresh is kept as the comment of
\* the view.
Throttled(s) == IF s.now - s.last > 2 THEN [Refresh(s) EXCEPT !.last = s.now] ELSE s

\* reset_search_index refreshes without a look at the time and does not note it.
ViewChanged(s, step) ==
  LET later == [s EXCEPT !.now = @ + step.after]
  IN IF step.change.op = "reset" THEN Refresh(later)
     ELSE LET touched == Touch(later, step.change)
          IN IF step.change \in Refreshing THEN Throttled(touched) ELSE touched

ViewSteps ==
  [after : {0, 2, 3},
   change : {Change("values", "upsert"), Change("subscription", "delete"), Change("fixed_inputs", "update")}
            \cup Silent \cup {Change("subscription", "reset")}]

\* The migration fills the view; the comment is then absent, the beginning of time.
NewView == LET none == [p \in Parts |-> 0] IN [data |-> none, view |-> none, now |-> 10, last |-> 0]

\* At a change with a trigger everything older than two minutes is shown; after a reset
\* everything is. Without such a change nothing bounds how old the view is.
ViewIsRecent ==
  \A script \in Scripts(ViewSteps, 3) :
    LET At(i) == FoldLeft(ViewChanged, NewView, SubSeq(script, 1, i))
        end == At(Len(script))
    IN script # <<>> =>
         LET last == script[Len(script)].change
         IN /\ last.op = "reset" => end.view = end.data
            /\ last \in Refreshing =>
                 \A i \in DOMAIN script :
                   end.now - At(i).now > 2 => \A p \in Parts : end.view[p] >= At(i).data[p]
            /\ last \in Silent => end.view = At(Len(script) - 1).view

FullTextExact == RepairedText /\ FirstText /\ ViewIsRecent
=============================================================================
