------------------------------ MODULE DomainTree ------------------------------
(***************************************************************************)
(* How SubscriptionModel.save and ProductBlockModel.save of domain/base.py *)
(* write a tree of product blocks over the instances that are stored.      *)
(*                                                                         *)
(* The subscription "own" has block 1 as its root; blocks 2 and 3 may be   *)
(* new, its own, or those of the subscription "other".  A database and a   *)
(* domain model have the same shape: the owner of every block and, field   *)
(* by field, the list of blocks it depends on.                             *)
(***************************************************************************)
EXTENDS Sequences, SequencesExt

Blocks == 1..3

BlockFields == {"a", "b"}

\* The product blocks whose instances the fields may hold, in the order of the type.
Kinds == <<"leaf", "node">>

KindOf == <<"node", "node", "leaf">>

NoBlocks == [f \in BlockFields |-> <<>>]

Depends(fields) == UNION {ToSet(fields[f]) : f \in BlockFields}

\* The blocks of all fields in turn.
InTurn(fields) == fields["a"] \o fields["b"]

\* _check_duplicate_instance_relations
NoDuplicates(fields) == IsInjective(InTurn(fields))

-----------------------------------------------------------------------------
\* The copy of a block belongs to another subscription.
Foreign(db, block) == db.owner[block] = "other"

\* _set_instance_domain_model_attrs replaces the relations of the block.
SetRelations(db, block, fields) == [db EXCEPT !.fields[block] = fields]

\* ProductBlockModel.save: done.saved collects the instances of the subscription.
RECURSIVE SaveBlock(_, _, _)
SaveBlock(model, done, block) ==
  IF Foreign(done.db, block) THEN done
  ELSE LET owned  == [done EXCEPT !.db.owner[block] = "own"]
           nested == FoldLeft(LAMBDA d, b : SaveBlock(model, d, b),
                              owned, InTurn(model[block]))
       IN  [db    |-> SetRelations(nested.db, block, model[block]),
            saved |-> nested.saved \cup {block}]

\* Deleting an instance deletes its relations, in both directions.
DeleteBlocks(db, gone) ==
  [owner  |-> [b \in Blocks |-> IF b \in gone THEN "none" ELSE db.owner[b]],
   fields |-> [b \in Blocks |->
     IF b \in gone THEN NoBlocks
     ELSE [f \in BlockFields |->
             SelectSeq(db.fields[b][f], LAMBDA d : d \notin gone)]]]

\* SubscriptionModel.save: what is no longer part of the model is deleted.
SaveSubscription(model, db) ==
  LET done == SaveBlock(model, [db |-> db, saved |-> {}], 1)
      old  == {b \in Blocks : db.owner[b] = "own"}
  IN  DeleteBlocks(done.db, old \ done.saved)

-----------------------------------------------------------------------------
(* Loading *)

\* The rows of subscription_instance_relations.
Relations(db) ==
  UNION {{[by |-> b, on |-> db.fields[b][f][i], order |-> i, attr |-> f] :
            i \in DOMAIN db.fields[b][f]} : b \in Blocks, f \in BlockFields}

\* SubscriptionInstanceTable.depends_on, in the order of order_id.
Children(db, block) ==
  LET rows == SetToSortSeq({r \in Relations(db) : r.by = block}, LAMBDA q, r : q.order < r.order)
  IN  [i \in DOMAIN rows |-> rows[i].on]

\* Faulty: the attributes under which other blocks use the instance count as well.
Attrs_AnyUser(db, block, instance) == {r.attr : r \in {q \in Relations(db) : q.on = instance}}

\* The attributes of the block under which it uses the instance.
Attrs(db, block, instance) ==
  {r.attr : r \in {q \in Relations(db) : q.on = instance /\ q.by = block}}

\* ProductBlockModel.from_db, DomainModel._load_instances: a field takes the instances
\* stored under its name, product block by product block.
LoadField(db, block, field) ==
  LET mine == SelectSeq(Children(db, block), LAMBDA i : field \in Attrs(db, block, i))
  IN  FlattenSeq([k \in DOMAIN Kinds |-> SelectSeq(mine, LAMBDA i : KindOf[i] = Kinds[k])])

\* subscription_instance_as_json: the instances of each attribute, ordered by order_id.
JsonField(db, block, field) ==
  LET rows == SetToSortSeq({r \in Relations(db) : r.by = block /\ r.attr = field},
                           LAMBDA q, r : q.order < r.order)
  IN  [i \in DOMAIN rows |-> rows[i].on]

-----------------------------------------------------------------------------
(* The reference *)

\* The blocks a model consists of: reached without passing another's block.
OwnBlocks(model, db) ==
  LET reached[n \in 0..3] ==
        IF n = 0 THEN {1}
        ELSE reached[n - 1] \cup
             UNION {Depends(model[b]) : b \in {c \in reached[n - 1] : ~Foreign(db, c)}}
  IN  {b \in reached[3] : ~Foreign(db, b)}

Lists(blocks) == {<<>>} \cup {<<b>> : b \in blocks} \cup
                 {<<b, c>> : b \in blocks, c \in blocks}

\* The trees of a root, block 2 below it and block 3 below either.
Trees ==
  {[b \in Blocks |-> IF b = 1 THEN root ELSE IF b = 2 THEN nested ELSE NoBlocks] :
     root \in {r \in [BlockFields -> Lists({2, 3})] : NoDuplicates(r)},
     nested \in {NoBlocks, [NoBlocks EXCEPT !["a"] = <<3>>]}}

Owners == {o \in [Blocks -> {"own", "other", "none"}] : o[1] = "own"}

\* What is stored: relations only between stored blocks.
Stored ==
  {d \in [owner : Owners, fields : Trees] :
     \A b \in Blocks : \A c \in Depends(d.fields[b]) :
       d.owner[b] # "none" /\ d.owner[c] # "none"}

ByKind(blocks) ==
  FlattenSeq([k \in DOMAIN Kinds |-> SelectSeq(blocks, LAMBDA b : KindOf[b] = Kinds[k])])

\* What has been saved is loaded into the same fields, also when several blocks use an
\* instance under different names.  Loading a subscription keeps the order of a list, loading
\* a product block keeps it for each product block of the list.
LoadExact ==
  \A db \in Stored : \A model \in Trees :
    LET saved == SaveSubscription(model, db)
    IN  \A b \in OwnBlocks(model, db), f \in BlockFields :
          /\ JsonField(saved, b, f) = model[b][f]
          /\ LoadField(saved, b, f) = ByKind(model[b][f])

\* Saving a model stores exactly its own blocks, each with the relations of the
\* model, deletes what was removed, and takes from the blocks of others nothing
\* but their relations to what was deleted.
SaveExact ==
  \A db \in Stored : \A model \in Trees :
    LET saved == SaveSubscription(model, db)
        own   == OwnBlocks(model, db)
    IN  /\ {b \in Blocks : saved.owner[b] = "own"} = own
        /\ \A b \in own : saved.fields[b] = model[b]
        /\ \A b \in Blocks :
             db.owner[b] = "other" =>
               /\ saved.owner[b] = "other"
               /\ \A f \in BlockFields :
                    saved.fields[b][f] =
                      SelectSeq(db.fields[b][f],
                                LAMBDA d : saved.owner[d] # "none")
=============================================================================
