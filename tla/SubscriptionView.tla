--------------------------- MODULE SubscriptionView ---------------------------
(* A subscription as clients see it: the tree of its blocks with, for every block, the    *)
(* instances that use it (services/subscriptions.py, db/queries/subscription.py), the     *)
(* functions on paths that the tree is edited with (api/helpers.py), and the look-up of   *)
(* subscriptions and of values by resource type.                                          *)
EXTENDS Integers, Sequences, SequencesExt, FiniteSetsExt

(* -------------------------------- Dumped trees ------------------------------- *)
\* A dumped value: a dict or a list with its keys (of a list: the indices) and parts in
\* order, or a leaf that stands for a set of ids; None and empty values are the empty set.
Leaf(ids) == [kind |-> "leaf", ids |-> ids, keys |-> <<>>, parts |-> <<>>]
None == Leaf({})
Dict(keys, parts) == [kind |-> "dict", ids |-> {}, keys |-> keys, parts |-> parts]
List(parts) == [kind |-> "list", ids |-> {}, parts |-> parts,
                keys |-> [i \in DOMAIN parts |-> <<"0", "1", "2">>[i]]]

Has(d, k) == \E i \in DOMAIN d.keys : d.keys[i] = k
At(d, k) == CHOOSE i \in DOMAIN d.keys : d.keys[i] = k

Put(d, k, v) ==
  IF Has(d, k) THEN [d EXCEPT !.parts[At(d, k)] = v]
  ELSE Dict(Append(d.keys, k), Append(d.parts, v))

IdKey == "subscription_instance_id"
UsersKey == "in_use_by_ids"

\* A block with an id and one more field; blocks within blocks to three levels, one of them
\* in several places.
BlockDict(id, field) == Dict(<<IdKey, "f">>, <<Leaf({id}), field>>)

Lowest == {BlockDict(i, None) : i \in {3, 4}}
Middle(id) == {BlockDict(id, f) :
                 f \in {None, Leaf({9})} \cup Lowest \cup {List(<<b, c>>) : b, c \in Lowest}
                         \cup {List(<<Leaf({9}), b>>) : b \in Lowest}}
Highest == {BlockDict(1, f) :
              f \in Middle(2) \cup {List(<<b, c>>) : b \in Middle(2), c \in Middle(5)}
                      \cup {Dict(<<"g">>, <<b>>) : b \in Middle(2)} \cup {List(<<>>)}}

Sub == 7      \* the id of the subscription
Outside == 8  \* an instance of another subscription

Dumps ==
  {Dict(<<"subscription_id", "product", "b">>, <<Leaf({Sub}), Dict(<<"name">>, <<None>>), v>>) :
     v \in Highest}
    \cup {Dict(<<"subscription_id", "b", "c">>, <<Leaf({Sub}), List(<<v>>), w>>) :
            v \in Middle(2), w \in Middle(5)}

(* -------------------------------- Paths in trees ------------------------------ *)
RECURSIVE Paths(_), GetIn(_, _), UpdateIn(_, _, _)

\* product_block_paths: the dicts in a dict, also those in its lists, but not those in
\* lists of lists.
Paths(d) ==
  LET below(k, v) == {<<k>>} \cup {<<k>> \o p : p \in Paths(v)}
      listed(k, l) == UNION {{<<k>> \o p : p \in below(l.keys[i], l.parts[i])} :
                               i \in {j \in DOMAIN l.parts : l.parts[j].kind = "dict"}}
  IN  UNION {CASE d.parts[i].kind = "dict" -> below(d.keys[i], d.parts[i])
               [] d.parts[i].kind = "list" -> listed(d.keys[i], d.parts[i])
               [] OTHER -> {} : i \in DOMAIN d.keys}

\* getattr_in: what is not there is None.
GetIn(v, path) ==
  IF path = <<>> THEN v
  ELSE IF Has(v, Head(path)) THEN GetIn(v.parts[At(v, Head(path))], Tail(path))
  ELSE GetIn(None, Tail(path))

\* update_in: a key that is missing on the way is added to a copy only.
UpdateIn(v, path, new) ==
  LET k == Head(path) IN
  IF Len(path) = 1 THEN Put(v, k, new)
  ELSE IF Has(v, k) THEN [v EXCEPT !.parts[At(v, k)] = UpdateIn(@, Tail(path), new)]
  ELSE v

(* --------------------------- Instances and their users ------------------------ *)
RECURSIVE Inject(_, _), Within(_)

\* All dicts of a tree, at any depth.
Within(v) ==
  (IF v.kind = "dict" THEN {v} ELSE {})
    \cup UNION {Within(v.parts[i]) : i \in DOMAIN v.parts}

IdOf(d) == GetIn(d, <<IdKey>>).ids
Blocks(tree) == {d \in Within(tree) : IdOf(d) # {}}
Ids(tree) == UNION {IdOf(d) : d \in Within(tree)}

\* The relations of instances that a tree shows: a block depends on those right below it,
\* in a field of its own, a list or a plain dict; some have a user outside as well.
RECURSIVE Direct(_)
Direct(d) ==
  UNION {LET v == d.parts[i] IN
         IF v.kind = "dict" /\ IdOf(v) # {} THEN IdOf(v) ELSE Direct(v) : i \in DOMAIN d.parts}

RelationsOf(tree, used) ==
  UNION {{[user |-> u, of |-> x] : u \in IdOf(d), x \in Direct(d)} : d \in Blocks(tree)}
    \cup {[user |-> Outside, of |-> x] : x \in used}

\* _eagerload_subscription_instances: the instances of the subscription and, in a recursive
\* query over pairs, all they depend on.
Eager(own, relations) ==
  LET more(S) == S \cup {r \in relations : r.user \in {s.of : s \in S}}
      grow[n \in 0..Cardinality(relations)] ==
        IF n = 0 THEN {[user |-> 0, of |-> i] : i \in own} ELSE more(grow[n - 1])
  IN  {p.of : p \in grow[Cardinality(relations)]}

UsersOf(own, relations) ==
  [i \in Eager(own, relations) |-> {r.user : r \in {x \in relations : x.of = i}}]

\* inject_in_use_by_ids_v2: lists are walked when their first item is a dict; a block that
\* is not among those loaded is a KeyError.
Inject(d, users) ==
  LET walked(v) ==
        CASE v.kind = "dict" -> Inject(v, users)
          [] v.kind = "list" /\ v.parts # <<>> /\ v.parts[1].kind = "dict" ->
               [v EXCEPT !.parts = [i \in DOMAIN @ |-> Inject(@[i], users)]]
          [] OTHER -> v
      inside == [d EXCEPT !.parts = [i \in DOMAIN @ |-> walked(@[i])]]
  IN  IF IdOf(d) = {} THEN inside
      ELSE Put(inside, UsersKey, Leaf(users[CHOOSE i \in IdOf(d) : TRUE]))

\* filter_instance_ids_on_subscription: users that the tree shows itself are left out.
WithoutOwn(tree) ==
  LET paths == Paths(tree)
      own == UNION {GetIn(tree, Append(p, IdKey)).ids : p \in paths}
               \cup GetIn(tree, <<"subscription_id">>).ids
      edited(t, p) ==
        LET ids == GetIn(t, Append(p, UsersKey)).ids IN
        IF ids = {} THEN t ELSE UpdateIn(t, Append(p, UsersKey), Leaf(ids \ own))
  IN  FoldSet(LAMBDA p, t : edited(t, p), tree, paths)

(* Lists that hold other things before their first block are not walked, so the trees of
   the next claims are those that domain models dump: lists of blocks only. *)
RECURSIVE Dumped(_)
Dumped(v) ==
  /\ v.kind = "list" => \A i \in DOMAIN v.parts : v.parts[i].kind = "dict"
  /\ \A i \in DOMAIN v.parts : Dumped(v.parts[i])

\* The own instances are those at the top; the others may belong to other subscriptions.
TopIds(tree) == Direct(tree)

Shown(tree, used) ==
  Inject(tree, UsersOf(TopIds(tree), RelationsOf(tree, used)))

\* Every block of the tree, however deep and however often, tells all its users; filtered,
\* it tells exactly those that the tree does not show itself; and nothing else changes.
UsersAreExact(dumps) ==
  \A tree \in {t \in dumps : Dumped(t)} : \A used \in SUBSET Ids(tree) :
    LET users == UsersOf(TopIds(tree), RelationsOf(tree, used))
        shown == Shown(tree, used)
        short == WithoutOwn(shown)
    IN  /\ Ids(tree) = DOMAIN users
        /\ \A d \in Blocks(shown) : \A i \in IdOf(d) : GetIn(d, <<UsersKey>>).ids = users[i]
        /\ \A d \in Blocks(short) : \A i \in IdOf(d) :
             GetIn(d, <<UsersKey>>).ids = users[i] \cap {Outside}
        /\ Paths(short) = Paths(tree)
        /\ \A p \in Paths(tree) : \A k \in {IdKey, "name"} :
             GetIn(short, Append(p, k)) = GetIn(tree, Append(p, k))

\* The paths are those of all dicts, what is set at a path is found there and disturbs
\* nothing that does not lie on the way, and a path that leads nowhere changes nothing.
PathsAreExact(dumps) ==
  \A tree \in dumps :
    /\ {GetIn(tree, p) : p \in Paths(tree)} = Within(tree) \ {tree}
    /\ \A p \in Paths(tree) :
         LET set == UpdateIn(tree, Append(p, "x"), Leaf({9})) IN
         /\ GetIn(set, Append(p, "x")) = Leaf({9})
         /\ Paths(set) = Paths(tree)
         /\ \A q \in Paths(tree) : ~IsPrefix(q, p) => GetIn(set, q) = GetIn(tree, q)
         /\ UpdateIn(tree, Append(p, "x") \o <<"y">>, Leaf({9})) = tree

(* ------------------------------ Looking things up ----------------------------- *)
\* Values of instances: of which subscription, instance, resource type, and the value.
SubIds == {1, 2}
InstIds == {1, 2, 3}
Types == {"port", "vlan"}
Values == {"x", "y"}
OwnerOf == [i \in InstIds |-> IF i = 3 THEN 2 ELSE 1]

Row(i, t, v) == [inst |-> i, type |-> t, value |-> v]
RowSets ==
  LET rows == {Row(i, t, v) : i \in InstIds, t \in Types, v \in Values}
  IN  UNION {kSubset(n, rows) : n \in 0..4}

\* find_values_for_resource_types: for each type the values in the order of the instances;
\* those of one instance come in any order, here in that of Values.
FindValues(rows, sub) ==
  [t \in Types |->
     LET of(i) == SetToSortSeq({r.value : r \in {x \in rows : x.inst = i /\ x.type = t}},
                               LAMBDA v, w : v = "x" /\ w = "y")
     IN  FlattenSeq([i \in 1..3 |-> IF OwnerOf[i] = sub THEN of(i) ELSE <<>>])]

Missing(rows, sub, wanted) == {t \in wanted : FindValues(rows, sub)[t] = <<>>}

\* The values at one place belong to one instance when every instance has one value of each
\* type; not so when one has none or several.
ValuesCorrelate ==
  \A rows \in RowSets : \A sub \in SubIds :
    LET insts == {i \in InstIds : OwnerOf[i] = sub}
        count(i, t) == Cardinality({r \in rows : r.inst = i /\ r.type = t})
        found == FindValues(rows, sub)
    IN  /\ (\A i \in insts, t \in Types : count(i, t) = 1) =>
             \A n \in 1..Cardinality(insts) :
               \E i \in insts : \A t \in Types : Row(i, t, found[t][n]) \in rows
        /\ \A t \in Types :
             t \in Missing(rows, sub, Types) <=> \A i \in insts : count(i, t) = 0

\* retrieve_subscription_by_subscription_instance_value: each subscription once, however
\* many of its instances have the value; more than one is an error. The rows joined are
\* those of retrieve_node_subscriptions_by_name, which keeps one for every instance.
Joined(rows, type, value, status, wanted) ==
  LET hits == SetToSeq({r \in rows : r.type = type /\ r.value = value
                                       /\ status[OwnerOf[r.inst]] \in wanted})
  IN  [i \in DOMAIN hits |-> OwnerOf[hits[i].inst]]

ByValue(rows, type, value, status, wanted) ==
  LET subs == ToSet(Joined(rows, type, value, status, wanted)) IN
  IF Cardinality(subs) > 1 THEN {0} ELSE subs

\* A subscription is found exactly when it is the only one in a wanted status with the
\* value; in the list by name it is found as often as it has instances with it.
LookUpIsExact ==
  \A rows \in RowSets, status \in [SubIds -> {"active", "terminated"}] :
    LET with(s) == {i \in InstIds : OwnerOf[i] = s /\ Row(i, "port", "x") \in rows}
        hits == {s \in SubIds : status[s] = "active" /\ with(s) # {}}
        listed == Joined(rows, "port", "x", status, {"active"})
    IN  /\ \A s \in SubIds : ByValue(rows, "port", "x", status, {"active"}) = {s} <=> hits = {s}
        /\ \A s \in hits : Cardinality({n \in DOMAIN listed : listed[n] = s})
                             = Cardinality(with(s))

ViewExact(dumps) == UsersAreExact(dumps) /\ PathsAreExact(dumps) /\ ValuesCorrelate /\ LookUpIsExact
=============================================================================
