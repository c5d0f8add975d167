--------------------------- MODULE Schedules_proofs ---------------------------
(* The scheduler keeps its three stores consistent, for any number of tasks,  *)
(* schedules and requests, and whenever it is killed.                         *)
EXTENDS Schedules, FiniteSetTheorems, SequenceTheorems, TLAPS

-----------------------------------------------------------------------------
(* The inductive invariant *)

\* What a request in the queue, or one that has been taken, names.
ItemOK(x) ==
  /\ x.op = "create" => x.workflow \in Workflows
  /\ x.op # "create" => x.id \in Ids
  /\ x.op = "delete" => x.workflow \in Workflows

\* What the scheduler process does belongs to the item it holds.
Held ==
  /\ \A k \in DOMAIN queue : ItemOK(queue[k])
  /\ pc # "idle" => ItemOK(item)
  /\ pc \in {"add", "link"} => item.op = "create"
  /\ pc \in {"get", "modify"} => item.op = "update"
  /\ pc \in {"remove", "unlink"} => item.op = "delete"
  /\ pc = "link" => item.id \in Ids

Typing == TypeOK /\ IsFiniteSet(rows) /\ Held

\* Every job is one of a task, and rows and the scheduler process know of which:
\* while a row is about to be added or removed, nobody uses the job's id again.
Linked ==
  /\ \A i \in Ids : Exists(i) => jobs[i].workflow \in Workflows
  /\ \A r \in rows : jobs[r[2]].workflow = r[1]
  /\ pc = "link" => ~ Exists(item.id) \/ jobs[item.id].workflow = item.workflow
  /\ pc = "unlink" => ~ Exists(item.id)

\* The predicate that was evaluated still holds when the process is stored.
Exclusive == firing # None /\ checked => instances[firing] = 0

\* The item adds a schedule of a task that load-initial-schedule schedules.
AddsInitial(x) == x.op = "create" /\ x.workflow \in Initial

\* Job i will be gone when the scheduler process comes to item k of the queue.
GoneBefore(i, k) ==
  \/ \E j \in 1..(k - 1) : queue[j].op = "delete" /\ queue[j].id = i
  \/ pc = "remove" /\ item.id = i

\* The jobs that belong to workflow w in job store s.
JobsIn(s, w) == {i \in Ids : s[i].workflow = w}

\* At most one new schedule is on its way, and what the workflow has now is
\* deleted before it is added.
OneOnItsWay ==
  /\ \A k \in DOMAIN queue : AddsInitial(queue[k]) =>
       /\ \A i \in JobsIn(jobs, queue[k].workflow) : GoneBefore(i, k)
       /\ \A j \in DOMAIN queue : AddsInitial(queue[j]) => j = k
       /\ pc = "add" => item.workflow \notin Initial
  /\ pc = "add" /\ item.workflow \in Initial => JobsIn(jobs, item.workflow) = {}
  /\ \A w \in Initial : \A i, j \in JobsIn(jobs, w) : i = j

Sole == ~ lost => hidden = {} /\ OneOnItsWay

-----------------------------------------------------------------------------
(* The queue *)

\* SetToSeq lists all elements of a finite set.
LEMMA SetToSeqLists ==
  ASSUME NEW S, IsFiniteSet(S)
  PROVE  /\ Cardinality(S) \in Nat
         /\ SetToSeq(S) \in [1..Cardinality(S) -> S]
         /\ \A x \in S : \E k \in 1..Cardinality(S) : SetToSeq(S)[k] = x
<1> DEFINE D == 1..Cardinality(S)
<1>1. Cardinality(S) \in Nat /\ ExistsBijection(D, S)
  BY FS_CardinalityType
<1>2. \E f \in [D -> S] : IsInjective(f)
  BY <1>1 DEF ExistsBijection, Bijection, Injection
<1>3. SetToSeq(S) \in Injection(D, S)
  BY <1>2 DEF SetToSeq, Injection
<1>4. IsFiniteSet(D) /\ Cardinality(D) = Cardinality(S)
  BY <1>1, FS_Interval
<1>5. SetToSeq(S) \in Surjection(D, S)
  BY <1>3, <1>4, FS_Injection
<1> QED
  BY <1>1, <1>3, <1>5 DEF Injection, Surjection

\* Pushing leaves the items in front as they are.
LEMMA Pushed ==
  ASSUME queue \in Seq(Item), NEW items \in Seq(Item), Push(items)
  PROVE  /\ queue' \in Seq(Item)
         /\ Len(queue) \in Nat /\ Len(items) \in Nat
         /\ DOMAIN queue = 1..Len(queue)
         /\ DOMAIN queue' = 1..(Len(queue) + Len(items))
         /\ \A k \in 1..Len(queue) : queue'[k] = queue[k]
         /\ \A k \in 1..Len(items) : queue'[Len(queue) + k] = items[k]
         /\ \A k \in 1..(Len(queue) + Len(items)) :
              k > Len(queue) => \E j \in 1..Len(items) : queue'[k] = items[j]
<1>1. queue' = queue \o items
  BY DEF Push
<1>2. /\ queue \o items \in Seq(Item)
      /\ Len(queue \o items) = Len(queue) + Len(items)
      /\ \A i \in 1..Len(queue) + Len(items) :
           (queue \o items)[i] = IF i <= Len(queue) THEN queue[i]
                                 ELSE items[i - Len(queue)]
  BY ConcatProperties
<1>3. Len(queue) \in Nat /\ Len(items) \in Nat /\ DOMAIN queue = 1..Len(queue)
  BY LenProperties
<1>4. DOMAIN queue' = 1..(Len(queue) + Len(items))
  BY <1>1, <1>2, LenProperties
<1>5. \A k \in 1..Len(queue) : queue'[k] = queue[k]
  BY <1>1, <1>2, <1>3
<1>6. \A k \in 1..Len(items) : queue'[Len(queue) + k] = items[k]
  BY <1>1, <1>2, <1>3
<1>7. ASSUME NEW k \in 1..(Len(queue) + Len(items)), k > Len(queue)
      PROVE  \E j \in 1..Len(items) : queue'[k] = items[j]
  <2>1. k - Len(queue) \in 1..Len(items)
    BY <1>3, <1>7
  <2> QED
    BY <2>1, <1>1, <1>2, <1>3, <1>7
<1> QED
  BY <1>1, <1>2, <1>3, <1>4, <1>5, <1>6, <1>7

\* A single item.
LEMMA Single ==
  ASSUME NEW x \in Item
  PROVE  /\ <<x>> \in Seq(Item) /\ Len(<<x>>) = 1
         /\ \A k \in 1..Len(<<x>>) : <<x>>[k] = x
OBVIOUS

\* The requests of the API are items.
LEMMA RequestType ==
  ASSUME NEW w \in Workflows, NEW i \in Ids, NEW once \in BOOLEAN
  PROVE  /\ Create(w, once) \in Item /\ ItemOK(Create(w, once))
         /\ Delete(w, i) \in Item /\ ItemOK(Delete(w, i))
         /\ [op |-> "update", workflow |-> None, id |-> i, once |-> once] \in Item
         /\ ItemOK([op |-> "update", workflow |-> None, id |-> i, once |-> once])
BY DEF Create, Delete, Item, ItemOK

\* A schedule may be created.
LEMMA CreateType ==
  ASSUME NEW w \in Workflows, NEW once \in BOOLEAN
  PROVE  Create(w, once) \in Item /\ ItemOK(Create(w, once))
BY DEF Create, Item, ItemOK

\* What add_unique_scheduled_task_to_queue puts into the queue: deletions of all
\* that the linker table knows of the workflow, and then one new schedule.
Uniquely(w) ==
  [k \in 1..Cardinality(RowsOf(w)) |-> Delete(w, SetToSeq(RowsOf(w))[k][2])]
    \o <<Create(w, FALSE)>>

LEMMA UniquelyType ==
  ASSUME NEW w \in Workflows, rows \subseteq Workflows \X Ids, IsFiniteSet(rows)
  PROVE  /\ Cardinality(RowsOf(w)) \in Nat
         /\ Uniquely(w) \in Seq(Item)
         /\ Len(Uniquely(w)) = Cardinality(RowsOf(w)) + 1
         /\ Uniquely(w)[Cardinality(RowsOf(w)) + 1] = Create(w, FALSE)
         /\ \A k \in 1..Cardinality(RowsOf(w)) :
              \E i \in Ids : Uniquely(w)[k] = Delete(w, i)
         /\ \A r \in RowsOf(w) : \E k \in 1..Cardinality(RowsOf(w)) :
              Uniquely(w)[k] = Delete(w, r[2])
<1> DEFINE n == Cardinality(RowsOf(w))
           s == SetToSeq(RowsOf(w))
           d == [k \in 1..n |-> Delete(w, s[k][2])]
<1>1. RowsOf(w) \subseteq Workflows \X Ids /\ IsFiniteSet(RowsOf(w))
  BY FS_Subset DEF RowsOf
<1>2. n \in Nat /\ s \in [1..n -> RowsOf(w)]
        /\ \A r \in RowsOf(w) : \E k \in 1..n : s[k] = r
  BY <1>1, SetToSeqLists
<1>3. \A k \in 1..n : s[k][2] \in Ids
  BY <1>1, <1>2
<1> HIDE DEF n, s
<1>4. \A k \in 1..n : Delete(w, s[k][2]) \in Item
  BY <1>3, RequestType
<1>5. d \in Seq(Item) /\ Len(d) = n /\ \A k \in 1..n : d[k] = Delete(w, s[k][2])
  BY <1>2, <1>4
<1> HIDE DEF d
<1>6. /\ <<Create(w, FALSE)>> \in Seq(Item) /\ Len(<<Create(w, FALSE)>>) = 1
      /\ <<Create(w, FALSE)>>[1] = Create(w, FALSE)
  <2>1. Create(w, FALSE) \in Item
    BY CreateType
  <2> QED
    BY <2>1, Single
<1>7. Uniquely(w) = d \o <<Create(w, FALSE)>>
  BY DEF Uniquely, d, n, s
<1> DEFINE c == <<Create(w, FALSE)>>
<1>8. /\ Uniquely(w) \in Seq(Item)
      /\ Len(Uniquely(w)) = n + 1
      /\ \A i \in 1..(n + 1) : Uniquely(w)[i] = IF i <= n THEN d[i] ELSE c[i - n]
  <2>1. c \in Seq(Item) /\ Len(c) = 1 /\ Uniquely(w) = d \o c
    BY <1>6, <1>7
  <2> HIDE DEF c
  <2>2. /\ d \o c \in Seq(Item) /\ Len(d \o c) = Len(d) + Len(c)
        /\ \A i \in 1..Len(d) + Len(c) :
             (d \o c)[i] = IF i <= Len(d) THEN d[i] ELSE c[i - Len(d)]
    BY <1>5, <2>1, ConcatProperties
  <2> QED
    BY <1>2, <1>5, <2>1, <2>2
<1>9. Uniquely(w)[n + 1] = Create(w, FALSE)
  <2>1. n + 1 \in 1..(n + 1) /\ ~ (n + 1 <= n) /\ (n + 1) - n = 1
    BY <1>2
  <2>2. Uniquely(w)[n + 1] = c[1]
    <3> HIDE DEF c
    <3> QED
      BY <2>1, <1>8
  <2> QED
    BY <2>2, <1>6
<1>10. \A k \in 1..n : Uniquely(w)[k] = Delete(w, s[k][2])
  BY <1>2, <1>5, <1>8
<1>11. \A k \in 1..n : \E i \in Ids : Uniquely(w)[k] = Delete(w, i)
  BY <1>3, <1>10
<1>12. \A r \in RowsOf(w) : \E k \in 1..n : Uniquely(w)[k] = Delete(w, r[2])
  BY <1>2, <1>10
<1> QED
  BY <1>2, <1>8, <1>9, <1>11, <1>12 DEF n

\* Taking an item: the others move up.
LEMMA Popped ==
  ASSUME queue \in Seq(Item), queue # <<>>, queue' = Tail(queue)
  PROVE  /\ queue' \in Seq(Item)
         /\ Len(queue) \in Nat /\ 1 \in DOMAIN queue
         /\ Head(queue) = queue[1] /\ Head(queue) \in Item
         /\ DOMAIN queue = 1..Len(queue)
         /\ DOMAIN queue' = 1..(Len(queue) - 1)
         /\ \A k \in 1..(Len(queue) - 1) : queue'[k] = queue[k + 1]
<1>1. Len(queue) \in Nat \ {0} /\ DOMAIN queue = 1..Len(queue)
  BY EmptySeq, LenProperties
<1>2. /\ Head(queue) \in Item /\ Tail(queue) \in Seq(Item)
      /\ Len(Tail(queue)) = Len(queue) - 1
      /\ \A i \in 1..Len(Tail(queue)) : Tail(queue)[i] = queue[i + 1]
  BY HeadTailProperties
<1>3. DOMAIN queue' = 1..(Len(queue) - 1)
  BY <1>2, LenProperties
<1> QED
  BY <1>1, <1>2, <1>3


-----------------------------------------------------------------------------
(* Types *)

\* The scheduler process has nothing in hand.
LEMMA NothingHeld == NoItem \in Item
BY DEF NoItem, Item

\* Removing a job, and its row with it.
LEMMA GoneType ==
  ASSUME TypeOK, IsFiniteSet(rows), NEW i, Gone(i)
  PROVE  /\ jobs' \in [Ids -> [workflow : Workflows \cup {None}, once : BOOLEAN]]
         /\ rows' \subseteq rows /\ IsFiniteSet(rows')
<1>1. NoJob \in [workflow : Workflows \cup {None}, once : BOOLEAN]
  BY DEF NoJob
<1>2. jobs' \in [Ids -> [workflow : Workflows \cup {None}, once : BOOLEAN]]
  BY <1>1 DEF Gone, TypeOK
<1>3. rows' \in SUBSET rows
  BY DEF Gone
<1> QED
  BY <1>2, <1>3, FS_Subset

\* Requests that are well formed leave the queue well formed.
LEMMA TypingPush ==
  ASSUME Typing, NEW items \in Seq(Item), Push(items),
         \A k \in 1..Len(items) : ItemOK(items[k]),
         UNCHANGED <<store, item, pc, executor, history>>
  PROVE  Typing'
<1>1. queue \in Seq(Item) /\ \A k \in DOMAIN queue : ItemOK(queue[k])
  BY DEF Typing, TypeOK, Held
<1>2. queue' \in Seq(Item)
  BY <1>1, Pushed
<1>3. ASSUME NEW k \in DOMAIN queue' PROVE ItemOK(queue'[k])
  <2>1. k \in 1..(Len(queue) + Len(items)) /\ Len(queue) \in Nat /\ Len(items) \in Nat
    BY <1>1, Pushed
  <2>2. CASE k > Len(queue)
    BY <1>1, <2>1, <2>2, Pushed
  <2>3. CASE ~ (k > Len(queue))
    <3>1. k \in 1..Len(queue) /\ k \in DOMAIN queue
      BY <1>1, <2>1, <2>3, Pushed
    <3>2. queue'[k] = queue[k]
      BY <1>1, <3>1, Pushed
    <3> QED
      BY <1>1, <3>1, <3>2
  <2> QED
    BY <2>2, <2>3
<1>4. TypeOK' /\ IsFiniteSet(rows')
  BY <1>2 DEF Typing, TypeOK, store, executor, history
<1>5. Held'
  BY <1>3 DEF Typing, Held, ItemOK, store, executor, history
<1> QED
  BY <1>4, <1>5 DEF Typing

LEMMA TypingCall ==
  ASSUME Typing, Call
  PROVE  Typing'
<1> USE SchedulesAssumption
<1>1. ASSUME NEW w \in Workflows, NEW once \in BOOLEAN, ApiCreate(w, once)
      PROVE  Typing'
  <2>1. Create(w, once) \in Item /\ ItemOK(Create(w, once))
    BY CreateType
  <2> QED
    BY <1>1, <2>1, Single, TypingPush DEF ApiCreate
<1>2. ASSUME NEW i \in Ids, NEW once \in BOOLEAN, ApiUpdate(i, once)
      PROVE  Typing'
  <2> DEFINE x == [op |-> "update", workflow |-> None, id |-> i, once |-> once]
  <2>1. x \in Item /\ ItemOK(x)
    BY DEF Item, ItemOK
  <2>2. Push(<<x>>) /\ UNCHANGED <<store, item, pc, executor, history>>
    BY <1>2 DEF ApiUpdate
  <2> HIDE DEF x
  <2> QED
    BY <2>1, <2>2, Single, TypingPush
<1>3. ASSUME NEW w \in Workflows, NEW i \in Ids, ApiDelete(w, i)
      PROVE  Typing'
  <2>1. Delete(w, i) \in Item /\ ItemOK(Delete(w, i))
    BY DEF Delete, Item, ItemOK
  <2> QED
    BY <1>3, <2>1, Single, TypingPush DEF ApiDelete
<1>4. ASSUME NEW w \in Initial, NEW recreate \in BOOLEAN, AddUnique(w, recreate)
      PROVE  Typing'
  <2>1. rows \subseteq Workflows \X Ids /\ IsFiniteSet(rows) /\ w \in Workflows
    BY DEF Typing, TypeOK
  <2>2. Push(Uniquely(w)) /\ UNCHANGED <<store, item, pc, executor, history>>
    BY <1>4 DEF AddUnique, Uniquely
  <2>3. ASSUME NEW k \in 1..Len(Uniquely(w)) PROVE ItemOK(Uniquely(w)[k])
    <3>1. CASE k = Cardinality(RowsOf(w)) + 1
      BY <2>1, <3>1, UniquelyType, CreateType
    <3>2. CASE k # Cardinality(RowsOf(w)) + 1
      <4>1. k \in 1..Cardinality(RowsOf(w))
        <5>1. /\ Cardinality(RowsOf(w)) \in Nat
              /\ Len(Uniquely(w)) = Cardinality(RowsOf(w)) + 1
          BY <2>1, UniquelyType
        <5> QED
          BY <5>1, <3>2
      <4>2. PICK i \in Ids : Uniquely(w)[k] = Delete(w, i)
        BY <2>1, <4>1, UniquelyType
      <4> QED
        BY <2>1, <4>2 DEF Delete, ItemOK
    <3> QED
      BY <3>1, <3>2
  <2> QED
    BY <2>1, <2>2, <2>3, UniquelyType, TypingPush
<1> QED
  BY <1>1, <1>2, <1>3, <1>4 DEF Call

LEMMA TypingHandle ==
  ASSUME Typing, Pop \/ Handle
  PROVE  Typing'
<1> USE SchedulesAssumption DEF Typing
<1>1. CASE Pop
  <2>1. Head(queue) = queue[1] /\ 1 \in DOMAIN queue /\ Head(queue) \in Item
        /\ queue' \in Seq(Item)
    BY <1>1, Popped DEF Pop, TypeOK
  <2>2. \A k \in DOMAIN queue' : ItemOK(queue'[k])
    <3>1. /\ DOMAIN queue = 1..Len(queue) /\ DOMAIN queue' = 1..(Len(queue) - 1)
          /\ Len(queue) \in Nat
          /\ \A k \in 1..(Len(queue) - 1) : queue'[k] = queue[k + 1]
      BY <1>1, Popped DEF Pop, TypeOK
    <3> QED
      BY <3>1 DEF Held
  <2>3. ItemOK(item') /\ item' \in Item /\ item' = Head(queue)
    BY <1>1, <2>1 DEF Pop, Held
  <2>4. item'.op \in {"create", "update", "delete"}
    BY <2>3 DEF Item
  <2>5. /\ item'.op = "create" => pc' = "add"
        /\ item'.op = "update" => pc' = "get"
        /\ item'.op = "delete" => pc' = "remove"
    BY <1>1, <2>3 DEF Pop, Entry
  <2>6. Held'
    BY <2>2, <2>3, <2>4, <2>5 DEF Held, ItemOK
  <2>7. TypeOK' /\ IsFiniteSet(rows')
    BY <1>1, <2>1, <2>3, <2>4, <2>5 DEF Pop, TypeOK, store, executor, history
  <2> QED
    BY <2>6, <2>7
<1>2. CASE AddJob
  <2>1. CASE Done /\ UNCHANGED <<jobs, hidden>>
    BY <1>2, <2>1, NothingHeld DEF AddJob, Done, TypeOK, Held, ItemOK, executor
  <2>2. ASSUME NEW i \in Ids \ Used,
               jobs' = [jobs EXCEPT ![i] = [workflow |-> item.workflow, once |-> item.once]],
               item' = [item EXCEPT !.id = i], pc' = "link", hidden' = hidden \ {i}
        PROVE  Typing'
    <3>1. item' \in Item /\ item'.op = item.op /\ item'.workflow = item.workflow
            /\ item'.id = i
      BY <2>2 DEF TypeOK, Item
    <3>2. jobs' \in [Ids -> [workflow : Workflows \cup {None}, once : BOOLEAN]]
      BY <2>2 DEF TypeOK, Item
    <3> QED
      BY <1>2, <2>2, <3>1, <3>2 DEF AddJob, TypeOK, Held, ItemOK, executor
  <2> QED
    BY <1>2, <2>1, <2>2 DEF AddJob
<1>3. CASE Link
  <2>1. item.workflow \in Workflows /\ item.id \in Ids
    BY <1>3 DEF Link, Held, ItemOK
  <2>2. IsFiniteSet(rows')
    BY <1>3, FS_AddElement DEF Link
  <2>3. rows' \subseteq Workflows \X Ids
    BY <1>3, <2>1 DEF Link, TypeOK
  <2> QED
    BY <1>3, <2>2, <2>3, NothingHeld DEF Link, Done, TypeOK, Held, ItemOK, executor, history
<1>4. CASE GetJob
  BY <1>4, NothingHeld DEF GetJob, Done, TypeOK, Held, ItemOK, store, executor, history
<1>5. CASE Modify
  <2>1. jobs' \in [Ids -> [workflow : Workflows \cup {None}, once : BOOLEAN]]
    <3>1. item.once \in BOOLEAN
      BY DEF TypeOK, Item
    <3> QED
      BY <1>5, <3>1 DEF Modify, TypeOK
  <2> QED
    BY <1>5, <2>1, NothingHeld DEF Modify, Done, TypeOK, Held, ItemOK, executor, history
<1>6. CASE RemoveJob
  <2>1. CASE Exists(item.id)
    <3>1. /\ jobs' \in [Ids -> [workflow : Workflows \cup {None}, once : BOOLEAN]]
          /\ rows' \subseteq rows /\ IsFiniteSet(rows')
      BY <1>6, <2>1, GoneType DEF RemoveJob
    <3> QED
      BY <1>6, <2>1, <3>1
         DEF RemoveJob, TypeOK, Held, ItemOK, executor, history
  <2>2. CASE ~ Exists(item.id)
    BY <1>6, <2>2, NothingHeld
       DEF RemoveJob, Done, TypeOK, Held, ItemOK, store, executor, history
  <2> QED
    BY <2>1, <2>2
<1>7. CASE Unlink
  <2>1. rows' \in SUBSET rows /\ IsFiniteSet(rows')
    <3>1. rows' \in SUBSET rows
      BY <1>7 DEF Unlink
    <3> QED
      BY <3>1, FS_Subset
  <2> QED
    BY <1>7, <2>1, NothingHeld DEF Unlink, Done, TypeOK, Held, ItemOK, executor, history
<1> QED
  BY <1>1, <1>2, <1>3, <1>4, <1>5, <1>6, <1>7 DEF Handle

LEMMA TypingNext ==
  ASSUME Typing, [Next]_vars
  PROVE  Typing'
<1> USE SchedulesAssumption DEF Typing
<1>1. CASE Call
  BY <1>1, TypingCall
<1>2. CASE Pop \/ Handle
  BY <1>2, TypingHandle
<1>3. ASSUME NEW i \in Ids, Fire(i) PROVE Typing'
  <2>1. /\ jobs' \in [Ids -> [workflow : Workflows \cup {None}, once : BOOLEAN]]
        /\ rows' \subseteq rows /\ IsFiniteSet(rows')
    <3>1. CASE jobs[i].once
      BY <1>3, <3>1, GoneType DEF Fire
    <3>2. CASE ~ jobs[i].once
      BY <1>3, <3>2 DEF Fire, TypeOK, store
    <3> QED
      BY <3>1, <3>2
  <2>3. firing' \in Workflows \cup {None} /\ checked' \in BOOLEAN
    BY <1>3 DEF Fire, TypeOK
  <2> QED
    BY <1>3, <2>1, <2>3 DEF Fire, TypeOK, Held, ItemOK, history
<1>4. CASE CheckPredicate
  BY <1>4 DEF CheckPredicate, TypeOK, Held, ItemOK, store, history
<1>5. CASE StartProcess
  <2>1. firing \in Workflows /\ instances \in [Workflows -> Nat]
    BY <1>5 DEF StartProcess, TypeOK
  <2>2. instances[firing] + 1 \in Nat
    BY <2>1
  <2>3. instances' \in [Workflows -> Nat]
    BY <1>5, <2>1, <2>2 DEF StartProcess
  <2> QED
    BY <1>5, <2>3 DEF StartProcess, TypeOK, Held, ItemOK, store, history
<1>6. ASSUME NEW w \in Workflows, ProcessEnds(w) PROVE Typing'
  BY <1>6 DEF ProcessEnds, TypeOK, Held, ItemOK, store, history
<1>7. CASE Restart
  <2>1. hidden' \subseteq Ids
    BY <1>7 DEF Restart, TypeOK, Held
  <2> QED
    BY <1>7, <2>1, NothingHeld DEF Restart, TypeOK, Held, ItemOK, store
<1>8. CASE UNCHANGED vars
  BY <1>8 DEF vars, TypeOK, Held, ItemOK
<1> QED
  BY <1>1, <1>2, <1>3, <1>4, <1>5, <1>6, <1>7, <1>8 DEF Next

LEMMA TypingInit == Init => Typing
<1> SUFFICES ASSUME Init PROVE Typing
  OBVIOUS
<1>1. /\ queue \in Seq(Item) /\ \A k \in DOMAIN queue : ItemOK(queue[k])
  BY EmptySeq DEF Init
<1>2. NoJob \in [workflow : Workflows \cup {None}, once : BOOLEAN]
  BY DEF NoJob
<1>3. jobs \in [Ids -> [workflow : Workflows \cup {None}, once : BOOLEAN]]
  BY <1>2 DEF Init
<1> QED
  BY <1>1, <1>3, NothingHeld, FS_EmptySet DEF Init, Typing, TypeOK, Held

\* The three stores, the queue and the scheduler process stay well formed, for any
\* number of tasks and schedules: every item names what its handler needs.
THEOREM SchedulesTypeCorrect == Spec => []TypeOK
<1>1. Spec => []Typing
  BY TypingInit, TypingNext, PTL DEF Spec
<1>2. Typing => TypeOK
  BY DEF Typing
<1> QED
  BY <1>1, <1>2, PTL

-----------------------------------------------------------------------------
(* Job store and linker table *)

LEMMA LinkedInit == Init => Linked
BY SchedulesAssumption DEF Init, Linked, Exists, NoJob

\* A job that is removed takes its row along.
LEMMA LinkedGone ==
  ASSUME Typing, Linked, NEW i \in Ids, Gone(i)
  PROVE  /\ \A j \in Ids : jobs'[j] = IF j = i THEN NoJob ELSE jobs[j]
         /\ \A j \in Ids : Exists(j)' => jobs'[j].workflow \in Workflows
         /\ \A r \in rows' : jobs'[r[2]].workflow = r[1]
<1>1. \A j \in Ids : jobs'[j] = IF j = i THEN NoJob ELSE jobs[j]
  BY DEF Gone, Typing, TypeOK
<1>2. \A r \in rows' : r \in rows /\ r[2] # i /\ r[2] \in Ids
  BY DEF Gone, Typing, TypeOK
<1>3. \A j \in Ids : Exists(j)' => jobs'[j].workflow \in Workflows
  BY <1>1 DEF Exists, Linked
<1>4. \A r \in rows' : jobs'[r[2]].workflow = r[1]
  BY <1>1, <1>2 DEF Linked
<1> QED
  BY <1>1, <1>3, <1>4

LEMMA LinkedNext ==
  ASSUME Typing, Linked, [Next]_vars
  PROVE  Linked'
<1> USE SchedulesAssumption
<1>1. CASE Call
  <2>1. UNCHANGED <<jobs, rows, item, pc>>
    BY <1>1 DEF Call, ApiCreate, ApiUpdate, ApiDelete, AddUnique, store
  <2> QED
    BY <2>1 DEF Linked, Exists
<1>2. CASE Pop
  <2>1. Head(queue) \in Item
    BY <1>2, Popped DEF Pop, Typing, TypeOK
  <2>2. pc' \in {"add", "get", "remove"}
    BY <1>2, <2>1 DEF Pop, Entry, Item
  <2> QED
    BY <1>2, <2>2 DEF Pop, Linked, Exists, store
<1>3. CASE AddJob
  <2>1. CASE Done /\ UNCHANGED <<jobs, hidden>>
    BY <1>3, <2>1 DEF AddJob, Done, Linked, Exists
  <2>2. ASSUME NEW i \in Ids \ Used,
               jobs' = [jobs EXCEPT ![i] = [workflow |-> item.workflow, once |-> item.once]],
               item' = [item EXCEPT !.id = i], pc' = "link"
        PROVE  Linked'
    <3>1. \A j \in Ids : jobs'[j] =
            IF j = i THEN [workflow |-> item.workflow, once |-> item.once] ELSE jobs[j]
      BY <2>2 DEF Typing, TypeOK
    <3>2. item.workflow \in Workflows /\ item'.workflow = item.workflow /\ item'.id = i
      BY <1>3, <2>2 DEF AddJob, Typing, TypeOK, Held, ItemOK, Item
    <3>3. ~ Exists(i) /\ jobs[i].workflow = None
      BY <2>2 DEF Used, Exists, NoJob
    <3>4. \A j \in Ids : Exists(j)' => jobs'[j].workflow \in Workflows
      BY <3>1, <3>2 DEF Exists, Linked
    <3>5. \A r \in rows' : jobs'[r[2]].workflow = r[1]
      <4>1. rows' = rows /\ rows \subseteq Workflows \X Ids
        BY <1>3 DEF AddJob, Typing, TypeOK
      <4>2. \A r \in rows : r[2] # i
        BY <4>1, <3>3 DEF Linked
      <4> QED
        BY <4>1, <4>2, <3>1 DEF Linked
    <3> QED
      BY <2>2, <3>1, <3>2, <3>4, <3>5 DEF Linked
  <2> QED
    BY <1>3, <2>1, <2>2 DEF AddJob
<1>4. CASE Link
  <2>1. \A r \in rows' :
          \/ r \in rows
          \/ Exists(item.id) /\ r = <<item.workflow, item.id>>
    <3>1. CASE Exists(item.id)
      <4>1. rows' = rows \cup {<<item.workflow, item.id>>}
        BY <1>4, <3>1 DEF Link
      <4> QED
        BY <3>1, <4>1, Zenon
    <3>2. CASE ~ Exists(item.id)
      <4>1. rows' = rows
        BY <1>4, <3>2 DEF Link
      <4> QED
        BY <4>1
    <3> QED
      BY <3>1, <3>2
  <2>2. \A r \in rows' : jobs[r[2]].workflow = r[1]
    BY <1>4, <2>1 DEF Link, Linked
  <2> QED
    BY <1>4, <2>2 DEF Link, Done, Linked, Exists
<1>5. CASE GetJob
  BY <1>5 DEF GetJob, Done, Linked, Exists, store
<1>6. CASE Modify
  <2>1. \A j \in Ids : jobs'[j].workflow = jobs[j].workflow
    BY <1>6 DEF Modify, Typing, TypeOK
  <2>2. \A j \in Ids : Exists(j)' => Exists(j)
    BY <1>6 DEF Modify, Typing, TypeOK, Exists
  <2>3. rows' = rows /\ rows \subseteq Workflows \X Ids
    BY <1>6 DEF Modify, Typing, TypeOK
  <2> QED
    BY <1>6, <2>1, <2>2, <2>3 DEF Modify, Done, Linked
<1>7. CASE RemoveJob
  <2>1. item.id \in Ids
    BY <1>7 DEF RemoveJob, Typing, Held, ItemOK
  <2>2. CASE Exists(item.id)
    <3>1. Gone(item.id) /\ pc' = "unlink" /\ item' = item
      BY <1>7, <2>2 DEF RemoveJob
    <3>2. ~ Exists(item.id)'
      BY <2>1, <3>1, LinkedGone DEF Exists
    <3> QED
      BY <2>1, <3>1, <3>2, LinkedGone DEF Linked
  <2>3. CASE ~ Exists(item.id)
    BY <1>7, <2>3 DEF RemoveJob, Done, Linked, Exists, store
  <2> QED
    BY <2>2, <2>3
<1>8. CASE Unlink
  BY <1>8 DEF Unlink, Done, Linked, Exists
<1>9. ASSUME NEW i \in Ids, Fire(i) PROVE Linked'
  <2>1. CASE jobs[i].once
    <3>1. Gone(i) /\ pc' = pc /\ item' = item
      BY <1>9, <2>1 DEF Fire
    <3>2. \A j \in Ids : Exists(j)' => Exists(j) /\ jobs'[j] = jobs[j]
      BY <3>1, LinkedGone DEF Exists
    <3>3. pc = "unlink" \/ pc = "link" => item.id \in Ids
      BY DEF Typing, Held, ItemOK
    <3> QED
      BY <3>1, <3>2, <3>3, LinkedGone DEF Linked
  <2>2. CASE ~ jobs[i].once
    BY <1>9, <2>2 DEF Fire, Linked, Exists, store
  <2> QED
    BY <2>1, <2>2
<1>10. CASE CheckPredicate
  BY <1>10 DEF CheckPredicate, Linked, Exists, store
<1>11. CASE StartProcess
  BY <1>11 DEF StartProcess, Linked, Exists, store
<1>12. ASSUME NEW w \in Workflows, ProcessEnds(w) PROVE Linked'
  BY <1>12 DEF ProcessEnds, Linked, Exists, store
<1>13. CASE Restart
  BY <1>13 DEF Restart, Linked, Exists, store
<1>14. CASE UNCHANGED vars
  BY <1>14 DEF vars, Linked, Exists
<1> QED
  BY <1>1, <1>2, <1>3, <1>4, <1>5, <1>6, <1>7, <1>8, <1>9, <1>10, <1>11, <1>12, <1>13,
     <1>14 DEF Next, Handle

\* A job can be found, or is being added, or was left by a crash.
Found(i) ==
  \/ <<jobs[i].workflow, i>> \in rows
  \/ pc = "link" /\ item.id = i
  \/ i \in hidden

LEMMA NoHiddenJobsNext ==
  ASSUME Typing, Linked, NoHiddenJobs, [Next]_vars
  PROVE  NoHiddenJobs'
<1> USE SchedulesAssumption
<1> SUFFICES ASSUME NEW i \in Ids, Exists(i)' PROVE Found(i)'
  BY DEF NoHiddenJobs, Found
<1>0. Exists(i) => Found(i)
  BY DEF NoHiddenJobs, Found
<1>1. CASE Call
  <2>1. UNCHANGED <<jobs, rows, item, pc, hidden>>
    BY <1>1 DEF Call, ApiCreate, ApiUpdate, ApiDelete, AddUnique, store, history
  <2> QED
    BY <1>0, <2>1 DEF Found, Exists
<1>2. CASE Pop
  BY <1>0, <1>2 DEF Pop, Found, Exists, store, history
<1>3. CASE AddJob
  <2>1. CASE Done /\ UNCHANGED <<jobs, hidden>>
    BY <1>0, <1>3, <2>1 DEF AddJob, Found, Exists
  <2>2. ASSUME NEW j \in Ids \ Used,
               jobs' = [jobs EXCEPT ![j] = [workflow |-> item.workflow, once |-> item.once]],
               item' = [item EXCEPT !.id = j], pc' = "link", hidden' = hidden \ {j}
        PROVE  Found(i)'
    <3>1. item'.id = j
      BY <2>2 DEF Typing, TypeOK, Item
    <3>2. CASE i = j
      BY <2>2, <3>1, <3>2 DEF Found
    <3>3. CASE i # j
      <4>1. jobs'[i] = jobs[i]
        BY <2>2, <3>3
      <4>2. Exists(i)
        BY <4>1 DEF Exists
      <4> QED
        BY <1>0, <1>3, <2>2, <3>3, <4>1, <4>2 DEF AddJob, Found
    <3> QED
      BY <3>2, <3>3
  <2> QED
    BY <1>3, <2>1, <2>2 DEF AddJob
<1>4. CASE Link
  <2>1. jobs' = jobs /\ rows \subseteq rows' /\ hidden' = hidden
    BY <1>4 DEF Link, history
  <2>2. Exists(i)
    BY <2>1 DEF Exists
  <2>3. CASE item.id = i
    <3>1. <<item.workflow, i>> \in rows'
      BY <1>4, <2>2, <2>3 DEF Link
    <3>2. jobs[i].workflow = item.workflow
      BY <1>4, <2>2, <2>3 DEF Link, Linked
    <3> QED
      BY <2>1, <3>1, <3>2 DEF Found
  <2>4. CASE item.id # i
    BY <1>0, <2>1, <2>2, <2>4 DEF Found
  <2> QED
    BY <2>3, <2>4
<1>5. CASE GetJob
  BY <1>0, <1>5 DEF GetJob, Found, Exists, store, history
<1>6. CASE Modify
  <2>1. jobs'[i].workflow = jobs[i].workflow /\ Exists(i)
    BY <1>6 DEF Modify, Typing, TypeOK, Exists
  <2> QED
    BY <1>0, <1>6, <2>1 DEF Modify, Found, history
<1>7. ASSUME NEW j \in Ids, Gone(j), pc # "link", UNCHANGED hidden
      PROVE  Found(i)'
  <2>1. i # j /\ jobs'[i] = jobs[i] /\ Exists(i)
    BY <1>7, LinkedGone DEF Exists
  <2>2. <<jobs[i].workflow, i>> \in rows => <<jobs[i].workflow, i>> \in rows'
    BY <1>7, <2>1 DEF Gone
  <2> QED
    BY <1>0, <1>7, <2>1, <2>2 DEF Found
<1>8. CASE RemoveJob
  <2>1. item.id \in Ids
    BY <1>8 DEF RemoveJob, Typing, Held, ItemOK
  <2>2. CASE Exists(item.id)
    BY <1>7, <1>8, <2>1, <2>2 DEF RemoveJob, history
  <2>3. CASE ~ Exists(item.id)
    BY <1>0, <1>8, <2>3 DEF RemoveJob, Found, Exists, store, history
  <2> QED
    BY <2>2, <2>3
<1>9. CASE Unlink
  <2>1. jobs' = jobs /\ Exists(i) /\ item.id # i
    BY <1>9 DEF Unlink, Exists, Linked
  <2>2. <<jobs[i].workflow, i>> \in rows => <<jobs[i].workflow, i>> \in rows'
    BY <1>9, <2>1 DEF Unlink
  <2> QED
    BY <1>0, <1>9, <2>1, <2>2 DEF Unlink, Found, history
<1>10. ASSUME NEW j \in Ids, Fire(j) PROVE Found(i)'
  <2>1. CASE jobs[j].once
    <3>1. Gone(j) /\ UNCHANGED <<hidden, pc, item>>
      BY <1>10, <2>1 DEF Fire, history
    <3>2. i # j /\ jobs'[i] = jobs[i] /\ Exists(i)
      BY <3>1, LinkedGone DEF Exists
    <3>3. <<jobs[i].workflow, i>> \in rows => <<jobs[i].workflow, i>> \in rows'
      BY <3>1, <3>2 DEF Gone
    <3> QED
      BY <1>0, <3>1, <3>2, <3>3 DEF Found
  <2>2. CASE ~ jobs[j].once
    BY <1>0, <1>10, <2>2 DEF Fire, Found, Exists, store, history
  <2> QED
    BY <2>1, <2>2
<1>11. CASE CheckPredicate
  BY <1>0, <1>11 DEF CheckPredicate, Found, Exists, store, history
<1>12. CASE StartProcess
  BY <1>0, <1>12 DEF StartProcess, Found, Exists, store, history
<1>13. ASSUME NEW w \in Workflows, ProcessEnds(w) PROVE Found(i)'
  BY <1>0, <1>13 DEF ProcessEnds, Found, Exists, store, history
<1>14. CASE Restart
  BY <1>0, <1>14 DEF Restart, Found, Exists, store
<1>15. CASE UNCHANGED vars
  BY <1>0, <1>15 DEF vars, Found, Exists
<1> QED
  BY <1>1, <1>2, <1>3, <1>4, <1>5, <1>6, <1>8, <1>9, <1>10, <1>11, <1>12, <1>13, <1>14,
     <1>15 DEF Next, Handle

LEMMA NoHiddenJobsInit == Init => NoHiddenJobs
BY DEF Init, NoHiddenJobs, Exists

\* For any number of tasks, schedules and requests, and whenever the scheduler is
\* killed: a job in the job store has its row in the linker table, or is between
\* the two transactions that add it, or was left there by a crash.
THEOREM JobsAreFound == Spec => []NoHiddenJobs
<1> DEFINE Inv == Typing /\ Linked /\ NoHiddenJobs
<1>1. Init => Inv
  BY TypingInit, LinkedInit, NoHiddenJobsInit
<1>2. Inv /\ [Next]_vars => Inv'
  BY TypingNext, LinkedNext, NoHiddenJobsNext
<1>3. Spec => []Inv
  BY <1>1, <1>2, PTL DEF Spec
<1>4. Inv => NoHiddenJobs
  OBVIOUS
<1> QED
  BY <1>3, <1>4, PTL

-----------------------------------------------------------------------------
(* One process of a task *)

LEMMA OneInstanceNext ==
  ASSUME Typing, Exclusive, OneInstance, [Next]_vars
  PROVE  Exclusive' /\ OneInstance'
<1> USE SchedulesAssumption
<1>1. CASE UNCHANGED executor
  BY <1>1 DEF Exclusive, OneInstance, executor
<1>2. ASSUME NEW i \in Ids, Fire(i) PROVE Exclusive' /\ OneInstance'
  BY <1>2 DEF Fire, Exclusive, OneInstance
<1>3. CASE CheckPredicate
  BY <1>3 DEF CheckPredicate, Exclusive, OneInstance
<1>4. CASE StartProcess
  <2>1. firing \in Workflows /\ instances[firing] = 0
    BY <1>4 DEF StartProcess, Exclusive, Typing, TypeOK
  <2>2. \A w \in Workflows : instances'[w] = IF w = firing THEN 1 ELSE instances[w]
    BY <1>4, <2>1 DEF StartProcess, Typing, TypeOK
  <2> QED
    BY <1>4, <2>2 DEF StartProcess, Exclusive, OneInstance
<1>5. ASSUME NEW w \in Workflows, ProcessEnds(w) PROVE Exclusive' /\ OneInstance'
  <2>1. \A v \in Workflows : instances[v] \in Nat
    BY DEF Typing, TypeOK
  <2>2. /\ instances[w] > 0
        /\ \A v \in Workflows : instances'[v] = IF v = w THEN instances[w] - 1
                                                ELSE instances[v]
    BY <1>5 DEF ProcessEnds, Typing, TypeOK
  <2>3. OneInstance'
    BY <2>1, <2>2 DEF OneInstance
  <2>4. Exclusive'
    <3>1. firing' = firing /\ checked' = checked /\ firing \in Workflows \cup {None}
      BY <1>5 DEF ProcessEnds, Typing, TypeOK
    <3> QED
      BY <2>1, <2>2, <3>1 DEF Exclusive
  <2> QED
    BY <2>3, <2>4
<1>6. CASE Restart
  BY <1>6 DEF Restart, Exclusive, OneInstance
<1>7. CASE Call
  BY <1>1, <1>7 DEF Call, ApiCreate, ApiUpdate, ApiDelete, AddUnique
<1>8. CASE Pop \/ Handle
  BY <1>1, <1>8 DEF Pop, Handle, AddJob, Link, GetJob, Modify, RemoveJob, Unlink
<1>9. CASE UNCHANGED vars
  BY <1>1, <1>9 DEF vars, executor
<1> QED
  BY <1>2, <1>3, <1>4, <1>5, <1>6, <1>7, <1>8, <1>9 DEF Next

\* For any number of schedules of a task that are due together, and whenever the
\* scheduler is killed, at most one of its processes is at work: nobody stores one
\* between the predicate and the transaction that stores the process.
THEOREM OneProcessOfATask == Spec => []OneInstance
<1> DEFINE Inv == Typing /\ Exclusive /\ OneInstance
<1>1. Init => Inv
  BY TypingInit DEF Init, Exclusive, OneInstance
<1>2. Inv /\ [Next]_vars => Inv'
  BY TypingNext, OneInstanceNext
<1>3. Spec => []Inv
  BY <1>1, <1>2, PTL DEF Spec
<1>4. Inv => OneInstance
  OBVIOUS
<1> QED
  BY <1>3, <1>4, PTL

-----------------------------------------------------------------------------
(* One schedule of a task *)

\* Nothing that only removes jobs, and at most ends what the scheduler process is
\* doing, brings a second schedule about.
LEMMA FewerJobs ==
  ASSUME OneOnItsWay, queue' = queue,
         \A w \in Initial : JobsIn(jobs', w) \subseteq JobsIn(jobs, w),
         \/ UNCHANGED <<pc, item>>
         \/ /\ pc' # "add"
            /\ pc = "remove" => \A w \in Initial : item.id \notin JobsIn(jobs', w)
  PROVE  OneOnItsWay'
<1>1. ASSUME NEW k \in DOMAIN queue', AddsInitial(queue'[k])
      PROVE  /\ \A i \in JobsIn(jobs', queue'[k].workflow) : GoneBefore(i, k)'
             /\ \A j \in DOMAIN queue' : AddsInitial(queue'[j]) => j = k
             /\ pc' = "add" => item'.workflow \notin Initial
  <2>1. k \in DOMAIN queue /\ AddsInitial(queue[k]) /\ queue'[k] = queue[k]
    BY <1>1
  <2>2. ASSUME NEW i \in JobsIn(jobs', queue[k].workflow)
        PROVE  GoneBefore(i, k)'
    <3>1. i \in JobsIn(jobs, queue[k].workflow) /\ queue[k].workflow \in Initial
      BY <2>1, <2>2 DEF AddsInitial
    <3>2. GoneBefore(i, k)
      BY <2>1, <3>1 DEF OneOnItsWay
    <3>3. CASE \E j \in 1..(k - 1) : queue[j].op = "delete" /\ queue[j].id = i
      BY <3>3 DEF GoneBefore
    <3>4. CASE pc = "remove" /\ item.id = i
      BY <2>2, <3>1, <3>4 DEF GoneBefore
    <3> QED
      BY <3>2, <3>3, <3>4 DEF GoneBefore
  <2>3. \A j \in DOMAIN queue : AddsInitial(queue[j]) => j = k
    BY <2>1 DEF OneOnItsWay
  <2>4. pc = "add" => item.workflow \notin Initial
    BY <2>1 DEF OneOnItsWay
  <2> QED
    BY <2>1, <2>2, <2>3, <2>4
<1>2. pc' = "add" /\ item'.workflow \in Initial => JobsIn(jobs', item'.workflow) = {}
  <2> SUFFICES ASSUME pc' = "add", item'.workflow \in Initial
               PROVE  JobsIn(jobs', item'.workflow) = {}
    OBVIOUS
  <2>1. pc = "add" /\ item' = item
    OBVIOUS
  <2>2. JobsIn(jobs, item.workflow) = {}
    BY <2>1 DEF OneOnItsWay
  <2>3. JobsIn(jobs', item.workflow) \subseteq JobsIn(jobs, item.workflow)
    BY <2>1
  <2>4. JobsIn(jobs', item'.workflow) = JobsIn(jobs', item.workflow)
    BY <2>1 DEF JobsIn
  <2> QED
    BY <2>2, <2>3, <2>4
<1>3. \A w \in Initial : \A i, j \in JobsIn(jobs', w) : i = j
  BY DEF OneOnItsWay
<1> QED
  BY <1>1, <1>2, <1>3 DEF OneOnItsWay

\* A request that adds no schedule of such a task does no harm.
LEMMA OtherRequest ==
  ASSUME Typing, OneOnItsWay, NEW x \in Item, ~ AddsInitial(x), Push(<<x>>),
         UNCHANGED <<store, item, pc, executor, history>>
  PROVE  OneOnItsWay'
<1>1. <<x>> \in Seq(Item) /\ Len(<<x>>) = 1 /\ <<x>>[1] = x
  BY Single
<1>2. queue \in Seq(Item)
  BY DEF Typing, TypeOK
<1>3. /\ Len(queue) \in Nat /\ DOMAIN queue = 1..Len(queue)
      /\ DOMAIN queue' = 1..(Len(queue) + 1)
      /\ \A k \in 1..Len(queue) : queue'[k] = queue[k]
      /\ queue'[Len(queue) + 1] = x
  <2>1. 1 \in 1..Len(<<x>>)
    BY <1>1
  <2> QED
    BY <1>1, <1>2, <2>1, Pushed
<1>4. \A k \in DOMAIN queue' :
        AddsInitial(queue'[k]) => k \in DOMAIN queue /\ queue'[k] = queue[k]
  BY <1>3
<1>5. UNCHANGED <<jobs, item, pc>>
  BY DEF store
<1>6. ASSUME NEW k \in DOMAIN queue', AddsInitial(queue'[k])
      PROVE  /\ \A i \in JobsIn(jobs', queue'[k].workflow) : GoneBefore(i, k)'
             /\ \A j \in DOMAIN queue' : AddsInitial(queue'[j]) => j = k
             /\ pc' = "add" => item'.workflow \notin Initial
  <2>1. k \in 1..Len(queue) /\ AddsInitial(queue[k]) /\ queue'[k] = queue[k]
    BY <1>3, <1>4, <1>6
  <2>2. ASSUME NEW i \in JobsIn(jobs, queue[k].workflow) PROVE GoneBefore(i, k)'
    <3>1. GoneBefore(i, k)
      BY <1>3, <2>1, <2>2 DEF OneOnItsWay
    <3>2. \A j \in 1..(k - 1) : queue'[j] = queue[j]
      BY <1>3, <2>1
    <3> QED
      BY <1>5, <3>1, <3>2 DEF GoneBefore
  <2>3. \A j \in DOMAIN queue' : AddsInitial(queue'[j]) => j = k
    BY <1>3, <1>4, <2>1 DEF OneOnItsWay
  <2>4. pc = "add" => item.workflow \notin Initial
    BY <1>3, <2>1 DEF OneOnItsWay
  <2> QED
    BY <1>5, <2>1, <2>2, <2>3, <2>4 DEF JobsIn
<1>7. pc' = "add" /\ item'.workflow \in Initial => JobsIn(jobs', item'.workflow) = {}
  BY <1>5 DEF OneOnItsWay, JobsIn
<1>8. \A w \in Initial : \A i, j \in JobsIn(jobs', w) : i = j
  BY <1>5 DEF OneOnItsWay, JobsIn
<1> QED
  BY <1>6, <1>7, <1>8 DEF OneOnItsWay

\* What add_unique_scheduled_task_to_queue asks for: it knows of every job, since
\* nothing is under way and no crash has hidden one.
LEMMA UniqueRequest ==
  ASSUME Typing, NoHiddenJobs, hidden = {}, OneOnItsWay,
         NEW w \in Initial, NEW recreate \in BOOLEAN, AddUnique(w, recreate)
  PROVE  OneOnItsWay'
<1> USE SchedulesAssumption
<1> DEFINE n == Cardinality(RowsOf(w))
<1>1. /\ Uniquely(w) \in Seq(Item) /\ n \in Nat /\ Len(Uniquely(w)) = n + 1
      /\ Uniquely(w)[n + 1] = Create(w, FALSE)
      /\ \A k \in 1..n : \E i \in Ids : Uniquely(w)[k] = Delete(w, i)
      /\ \A r \in RowsOf(w) : \E k \in 1..n : Uniquely(w)[k] = Delete(w, r[2])
  BY UniquelyType DEF Typing, TypeOK
<1> HIDE DEF n
<1>2. queue = <<>> /\ queue \in Seq(Item) /\ Push(Uniquely(w)) /\ pc = "idle"
        /\ UNCHANGED <<jobs, item, pc>>
  BY DEF AddUnique, Uniquely, Typing, TypeOK, store
<1>3. /\ DOMAIN queue' = 1..(n + 1)
      /\ \A k \in 1..(n + 1) : queue'[k] = Uniquely(w)[k]
  <2>1. Len(queue) = 0
    BY <1>2
  <2> QED
    BY <1>1, <1>2, <2>1, Pushed
<1>4. ASSUME NEW k \in 1..n
      PROVE  ~ AddsInitial(queue'[k]) /\ queue'[k].op = "delete"
  <2>1. PICK i \in Ids : Uniquely(w)[k] = Delete(w, i)
    BY <1>1
  <2>2. queue'[k] = Delete(w, i)
    BY <1>1, <1>3, <2>1
  <2> QED
    BY <2>2 DEF Delete, AddsInitial
<1>5. queue'[n + 1].workflow = w
  BY <1>1, <1>3 DEF Create
<1>6. ASSUME NEW i \in JobsIn(jobs, w)
      PROVE  \E k \in 1..n : queue'[k].op = "delete" /\ queue'[k].id = i
  <2>1. i \in Ids /\ jobs[i].workflow = w /\ Exists(i)
    BY <1>6 DEF JobsIn, Exists, NoJob
  <2>2. <<w, i>> \in RowsOf(w)
    BY <1>2, <2>1 DEF NoHiddenJobs, RowsOf
  <2>3. PICK k \in 1..n : Uniquely(w)[k] = Delete(w, i)
    BY <1>1, <2>2
  <2> QED
    BY <1>1, <1>3, <2>3 DEF Delete
<1>7. ASSUME NEW k \in DOMAIN queue', AddsInitial(queue'[k])
      PROVE  /\ \A i \in JobsIn(jobs', queue'[k].workflow) : GoneBefore(i, k)'
             /\ \A j \in DOMAIN queue' : AddsInitial(queue'[j]) => j = k
             /\ pc' = "add" => item'.workflow \notin Initial
  <2>1. k = n + 1
    BY <1>1, <1>3, <1>4, <1>7
  <2>2. ASSUME NEW i \in JobsIn(jobs, w) PROVE GoneBefore(i, k)'
    <3>1. PICK j \in 1..n : queue'[j].op = "delete" /\ queue'[j].id = i
      BY <1>6, <2>2
    <3>2. j \in 1..(k - 1)
      BY <1>1, <2>1
    <3> QED
      BY <3>1, <3>2 DEF GoneBefore
  <2>3. \A j \in DOMAIN queue' : AddsInitial(queue'[j]) => j = k
    BY <1>1, <1>3, <1>4, <2>1
  <2> QED
    BY <1>2, <1>5, <2>1, <2>2, <2>3 DEF JobsIn
<1>8. \A v \in Initial : \A i, j \in JobsIn(jobs', v) : i = j
  BY <1>2 DEF OneOnItsWay, JobsIn
<1> QED
  BY <1>2, <1>7, <1>8 DEF OneOnItsWay

LEMMA OneOnItsWayCall ==
  ASSUME Typing, NoHiddenJobs, hidden = {}, OneOnItsWay, Call
  PROVE  OneOnItsWay'
<1> USE SchedulesAssumption
<1>1. ASSUME NEW w \in Workflows, NEW once \in BOOLEAN, ApiCreate(w, once)
      PROVE  OneOnItsWay'
  <2>1. Create(w, once) \in Item
    BY CreateType
  <2>2. ~ AddsInitial(Create(w, once))
    BY <1>1 DEF ApiCreate, AddsInitial, Create
  <2> QED
    BY <1>1, <2>1, <2>2, OtherRequest DEF ApiCreate
<1>2. ASSUME NEW i \in Ids, NEW once \in BOOLEAN, ApiUpdate(i, once)
      PROVE  OneOnItsWay'
  <2> DEFINE x == [op |-> "update", workflow |-> None, id |-> i, once |-> once]
  <2>1. x \in Item /\ ~ AddsInitial(x)
    BY DEF Item, AddsInitial
  <2>2. Push(<<x>>) /\ UNCHANGED <<store, item, pc, executor, history>>
    BY <1>2 DEF ApiUpdate
  <2> HIDE DEF x
  <2> QED
    BY <2>1, <2>2, OtherRequest
<1>3. ASSUME NEW w \in Workflows, NEW i \in Ids, ApiDelete(w, i)
      PROVE  OneOnItsWay'
  <2>1. Delete(w, i) \in Item /\ ~ AddsInitial(Delete(w, i))
    BY DEF Delete, Item, AddsInitial
  <2> QED
    BY <1>3, <2>1, OtherRequest DEF ApiDelete
<1> QED
  BY <1>1, <1>2, <1>3, UniqueRequest DEF Call

LEMMA OneOnItsWayPop ==
  ASSUME Typing, OneOnItsWay, Pop
  PROVE  OneOnItsWay'
<1> DEFINE n == Len(queue)
<1>1. /\ n \in Nat /\ 1 \in DOMAIN queue /\ Head(queue) = queue[1]
      /\ queue[1] \in Item
      /\ DOMAIN queue = 1..n /\ DOMAIN queue' = 1..(n - 1)
      /\ \A k \in 1..(n - 1) : queue'[k] = queue[k + 1]
  BY Popped DEF Pop, Typing, TypeOK
<1>2. /\ pc = "idle" /\ jobs' = jobs /\ item' = queue[1]
      /\ queue[1].op = "delete" => pc' = "remove"
      /\ pc' = "add" => queue[1].op = "create"
  BY <1>1 DEF Pop, Entry, store, Item
<1> HIDE DEF n
<1>3. ASSUME NEW k \in DOMAIN queue', AddsInitial(queue'[k])
      PROVE  /\ \A i \in JobsIn(jobs', queue'[k].workflow) : GoneBefore(i, k)'
             /\ \A j \in DOMAIN queue' : AddsInitial(queue'[j]) => j = k
             /\ pc' = "add" => item'.workflow \notin Initial
  <2>1. k \in Nat /\ k + 1 \in DOMAIN queue /\ queue'[k] = queue[k + 1]
          /\ k \in 1..(n - 1)
    BY <1>1, <1>3
  <2>2. \A j \in DOMAIN queue : AddsInitial(queue[j]) => j = k + 1
    BY <1>3, <2>1 DEF OneOnItsWay
  <2>3. ~ AddsInitial(queue[1])
    BY <1>1, <2>1, <2>2
  <2>4. ASSUME NEW i \in JobsIn(jobs, queue[k + 1].workflow) PROVE GoneBefore(i, k)'
    <3>1. GoneBefore(i, k + 1)
      BY <1>3, <2>1, <2>4 DEF OneOnItsWay
    <3>2. PICK j \in 1..k : queue[j].op = "delete" /\ queue[j].id = i
      BY <1>2, <2>1, <3>1 DEF GoneBefore
    <3>3. CASE j = 1
      BY <1>2, <3>2, <3>3 DEF GoneBefore
    <3>4. CASE j # 1
      <4>1. j - 1 \in 1..(k - 1) /\ j - 1 \in 1..(n - 1)
        BY <1>1, <2>1, <3>4
      <4>2. queue'[j - 1] = queue[j]
        BY <1>1, <4>1
      <4> QED
        BY <3>2, <4>1, <4>2 DEF GoneBefore
    <3> QED
      BY <3>3, <3>4
  <2>5. \A j \in DOMAIN queue' : AddsInitial(queue'[j]) => j = k
    <3> SUFFICES ASSUME NEW j \in DOMAIN queue', AddsInitial(queue'[j])
                 PROVE  j = k
      OBVIOUS
    <3>1. j + 1 \in DOMAIN queue /\ queue'[j] = queue[j + 1] /\ j \in Nat
      BY <1>1
    <3>2. j + 1 = k + 1
      BY <2>2, <3>1
    <3> QED
      BY <2>1, <3>1, <3>2
  <2>6. pc' = "add" => item'.workflow \notin Initial
    BY <1>2, <2>3 DEF AddsInitial
  <2> QED
    BY <1>2, <2>1, <2>4, <2>5, <2>6 DEF JobsIn
<1>4. pc' = "add" /\ item'.workflow \in Initial => JobsIn(jobs', item'.workflow) = {}
  <2> SUFFICES ASSUME pc' = "add", item'.workflow \in Initial,
                      NEW i \in JobsIn(jobs', item'.workflow)
               PROVE  FALSE
    OBVIOUS
  <2>1. AddsInitial(queue[1]) /\ i \in JobsIn(jobs, queue[1].workflow)
    BY <1>2 DEF AddsInitial, JobsIn
  <2>2. GoneBefore(i, 1)
    BY <1>1, <2>1 DEF OneOnItsWay
  <2> QED
    BY <1>2, <2>2 DEF GoneBefore
<1>5. \A w \in Initial : \A i, j \in JobsIn(jobs', w) : i = j
  BY <1>2 DEF OneOnItsWay, JobsIn
<1> QED
  BY <1>3, <1>4, <1>5 DEF OneOnItsWay

LEMMA OneOnItsWayHandle ==
  ASSUME Typing, OneOnItsWay, Handle
  PROVE  OneOnItsWay'
<1> USE SchedulesAssumption
<1>1. CASE AddJob
  <2>1. CASE Done /\ UNCHANGED <<jobs, hidden>>
    BY <1>1, <2>1, FewerJobs DEF AddJob, Done, JobsIn
  <2>2. ASSUME NEW i \in Ids \ Used,
               jobs' = [jobs EXCEPT ![i] = [workflow |-> item.workflow, once |-> item.once]],
               pc' = "link"
        PROVE  OneOnItsWay'
    <3>1. /\ pc = "add" /\ queue' = queue
          /\ \A j \in Ids : jobs'[j] = IF j = i
               THEN [workflow |-> item.workflow, once |-> item.once] ELSE jobs[j]
      BY <1>1, <2>2 DEF AddJob, Typing, TypeOK
    <3>2. \A w \in Initial \ {item.workflow} : JobsIn(jobs', w) \subseteq JobsIn(jobs, w)
      BY <3>1 DEF JobsIn
    <3>3. CASE item.workflow \in Initial
      <4>1. \A k \in DOMAIN queue : ~ AddsInitial(queue[k])
        BY <3>1, <3>3 DEF OneOnItsWay
      <4>2. JobsIn(jobs, item.workflow) = {}
        BY <3>1, <3>3 DEF OneOnItsWay
      <4>3. JobsIn(jobs', item.workflow) \subseteq {i}
        BY <3>1, <4>2 DEF JobsIn
      <4>4. \A w \in Initial : \A j, k \in JobsIn(jobs', w) : j = k
        BY <3>2, <4>3 DEF OneOnItsWay
      <4> QED
        BY <2>2, <3>1, <4>1, <4>4 DEF OneOnItsWay
    <3>4. CASE item.workflow \notin Initial
      BY <2>2, <3>1, <3>2, <3>4, FewerJobs
    <3> QED
      BY <3>3, <3>4
  <2> QED
    BY <1>1, <2>1, <2>2 DEF AddJob
<1>2. CASE Link
  BY <1>2, FewerJobs DEF Link, Done, JobsIn
<1>3. CASE GetJob
  BY <1>3, FewerJobs DEF GetJob, Done, JobsIn, store
<1>4. CASE Modify
  <2>1. \A i \in Ids : jobs'[i].workflow = jobs[i].workflow
    BY <1>4 DEF Modify, Typing, TypeOK
  <2>2. \A w \in Initial : JobsIn(jobs', w) \subseteq JobsIn(jobs, w)
    BY <2>1 DEF JobsIn
  <2> QED
    BY <1>4, <2>2, FewerJobs DEF Modify, Done
<1>5. CASE RemoveJob
  <2>1. \A i \in Ids : jobs'[i] = IF i = item.id THEN NoJob ELSE jobs[i]
    <3>1. item.id \in Ids
      BY <1>5 DEF RemoveJob, Typing, Held, ItemOK
    <3>2. CASE Exists(item.id)
      BY <1>5, <3>1, <3>2 DEF RemoveJob, Gone, Typing, TypeOK
    <3>3. CASE ~ Exists(item.id)
      BY <1>5, <3>1, <3>3 DEF RemoveJob, Exists, store
    <3> QED
      BY <3>2, <3>3
  <2>2. \A w \in Initial : JobsIn(jobs', w) \subseteq JobsIn(jobs, w) \ {item.id}
    BY <2>1 DEF JobsIn, NoJob
  <2>3. pc' # "add" /\ queue' = queue
    BY <1>5 DEF RemoveJob, Done
  <2> QED
    BY <2>2, <2>3, FewerJobs
<1>6. CASE Unlink
  BY <1>6, FewerJobs DEF Unlink, Done, JobsIn
<1> QED
  BY <1>1, <1>2, <1>3, <1>4, <1>5, <1>6 DEF Handle

LEMMA SoleNext ==
  ASSUME Typing, NoHiddenJobs, Sole, [Next]_vars
  PROVE  Sole'
<1> SUFFICES ASSUME ~ lost' PROVE hidden' = {} /\ OneOnItsWay'
  BY DEF Sole
<1>0. ASSUME ~ lost PROVE hidden = {} /\ OneOnItsWay
  BY <1>0 DEF Sole
<1>1. CASE Call
  <2>1. UNCHANGED history
    BY <1>1 DEF Call, ApiCreate, ApiUpdate, ApiDelete, AddUnique
  <2> QED
    BY <1>0, <1>1, <2>1, OneOnItsWayCall DEF history
<1>2. CASE Pop
  <2>1. UNCHANGED history
    BY <1>2 DEF Pop
  <2> QED
    BY <1>0, <1>2, <2>1, OneOnItsWayPop DEF history
<1>3. CASE Handle
  <2>1. lost' = lost /\ hidden' \subseteq hidden
    BY <1>3 DEF Handle, AddJob, Link, GetJob, Modify, RemoveJob, Unlink, history
  <2> QED
    BY <1>0, <1>3, <2>1, OneOnItsWayHandle
<1>4. ASSUME NEW i \in Ids, Fire(i) PROVE hidden' = {} /\ OneOnItsWay'
  <2>1. UNCHANGED <<queue, item, pc, hidden, lost>>
    BY <1>4 DEF Fire, history
  <2>2. \A w \in Initial : JobsIn(jobs', w) \subseteq JobsIn(jobs, w)
    <3>1. \A j \in Ids : jobs'[j] = NoJob \/ jobs'[j] = jobs[j]
      BY <1>4 DEF Fire, Gone, Typing, TypeOK, store
    <3> QED
      BY <3>1, SchedulesAssumption DEF JobsIn, NoJob
  <2> QED
    BY <1>0, <2>1, <2>2, FewerJobs
<1>5. ASSUME UNCHANGED <<queue, jobs, item, pc, hidden, lost>>
      PROVE  hidden' = {} /\ OneOnItsWay'
  BY <1>0, <1>5, FewerJobs DEF JobsIn
<1>6. CASE CheckPredicate
  BY <1>5, <1>6 DEF CheckPredicate, store, history
<1>7. CASE StartProcess
  BY <1>5, <1>7 DEF StartProcess, store, history
<1>8. ASSUME NEW w \in Workflows, ProcessEnds(w) PROVE hidden' = {} /\ OneOnItsWay'
  BY <1>5, <1>8 DEF ProcessEnds, store, history
<1>9. CASE Restart
  <2>1. ~ lost /\ pc = "idle" /\ pc' = "idle" /\ UNCHANGED <<queue, jobs, hidden>>
    BY <1>9 DEF Restart, Typing, TypeOK, store
  <2> QED
    BY <1>0, <2>1, FewerJobs DEF JobsIn
<1>10. CASE UNCHANGED vars
  BY <1>5, <1>10 DEF vars
<1> QED
  BY <1>1, <1>2, <1>3, <1>4, <1>6, <1>7, <1>8, <1>9, <1>10 DEF Next

LEMMA SoleInit == Init => Sole
BY SchedulesAssumption DEF Init, Sole, OneOnItsWay, JobsIn, NoJob

\* A set whose elements are all equal has at most one.
LEMMA AtMostOne ==
  ASSUME NEW S, \A i, j \in S : i = j
  PROVE  Cardinality(S) <= 1
<1>1. CASE S = {}
  BY <1>1, FS_EmptySet
<1>2. CASE S # {}
  <2>1. PICK i \in S : TRUE
    BY <1>2
  <2>2. S = {i}
    BY <2>1
  <2>3. Cardinality({i}) = 1
    BY FS_Singleton
  <2> QED
    BY <2>2, <2>3
<1> QED
  BY <1>1, <1>2

\* For any number of calls of load-initial-schedule, with or without recreate, of
\* requests of users and of jobs that fire: unless an item was lost in a crash, a
\* workflow has at most one schedule.
THEOREM OneSchedule == Spec => []UniqueSchedule
<1> DEFINE Inv == Typing /\ Linked /\ NoHiddenJobs /\ Sole
<1>1. Init => Inv
  BY TypingInit, LinkedInit, NoHiddenJobsInit, SoleInit
<1>2. Inv /\ [Next]_vars => Inv'
  BY TypingNext, LinkedNext, NoHiddenJobsNext, SoleNext
<1>3. Spec => []Inv
  BY <1>1, <1>2, PTL DEF Spec
<1>4. Inv => UniqueSchedule
  BY AtMostOne DEF Sole, OneOnItsWay, UniqueSchedule, JobsIn, JobsOf
<1> QED
  BY <1>3, <1>4, PTL

=============================================================================
