--------------------------- MODULE ResumeAll_proofs ---------------------------
(* Theorems about the pool of threads and the lock of resume-all, for any     *)
(* number of processes, requests, users and threads.                          *)
EXTENDS ResumeAll, SequenceTheorems, FiniteSetTheorems, TLAPS

\* What is said of the work queue: whether, and how often, an item is in it.
In(queue, x) == \E i \in 1..Len(queue) : queue[i] = x

Once(queue, x) ==
  \A i, j \in 1..Len(queue) : queue[i] = x /\ queue[j] = x => i = j

LEMMA AppendedItem ==
  ASSUME NEW S, NEW queue \in Seq(S), NEW y \in S
  PROVE  /\ Append(queue, y) \in Seq(S)
         /\ \A x : In(Append(queue, y), x) <=> In(queue, x) \/ x = y
         /\ \A x : Once(queue, x) /\ (x = y => ~In(queue, x)) => Once(Append(queue, y), x)
<1> DEFINE longer == Append(queue, y)
<1>1. /\ longer \in Seq(S) /\ Len(longer) = Len(queue) + 1
      /\ \A i \in 1..Len(queue) : longer[i] = queue[i]
      /\ longer[Len(queue) + 1] = y
  BY AppendProperties
<1>2. Len(queue) \in Nat
  OBVIOUS
<1> HIDE DEF longer
<1>3. \A i \in 1..Len(longer) : i \in 1..Len(queue) \/ i = Len(queue) + 1
  BY <1>1, <1>2
<1>4. \A i \in 1..Len(queue) : i \in 1..Len(longer)
  BY <1>1, <1>2
<1>5. Len(queue) + 1 \in 1..Len(longer)
  BY <1>1, <1>2
<1>6. \A x : In(longer, x) <=> In(queue, x) \/ x = y
  BY <1>1, <1>3, <1>4, <1>5 DEF In
<1>7. \A x : Once(queue, x) /\ (x = y => ~In(queue, x)) => Once(longer, x)
  BY <1>1, <1>3, <1>4, <1>5 DEF In, Once
<1> QED
  BY <1>1, <1>6, <1>7 DEF longer

LEMMA TakenItem ==
  ASSUME NEW S, NEW queue \in Seq(S), queue # <<>>
  PROVE  /\ Tail(queue) \in Seq(S) /\ Head(queue) \in S /\ In(queue, Head(queue))
         /\ \A x : In(Tail(queue), x) => In(queue, x)
         /\ \A x : Once(queue, x) => Once(Tail(queue), x)
         /\ Once(queue, Head(queue)) => ~In(Tail(queue), Head(queue))
<1> DEFINE rest == Tail(queue)
<1>1. /\ Len(queue) \in Nat \ {0}
      /\ rest \in Seq(S) /\ Len(rest) = Len(queue) - 1
      /\ \A i \in 1..Len(rest) : rest[i] = queue[i + 1]
      /\ Head(queue) = queue[1]
  OBVIOUS
<1> HIDE DEF rest
<1>2. 1 \in 1..Len(queue) /\ queue[1] \in S
  BY <1>1
<1>3. \A i \in 1..Len(rest) : i + 1 \in 1..Len(queue) /\ i + 1 # 1
  BY <1>1
<1>4. \A x : In(rest, x) => In(queue, x)
  BY <1>1, <1>3 DEF In
<1>5. \A i, j \in 1..Len(rest) : i + 1 = j + 1 => i = j
  BY <1>1
<1>6. \A x : Once(queue, x) => Once(rest, x)
  BY <1>1, <1>3, <1>5 DEF Once
<1>7. Once(queue, Head(queue)) => ~In(rest, Head(queue))
  BY <1>1, <1>2, <1>3 DEF Once, In
<1> QED
  BY <1>1, <1>2, <1>4, <1>6, <1>7 DEF rest, In
-----------------------------------------------------------------------------
(* Types, and the invariants of jobs and of the lock *)

Items == Processes \cup Requests

RequestRecords ==
  [pc : {"idle", "listed", "queued", "loop", "resume"}, todo : SUBSET Processes,
   process : Processes \cup {None}, copy : Statuses]

UserRecords == [process : Processes \cup {None}, copy : Statuses]

\* What a job or a user is about to mark was not running when it was read.
AboutToMark(r) == r.pc = "resume" => r.process \in Processes /\ r.copy # "running"

ReadByUser(u) == u.process # None => u.copy # "running"

\* A job is in the queue once at most, and then its request is waiting for it.
Jobs ==
  /\ \A r \in Requests : AboutToMark(request[r])
  /\ \A u \in Users : ReadByUser(user[u])
  /\ \A r \in Requests : Once(pool, r) /\ (In(pool, r) => request[r].pc = "queued")

Typing == TypeOK /\ Jobs /\ EntryIsLocked

LEMMA TypingInit == Init => Typing
<1> SUFFICES ASSUME Init PROVE Typing
  OBVIOUS
<1>1. NoRequest \in RequestRecords /\ NoUser \in UserRecords
  BY DEF NoRequest, NoUser, RequestRecords, UserRecords, Statuses
<1>2. pool = <<>> /\ pool \in Seq(Items)
  BY DEF Init
<1>3. \A x : Once(pool, x) /\ ~In(pool, x)
  BY <1>2 DEF Once, In
<1>4. TypeOK
  BY <1>1, <1>2 DEF Init, TypeOK, RequestRecords, UserRecords, Statuses, Items
<1>5. Jobs
  BY <1>3 DEF Init, Jobs, AboutToMark, ReadByUser, NoRequest, NoUser
<1>6. EntryIsLocked
  BY ResumeAllAssumption DEF Init, EntryIsLocked
<1> QED
  BY <1>4, <1>5, <1>6 DEF Typing

\* What is known of the state.
LEMMA OfState ==
  ASSUME Typing
  PROVE  /\ status \in [Processes -> Statuses] /\ buried \subseteq Processes
         /\ entry \in Requests \cup {None} /\ locked \in [Requests -> BOOLEAN]
         /\ request \in [Requests -> RequestRecords] /\ user \in [Users -> UserRecords]
         /\ pool \in Seq(Items) /\ thread \in [Threads -> Items \cup {None}]
         /\ handled \in [Requests -> SUBSET Processes] /\ raced \in BOOLEAN
BY DEF Typing, TypeOK, RequestRecords, UserRecords, Items

\* A request that gets another record, while the queue gains nothing but perhaps it.
LEMMA RequestMoves ==
  ASSUME Typing, NEW r \in Requests, NEW x \in RequestRecords,
         request' = [request EXCEPT ![r] = x],
         AboutToMark(x), user' = user,
         \A q \in Requests : Once(pool', q),
         \A q \in Requests \ {r} : In(pool', q) => In(pool, q),
         In(pool', r) => x.pc = "queued"
  PROVE  request' \in [Requests -> RequestRecords] /\ Jobs'
<1>1. request'[r] = x /\ \A q \in Requests \ {r} : request'[q] = request[q]
  BY OfState
<1>2. request' \in [Requests -> RequestRecords]
  BY OfState
<1>3. \A q \in Requests : AboutToMark(request'[q])
  BY <1>1 DEF Typing, Jobs
<1>4. \A u \in Users : ReadByUser(user'[u])
  BY DEF Typing, Jobs
<1>5. \A q \in Requests : In(pool', q) => request'[q].pc = "queued"
  BY <1>1 DEF Typing, Jobs
<1> QED
  BY <1>2, <1>3, <1>4, <1>5 DEF Jobs

\* A step that leaves requests and users alone and puts no job into the queue.
LEMMA JobsStay ==
  ASSUME Typing, request' = request, user' = user,
         \A q \in Requests : Once(pool', q) /\ (In(pool', q) => In(pool, q))
  PROVE  Jobs'
BY DEF Typing, Jobs

\* Marking a process.
LEMMA SubmitKeeps ==
  ASSUME Typing, NEW p \in Processes, NEW c \in Statuses, Submit(p, c)
  PROVE  /\ status' \in [Processes -> Statuses] /\ pool' \in Seq(Items)
         /\ handled' \in [Requests -> SUBSET Processes] /\ raced' \in BOOLEAN
         /\ buried' = buried
         /\ \A q \in Requests : Once(pool', q) /\ (In(pool', q) <=> In(pool, q))
<1>1. p \in Items /\ \A q \in Requests : q # p
  BY ResumeAllAssumption DEF Items
<1>2. pool' = Append(pool, p) /\ pool \in Seq(Items)
  BY OfState DEF Submit
<1>3. pool' \in Seq(Items) /\ \A q \in Requests : Once(pool', q) /\ (In(pool', q) <=> In(pool, q))
  BY <1>1, <1>2, AppendedItem DEF Typing, Jobs
<1>4. status' \in [Processes -> Statuses] /\ raced' \in BOOLEAN /\ buried' = buried
  BY OfState DEF Submit, Statuses
<1>5. handled' \in [Requests -> SUBSET Processes]
  <2>1. \A q \in Requests : handled[q] \in SUBSET Processes
    BY OfState
  <2> QED
    BY <2>1 DEF Submit, Handled
<1> QED
  BY <1>3, <1>4, <1>5

LEMMA TypingExpire ==
  ASSUME Typing, Expire
  PROVE  Typing'
<1>1. entry \in Requests /\ entry' = None /\ locked' = [locked EXCEPT ![entry] = FALSE]
  BY OfState DEF Expire
<1>2. UNCHANGED <<status, buried, request, user, pool, thread, handled, raced>>
  BY DEF Expire, base
<1>3. locked' \in [Requests -> BOOLEAN]
  BY <1>1, OfState
<1>4. EntryIsLocked'
  <2> SUFFICES ASSUME NEW r \in Requests PROVE locked'[r] <=> entry' = r
    BY DEF EntryIsLocked
  <2>1. entry' # r
    BY <1>1, ResumeAllAssumption
  <2>2. ~locked'[r]
    <3>1. locked[r] <=> entry = r
      BY DEF Typing, EntryIsLocked
    <3> QED
      BY <1>1, <3>1, OfState
  <2> QED
    BY <2>1, <2>2
<1>5. TypeOK'
  BY <1>1, <1>2, <1>3 DEF Typing, TypeOK
<1>6. Jobs'
  BY <1>2, JobsStay DEF Typing, Jobs
<1> QED
  BY <1>4, <1>5, <1>6 DEF Typing

LEMMA TypingList ==
  ASSUME Typing, NEW r \in Requests, List(r)
  PROVE  Typing'
<1> DEFINE x == [NoRequest EXCEPT !.pc = "listed",
                                  !.todo = {p \in Processes : status[p] = "failed"}]
<1>1. request' = [request EXCEPT ![r] = x] /\ request[r].pc = "idle"
      /\ UNCHANGED <<status, buried, entry, locked, user, pool, thread, handled, raced>>
  BY DEF List, base, lock
<1>2. x \in RequestRecords /\ x.pc = "listed"
  BY DEF NoRequest, RequestRecords, Statuses
<1> HIDE DEF x
<1>3. AboutToMark(x)
  BY <1>2 DEF AboutToMark
<1>4. \A q \in Requests : Once(pool', q)
  BY <1>1 DEF Typing, Jobs
<1>5. ~In(pool', r)
  BY <1>1 DEF Typing, Jobs
<1>6. request' \in [Requests -> RequestRecords] /\ Jobs'
  BY <1>1, <1>2, <1>3, <1>4, <1>5, RequestMoves
<1>7. TypeOK'
  BY <1>1, <1>6 DEF Typing, TypeOK, RequestRecords
<1> QED
  BY <1>1, <1>6, <1>7 DEF Typing, EntryIsLocked

LEMMA TypingAccept ==
  ASSUME Typing, NEW r \in Requests, Accept(r)
  PROVE  Typing'
<1>0. /\ request[r] \in RequestRecords /\ request[r].pc = "listed"
      /\ UNCHANGED <<status, buried, user, thread, raced>>
      /\ ~In(pool, r) /\ \A q \in Requests : Once(pool, q)
  BY OfState DEF Accept, base, Typing, Jobs
<1>1. CASE /\ GetLock(r)
           /\ request' = [request EXCEPT ![r].pc = "queued"]
           /\ pool' = Append(pool, r)
           /\ UNCHANGED handled
  <2> DEFINE x == [request[r] EXCEPT !.pc = "queued"]
  <2>1. request' = [request EXCEPT ![r] = x] /\ x \in RequestRecords /\ x.pc = "queued"
    BY <1>0, <1>1 DEF RequestRecords
  <2> HIDE DEF x
  <2>2. AboutToMark(x)
    BY <2>1 DEF AboutToMark
  <2>3. r \in Items /\ pool \in Seq(Items)
    BY OfState DEF Items
  <2>4. pool' \in Seq(Items) /\ (\A q \in Requests : Once(pool', q))
        /\ \A q \in Requests \ {r} : In(pool', q) => In(pool, q)
    BY <1>0, <1>1, <2>3, AppendedItem
  <2>5. request' \in [Requests -> RequestRecords] /\ Jobs'
    BY <1>0, <2>1, <2>2, <2>4, RequestMoves
  <2>6. entry' = r /\ entry = None /\ locked' = [locked EXCEPT ![r] = TRUE]
    BY <1>1 DEF GetLock
  <2>7. locked' \in [Requests -> BOOLEAN]
    BY <2>6, OfState
  <2>8. EntryIsLocked'
    <3> SUFFICES ASSUME NEW q \in Requests PROVE locked'[q] <=> entry' = q
      BY DEF EntryIsLocked
    <3>1. ~locked[q]
      BY <2>6, ResumeAllAssumption DEF Typing, EntryIsLocked
    <3> QED
      BY <2>6, <3>1, OfState
  <2>9. TypeOK'
    BY <1>0, <1>1, <2>4, <2>5, <2>6, <2>7 DEF Typing, TypeOK, RequestRecords, Items
  <2> QED
    BY <2>5, <2>8, <2>9 DEF Typing
<1>2. CASE /\ entry # None
           /\ request' = [request EXCEPT ![r] = NoRequest]
           /\ handled' = [handled EXCEPT ![r] = {}]
           /\ UNCHANGED <<lock, pool>>
  <2>1. NoRequest \in RequestRecords /\ AboutToMark(NoRequest)
    BY DEF NoRequest, RequestRecords, Statuses, AboutToMark
  <2>2. request' \in [Requests -> RequestRecords] /\ Jobs'
    BY <1>0, <1>2, <2>1, RequestMoves
  <2>3. handled' \in [Requests -> SUBSET Processes] /\ entry' = entry /\ locked' = locked
    BY <1>2, OfState DEF lock
  <2>4. TypeOK'
    BY <1>0, <1>2, <2>2, <2>3 DEF Typing, TypeOK, RequestRecords
  <2> QED
    BY <2>2, <2>3, <2>4 DEF Typing, EntryIsLocked
<1> QED
  BY <1>1, <1>2 DEF Accept

LEMMA TypingJobRead ==
  ASSUME Typing, NEW r \in Requests, NEW p \in Processes, JobRead(r, p)
  PROVE  Typing'
<1>0. /\ request[r] \in RequestRecords /\ request[r].pc = "loop"
      /\ UNCHANGED <<status, buried, entry, locked, user, pool, thread, raced>>
      /\ ~In(pool, r) /\ (\A q \in Requests : Once(pool, q)) /\ status[p] \in Statuses
  BY OfState DEF JobRead, base, lock, Typing, Jobs
<1> DEFINE resumed == [request[r] EXCEPT !.pc = "resume", !.process = p, !.copy = status[p]]
           skipped == [request[r] EXCEPT !.todo = @ \ {p}]
<1>1. PICK x \in {resumed, skipped} :
        /\ request' = [request EXCEPT ![r] = x]
        /\ x = resumed => status[p] # "running"
  <2>1. PICK answered \in BOOLEAN :
          IF status[p] # "running" /\ Resumable(p, status[p], answered)
          THEN request' = [request EXCEPT ![r] = resumed]
          ELSE request' = [request EXCEPT ![r] = skipped]
    BY DEF JobRead
  <2>2. resumed.pc = "resume" /\ skipped.pc = "loop"
    BY <1>0 DEF RequestRecords
  <2> QED
    BY <2>1, <2>2
<1>2. resumed \in RequestRecords /\ resumed.process = p /\ resumed.copy = status[p]
      /\ skipped \in RequestRecords /\ skipped.pc = "loop"
  BY <1>0 DEF RequestRecords
<1> HIDE DEF resumed, skipped
<1>3. x \in RequestRecords /\ AboutToMark(x)
  BY <1>1, <1>2 DEF AboutToMark
<1>4. request' \in [Requests -> RequestRecords] /\ Jobs'
  BY <1>0, <1>1, <1>3, RequestMoves
<1>5. handled' \in [Requests -> SUBSET Processes]
  <2>1. \E h \in SUBSET Processes : handled' = [handled EXCEPT ![r] = h]
    <3>1. handled[r] \in SUBSET Processes /\ handled[r] \cup {p} \in SUBSET Processes
          /\ handled = [handled EXCEPT ![r] = handled[r]]
      BY OfState
    <3> QED
      BY <3>1 DEF JobRead
  <2> QED
    BY <2>1, OfState
<1>6. TypeOK'
  BY <1>0, <1>4, <1>5 DEF Typing, TypeOK, RequestRecords
<1> QED
  BY <1>0, <1>4, <1>6 DEF Typing, EntryIsLocked

LEMMA TypingJobSubmit ==
  ASSUME Typing, NEW r \in Requests, JobSubmit(r)
  PROVE  Typing'
<1>0. /\ request[r] \in RequestRecords /\ request[r].pc = "resume"
      /\ UNCHANGED <<entry, locked, user, thread>>
      /\ ~In(pool, r)
      /\ request[r].process \in Processes /\ request[r].copy \in Statuses
  BY OfState DEF JobSubmit, lock, Typing, Jobs, AboutToMark, RequestRecords
<1>1. Submit(request[r].process, request[r].copy)
  BY DEF JobSubmit
<1>2. /\ status' \in [Processes -> Statuses] /\ pool' \in Seq(Items)
      /\ handled' \in [Requests -> SUBSET Processes] /\ raced' \in BOOLEAN
      /\ buried' = buried
      /\ \A q \in Requests : Once(pool', q) /\ (In(pool', q) <=> In(pool, q))
  BY <1>0, <1>1, SubmitKeeps
<1> DEFINE x == [NoRequest EXCEPT !.pc = "loop",
                                  !.todo = request[r].todo \ {request[r].process}]
<1>3. request' = [request EXCEPT ![r] = x]
  BY DEF JobSubmit
<1>4. x \in RequestRecords /\ x.pc = "loop"
  BY <1>0 DEF RequestRecords, NoRequest, Statuses
<1> HIDE DEF x
<1>5. AboutToMark(x)
  BY <1>4 DEF AboutToMark
<1>6. request' \in [Requests -> RequestRecords] /\ Jobs'
  BY <1>0, <1>2, <1>3, <1>4, <1>5, RequestMoves
<1>7. TypeOK'
  BY <1>0, <1>2, <1>6 DEF Typing, TypeOK, RequestRecords, Items
<1> QED
  BY <1>0, <1>6, <1>7 DEF Typing, EntryIsLocked

\* A released lock is the own one, or none.
LEMMA ReleaseKeeps ==
  ASSUME Typing, NEW r \in Requests, ReleaseLock(r)
  PROVE  /\ entry' \in Requests \cup {None} /\ locked' \in [Requests -> BOOLEAN]
         /\ EntryIsLocked'
         /\ entry' = IF entry = r THEN None ELSE entry
<1>1. \A q \in Requests : locked[q] <=> entry = q
  BY DEF Typing, EntryIsLocked
<1>2. CASE locked[r]
  <2>1. locked' = [locked EXCEPT ![r] = FALSE] /\ entry = r /\ entry' = None
    BY <1>1, <1>2 DEF ReleaseLock
  <2>2. locked' \in [Requests -> BOOLEAN]
    BY <2>1, OfState
  <2>3. ASSUME NEW q \in Requests
        PROVE  ~locked'[q] /\ entry' # q
    <3>1. q # r => ~locked[q]
      BY <1>1, <2>1
    <3> QED
      BY <2>1, <3>1, OfState, ResumeAllAssumption
  <2> QED
    BY <2>1, <2>2, <2>3 DEF EntryIsLocked
<1>3. CASE ~locked[r]
  <2>1. entry' = entry /\ locked' = locked /\ entry # r
    BY <1>1, <1>3 DEF ReleaseLock, lock
  <2> QED
    BY <2>1, <1>1, OfState DEF EntryIsLocked
<1> QED
  BY <1>2, <1>3

LEMMA TypingJobEnd ==
  ASSUME Typing, NEW r \in Requests, JobEnd(r)
  PROVE  Typing'
<1>1. /\ UNCHANGED <<status, buried, user, pool, raced>> /\ request[r].pc = "loop"
      /\ request' = [request EXCEPT ![r] = NoRequest]
      /\ handled' = [handled EXCEPT ![r] = {}]
      /\ thread' = [t \in Threads |-> IF thread[t] = r THEN None ELSE thread[t]]
      /\ ReleaseLock(r)
  BY DEF JobEnd, base
<1>2. NoRequest \in RequestRecords /\ AboutToMark(NoRequest)
  BY DEF NoRequest, RequestRecords, Statuses, AboutToMark
<1>3. ~In(pool, r) /\ \A q \in Requests : Once(pool, q)
  BY <1>1 DEF Typing, Jobs
<1>4. request' \in [Requests -> RequestRecords] /\ Jobs'
  BY <1>1, <1>2, <1>3, RequestMoves
<1>5. handled' \in [Requests -> SUBSET Processes] /\ thread' \in [Threads -> Items \cup {None}]
  BY <1>1, OfState
<1>6. TypeOK'
  BY <1>1, <1>4, <1>5, ReleaseKeeps DEF Typing, TypeOK, RequestRecords, Items
<1> QED
  BY <1>1, <1>4, <1>6, ReleaseKeeps DEF Typing

\* A user who reads, marks or aborts.
LEMMA TypingUser ==
  ASSUME Typing, NEW u \in Users, UserCall(u)
  PROVE  Typing'
<1>0. user[u] \in UserRecords
  BY OfState
<1>1. ASSUME NEW p \in Processes, UserRead(u, p)
      PROVE  Typing'
  <2> DEFINE x == [process |-> p, copy |-> status[p]]
  <2>1. /\ user' = [user EXCEPT ![u] = x] /\ status[p] \in {"failed", "suspended"}
        /\ UNCHANGED <<status, buried, entry, locked, request, pool, thread, handled, raced>>
    BY <1>1 DEF UserRead, base, lock
  <2>2. x \in UserRecords /\ ReadByUser(x)
    BY <2>1 DEF UserRecords, Statuses, ReadByUser
  <2> HIDE DEF x
  <2>3. user' \in [Users -> UserRecords] /\ \A v \in Users : ReadByUser(user'[v])
    BY <2>1, <2>2, OfState DEF Typing, Jobs
  <2>4. Jobs'
    BY <2>1, <2>3 DEF Typing, Jobs
  <2>5. TypeOK'
    BY <2>1, <2>3 DEF Typing, TypeOK, UserRecords
  <2> QED
    BY <2>1, <2>4, <2>5 DEF Typing, EntryIsLocked
<1>2. CASE UserSubmit(u)
  <2>1. /\ user[u].process \in Processes /\ user[u].copy \in Statuses
        /\ user' = [user EXCEPT ![u] = NoUser]
        /\ UNCHANGED <<entry, locked, request, thread>>
        /\ Submit(user[u].process, user[u].copy)
    BY <1>0, <1>2 DEF UserSubmit, lock, UserRecords
  <2>2. /\ status' \in [Processes -> Statuses] /\ pool' \in Seq(Items)
        /\ handled' \in [Requests -> SUBSET Processes] /\ raced' \in BOOLEAN
        /\ buried' = buried
        /\ \A q \in Requests : Once(pool', q) /\ (In(pool', q) <=> In(pool, q))
    BY <2>1, SubmitKeeps
  <2>3. NoUser \in UserRecords /\ ReadByUser(NoUser)
    BY DEF NoUser, UserRecords, Statuses, ReadByUser
  <2>4. user' \in [Users -> UserRecords] /\ \A v \in Users : ReadByUser(user'[v])
    BY <2>1, <2>3, OfState DEF Typing, Jobs
  <2>5. Jobs'
    BY <2>1, <2>2, <2>4 DEF Typing, Jobs
  <2>6. TypeOK'
    BY <2>1, <2>2, <2>4 DEF Typing, TypeOK, UserRecords, Items
  <2> QED
    BY <2>1, <2>5, <2>6 DEF Typing, EntryIsLocked
<1> QED
  BY <1>1, <1>2 DEF UserCall

LEMMA TypingAbort ==
  ASSUME Typing, NEW p \in Processes, Abort(p)
  PROVE  Typing'
<1>1. /\ status' = [status EXCEPT ![p] = "aborted"] /\ buried' = buried \cup {p}
      /\ handled' = Handled(p)
      /\ UNCHANGED <<entry, locked, request, user, pool, thread, raced>>
  BY DEF Abort, lock
<1>2. status' \in [Processes -> Statuses] /\ buried' \subseteq Processes
  BY <1>1, OfState DEF Statuses
<1>3. handled' \in [Requests -> SUBSET Processes]
  BY <1>1, OfState DEF Handled
<1>4. TypeOK'
  BY <1>1, <1>2, <1>3 DEF Typing, TypeOK
<1>5. Jobs'
  BY <1>1, JobsStay DEF Typing, Jobs
<1> QED
  BY <1>1, <1>4, <1>5 DEF Typing, EntryIsLocked

LEMMA TypingTake ==
  ASSUME Typing, NEW t \in Threads, Take(t)
  PROVE  Typing'
<1> DEFINE item == Head(pool)
<1>1. /\ thread' = [thread EXCEPT ![t] = item] /\ pool # <<>> /\ pool' = Tail(pool)
      /\ request' = IF item \in Requests THEN [request EXCEPT ![item].pc = "loop"] ELSE request
      /\ UNCHANGED <<status, buried, entry, locked, user, handled, raced>>
  BY DEF Take, base, lock
<1>2. /\ pool' \in Seq(Items) /\ item \in Items /\ In(pool, item)
      /\ \A x : In(pool', x) => In(pool, x)
      /\ \A x : Once(pool, x) => Once(pool', x)
      /\ Once(pool, item) => ~In(pool', item)
  BY <1>1, TakenItem, OfState
<1> HIDE DEF item
<1>3. thread' \in [Threads -> Items \cup {None}]
  BY <1>1, <1>2, OfState
<1>4. \A q \in Requests : Once(pool', q)
  BY <1>2 DEF Typing, Jobs
<1>5. request' \in [Requests -> RequestRecords] /\ Jobs'
  <2>1. CASE item \in Requests
    <3> DEFINE x == [request[item] EXCEPT !.pc = "loop"]
    <3>1. request[item] \in RequestRecords
      BY <2>1, OfState
    <3>2. x \in RequestRecords /\ x.pc = "loop" /\ request' = [request EXCEPT ![item] = x]
      BY <1>1, <2>1, <3>1 DEF RequestRecords
    <3> HIDE DEF x
    <3>3. AboutToMark(x)
      BY <3>2 DEF AboutToMark
    <3>4. ~In(pool', item)
      BY <1>2, <2>1 DEF Typing, Jobs
    <3> QED
      BY <1>1, <1>2, <1>4, <2>1, <3>2, <3>3, <3>4, RequestMoves
  <2>2. CASE item \notin Requests
    BY <1>1, <1>2, <1>4, <2>2, JobsStay, OfState
  <2> QED
    BY <2>1, <2>2
<1>6. TypeOK'
  BY <1>1, <1>2, <1>3, <1>5 DEF Typing, TypeOK, RequestRecords, Items
<1> QED
  BY <1>1, <1>5, <1>6 DEF Typing, EntryIsLocked

LEMMA TypingEndRun ==
  ASSUME Typing, NEW t \in Threads, EndRun(t)
  PROVE  Typing'
<1>1. /\ thread[t] \in Processes /\ thread' = [thread EXCEPT ![t] = None]
      /\ UNCHANGED <<buried, entry, locked, request, user, pool, handled, raced>>
  BY DEF EndRun, lock
<1>2. \E s \in Statuses : status' = [status EXCEPT ![thread[t]] = s]
  <2>1. status[thread[t]] \in Statuses
    BY <1>1, OfState
  <2> QED
    BY <2>1 DEF EndRun, Statuses
<1>3. status' \in [Processes -> Statuses] /\ thread' \in [Threads -> Items \cup {None}]
  BY <1>1, <1>2, OfState
<1>4. TypeOK'
  BY <1>1, <1>3 DEF Typing, TypeOK, Items
<1>5. Jobs'
  BY <1>1, JobsStay DEF Typing, Jobs
<1> QED
  BY <1>1, <1>4, <1>5 DEF Typing, EntryIsLocked

LEMMA TypingNext == Typing /\ [Next]_vars => Typing'
<1> SUFFICES ASSUME Typing, [Next]_vars PROVE Typing'
  OBVIOUS
<1>1. CASE UNCHANGED vars
  <2>1. UNCHANGED <<status, buried, entry, locked, request, user, pool, thread, handled, raced>>
    BY <1>1 DEF vars
  <2>2. TypeOK' /\ EntryIsLocked'
    BY <2>1 DEF Typing, TypeOK, EntryIsLocked
  <2>3. Jobs'
    BY <2>1, JobsStay DEF Typing, Jobs
  <2> QED
    BY <2>2, <2>3 DEF Typing
<1> QED
  BY <1>1, TypingExpire, TypingList, TypingAccept, TypingJobRead, TypingJobSubmit,
     TypingJobEnd, TypingUser, TypingAbort, TypingTake, TypingEndRun DEF Next, Job

LEMMA TypingHolds == Spec => []Typing
BY TypingInit, TypingNext, PTL DEF Spec

\* Statuses, requests, the queue and the threads keep their types.
THEOREM TypesHold == Spec => []TypeOK
<1>1. Typing => TypeOK
  BY DEF Typing
<1> QED
  BY <1>1, TypingHolds, PTL

\* The thread that ends leases that are over never finds an entry whose Lock is not
\* locked, so it does not die of the exception.
THEOREM EntriesAreLocked == Spec => []EntryIsLocked
<1>1. Typing => EntryIsLocked
  BY DEF Typing
<1> QED
  BY <1>1, TypingHolds, PTL
-----------------------------------------------------------------------------
(* The lock is a lease *)

\* A request that gets another record claims the lease as before.
LEMMA ClaimsStay ==
  ASSUME Typing, NEW r \in Requests, NEW x,
         request' = [request EXCEPT ![r] = x],
         x.pc \in {"queued", "loop", "resume"}
           <=> request[r].pc \in {"queued", "loop", "resume"}
  PROVE  Claims' = Claims
<1>1. request'[r] = x /\ \A q \in Requests \ {r} : request'[q] = request[q]
  BY OfState
<1> QED
  BY <1>1 DEF Claims

LEMMA LeaseSteps == Typing /\ [Next]_vars => [Promise!Next]_(Promise!vars)
<1> SUFFICES ASSUME Typing, [Next]_vars PROVE [Promise!Next]_(Promise!vars)
  OBVIOUS
<1>0. \A q \in Requests : locked[q] <=> entry = q
  BY DEF Typing, EntryIsLocked
<1>1. CASE Expire
  <2>1. entry # None /\ entry' = None /\ Claims' = Claims
    BY <1>1 DEF Expire, Claims
  <2> QED
    BY <2>1 DEF Promise!Expire, Promise!Next
<1>2. ASSUME NEW r \in Requests, List(r)
      PROVE  UNCHANGED <<entry, Claims>>
  <2> DEFINE x == [NoRequest EXCEPT !.pc = "listed",
                                    !.todo = {p \in Processes : status[p] = "failed"}]
  <2>1. request' = [request EXCEPT ![r] = x] /\ request[r].pc = "idle" /\ entry' = entry
    BY <1>2 DEF List, lock
  <2>2. x.pc = "listed"
    BY DEF NoRequest
  <2> HIDE DEF x
  <2> QED
    BY <2>1, <2>2, ClaimsStay
<1>3. ASSUME NEW r \in Requests, Accept(r)
      PROVE  [Promise!Next]_(Promise!vars)
  <2>0. request[r].pc = "listed" /\ request[r] \in RequestRecords
    BY <1>3, OfState DEF Accept
  <2>1. CASE GetLock(r) /\ request' = [request EXCEPT ![r].pc = "queued"]
    <3> DEFINE x == [request[r] EXCEPT !.pc = "queued"]
    <3>1. request' = [request EXCEPT ![r] = x] /\ x.pc = "queued"
      BY <2>0, <2>1 DEF RequestRecords
    <3> HIDE DEF x
    <3>2. request'[r] = x /\ \A q \in Requests \ {r} : request'[q] = request[q]
      BY <3>1, OfState
    <3>3. Claims' = Claims \cup {r} /\ r \notin Claims
      BY <2>0, <3>1, <3>2 DEF Claims
    <3>4. entry = None /\ entry' = r
      BY <2>1 DEF GetLock
    <3>5. Promise!Grant(r)
      BY <3>3, <3>4 DEF Promise!Grant
    <3> QED
      BY <3>5 DEF Promise!Next
  <2>2. CASE request' = [request EXCEPT ![r] = NoRequest] /\ UNCHANGED lock
    <3>1. Claims' = Claims
      BY <2>0, <2>2, ClaimsStay DEF NoRequest
    <3> QED
      BY <2>2, <3>1 DEF Promise!vars, lock
  <2> QED
    BY <1>3, <2>1, <2>2 DEF Accept
<1>4. ASSUME NEW r \in Requests, NEW p \in Processes, JobRead(r, p)
      PROVE  UNCHANGED <<entry, Claims>>
  <2> DEFINE resumed == [request[r] EXCEPT !.pc = "resume", !.process = p, !.copy = status[p]]
             skipped == [request[r] EXCEPT !.todo = @ \ {p}]
  <2>1. request[r].pc = "loop" /\ request[r] \in RequestRecords /\ entry' = entry
    BY <1>4, OfState DEF JobRead, lock
  <2>2. resumed.pc = "resume" /\ skipped.pc = "loop"
    BY <2>1 DEF RequestRecords
  <2>3. \/ request' = [request EXCEPT ![r] = resumed]
        \/ request' = [request EXCEPT ![r] = skipped]
    BY <1>4 DEF JobRead
  <2> HIDE DEF resumed, skipped
  <2> QED
    BY <2>1, <2>2, <2>3, ClaimsStay
<1>5. ASSUME NEW r \in Requests, JobSubmit(r)
      PROVE  UNCHANGED <<entry, Claims>>
  <2> DEFINE x == [NoRequest EXCEPT !.pc = "loop",
                                    !.todo = request[r].todo \ {request[r].process}]
  <2>1. request' = [request EXCEPT ![r] = x] /\ request[r].pc = "resume" /\ entry' = entry
    BY <1>5 DEF JobSubmit, lock
  <2>2. x.pc = "loop"
    BY DEF NoRequest
  <2> HIDE DEF x
  <2> QED
    BY <2>1, <2>2, ClaimsStay
<1>6. ASSUME NEW r \in Requests, JobEnd(r)
      PROVE  Promise!GiveBack(r)
  <2>1. request[r].pc = "loop" /\ request' = [request EXCEPT ![r] = NoRequest]
    BY <1>6 DEF JobEnd
  <2>2. request'[r] = NoRequest /\ \A q \in Requests \ {r} : request'[q] = request[q]
    BY <2>1, OfState
  <2>3. r \in Claims /\ Claims' = Claims \ {r}
    BY <2>1, <2>2 DEF Claims, NoRequest
  <2>4. entry' = IF entry = r THEN None ELSE entry
    BY <1>6, ReleaseKeeps DEF JobEnd
  <2> QED
    BY <2>3, <2>4 DEF Promise!GiveBack
<1>7. ASSUME NEW t \in Threads, Take(t)
      PROVE  UNCHANGED <<entry, Claims>>
  <2> DEFINE item == Head(pool)
  <2>1. /\ request' = IF item \in Requests THEN [request EXCEPT ![item].pc = "loop"]
                      ELSE request
        /\ pool # <<>> /\ entry' = entry
    BY <1>7 DEF Take, lock
  <2>2. In(pool, item)
    BY <2>1, TakenItem, OfState
  <2> HIDE DEF item
  <2>3. CASE item \in Requests
    <3> DEFINE x == [request[item] EXCEPT !.pc = "loop"]
    <3>1. request[item].pc = "queued" /\ request[item] \in RequestRecords
      BY <2>2, <2>3, OfState DEF Typing, Jobs
    <3>2. request' = [request EXCEPT ![item] = x] /\ x.pc = "loop"
      BY <2>1, <2>3, <3>1 DEF RequestRecords
    <3> HIDE DEF x
    <3> QED
      BY <2>1, <2>3, <3>1, <3>2, ClaimsStay
  <2>4. CASE item \notin Requests
    BY <2>1, <2>4 DEF Claims
  <2> QED
    BY <2>3, <2>4
<1>8. CASE \/ \E u \in Users : UserCall(u)
           \/ \E p \in Processes : Abort(p)
           \/ \E t \in Threads : EndRun(t)
           \/ UNCHANGED vars
  BY <1>8 DEF UserCall, UserRead, UserSubmit, Abort, EndRun, lock, vars, Claims, Promise!vars
<1>9. UNCHANGED <<entry, Claims>> => UNCHANGED Promise!vars
  BY DEF Promise!vars
<1>10. ASSUME NEW r \in Requests, Promise!GiveBack(r)
       PROVE  Promise!Next
  BY <1>10 DEF Promise!Next
<1> QED
  BY <1>1, <1>2, <1>3, <1>4, <1>5, <1>6, <1>7, <1>8, <1>9, <1>10 DEF Next, Job

\* The manager's lock is a lease: it is granted to one request at a time, ends by itself,
\* and a job that outlives it gives back nothing that another request was granted.
THEOREM LockIsLease == Spec => ImplementsLease
<1>1. Init => Promise!Init
  BY DEF Init, Promise!Init, Claims, NoRequest
<1> QED
  BY <1>1, LeaseSteps, TypingHolds, PTL DEF Spec, ImplementsLease, Promise!Spec
-----------------------------------------------------------------------------
(* One run at a time *)

\* A process waits in the queue at most once, and then no thread executes it; and two
\* threads do not execute it either.
SoleRunOf(p) ==
  /\ Once(pool, p)
  /\ In(pool, p) => \A t \in Threads : thread[t] # p
  /\ \A t, u \in Threads : thread[t] = p /\ thread[u] = p => t = u

HasRun(p) == In(pool, p) \/ \E t \in Threads : thread[t] = p

\* The inductive strengthening of OneRun: what has a run is marked RUNNING, so that
\* nobody who looks takes it for one to resume.
SoleRuns ==
  ~raced => \A p \in Processes : SoleRunOf(p) /\ (HasRun(p) => status[p] = "running")

\* Steps that give no process a run, and no process that has one another status.
LEMMA SoleStays ==
  ASSUME SoleRuns, raced' = raced,
         \A p \in Processes : /\ Once(pool, p) => Once(pool', p)
                              /\ In(pool', p) => In(pool, p)
                              /\ \A t \in Threads : thread'[t] = p => thread[t] = p,
         ~raced => \A p \in Processes : HasRun(p)' => status'[p] = status[p]
  PROVE  SoleRuns'
<1> SUFFICES ASSUME ~raced', NEW p \in Processes
             PROVE  SoleRunOf(p)' /\ (HasRun(p)' => status'[p] = "running")
  BY DEF SoleRuns
<1>1. SoleRunOf(p) /\ (HasRun(p) => status[p] = "running")
  BY DEF SoleRuns
<1>2. SoleRunOf(p)'
  BY <1>1 DEF SoleRunOf
<1>3. HasRun(p)' => HasRun(p)
  BY DEF HasRun
<1> QED
  BY <1>1, <1>2, <1>3

\* Marking what did not run when it was read, and has not changed since.
LEMMA SoleSubmit ==
  ASSUME Typing, SoleRuns, NEW p \in Processes, NEW c \in Statuses, c # "running",
         Submit(p, c), thread' = thread
  PROVE  SoleRuns'
<1>1. /\ status' = [status EXCEPT ![p] = "running"] /\ pool' = Append(pool, p)
      /\ raced' = (raced \/ status[p] # c)
  BY DEF Submit
<1> SUFFICES ASSUME ~raced', NEW q \in Processes
             PROVE  SoleRunOf(q)' /\ (HasRun(q)' => status'[q] = "running")
  BY DEF SoleRuns
<1>2. ~raced /\ status[p] = c
  BY <1>1
<1>3. \A r \in Processes : SoleRunOf(r) /\ (HasRun(r) => status[r] = "running")
  BY <1>2 DEF SoleRuns
<1>4. ~HasRun(p)
  BY <1>2, <1>3
<1>5. p \in Items /\ pool \in Seq(Items)
  BY OfState DEF Items
<1>6. /\ \A x : In(pool', x) <=> In(pool, x) \/ x = p
      /\ \A x : Once(pool, x) /\ (x = p => ~In(pool, x)) => Once(pool', x)
  BY <1>1, <1>5, AppendedItem
<1>7. SoleRunOf(q)'
  BY <1>3, <1>4, <1>6 DEF SoleRunOf, HasRun
<1>8. HasRun(q)' => HasRun(q) \/ q = p
  BY <1>6 DEF HasRun
<1>9. status'[p] = "running" /\ (q # p => status'[q] = status[q])
  BY <1>1, OfState
<1> QED
  BY <1>3, <1>7, <1>8, <1>9

LEMMA SoleInit == Init => SoleRuns
<1> SUFFICES ASSUME Init PROVE SoleRuns
  OBVIOUS
<1>1. pool = <<>> /\ \A t \in Threads : thread[t] = None
  BY DEF Init
<1>2. \A x : Once(pool, x) /\ ~In(pool, x)
  BY <1>1 DEF Once, In
<1>3. None \notin Processes
  BY ResumeAllAssumption
<1> QED
  BY <1>1, <1>2, <1>3 DEF SoleRuns, SoleRunOf, HasRun

LEMMA SoleNext == Typing /\ SoleRuns /\ [Next]_vars => SoleRuns'
<1> SUFFICES ASSUME Typing, SoleRuns, [Next]_vars PROVE SoleRuns'
  OBVIOUS
<1>1. CASE UNCHANGED <<status, pool, thread, raced>>
  BY <1>1, SoleStays
<1>2. ASSUME NEW r \in Requests, Accept(r)
      PROVE  SoleRuns'
  <2>1. UNCHANGED <<status, thread, raced>> /\ (pool' = pool \/ pool' = Append(pool, r))
    BY <1>2 DEF Accept, base
  <2>2. \A p \in Processes : p # r
    BY ResumeAllAssumption
  <2>3. r \in Items /\ pool \in Seq(Items)
    BY OfState DEF Items
  <2>4. \A p \in Processes : (Once(pool, p) => Once(pool', p)) /\ (In(pool', p) => In(pool, p))
    <3>1. CASE pool' = pool
      BY <3>1
    <3>2. CASE pool' = Append(pool, r)
      <4>1. /\ \A x : In(pool', x) <=> In(pool, x) \/ x = r
            /\ \A x : Once(pool, x) /\ (x = r => ~In(pool, x)) => Once(pool', x)
        BY <2>3, <3>2, AppendedItem
      <4> QED
        BY <2>2, <4>1
    <3> QED
      BY <2>1, <3>1, <3>2
  <2> QED
    BY <2>1, <2>4, SoleStays
<1>3. ASSUME NEW r \in Requests, JobSubmit(r)
      PROVE  SoleRuns'
  <2>1. /\ request[r].process \in Processes /\ request[r].copy \in Statuses
        /\ request[r].copy # "running"
    BY <1>3, OfState DEF JobSubmit, Typing, Jobs, AboutToMark, RequestRecords
  <2>2. Submit(request[r].process, request[r].copy) /\ thread' = thread
    BY <1>3 DEF JobSubmit
  <2> QED
    BY <2>1, <2>2, SoleSubmit
<1>4. ASSUME NEW u \in Users, UserSubmit(u)
      PROVE  SoleRuns'
  <2>1. /\ user[u].process \in Processes /\ user[u].copy \in Statuses
        /\ user[u].copy # "running"
    BY <1>4, OfState DEF UserSubmit, Typing, Jobs, ReadByUser, UserRecords
  <2>2. Submit(user[u].process, user[u].copy) /\ thread' = thread
    BY <1>4 DEF UserSubmit
  <2> QED
    BY <2>1, <2>2, SoleSubmit
<1>5. ASSUME NEW r \in Requests, JobEnd(r)
      PROVE  SoleRuns'
  <2>1. UNCHANGED <<status, pool, raced>>
        /\ thread' = [t \in Threads |-> IF thread[t] = r THEN None ELSE thread[t]]
    BY <1>5 DEF JobEnd, base
  <2>2. \A p \in Processes, t \in Threads : thread'[t] = p => thread[t] = p
    BY <2>1, ResumeAllAssumption
  <2> QED
    BY <2>1, <2>2, SoleStays
<1>6. ASSUME NEW p \in Processes, Abort(p)
      PROVE  SoleRuns'
  <2>1. /\ status[p] # "running" /\ UNCHANGED <<pool, thread, raced>>
        /\ status' = [status EXCEPT ![p] = "aborted"]
    BY <1>6 DEF Abort
  <2>2. ~raced => ~HasRun(p)
    BY <2>1 DEF SoleRuns
  <2>3. \A q \in Processes : HasRun(q)' <=> HasRun(q)
    BY <2>1 DEF HasRun
  <2>4. \A q \in Processes \ {p} : status'[q] = status[q]
    BY <2>1, OfState
  <2> QED
    BY <2>1, <2>2, <2>3, <2>4, SoleStays
<1>7. ASSUME NEW t \in Threads, Take(t)
      PROVE  SoleRuns'
  <2> DEFINE item == Head(pool)
  <2>1. /\ UNCHANGED <<status, raced>> /\ thread[t] = None /\ pool # <<>>
        /\ thread' = [thread EXCEPT ![t] = item] /\ pool' = Tail(pool)
    BY <1>7 DEF Take, base
  <2>2. /\ In(pool, item) /\ \A x : In(pool', x) => In(pool, x)
        /\ \A x : Once(pool, x) => Once(pool', x)
        /\ Once(pool, item) => ~In(pool', item)
    BY <2>1, TakenItem, OfState
  <2> HIDE DEF item
  <2> SUFFICES ASSUME ~raced', NEW q \in Processes
               PROVE  SoleRunOf(q)' /\ (HasRun(q)' => status'[q] = "running")
    BY DEF SoleRuns
  <2>3. SoleRunOf(q) /\ (HasRun(q) => status[q] = "running")
    BY <2>1 DEF SoleRuns
  <2>4. thread'[t] = item /\ \A u \in Threads \ {t} : thread'[u] = thread[u]
    BY <2>1, OfState
  <2>5. SoleRunOf(q)'
    BY <2>2, <2>3, <2>4 DEF SoleRunOf
  <2>6. HasRun(q)' => HasRun(q)
    BY <2>2, <2>4 DEF HasRun
  <2> QED
    BY <2>1, <2>3, <2>5, <2>6
<1>8. ASSUME NEW t \in Threads, EndRun(t)
      PROVE  SoleRuns'
  <2>1. /\ UNCHANGED <<pool, raced>> /\ thread[t] \in Processes
        /\ thread' = [thread EXCEPT ![t] = None]
        /\ \E s : status' = [status EXCEPT ![thread[t]] = s]
    BY <1>8 DEF EndRun
  <2> PICK p \in Processes : p = thread[t]
    BY <2>1
  <2>2. thread'[t] = None /\ \A u \in Threads \ {t} : thread'[u] = thread[u]
    BY <2>1, OfState
  <2>3. None \notin Processes
    BY ResumeAllAssumption
  <2>4. ~raced => ~HasRun(p)'
    BY <2>1, <2>2, <2>3 DEF SoleRuns, SoleRunOf, HasRun
  <2>5. \A q \in Processes \ {p} : status'[q] = status[q]
    BY <2>1, OfState
  <2>6. \A q \in Processes, u \in Threads : thread'[u] = q => thread[u] = q
    BY <2>2, <2>3
  <2> QED
    BY <2>1, <2>4, <2>5, <2>6, SoleStays
<1>9. CASE \/ Expire
           \/ \E r \in Requests : List(r) \/ \E p \in Processes : JobRead(r, p)
           \/ \E u \in Users, p \in Processes : UserRead(u, p)
           \/ UNCHANGED vars
  BY <1>1, <1>9 DEF Expire, List, JobRead, UserRead, base, vars
<1> QED
  BY <1>2, <1>3, <1>4, <1>5, <1>6, <1>7, <1>8, <1>9 DEF Next, Job, UserCall

\* As long as nobody marks a process that changed after it was read, no two threads get
\* the same process, although locks expire under jobs and users resume by hand.
THEOREM OneRunAtATime == Spec => []OneRun
<1>1. Spec => []SoleRuns
  <2>1. Typing /\ SoleRuns /\ [Next]_vars => SoleRuns'
    BY SoleNext
  <2> QED
    BY <2>1, SoleInit, TypingHolds, PTL DEF Spec
<1>2. Typing /\ SoleRuns => OneRun
  <2> SUFFICES ASSUME Typing, SoleRuns, ~raced, NEW p \in Processes
               PROVE  Runs(p) <= 1
    BY DEF OneRun
  <2> DEFINE waiting == {i \in DOMAIN pool : pool[i] = p}
             executing == {t \in Threads : thread[t] = p}
  <2>1. SoleRunOf(p) /\ DOMAIN pool = 1..Len(pool)
    BY OfState DEF SoleRuns
  <2>2. \A i, j \in waiting : i = j
    BY <2>1 DEF SoleRunOf, Once
  <2>3. \A t, u \in executing : t = u
    BY <2>1 DEF SoleRunOf
  <2>4. waiting = {} \/ executing = {}
    BY <2>1 DEF SoleRunOf, In
  <2>5. Runs(p) = Cardinality(waiting) + Cardinality(executing)
    BY DEF Runs
  <2> HIDE DEF waiting, executing
  <2>6. ASSUME NEW S, \A x, y \in S : x = y
        PROVE  S = {} \/ \E x : S = {x}
    BY <2>6
  <2>7. waiting = {} \/ \E x : waiting = {x}
    BY <2>2, <2>6
  <2>8. executing = {} \/ \E x : executing = {x}
    BY <2>3, <2>6
  <2>9. Cardinality({}) = 0 /\ \A x : Cardinality({x}) = 1
    BY FS_EmptySet, FS_Singleton, Zenon
  <2>10. Cardinality(waiting) \in {0, 1} /\ Cardinality(executing) \in {0, 1}
    BY <2>7, <2>8, <2>9
  <2>11. Cardinality(waiting) = 0 \/ Cardinality(executing) = 0
    BY <2>4, <2>9
  <2> QED
    BY <2>5, <2>10, <2>11
<1> QED
  BY <1>1, <1>2, TypingHolds, PTL
-----------------------------------------------------------------------------
(* No process that a job listed is forgotten *)

\* What a step that takes p off the list of a job in progress has to show.
Dealt(r, p) ==
  request[r].pc \in {"loop", "resume"} /\ p \in request[r].todo \ request'[r].todo =>
    p \in handled'[r] \/ status[p] = "running"

\* The job reads a process: it leaves it on its list, or the process cannot be
\* resumed, or is running.
LEMMA DealtJobRead ==
  ASSUME Typing, NEW r \in Requests, NEW p \in Processes, JobRead(r, p),
         NEW q \in Requests, NEW x \in Processes
  PROVE  Dealt(q, x)
<1>1. request \in [Requests -> RequestRecords] /\ handled \in [Requests -> SUBSET Processes]
  BY OfState
<1>2. PICK answered \in BOOLEAN :
        IF status[p] # "running" /\ Resumable(p, status[p], answered)
        THEN /\ request' = [request EXCEPT ![r].pc = "resume", ![r].process = p,
                                           ![r].copy = status[p]]
             /\ UNCHANGED handled
        ELSE /\ request' = [request EXCEPT ![r].todo = @ \ {p}]
             /\ handled' = [handled EXCEPT ![r] =
                  IF Resumable(p, status[p], answered) THEN @ ELSE @ \cup {p}]
  BY DEF JobRead
<1>3. CASE status[p] # "running" /\ Resumable(p, status[p], answered)
  <2>1. request'[q].todo = request[q].todo
    BY <1>1, <1>2, <1>3 DEF RequestRecords
  <2> QED
    BY <2>1 DEF Dealt
<1>4. CASE ~(status[p] # "running" /\ Resumable(p, status[p], answered))
  <2>1. CASE q = r /\ x = p
    <3>1. CASE Resumable(p, status[p], answered)
      BY <1>4, <2>1, <3>1 DEF Dealt
    <3>2. CASE ~Resumable(p, status[p], answered)
      BY <1>1, <1>2, <1>4, <2>1, <3>2 DEF Dealt
    <3> QED
      BY <3>1, <3>2
  <2>2. CASE q # r \/ x # p
    <3>1. x \in request[q].todo => x \in request'[q].todo
      BY <1>1, <1>2, <1>4, <2>2 DEF RequestRecords
    <3> QED
      BY <3>1 DEF Dealt
  <2> QED
    BY <2>1, <2>2
<1> QED
  BY <1>3, <1>4

\* The job marks the process it has read, which counts as handled for every request.
LEMMA DealtJobSubmit ==
  ASSUME Typing, NEW r \in Requests, JobSubmit(r),
         NEW q \in Requests, NEW x \in Processes
  PROVE  Dealt(q, x)
<1>1. request \in [Requests -> RequestRecords]
  BY OfState
<1> DEFINE rest == request[r].todo \ {request[r].process}
<1>2. /\ request' = [request EXCEPT ![r] = [NoRequest EXCEPT !.pc = "loop", !.todo = rest]]
      /\ handled' = Handled(request[r].process)
  BY DEF JobSubmit, Submit
<1>3. [NoRequest EXCEPT !.pc = "loop", !.todo = rest].todo = rest
  BY DEF NoRequest
<1>4. CASE q = r /\ x = request[r].process
  BY <1>1, <1>2, <1>4 DEF Dealt, Handled
<1>5. CASE q # r \/ x # request[r].process
  <2>1. x \in request[q].todo => x \in request'[q].todo
    BY <1>1, <1>2, <1>3, <1>5
  <2> QED
    BY <2>1 DEF Dealt
<1> QED
  BY <1>4, <1>5

\* When a job ends, every process it listed was resumed, aborted or found to be
\* impossible to resume since then, or was running when its turn came, although
\* single processes cannot be resumed, the lock expires and users act meanwhile.
THEOREM NobodyForgotten == Spec => NoneForgotten
<1>1. ASSUME Typing, [Next]_vars, NEW q \in Requests, NEW x \in Processes
      PROVE  Dealt(q, x)
  <2>1. request \in [Requests -> RequestRecords] /\ pool \in Seq(Items)
    BY <1>1, OfState
  <2>2. ASSUME request' = request PROVE Dealt(q, x)
    BY <2>2 DEF Dealt
  <2>3. ASSUME NEW r \in Requests, List(r) \/ Accept(r) PROVE Dealt(q, x)
    BY <2>1, <2>3 DEF Dealt, List, Accept
  <2>4. ASSUME NEW r \in Requests, Job(r) PROVE Dealt(q, x)
    <3>1. CASE JobEnd(r)
      BY <2>1, <3>1 DEF JobEnd, Dealt
    <3> QED
      BY <1>1, <2>4, <3>1, DealtJobRead, DealtJobSubmit DEF Job
  <2>5. ASSUME NEW t \in Threads, Take(t) PROVE Dealt(q, x)
    <3>1. request'[q].todo = request[q].todo
      BY <2>1, <2>5 DEF Take, RequestRecords
    <3> QED
      BY <3>1 DEF Dealt
  <2>6. CASE \/ Expire
             \/ \E u \in Users : UserCall(u)
             \/ \E p \in Processes : Abort(p)
             \/ \E t \in Threads : EndRun(t)
             \/ UNCHANGED vars
    BY <2>2, <2>6 DEF Expire, UserCall, UserRead, UserSubmit, Abort, EndRun, vars
  <2> QED
    BY <1>1, <2>3, <2>4, <2>5, <2>6 DEF Next
<1>2. Typing /\ [Next]_vars =>
        [\A r \in Requests, p \in Processes :
           request[r].pc \in {"loop", "resume"} /\ p \in request[r].todo \ request'[r].todo =>
             p \in handled'[r] \/ status[p] = "running"]_vars
  BY <1>1 DEF Dealt
<1> QED
  BY <1>2, TypingHolds, PTL DEF Spec, NoneForgotten
=============================================================================
