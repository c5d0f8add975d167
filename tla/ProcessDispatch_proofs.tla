------------------------ MODULE ProcessDispatch_proofs ------------------------
(* Theorems about the dispatch of processes, for any number of processes,     *)
(* users and workers and for every workflow.                                  *)
EXTENDS ProcessDispatch, StepLog_proofs

\* What a client or worker is about to handle is a process, and a worker only
\* runs steps of the workflow.
ClientPlacesOK ==
  \A c \in Clients :
    /\ client[c].pc \in {"mark", "publish", "abort"} => client[c].proc \in Procs
    /\ client[c].pc = "mark" => client[c].msg = "resume"

WorkerPlacesOK ==
  \A w \in Workers :
    /\ worker[w].pc # "idle" => worker[w].proc \in Procs
    /\ worker[w].pc = "write" => worker[w].todo \in 1..N

Typing == TypeOK /\ ClientPlacesOK /\ WorkerPlacesOK

\* The records of clients and workers that are at rest.
LEMMA RestingType ==
  ASSUME NEW place \in ClientPlaces
  PROVE  Resting(place) \in ClientRecords
BY DEF Resting, ClientRecords, DispatchStatus

LEMMA FreeType == Free \in WorkerRecords
BY DispatchAssumption
   DEF Free, WorkerRecords, WorkerPlaces, StepStatus, DispatchStatus

\* Giving a client a well-formed record keeps the clients well formed.
LEMMA ClientUpdate ==
  ASSUME Typing, NEW c \in Clients, NEW r \in ClientRecords,
         r.pc \in {"mark", "publish", "abort"} => r.proc \in Procs,
         r.pc = "mark" => r.msg = "resume",
         client' = [client EXCEPT ![c] = r]
  PROVE  client' \in [Clients -> ClientRecords] /\ ClientPlacesOK'
BY DEF Typing, TypeOK, ClientPlacesOK

\* So does resting.
LEMMA ClientRests ==
  ASSUME Typing, NEW c \in Clients, NEW place \in {"idle", "failed", "blocked"},
         Rest(c, place)
  PROVE  client' \in [Clients -> ClientRecords] /\ ClientPlacesOK'
<1>1. Resting(place) \in ClientRecords
  BY RestingType DEF ClientPlaces
<1>2. Resting(place).pc = place
  BY DEF Resting
<1> QED
  BY <1>1, <1>2, ClientUpdate DEF Rest

\* And going to a place where the process does not matter.
LEMMA ClientGoes ==
  ASSUME Typing, NEW c \in Clients, NEW place \in {"find", "next", "publish"},
         place = "publish" => client[c].proc \in Procs,
         GoTo(c, place)
  PROVE  client' \in [Clients -> ClientRecords] /\ ClientPlacesOK'
<1> DEFINE r == [client[c] EXCEPT !.pc = place]
<1>1. client[c] \in ClientRecords
  BY DEF Typing, TypeOK
<1>2. r \in ClientRecords /\ r.pc = place /\ r.proc = client[c].proc
  BY <1>1 DEF ClientRecords, ClientPlaces
<1>3. client' = [client EXCEPT ![c] = r]
  BY DEF GoTo
<1> QED
  BY <1>2, <1>3, ClientUpdate

LEMMA ClientSubmits ==
  ASSUME Typing, NEW c \in Clients, AfterSubmit(c)
  PROVE  client' \in [Clients -> ClientRecords] /\ ClientPlacesOK'
BY ClientRests, ClientGoes DEF AfterSubmit

\* Giving a worker a well-formed record keeps the workers well formed.
LEMMA WorkerUpdate ==
  ASSUME Typing, NEW w \in Workers, NEW r \in WorkerRecords,
         r.pc # "idle" => r.proc \in Procs,
         r.pc = "write" => r.todo \in 1..N,
         worker' = [worker EXCEPT ![w] = r]
  PROVE  worker' \in [Workers -> WorkerRecords] /\ WorkerPlacesOK'
BY DEF Typing, TypeOK, WorkerPlacesOK

LEMMA WorkerFreed ==
  ASSUME Typing, NEW w \in Workers, worker' = [worker EXCEPT ![w] = Free]
  PROVE  worker' \in [Workers -> WorkerRecords] /\ WorkerPlacesOK'
<1>1. Free.pc = "idle"
  BY DEF Free
<1> QED
  BY <1>1, FreeType, WorkerUpdate

\* Loading a process gives a well-formed record.
LEMMA LoadedType ==
  ASSUME Typing, NEW p \in Procs
  PROVE  /\ Loaded(p, "claim") \in WorkerRecords
         /\ Loaded(p, "claim").pc = "claim"
         /\ Loaded(p, "claim").proc = p
<1>1. log[p] \in Seq(LogRow) /\ status[p] \in DispatchStatus
  BY DEF Typing, TypeOK
<1>2. RecoveredStatus(log[p]) \in StepStatus /\ RestFrom(log[p], N) \in 1..(N + 1)
  BY <1>1, DispatchAssumption, RecoveryType
<1>3. "success" \in StepStatus /\ "claim" \in WorkerPlaces
  BY DEF StepStatus, WorkerPlaces
<1> QED
  BY <1>1, <1>2, <1>3 DEF Loaded, WorkerRecords

\* The initial state is well typed.
LEMMA TypingInit == Init => Typing
<1> SUFFICES ASSUME Init PROVE Typing
  OBVIOUS
<1>1. status \in [Procs -> DispatchStatus] /\ log \in [Procs -> Seq(LogRow)]
  BY DEF Init, DispatchStatus
<1>2. lock \in BOOLEAN /\ queue \in [Messages -> Nat]
  BY DEF Init
<1>3. client \in [Clients -> ClientRecords] /\ ClientPlacesOK
  <2>1. \A c \in Clients : client[c] = Resting("idle")
    BY DEF Init
  <2>2. Resting("idle") \in ClientRecords /\ Resting("idle").pc = "idle"
    BY RestingType DEF ClientPlaces, Resting
  <2>3. client \in [Clients -> ClientRecords]
    BY <2>2 DEF Init
  <2> QED
    BY <2>1, <2>2, <2>3 DEF ClientPlacesOK
<1>4. worker \in [Workers -> WorkerRecords] /\ WorkerPlacesOK
  <2>1. \A w \in Workers : worker[w] = Free
    BY DEF Init
  <2>2. Free.pc = "idle"
    BY DEF Free
  <2>3. worker \in [Workers -> WorkerRecords]
    BY FreeType DEF Init
  <2> QED
    BY <2>1, <2>2, <2>3 DEF WorkerPlacesOK
<1> QED
  BY <1>1, <1>2, <1>3, <1>4 DEF Typing, TypeOK

\* A process gets a status.
LEMMA SetStatusType ==
  ASSUME Typing, NEW p \in Procs, NEW s \in DispatchStatus, SetStatus(p, s)
  PROVE  status' \in [Procs -> DispatchStatus]
BY DEF Typing, TypeOK, SetStatus

\* A row is written to the log of a process.
LEMMA LogType ==
  ASSUME Typing, NEW p \in Procs, NEW row \in LogRow, NEW same \in BOOLEAN,
         log' = [log EXCEPT ![p] = WriteRow(@, row, FALSE, same)]
  PROVE  log' \in [Procs -> Seq(LogRow)]
<1>1. WriteRow(log[p], row, FALSE, same) \in Seq(LogRow)
  BY WriteRowType DEF Typing, TypeOK
<1> QED
  BY <1>1 DEF Typing, TypeOK

LEMMA LogCleared ==
  ASSUME Typing, NEW p \in Procs, log' = [log EXCEPT ![p] = <<>>]
  PROVE  log' \in [Procs -> Seq(LogRow)]
BY DEF Typing, TypeOK

\* A message is sent or taken.
LEMMA QueueType ==
  ASSUME Typing, NEW m \in Messages,
         \/ queue' = [queue EXCEPT ![m] = @ + 1]
         \/ queue[m] > 0 /\ queue' = [queue EXCEPT ![m] = @ - 1]
  PROVE  queue' \in [Messages -> Nat]
<1>1. queue \in [Messages -> Nat] /\ queue[m] \in Nat
  BY DEF Typing, TypeOK
<1>2. CASE queue' = [queue EXCEPT ![m] = queue[m] + 1]
  <2>1. queue[m] + 1 \in Nat
    BY <1>1
  <2> QED
    BY <1>1, <1>2, <2>1, Zenon
<1>3. CASE queue[m] > 0 /\ queue' = [queue EXCEPT ![m] = queue[m] - 1]
  <2>1. queue[m] - 1 \in Nat
    BY <1>1, <1>3
  <2> QED
    BY <1>1, <1>3, <2>1, Zenon
<1> QED
  BY <1>2, <1>3

LEMMA RowOfStep ==
  ASSUME NEW i \in Nat, NEW s \in StepStatus
  PROVE  Row(<<i, 0>>, s, NoSub) \in LogRow
BY DEF Row, LogRow, Position, NoSub

\* Calls of the API preserve the types.
LEMMA TypingUser ==
  ASSUME Typing, NEW u \in Users, NEW p \in Procs,
         Create(u, p) \/ ReadResumable(u, p) \/ ReadAbortable(u, p)
  PROVE  Typing'
<1>0. u \in Clients
  BY DEF Clients
<1>1. CASE Create(u, p)
  <2> DEFINE r == [Resting("publish") EXCEPT !.msg = "start", !.proc = p]
  <2>1. r \in ClientRecords /\ r.pc = "publish" /\ r.proc = p
    BY DEF Resting, ClientRecords, ClientPlaces, DispatchStatus
  <2>2. client' \in [Clients -> ClientRecords] /\ ClientPlacesOK'
    BY <1>0, <1>1, <2>1, ClientUpdate DEF Create
  <2>3. status' \in [Procs -> DispatchStatus]
    BY <1>1, SetStatusType DEF Create, DispatchStatus, ProcessStatus
  <2> QED
    BY <1>1, <2>2, <2>3 DEF Create, Typing, TypeOK, WorkerPlacesOK
<1>2. CASE ReadResumable(u, p)
  <2> DEFINE r == [Resting("mark") EXCEPT !.proc = p, !.snap = status[p]]
  <2>1. r \in ClientRecords /\ r.pc = "mark" /\ r.proc = p /\ r.msg = "resume"
    BY DEF Resting, ClientRecords, ClientPlaces, Typing, TypeOK
  <2>2. client' \in [Clients -> ClientRecords] /\ ClientPlacesOK'
    BY <1>0, <1>2, <2>1, ClientUpdate DEF ReadResumable
  <2> QED
    BY <1>2, <2>2 DEF ReadResumable, Typing, TypeOK, WorkerPlacesOK
<1>3. CASE ReadAbortable(u, p)
  <2> DEFINE r == [Resting("abort") EXCEPT !.proc = p]
  <2>1. r \in ClientRecords /\ r.pc = "abort" /\ r.proc = p
    BY DEF Resting, ClientRecords, ClientPlaces, DispatchStatus
  <2>2. client' \in [Clients -> ClientRecords] /\ ClientPlacesOK'
    BY <1>0, <1>3, <2>1, ClientUpdate DEF ReadAbortable
  <2> QED
    BY <1>3, <2>2 DEF ReadAbortable, Typing, TypeOK, WorkerPlacesOK
<1> QED
  BY <1>1, <1>2, <1>3

LEMMA TypingSubmit ==
  ASSUME Typing, NEW c \in Clients,
         MarkResumed(c) \/ Publish(c) \/ BrokerFails(c)
  PROVE  Typing'
<1> DEFINE p == client[c].proc
<1>0. p \in Procs /\ client[c].msg \in {"start", "resume"}
  BY DEF MarkResumed, Publish, BrokerFails, Typing, TypeOK, ClientPlacesOK,
         ClientRecords
<1>1. CASE MarkResumed(c)
  <2>1. status' \in [Procs -> DispatchStatus]
    <3>1. status[p] \in DispatchStatus /\ "resumed" \in DispatchStatus
      BY <1>0 DEF Typing, TypeOK, DispatchStatus, ProcessStatus
    <3> QED
      BY <1>0, <1>1, <3>1, SetStatusType DEF MarkResumed, Typing, TypeOK
  <2>2. client' \in [Clients -> ClientRecords] /\ ClientPlacesOK'
    BY <1>0, <1>1, ClientGoes, ClientSubmits DEF MarkResumed
  <2> QED
    BY <1>1, <2>1, <2>2 DEF MarkResumed, Typing, TypeOK, WorkerPlacesOK
<1>2. CASE Publish(c)
  <2>1. queue' \in [Messages -> Nat]
    <3>1. <<client[c].msg, p>> \in Messages
      BY <1>0 DEF Messages
    <3> QED
      BY <1>2, <3>1, QueueType DEF Publish
  <2>2. client' \in [Clients -> ClientRecords] /\ ClientPlacesOK'
    BY <1>2, ClientSubmits DEF Publish
  <2> QED
    BY <1>2, <2>1, <2>2 DEF Publish, Typing, TypeOK, WorkerPlacesOK
<1>3. CASE BrokerFails(c)
  <2>1. status' \in [Procs -> DispatchStatus] /\ log' \in [Procs -> Seq(LogRow)]
    <3>1. "deleted" \in DispatchStatus
      BY DEF DispatchStatus
    <3> QED
      BY <1>0, <1>3, <3>1, SetStatusType, LogCleared
         DEF BrokerFails, Typing, TypeOK
  <2>2. client' \in [Clients -> ClientRecords] /\ ClientPlacesOK'
    BY <1>3, ClientGoes, ClientRests DEF BrokerFails
  <2> QED
    BY <1>3, <2>1, <2>2 DEF BrokerFails, Typing, TypeOK, WorkerPlacesOK
<1> QED
  BY <1>1, <1>2, <1>3

LEMMA TypingEnds ==
  ASSUME Typing,
         \/ \E u \in Users : Abort(u)
         \/ \E p \in Procs : Delete(p)
  PROVE  Typing'
<1>1. ASSUME NEW u \in Users, Abort(u) PROVE Typing'
  <2> DEFINE p == client[u].proc
  <2>0. u \in Clients /\ p \in Procs
    BY <1>1 DEF Abort, Typing, ClientPlacesOK, Clients
  <2>1. Row(UserAborted, "abort", NoSub) \in LogRow
    BY DEF Row, LogRow, Position, NoSub, UserAborted, StepStatus
  <2>2. "aborted" \in DispatchStatus
    BY DEF DispatchStatus, ProcessStatus
  <2>3. status' \in [Procs -> DispatchStatus] /\ log' \in [Procs -> Seq(LogRow)]
    BY <1>1, <2>0, <2>1, <2>2, SetStatusType, LogType DEF Abort, Typing, TypeOK
  <2>4. client' \in [Clients -> ClientRecords] /\ ClientPlacesOK'
    BY <1>1, <2>0, ClientRests DEF Abort
  <2> QED
    BY <1>1, <2>3, <2>4 DEF Abort, Typing, TypeOK, WorkerPlacesOK
<1>2. ASSUME NEW p \in Procs, Delete(p) PROVE Typing'
  <2>1. "deleted" \in DispatchStatus
    BY DEF DispatchStatus
  <2>2. status' \in [Procs -> DispatchStatus] /\ log' \in [Procs -> Seq(LogRow)]
    BY <1>2, <2>1, SetStatusType, LogCleared DEF Delete
  <2> QED
    BY <1>2, <2>2 DEF Delete, Typing, TypeOK, ClientPlacesOK, WorkerPlacesOK
<1> QED
  BY <1>1, <1>2

\* A client that takes the next process of its list stays well formed.
LEMMA TakeType ==
  ASSUME Typing, NEW c \in Clients, NEW kind \in {"start", "resume"},
         NEW p \in Procs, NEW place \in {"mark", "publish"},
         place = "mark" => kind = "resume",
         Take(c, <<kind, p>>, place)
  PROVE  client' \in [Clients -> ClientRecords] /\ ClientPlacesOK'
<1> DEFINE r == [pc |-> place, msg |-> kind, proc |-> p, snap |-> status[p],
                 left |-> client[c].left \ {<<kind, p>>}]
<1>1. client[c] \in ClientRecords /\ status[p] \in DispatchStatus
  BY DEF Typing, TypeOK
<1>2. r \in ClientRecords
  BY <1>1 DEF ClientRecords, ClientPlaces
<1>3. client' = [client EXCEPT ![c] = r]
  BY DEF Take
<1> QED
  BY <1>2, <1>3, ClientUpdate

LEMMA SkipType ==
  ASSUME Typing, NEW c \in Clients, NEW m \in Messages, Skip(c, m)
  PROVE  client' \in [Clients -> ClientRecords] /\ ClientPlacesOK'
<1> DEFINE r == [client[c] EXCEPT !.left = client[c].left \ {m}]
<1>1. client[c] \in ClientRecords
  BY DEF Typing, TypeOK
<1>2. r \in ClientRecords /\ r.pc = client[c].pc /\ r.proc = client[c].proc
        /\ r.msg = client[c].msg
  BY <1>1 DEF ClientRecords
<1>3. client' = [client EXCEPT ![c] = r]
  BY DEF Skip
<1> QED
  BY <1>2, <1>3, ClientUpdate DEF Typing, ClientPlacesOK

\* A client gets a new list.
LEMMA ListType ==
  ASSUME Typing, NEW c \in Clients, NEW list \in SUBSET Messages,
         client' = [client EXCEPT ![c] = [Resting("next") EXCEPT !.left = list]]
  PROVE  client' \in [Clients -> ClientRecords] /\ ClientPlacesOK'
<1> DEFINE r == [Resting("next") EXCEPT !.left = list]
<1>1. r \in ClientRecords /\ r.pc = "next"
  BY DEF Resting, ClientRecords, ClientPlaces, DispatchStatus
<1> QED
  BY <1>1, ClientUpdate

\* The clean-up task preserves the types.
LEMMA TypingSweep ==
  ASSUME Typing, Sweep \/ SweeperCrash
  PROVE  Typing'
<1>0. "sweeper" \in Clients
  BY DEF Clients
<1>1. CASE FindStuck
  <2>1. Stuck \in SUBSET Messages
    BY DEF Stuck, Messages
  <2>2. client' \in [Clients -> ClientRecords] /\ ClientPlacesOK'
    BY <1>0, <1>1, <2>1, ListType DEF FindStuck
  <2> QED
    BY <1>1, <2>2 DEF FindStuck, Typing, TypeOK, WorkerPlacesOK
<1>2. ASSUME NEW p \in Procs, SweepResume(p) PROVE Typing'
  <2>1. <<"resume", p>> \in Messages
    BY DEF Messages
  <2>2. client' \in [Clients -> ClientRecords] /\ ClientPlacesOK'
    BY <1>0, <1>2, <2>1, TakeType, SkipType DEF SweepResume
  <2> QED
    BY <1>2, <2>2 DEF SweepResume, Typing, TypeOK, WorkerPlacesOK
<1>3. ASSUME NEW p \in Procs, SweepRestart(p) PROVE Typing'
  <2>1. <<"start", p>> \in Messages
    BY DEF Messages
  <2>2. client' \in [Clients -> ClientRecords] /\ ClientPlacesOK'
    BY <1>0, <1>3, <2>1, TakeType, SkipType DEF SweepRestart
  <2> QED
    BY <1>3, <2>2 DEF SweepRestart, Typing, TypeOK, WorkerPlacesOK
<1>4. CASE Submit("sweeper")
  BY <1>0, <1>4, TypingSubmit DEF Submit
<1>5. CASE Finish("sweeper")
  <2>1. client' \in [Clients -> ClientRecords] /\ ClientPlacesOK'
    BY <1>0, <1>5, ClientRests DEF Finish
  <2> QED
    BY <1>5, <2>1 DEF Finish, Typing, TypeOK, WorkerPlacesOK
<1>6. CASE SweeperCrash
  <2>1. client' \in [Clients -> ClientRecords] /\ ClientPlacesOK'
    BY <1>0, <1>6, ClientRests DEF SweeperCrash
  <2> QED
    BY <1>6, <2>1 DEF SweeperCrash, Typing, TypeOK, WorkerPlacesOK
<1> QED
  BY <1>1, <1>2, <1>3, <1>4, <1>5, <1>6 DEF Sweep

\* The operator preserves the types.
LEMMA TypingOperator ==
  ASSUME Typing, Operator
  PROVE  Typing'
<1>0. "operator" \in Clients
  BY DEF Clients
<1>1. CASE Pause
  BY <1>1 DEF Pause, Typing, TypeOK, ClientPlacesOK, WorkerPlacesOK
<1>2. CASE Unlock
  <2>1. client' \in [Clients -> ClientRecords] /\ ClientPlacesOK'
    BY <1>0, <1>2, ClientGoes DEF Unlock
  <2> QED
    BY <1>2, <2>1 DEF Unlock, Typing, TypeOK, WorkerPlacesOK
<1>3. CASE FindRunning
  <2> DEFINE list == {<<"resume", p>> : p \in {q \in Procs : status[q] = "running"}}
  <2>1. list \in SUBSET Messages
    BY DEF Messages
  <2>2. client' \in [Clients -> ClientRecords] /\ ClientPlacesOK'
    BY <1>0, <1>3, <2>1, ListType DEF FindRunning
  <2> QED
    BY <1>3, <2>2 DEF FindRunning, Typing, TypeOK, WorkerPlacesOK
<1>4. ASSUME NEW p \in Procs, UnpauseNext(p) PROVE Typing'
  <2>1. "resumed" \in DispatchStatus
    BY DEF DispatchStatus, ProcessStatus
  <2>2. status' \in [Procs -> DispatchStatus]
    BY <1>4, <2>1, SetStatusType DEF UnpauseNext, Typing, TypeOK
  <2>3. client' \in [Clients -> ClientRecords] /\ ClientPlacesOK'
    BY <1>0, <1>4, TakeType, ClientRests DEF UnpauseNext
  <2> QED
    BY <1>4, <2>2, <2>3 DEF UnpauseNext, Typing, TypeOK, WorkerPlacesOK
<1>5. CASE Publish("operator")
  BY <1>0, <1>5, TypingSubmit
<1>6. CASE Finish("operator")
  <2>1. client' \in [Clients -> ClientRecords] /\ ClientPlacesOK'
    BY <1>0, <1>6, ClientRests DEF Finish
  <2> QED
    BY <1>6, <2>1 DEF Finish, Typing, TypeOK, WorkerPlacesOK
<1> QED
  BY <1>1, <1>2, <1>3, <1>4, <1>5, <1>6 DEF Operator

\* A worker that takes a message preserves the types.
LEMMA TypingTake ==
  ASSUME Typing, NEW w \in Workers, NEW p \in Procs,
         TakeStart(w, p) \/ TakeResume(w, p)
  PROVE  Typing'
<1>1. CASE TakeStart(w, p)
  <2>1. queue' \in [Messages -> Nat]
    <3>1. <<"start", p>> \in Messages
      BY DEF Messages
    <3> QED
      BY <1>1, <3>1, QueueType DEF TakeStart, Receive
  <2>2. worker' \in [Workers -> WorkerRecords] /\ WorkerPlacesOK'
    BY <1>1, LoadedType, WorkerFreed, WorkerUpdate DEF TakeStart
  <2> QED
    BY <1>1, <2>1, <2>2 DEF TakeStart, Receive, Typing, TypeOK, ClientPlacesOK
<1>2. CASE TakeResume(w, p)
  <2> DEFINE r == [Free EXCEPT !.pc = "load", !.proc = p]
  <2>1. queue' \in [Messages -> Nat]
    <3>1. <<"resume", p>> \in Messages
      BY DEF Messages
    <3> QED
      BY <1>2, <3>1, QueueType DEF TakeResume, Receive
  <2>2. r \in WorkerRecords /\ r.pc = "load" /\ r.proc = p
    BY FreeType DEF Free, WorkerRecords, WorkerPlaces
  <2>3. worker' \in [Workers -> WorkerRecords] /\ WorkerPlacesOK'
    BY <1>2, <2>2, WorkerFreed, WorkerUpdate DEF TakeResume
  <2> QED
    BY <1>2, <2>1, <2>3 DEF TakeResume, Receive, Typing, TypeOK, ClientPlacesOK
<1> QED
  BY <1>1, <1>2

\* A worker that prepares the run of a process preserves the types.
LEMMA TypingPrepare ==
  ASSUME Typing, NEW w \in Workers,
         Load(w) \/ Claim(w) \/ Answer(w) \/ AnswerFails(w) \/ Continue(w)
  PROVE  Typing'
<1> DEFINE p == worker[w].proc
<1>0. p \in Procs /\ worker[w] \in WorkerRecords
  BY DEF Load, Claim, Answer, AnswerFails, Continue, Typing, TypeOK, WorkerPlacesOK
<1>1. CASE Load(w)
  <2>1. worker' \in [Workers -> WorkerRecords] /\ WorkerPlacesOK'
    BY <1>0, <1>1, LoadedType, WorkerFreed, WorkerUpdate DEF Load
  <2> QED
    BY <1>1, <2>1 DEF Load, Typing, TypeOK, ClientPlacesOK
<1>2. CASE Claim(w)
  <2> DEFINE r == [worker[w] EXCEPT !.pc = "claimed"]
  <2>1. r \in WorkerRecords /\ r.pc = "claimed" /\ r.proc = p
    BY <1>0 DEF WorkerRecords, WorkerPlaces
  <2>2. worker' \in [Workers -> WorkerRecords] /\ WorkerPlacesOK'
    BY <1>0, <1>2, <2>1, WorkerFreed, WorkerUpdate DEF Claim
  <2>3. status[p] \in DispatchStatus /\ "running" \in DispatchStatus
    BY <1>0 DEF Typing, TypeOK, DispatchStatus, ProcessStatus
  <2>4. status' \in [Procs -> DispatchStatus]
    BY <1>0, <1>2, <2>3, SetStatusType DEF Claim, Typing, TypeOK
  <2> QED
    BY <1>2, <2>2, <2>4 DEF Claim, Typing, TypeOK, ClientPlacesOK
<1>3. CASE Answer(w)
  <2> DEFINE i == worker[w].todo
             r == [worker[w] EXCEPT !.pc = "loop", !.todo = i + 1, !.st = "success"]
  <2>1. i \in 1..N
    BY <1>0, <1>3, DispatchAssumption DEF Answer, WorkerRecords
  <2>2. r \in WorkerRecords /\ r.pc = "loop" /\ r.proc = p
    <3>1. i + 1 \in 1..(N + 1) /\ "success" \in StepStatus
      BY <2>1, DispatchAssumption DEF StepStatus
    <3> QED
      BY <1>0, <3>1 DEF WorkerRecords, WorkerPlaces
  <2>3. worker' = [worker EXCEPT ![w] = r]
    BY <1>3 DEF Answer, Typing, TypeOK
  <2>4. worker' \in [Workers -> WorkerRecords] /\ WorkerPlacesOK'
    BY <1>0, <2>2, <2>3, WorkerUpdate
  <2>5. Row(<<i, 0>>, "success", NoSub) \in LogRow
    BY <2>1, RowOfStep DEF StepStatus
  <2>6. log' \in [Procs -> Seq(LogRow)]
    BY <1>0, <1>3, <2>5, LogType DEF Answer
  <2>7. status' \in [Procs -> DispatchStatus]
    BY <1>0, <1>3, SetStatusType DEF Answer, DispatchStatus, ProcessStatus
  <2> QED
    BY <1>3, <2>4, <2>6, <2>7 DEF Answer, Typing, TypeOK, ClientPlacesOK
<1>4. CASE AnswerFails(w)
  <2>1. worker' \in [Workers -> WorkerRecords] /\ WorkerPlacesOK'
    BY <1>4, WorkerFreed DEF AnswerFails
  <2>2. status[p] \in DispatchStatus /\ "failed" \in DispatchStatus
    BY <1>0 DEF Typing, TypeOK, DispatchStatus, ProcessStatus
  <2>3. status' \in [Procs -> DispatchStatus]
    BY <1>0, <1>4, <2>2, SetStatusType DEF AnswerFails
  <2> QED
    BY <1>4, <2>1, <2>3 DEF AnswerFails, Typing, TypeOK, ClientPlacesOK
<1>5. CASE Continue(w)
  <2> DEFINE s == ResumeStatus(worker[w].st)
             r == [worker[w] EXCEPT !.pc = "loop", !.st = s]
  <2>1. s \in StepStatus
    BY <1>0 DEF ResumeStatus, WorkerRecords, StepStatus
  <2>2. r \in WorkerRecords /\ r.pc = "loop" /\ r.proc = p
    BY <1>0, <2>1 DEF WorkerRecords, WorkerPlaces
  <2>3. worker' = [worker EXCEPT ![w] = r]
    BY <1>5 DEF Continue, Typing, TypeOK
  <2>4. worker' \in [Workers -> WorkerRecords] /\ WorkerPlacesOK'
    BY <1>0, <2>2, <2>3, WorkerUpdate
  <2> QED
    BY <1>5, <2>4 DEF Continue, Typing, TypeOK, ClientPlacesOK
<1> QED
  BY <1>1, <1>2, <1>3, <1>4, <1>5

\* A worker that executes steps, leaves or is killed preserves the types.
LEMMA TypingRun ==
  ASSUME Typing, NEW w \in Workers,
         RunStep(w) \/ WriteStep(w) \/ Leave(w) \/ WorkerCrash(w)
  PROVE  Typing'
<1> DEFINE p == worker[w].proc
           i == worker[w].todo
<1>0. p \in Procs /\ worker[w] \in WorkerRecords /\ i \in 1..(N + 1)
  BY DEF RunStep, WriteStep, Leave, WorkerCrash, Typing, TypeOK,
         WorkerPlacesOK, WorkerRecords
<1>1. CASE RunStep(w)
  <2>1. i \in 1..N
    BY <1>0, <1>1, DispatchAssumption DEF RunStep, MayGoOn
  <2>2. Kind[i] \in Kinds
    BY <2>1, DispatchAssumption
  <2>3. PICK outcome \in Outcomes[Kind[i]] :
          worker' = [worker EXCEPT ![w].pc = "write", ![w].pend = outcome]
    BY <1>1 DEF RunStep
  <2>4. outcome \in StepStatus
    BY <2>2 DEF Kinds, Outcomes, StepStatus
  <2> DEFINE r == [worker[w] EXCEPT !.pc = "write", !.pend = outcome]
  <2>5. r \in WorkerRecords /\ r.pc = "write" /\ r.proc = p /\ r.todo = i
    BY <1>0, <2>4 DEF WorkerRecords, WorkerPlaces
  <2>6. worker' = [worker EXCEPT ![w] = r]
    BY <2>3 DEF Typing, TypeOK
  <2>7. worker' \in [Workers -> WorkerRecords] /\ WorkerPlacesOK'
    BY <1>0, <2>1, <2>5, <2>6, WorkerUpdate
  <2> QED
    BY <1>1, <2>7 DEF RunStep, Typing, TypeOK, ClientPlacesOK
<1>2. CASE WriteStep(w)
  <2> DEFINE s == worker[w].pend
             row == Row(<<i, 0>>, s, NoSub)
  <2>1. i \in 1..N /\ s \in StepStatus
    BY <1>0, <1>2 DEF WriteStep, Typing, WorkerPlacesOK, WorkerRecords
  <2>2. row \in LogRow /\ row.status = s
    BY <2>1, RowOfStep DEF Row
  <2>3. CASE Exists(p)
    <3> DEFINE r == [worker[w] EXCEPT !.pc = "loop", !.todo = i + 1, !.st = row.status]
    <3>0. i + 1 \in 1..(N + 1) /\ row.status \in StepStatus
      BY <2>1, <2>2, DispatchAssumption
    <3>1. r \in WorkerRecords /\ r.pc = "loop" /\ r.proc = p
      BY <1>0, <3>0 DEF WorkerRecords, WorkerPlaces
    <3>2. worker' = [worker EXCEPT ![w] = r]
      BY <1>2, <2>3 DEF WriteStep, Typing, TypeOK
    <3>3. worker' \in [Workers -> WorkerRecords] /\ WorkerPlacesOK'
      BY <1>0, <3>1, <3>2, WorkerUpdate
    <3>4. log' \in [Procs -> Seq(LogRow)]
      BY <1>0, <1>2, <2>2, <2>3, LogType DEF WriteStep
    <3>5. PICK t \in StoredStatuses(row.status, p \in Tasks) : SetStatus(p, t)
      BY <1>2, <2>3 DEF WriteStep
    <3>6. t \in DispatchStatus
      <4>1. (p \in Tasks) \in BOOLEAN
        OBVIOUS
      <4>2. StoredStatuses(row.status, p \in Tasks) \subseteq ProcessStatus
        BY <3>0, <4>1, StoredStatusesType, Zenon
      <4> QED
        BY <3>5, <4>2 DEF DispatchStatus
    <3>7. status' \in [Procs -> DispatchStatus]
      BY <1>0, <3>5, <3>6, SetStatusType
    <3> QED
      BY <1>2, <3>3, <3>4, <3>7 DEF WriteStep, Typing, TypeOK, ClientPlacesOK
  <2>4. CASE ~ Exists(p)
    <3>1. worker' \in [Workers -> WorkerRecords] /\ WorkerPlacesOK'
      BY <1>2, <2>4, WorkerFreed DEF WriteStep
    <3> QED
      BY <1>2, <2>4, <3>1 DEF WriteStep, Typing, TypeOK, ClientPlacesOK
  <2> QED
    BY <2>3, <2>4
<1>3. CASE Leave(w) \/ WorkerCrash(w)
  <2>1. worker' \in [Workers -> WorkerRecords] /\ WorkerPlacesOK'
    BY <1>3, WorkerFreed DEF Leave, WorkerCrash
  <2> QED
    BY <1>3, <2>1 DEF Leave, WorkerCrash, Typing, TypeOK, ClientPlacesOK
<1> QED
  BY <1>1, <1>2, <1>3

LEMMA TypingClientCrash ==
  ASSUME Typing, NEW c \in Clients, ClientCrash(c)
  PROVE  Typing'
<1>1. client' \in [Clients -> ClientRecords] /\ ClientPlacesOK'
  BY ClientRests DEF ClientCrash
<1> QED
  BY <1>1 DEF ClientCrash, Typing, TypeOK, WorkerPlacesOK

LEMMA TypingNext == Typing /\ [Next]_vars => Typing'
<1> SUFFICES ASSUME Typing, [Next]_vars PROVE Typing'
  OBVIOUS
<1>1. ASSUME NEW u \in Users, UserCall(u) \/ Submit(u) PROVE Typing'
  BY <1>1, TypingUser, TypingEnds, TypingSubmit DEF UserCall, Submit, Clients
<1>2. ASSUME NEW p \in Procs, Delete(p) PROVE Typing'
  BY <1>2, TypingEnds
<1>3. CASE Sweep
  BY <1>3, TypingSweep
<1>4. CASE Operator
  BY <1>4, TypingOperator
<1>5. ASSUME NEW w \in Workers, Work(w) PROVE Typing'
  BY <1>5, TypingTake, TypingPrepare, TypingRun DEF Work
<1>6. CASE Failure
  BY <1>6, TypingSubmit, TypingClientCrash, TypingRun, TypingSweep DEF Failure
<1>7. CASE UNCHANGED vars
  BY <1>7 DEF vars, Typing, TypeOK, ClientPlacesOK, WorkerPlacesOK
<1> QED
  BY <1>1, <1>2, <1>3, <1>4, <1>5, <1>6, <1>7 DEF Next

LEMMA TypingInvariant == Spec => []Typing
BY TypingInit, TypingNext, PTL DEF Spec

\* The records of clients and workers, the queue, the statuses and the logs are
\* well formed in every execution: whatever was deleted or resumed in between,
\* a worker never executes a step outside of its workflow.
THEOREM DispatchTypeCorrect == Spec => []TypeOK
<1>1. Typing => TypeOK
  BY DEF Typing
<1> QED
  BY <1>1, TypingInvariant, PTL

-----------------------------------------------------------------------------
(* No process that waits for a worker is lost while nothing crashes, for any  *)
(* number of processes, users and workers and for every workflow.             *)

\* Nobody is killed and the broker answers; users, the clean-up task and the
\* operator may do whatever they can, at any moment.
NoFailures ==
  Events \cap {"worker_crash", "client_crash", "sweeper_crash", "broker"} = {}

\* A start message is for a CREATED process, a resume message for a RESUMED one.
StatusFor(kind) == IF kind = "start" THEN "created" ELSE "resumed"

MessageKinds == {"start", "resume"}

ByClient(p, kind) ==
  \E c \in Clients : /\ client[c].pc = "publish"
                     /\ client[c].proc = p
                     /\ client[c].msg = kind

ByQueue(p, kind) == queue[<<kind, p>>] > 0

\* A worker that read the process as running already will not write RUNNING.
ByWorker(p, kind) ==
  \E w \in Workers : /\ worker[w].proc = p
                     /\ \/ worker[w].pc = "load" /\ kind = "resume"
                        \/ worker[w].pc = "claim" /\ worker[w].snap # "running"

Carried(p, kind) == ByClient(p, kind) \/ ByQueue(p, kind) \/ ByWorker(p, kind)

\* The inductive strengthening of NotLost: the message on its way is of the kind
\* the worker will accept.
Held ==
  \A p \in Procs : \A kind \in MessageKinds :
    status[p] = StatusFor(kind) => Carried(p, kind)

\* The statuses for which somebody has to carry a message.
Settles(p) == status'[p] \notin {"created", "resumed"}

\* A step that keeps what is carried, and makes no process wait, is harmless.
LEMMA QuietStep ==
  ASSUME Held,
         \A p \in Procs : \A kind \in MessageKinds : Carried(p, kind) => Carried(p, kind)',
         \A p \in Procs : status'[p] = status[p] \/ Settles(p)
  PROVE  Held'
BY DEF Held, StatusFor, MessageKinds, Settles

\* A client that is not about to publish carries nothing.
LEMMA ClientsKeep ==
  ASSUME Typing, NEW c \in Clients, client[c].pc # "publish",
         NEW r, client' = [client EXCEPT ![c] = r]
  PROVE  \A p \in Procs : \A kind \in MessageKinds :
           ByClient(p, kind) => ByClient(p, kind)'
BY DEF ByClient, Typing, TypeOK

\* A worker that neither loads nor claims carries nothing.
LEMMA WorkersKeep ==
  ASSUME Typing, NEW w \in Workers, worker[w].pc \notin {"load", "claim"},
         NEW r, worker' = [worker EXCEPT ![w] = r]
  PROVE  \A p \in Procs : \A kind \in MessageKinds :
           ByWorker(p, kind) => ByWorker(p, kind)'
BY DEF ByWorker, Typing, TypeOK

\* Only the process that is named gets another status.
LEMMA OthersKeepStatus ==
  ASSUME Typing, NEW p \in Procs, NEW s, SetStatus(p, s)
  PROVE  /\ status'[p] = s
         /\ \A q \in Procs : q # p => status'[q] = status[q]
BY DEF SetStatus, Typing, TypeOK

\* Steps of a client that carries nothing and makes no process wait.
LEMMA HeldQuietClient ==
  ASSUME Typing, Held, NEW c \in Clients, client[c].pc # "publish",
         NEW r, client' = [client EXCEPT ![c] = r],
         UNCHANGED <<queue, worker>>,
         \A p \in Procs : status'[p] = status[p] \/ Settles(p)
  PROVE  Held'
<1>1. \A p \in Procs : \A kind \in MessageKinds :
        ByClient(p, kind) => ByClient(p, kind)'
  BY ClientsKeep
<1>2. \A p \in Procs : \A kind \in MessageKinds : Carried(p, kind) => Carried(p, kind)'
  BY <1>1 DEF Carried, ByQueue, ByWorker
<1> QED
  BY <1>2, QuietStep

\* A client makes a process wait and is about to publish its message.
LEMMA HeldClientTakes ==
  ASSUME Typing, Held, NEW c \in Clients, client[c].pc # "publish",
         NEW p \in Procs, NEW kind \in MessageKinds,
         NEW r, client' = [client EXCEPT ![c] = r],
         r.pc = "publish", r.proc = p, r.msg = kind,
         UNCHANGED <<queue, worker>>,
         status'[p] \in {status[p], StatusFor(kind)},
         \A q \in Procs : q # p => status'[q] = status[q]
  PROVE  Held'
<1>1. \A q \in Procs : \A k \in MessageKinds : ByClient(q, k) => ByClient(q, k)'
  BY ClientsKeep
<1>2. \A q \in Procs : \A k \in MessageKinds : Carried(q, k) => Carried(q, k)'
  BY <1>1 DEF Carried, ByQueue, ByWorker
<1>3. ByClient(p, kind)'
  BY DEF ByClient, Typing, TypeOK
<1>4. Carried(p, kind)'
  BY <1>3 DEF Carried
<1>5. \A k \in MessageKinds : StatusFor(k) = StatusFor(kind) => k = kind
  BY DEF StatusFor, MessageKinds
<1> QED
  BY <1>2, <1>4, <1>5 DEF Held

\* The ways a client's record changes.
LEMMA RestForm ==
  ASSUME NEW c, NEW place, Rest(c, place)
  PROVE  client' = [client EXCEPT ![c] = Resting(place)]
BY DEF Rest

LEMMA GoToForm ==
  ASSUME NEW c, NEW place, GoTo(c, place)
  PROVE  client' = [client EXCEPT ![c] = [client[c] EXCEPT !.pc = place]]
BY DEF GoTo

LEMMA TakeForm ==
  ASSUME NEW c, NEW m, NEW place, Take(c, m, place)
  PROVE  \E r : /\ client' = [client EXCEPT ![c] = r]
                /\ r.pc = place /\ r.msg = m[1] /\ r.proc = m[2]
<1> DEFINE r == [pc |-> place, msg |-> m[1], proc |-> m[2], snap |-> status[m[2]],
                 left |-> client[c].left \ {m}]
<1>1. client' = [client EXCEPT ![c] = r]
  BY DEF Take
<1>2. r.pc = place /\ r.msg = m[1] /\ r.proc = m[2]
  OBVIOUS
<1> HIDE DEF r
<1> QED
  BY <1>1, <1>2

LEMMA SkipForm ==
  ASSUME NEW c, NEW m, Skip(c, m)
  PROVE  client' = [client EXCEPT ![c] = [client[c] EXCEPT !.left = client[c].left \ {m}]]
BY DEF Skip

\* Calls of the API leave a message for every waiting process.
LEMMA HeldUser ==
  ASSUME Typing, Held, NEW u \in Users, NEW p \in Procs,
         Create(u, p) \/ ReadResumable(u, p) \/ ReadAbortable(u, p)
  PROVE  Held'
<1>0. u \in Clients
  BY DEF Clients
<1>1. CASE Create(u, p)
  <2> DEFINE r == [Resting("publish") EXCEPT !.msg = "start", !.proc = p]
  <2>1. r.pc = "publish" /\ r.proc = p /\ r.msg = "start"
    BY DEF Resting
  <2>2. client' = [client EXCEPT ![u] = r] /\ client[u].pc # "publish"
          /\ UNCHANGED <<queue, worker>>
    BY <1>1 DEF Create, Ready
  <2>3. status'[p] = StatusFor("start") /\ \A q \in Procs : q # p => status'[q] = status[q]
    BY <1>1, OthersKeepStatus DEF Create, StatusFor
  <2> HIDE DEF r
  <2> QED
    BY <1>0, <2>1, <2>2, <2>3, HeldClientTakes DEF MessageKinds
<1>2. CASE ReadResumable(u, p)
  <2>1. client[u].pc # "publish" /\ UNCHANGED <<status, queue, worker>>
    BY <1>2 DEF ReadResumable, Ready
  <2>2. client' = [client EXCEPT ![u] =
          [Resting("mark") EXCEPT !.proc = p, !.snap = status[p]]]
    BY <1>2 DEF ReadResumable
  <2> QED
    BY <1>0, <2>1, <2>2, HeldQuietClient
<1>3. CASE ReadAbortable(u, p)
  <2>1. client[u].pc # "publish" /\ UNCHANGED <<status, queue, worker>>
    BY <1>3 DEF ReadAbortable, Ready
  <2>2. client' = [client EXCEPT ![u] = [Resting("abort") EXCEPT !.proc = p]]
    BY <1>3 DEF ReadAbortable
  <2> QED
    BY <1>0, <2>1, <2>2, HeldQuietClient
<1> QED
  BY <1>1, <1>2, <1>3

\* Aborted and deleted processes do not wait.
LEMMA HeldEnds ==
  ASSUME Typing, Held,
         \/ \E u \in Users : Abort(u)
         \/ \E p \in Procs : Delete(p)
  PROVE  Held'
<1>1. ASSUME NEW u \in Users, Abort(u) PROVE Held'
  <2> DEFINE p == client[u].proc
  <2>0. u \in Clients /\ p \in Procs
    BY <1>1 DEF Abort, Typing, ClientPlacesOK, Clients
  <2>1. \A q \in Procs : status'[q] = status[q] \/ Settles(q)
    BY <1>1, <2>0, OthersKeepStatus DEF Abort, Settles
  <2>2. client[u].pc # "publish" /\ UNCHANGED <<queue, worker>>
    BY <1>1 DEF Abort
  <2>3. client' = [client EXCEPT ![u] = Resting("idle")]
    BY <1>1, RestForm DEF Abort
  <2> QED
    BY <2>0, <2>1, <2>2, <2>3, HeldQuietClient
<1>2. ASSUME NEW p \in Procs, Delete(p) PROVE Held'
  <2>1. \A q \in Procs : status'[q] = status[q] \/ Settles(q)
    BY <1>2, OthersKeepStatus DEF Delete, Settles
  <2>2. UNCHANGED <<queue, client, worker>>
    BY <1>2 DEF Delete
  <2>3. \A q \in Procs : \A k \in MessageKinds : Carried(q, k) => Carried(q, k)'
    BY <2>2 DEF Carried, ByClient, ByQueue, ByWorker
  <2> QED
    BY <2>1, <2>3, QuietStep
<1> QED
  BY <1>1, <1>2

\* A message is added to the queue, or taken from it.
LEMMA MessageAdded ==
  ASSUME Typing, NEW m \in Messages, queue' = [queue EXCEPT ![m] = queue[m] + 1]
  PROVE  /\ queue'[m] > 0
         /\ \A n \in Messages : queue[n] > 0 => queue'[n] > 0
BY DEF Typing, TypeOK

LEMMA MessageTaken ==
  ASSUME Typing, NEW m \in Messages, queue' = [queue EXCEPT ![m] = queue[m] - 1]
  PROVE  \A n \in Messages : n # m => queue'[n] = queue[n]
BY DEF Typing, TypeOK

\* Marking a process RESUMED and publishing its message.
LEMMA HeldSubmit ==
  ASSUME Typing, Held, NEW c \in Clients, MarkResumed(c) \/ Publish(c)
  PROVE  Held'
<1> DEFINE p == client[c].proc
           kind == client[c].msg
<1>0. p \in Procs /\ kind \in MessageKinds
  BY DEF MarkResumed, Publish, Typing, TypeOK, ClientPlacesOK, ClientRecords,
         MessageKinds
<1>1. CASE MarkResumed(c)
  <2>0. client[c].pc = "mark" /\ kind = "resume" /\ UNCHANGED <<queue, worker>>
    BY <1>1 DEF MarkResumed, Typing, ClientPlacesOK
  <2>1. CASE Exists(p)
    <3> DEFINE r == [client[c] EXCEPT !.pc = "publish"]
    <3>1. client' = [client EXCEPT ![c] = r]
      BY <1>1, <2>1, GoToForm DEF MarkResumed
    <3>2. client[c] \in ClientRecords
      BY DEF Typing, TypeOK
    <3>3. r.pc = "publish" /\ r.proc = p /\ r.msg = kind
      BY <3>2 DEF ClientRecords
    <3>4. status'[p] \in {status[p], StatusFor(kind)}
            /\ \A q \in Procs : q # p => status'[q] = status[q]
      BY <1>0, <1>1, <2>0, <2>1, OthersKeepStatus DEF MarkResumed, StatusFor
    <3> HIDE DEF r
    <3> QED
      BY <1>0, <2>0, <3>1, <3>3, <3>4, HeldClientTakes
  <2>2. CASE ~ Exists(p)
    <3>1. AfterSubmit(c) /\ UNCHANGED status
      BY <1>1, <2>2 DEF MarkResumed
    <3>2. \E r : client' = [client EXCEPT ![c] = r]
      BY <3>1, RestForm, GoToForm DEF AfterSubmit
    <3> QED
      BY <2>0, <3>1, <3>2, HeldQuietClient
  <2> QED
    BY <2>1, <2>2
<1>2. CASE Publish(c)
  <2> DEFINE m == <<kind, p>>
  <2>0. UNCHANGED <<status, worker>> /\ m \in Messages
    BY <1>0, <1>2 DEF Publish, Messages, MessageKinds
  <2>1. queue' = [queue EXCEPT ![m] = queue[m] + 1]
    BY <1>2 DEF Publish
  <2>3. queue'[m] > 0 /\ \A n \in Messages : queue[n] > 0 => queue'[n] > 0
    <3> HIDE DEF m
    <3> QED
      BY <2>0, <2>1, MessageAdded
  <2>4. \A q \in Procs : \A k \in MessageKinds : <<k, q>> \in Messages
    BY DEF Messages, MessageKinds
  <2>5. \E r : client' = [client EXCEPT ![c] = r]
    BY <1>2, RestForm, GoToForm DEF Publish, AfterSubmit
  <2>6. \A d \in Clients : d # c => client'[d] = client[d]
    BY <2>5 DEF Typing, TypeOK
  <2>7. ASSUME NEW q \in Procs, NEW k \in MessageKinds, Carried(q, k)
        PROVE  Carried(q, k)'
    <3>1. CASE ByQueue(q, k)
      BY <2>3, <2>4, <3>1 DEF ByQueue, Carried
    <3>2. CASE ByWorker(q, k)
      BY <2>0, <3>2 DEF ByWorker, Carried
    <3>3. CASE ByClient(q, k)
      <4>1. PICK d \in Clients : client[d].pc = "publish" /\ client[d].proc = q
                                   /\ client[d].msg = k
        BY <3>3 DEF ByClient
      <4>2. CASE d = c
        BY <2>3, <4>1, <4>2 DEF ByQueue, Carried
      <4>3. CASE d # c
        BY <2>6, <4>1, <4>3 DEF ByClient, Carried
      <4> QED
        BY <4>2, <4>3
    <3> QED
      BY <2>7, <3>1, <3>2, <3>3 DEF Carried
  <2> QED
    BY <2>0, <2>7, QuietStep
<1> QED
  BY <1>1, <1>2

\* A worker that takes a message accepts it if its process is still waiting.
LEMMA HeldTake ==
  ASSUME Typing, Held, NEW w \in Workers, NEW p \in Procs,
         TakeStart(w, p) \/ TakeResume(w, p)
  PROVE  Held'
<1>1. CASE TakeStart(w, p)
  <2>1. UNCHANGED <<status, client>> /\ worker[w].pc = "idle"
    BY <1>1 DEF TakeStart, Receive
  <2>2. \E r : worker' = [worker EXCEPT ![w] = r]
    BY <1>1 DEF TakeStart
  <2>3. \A q \in Procs : \A k \in MessageKinds : ByWorker(q, k) => ByWorker(q, k)'
    BY <2>1, <2>2, WorkersKeep
  <2>4. \A q \in Procs : \A k \in MessageKinds :
          <<k, q>> # <<"start", p>> /\ ByQueue(q, k) => ByQueue(q, k)'
    BY <1>1, MessageTaken DEF TakeStart, Receive, ByQueue, Messages, MessageKinds
  <2>5. status[p] = "created" => ByWorker(p, "start")'
    <3>1. SUFFICES ASSUME status[p] = "created" PROVE ByWorker(p, "start")'
      OBVIOUS
    <3>2. worker' = [worker EXCEPT ![w] = Loaded(p, "claim")]
      BY <1>1, <3>1 DEF TakeStart
    <3>3. worker'[w] = Loaded(p, "claim")
      BY <3>2 DEF Typing, TypeOK
    <3>4. worker'[w].pc = "claim" /\ worker'[w].proc = p /\ worker'[w].snap # "running"
      BY <3>1, <3>3 DEF Loaded
    <3> QED
      BY <3>4 DEF ByWorker
  <2>6. ASSUME NEW q \in Procs, NEW k \in MessageKinds, status[q] = StatusFor(k)
        PROVE  Carried(q, k)'
    <3>1. CASE q = p /\ k = "start"
      BY <2>5, <2>6, <3>1 DEF Carried, StatusFor
    <3>2. CASE <<k, q>> # <<"start", p>>
      BY <2>1, <2>3, <2>4, <2>6, <3>2 DEF Held, Carried, ByClient
    <3> QED
      BY <3>1, <3>2
  <2> QED
    BY <2>1, <2>6 DEF Held
<1>2. CASE TakeResume(w, p)
  <2>1. UNCHANGED <<status, client>> /\ worker[w].pc = "idle"
    BY <1>2 DEF TakeResume, Receive
  <2>2. \E r : worker' = [worker EXCEPT ![w] = r]
    BY <1>2 DEF TakeResume
  <2>3. \A q \in Procs : \A k \in MessageKinds : ByWorker(q, k) => ByWorker(q, k)'
    BY <2>1, <2>2, WorkersKeep
  <2>4. \A q \in Procs : \A k \in MessageKinds :
          <<k, q>> # <<"resume", p>> /\ ByQueue(q, k) => ByQueue(q, k)'
    BY <1>2, MessageTaken DEF TakeResume, Receive, ByQueue, Messages, MessageKinds
  <2>5. status[p] = "resumed" => ByWorker(p, "resume")'
    <3> DEFINE r == [Free EXCEPT !.pc = "load", !.proc = p]
    <3>1. SUFFICES ASSUME status[p] = "resumed" PROVE ByWorker(p, "resume")'
      OBVIOUS
    <3>2. worker'[w] = r
      BY <1>2, <3>1 DEF TakeResume, Typing, TypeOK
    <3>3. r.pc = "load" /\ r.proc = p
      BY DEF Free
    <3> QED
      BY <3>2, <3>3 DEF ByWorker
  <2>6. ASSUME NEW q \in Procs, NEW k \in MessageKinds, status[q] = StatusFor(k)
        PROVE  Carried(q, k)'
    <3>1. CASE q = p /\ k = "resume"
      BY <2>5, <2>6, <3>1 DEF Carried, StatusFor
    <3>2. CASE <<k, q>> # <<"resume", p>>
      BY <2>1, <2>3, <2>4, <2>6, <3>2 DEF Held, Carried, ByClient
    <3> QED
      BY <3>1, <3>2
  <2> QED
    BY <2>1, <2>6 DEF Held
<1> QED
  BY <1>1, <1>2

\* A worker drops a process only when it is not waiting any more.
LEMMA HeldLoad ==
  ASSUME Typing, Held, NEW w \in Workers, Load(w)
  PROVE  Held'
<1> DEFINE p == worker[w].proc
<1>0. p \in Procs /\ UNCHANGED <<status, client, queue>>
  BY DEF Load, Typing, WorkerPlacesOK
<1>1. \A v \in Workers : v # w => worker'[v] = worker[v]
  BY DEF Load, Typing, TypeOK
<1>2. ASSUME NEW q \in Procs, q = p, NEW k \in MessageKinds, status[q] = StatusFor(k)
      PROVE  ByWorker(q, k)'
  <2>1. Exists(p) /\ status[p] # "running"
    BY <1>2 DEF StatusFor, Exists
  <2>2. worker'[w] = Loaded(p, "claim")
    BY <2>1 DEF Load, Typing, TypeOK
  <2>3. worker'[w].pc = "claim" /\ worker'[w].proc = q /\ worker'[w].snap # "running"
    BY <1>2, <2>1, <2>2 DEF Loaded
  <2> QED
    BY <2>3 DEF ByWorker
<1>3. ASSUME NEW q \in Procs, NEW k \in MessageKinds, status[q] = StatusFor(k)
      PROVE  Carried(q, k)'
  <2>1. CASE q = p
    BY <1>2, <1>3, <2>1 DEF Carried
  <2>2. CASE q # p
    BY <1>0, <1>1, <1>3, <2>2 DEF Held, Carried, ByClient, ByQueue, ByWorker
  <2> QED
    BY <2>1, <2>2
<1> QED
  BY <1>0, <1>3 DEF Held

\* A worker that claims a process carries it no longer: the process is RUNNING,
\* or it was when the worker read it.
LEMMA HeldClaim ==
  ASSUME Typing, Held, NEW w \in Workers, Claim(w)
  PROVE  Held'
<1> DEFINE p == worker[w].proc
<1>0. p \in Procs /\ UNCHANGED <<client, queue>>
  BY DEF Claim, Typing, WorkerPlacesOK
<1>1. \A v \in Workers : v # w => worker'[v] = worker[v]
  BY DEF Claim, Typing, TypeOK
<1>2. \A q \in Procs : status'[q] = status[q] \/ Settles(q)
  BY <1>0, OthersKeepStatus DEF Claim, Settles
<1>3. ASSUME NEW q \in Procs, NEW k \in MessageKinds, status'[q] = StatusFor(k)
      PROVE  Carried(q, k)'
  <2>1. status[q] = StatusFor(k)
    BY <1>2, <1>3 DEF Settles, StatusFor
  <2>2. q = p => worker[w].snap = "running"
    <3> SUFFICES ASSUME q = p, worker[w].snap # "running" PROVE FALSE
      OBVIOUS
    <3>1. Exists(p)
      BY <2>1 DEF Exists, StatusFor
    <3>2. status'[p] = "running"
      BY <1>0, <3>1, OthersKeepStatus DEF Claim
    <3> QED
      BY <1>3, <3>2 DEF StatusFor
  <2>3. Carried(q, k)
    BY <2>1 DEF Held
  <2>4. ByWorker(q, k) => ByWorker(q, k)'
    <3> SUFFICES ASSUME ByWorker(q, k) PROVE ByWorker(q, k)'
      OBVIOUS
    <3>1. PICK v \in Workers : /\ worker[v].proc = q
                               /\ \/ worker[v].pc = "load" /\ k = "resume"
                                  \/ worker[v].pc = "claim" /\ worker[v].snap # "running"
      BY DEF ByWorker
    <3>2. v # w
      BY <2>2, <3>1 DEF Claim
    <3> QED
      BY <1>1, <3>1, <3>2 DEF ByWorker
  <2> QED
    BY <1>0, <2>3, <2>4 DEF Carried, ByClient, ByQueue
<1> QED
  BY <1>3 DEF Held

\* A worker that runs a process makes no process wait.
LEMMA HeldRun ==
  ASSUME Typing, Held, NEW w \in Workers,
         \/ Answer(w) \/ AnswerFails(w) \/ Continue(w)
         \/ RunStep(w) \/ WriteStep(w) \/ Leave(w)
  PROVE  Held'
<1> DEFINE p == worker[w].proc
           row == Row(<<worker[w].todo, 0>>, worker[w].pend, NoSub)
<1>0. p \in Procs /\ worker[w].pend \in StepStatus /\ worker[w] \in WorkerRecords
  BY DEF Answer, AnswerFails, Continue, RunStep, WriteStep, Leave, Typing,
         TypeOK, WorkerPlacesOK, WorkerRecords
<1>1. UNCHANGED <<client, queue>> /\ worker[w].pc \notin {"load", "claim"}
  BY DEF Answer, AnswerFails, Continue, RunStep, WriteStep, Leave
<1>2. \E r : worker' = [worker EXCEPT ![w] = r]
  <2>1. CASE Answer(w)
    BY <2>1, Zenon DEF Answer
  <2>2. CASE AnswerFails(w) \/ Leave(w)
    BY <2>2 DEF AnswerFails, Leave
  <2>3. CASE Continue(w)
    BY <2>3 DEF Continue
  <2>4. CASE RunStep(w)
    BY <2>4 DEF RunStep
  <2>5. CASE WriteStep(w)
    BY <2>5 DEF WriteStep
  <2> QED
    BY <2>1, <2>2, <2>3, <2>4, <2>5
<1>3. \A q \in Procs : \A k \in MessageKinds : Carried(q, k) => Carried(q, k)'
  <2>1. \A q \in Procs : \A k \in MessageKinds : ByWorker(q, k) => ByWorker(q, k)'
    BY <1>1, <1>2, WorkersKeep
  <2> QED
    BY <1>1, <2>1 DEF Carried, ByClient, ByQueue
<1>4. \A q \in Procs : status'[q] = status[q] \/ Settles(q)
  <2>1. CASE Answer(w)
    BY <1>0, <2>1, OthersKeepStatus DEF Answer, Settles
  <2>2. CASE AnswerFails(w)
    BY <1>0, <2>2, OthersKeepStatus DEF AnswerFails, Settles
  <2>3. CASE Continue(w) \/ RunStep(w) \/ Leave(w)
    BY <2>3 DEF Continue, RunStep, Leave
  <2>4. CASE WriteStep(w) /\ Exists(p)
    <3>1. PICK s \in StoredStatuses(row.status, p \in Tasks) : SetStatus(p, s)
      BY <2>4 DEF WriteStep
    <3>2. row.status \in StepStatus
      BY <1>0 DEF Row
    <3>3. s \notin {"created", "resumed"}
      BY <3>1, <3>2 DEF StoredStatuses, OverallStatus, StepStatus
    <3> QED
      BY <1>0, <3>1, <3>3, OthersKeepStatus DEF Settles
  <2>5. CASE WriteStep(w) /\ ~ Exists(p)
    BY <2>5 DEF WriteStep
  <2> QED
    BY <2>1, <2>2, <2>3, <2>4, <2>5
<1> QED
  BY <1>3, <1>4, QuietStep

\* The clean-up task leaves a message for every waiting process.
LEMMA HeldSweep ==
  ASSUME Typing, Held, Sweep
  PROVE  Held'
<1>0. "sweeper" \in Clients
  BY DEF Clients
<1>1. CASE FindStuck
  BY <1>0, <1>1, HeldQuietClient DEF FindStuck
<1>2. ASSUME NEW p \in Procs, SweepResume(p) PROVE Held'
  <2>1. client["sweeper"].pc # "publish" /\ UNCHANGED <<status, queue, worker>>
    BY <1>2 DEF SweepResume
  <2>2. \E r : client' = [client EXCEPT !["sweeper"] = r]
    BY <1>2, TakeForm, SkipForm DEF SweepResume
  <2> QED
    BY <1>0, <2>1, <2>2, HeldQuietClient
<1>3. ASSUME NEW p \in Procs, SweepRestart(p) PROVE Held'
  <2>1. client["sweeper"].pc # "publish" /\ UNCHANGED <<status, queue, worker>>
    BY <1>3 DEF SweepRestart
  <2>2. \E r : client' = [client EXCEPT !["sweeper"] = r]
    BY <1>3, TakeForm, SkipForm DEF SweepRestart
  <2> QED
    BY <1>0, <2>1, <2>2, HeldQuietClient
<1>4. CASE Submit("sweeper")
  BY <1>0, <1>4, HeldSubmit DEF Submit
<1>5. CASE Finish("sweeper")
  BY <1>0, <1>5, RestForm, HeldQuietClient DEF Finish
<1> QED
  BY <1>1, <1>2, <1>3, <1>4, <1>5 DEF Sweep

\* So does the operator.
LEMMA HeldOperator ==
  ASSUME Typing, Held, Operator
  PROVE  Held'
<1>0. "operator" \in Clients
  BY DEF Clients
<1>1. CASE Pause
  BY <1>1 DEF Pause, Held, Carried, ByClient, ByQueue, ByWorker
<1>2. CASE Unlock
  BY <1>0, <1>2, GoToForm, HeldQuietClient DEF Unlock, Ready
<1>3. CASE FindRunning
  BY <1>0, <1>3, HeldQuietClient DEF FindRunning
<1>4. ASSUME NEW p \in Procs, UnpauseNext(p) PROVE Held'
  <2>1. client["operator"].pc # "publish" /\ UNCHANGED <<queue, worker>>
    BY <1>4 DEF UnpauseNext
  <2>2. CASE SetStatus(p, "resumed") /\ Take("operator", <<"resume", p>>, "publish")
    <3>1. PICK r : /\ client' = [client EXCEPT !["operator"] = r]
                   /\ r.pc = "publish" /\ r.msg = "resume" /\ r.proc = p
      BY <2>2, TakeForm
    <3>2. status'[p] = StatusFor("resume")
            /\ \A q \in Procs : q # p => status'[q] = status[q]
      BY <2>2, OthersKeepStatus DEF StatusFor
    <3> QED
      BY <1>0, <2>1, <3>1, <3>2, HeldClientTakes DEF MessageKinds
  <2>3. CASE UNCHANGED status /\ Rest("operator", "failed")
    BY <1>0, <2>1, <2>3, RestForm, HeldQuietClient
  <2> QED
    BY <1>4, <2>2, <2>3 DEF UnpauseNext
<1>5. CASE Publish("operator")
  BY <1>0, <1>5, HeldSubmit
<1>6. CASE Finish("operator")
  BY <1>0, <1>6, RestForm, HeldQuietClient DEF Finish
<1> QED
  BY <1>1, <1>2, <1>3, <1>4, <1>5, <1>6 DEF Operator

LEMMA HeldInit == Init => Held
BY DEF Init, Held, StatusFor, MessageKinds

LEMMA HeldNext ==
  ASSUME NoFailures
  PROVE  Typing /\ Held /\ [Next]_vars => Held'
<1> SUFFICES ASSUME Typing, Held, [Next]_vars PROVE Held'
  OBVIOUS
<1>1. ASSUME NEW u \in Users, UserCall(u) \/ Submit(u) PROVE Held'
  BY <1>1, HeldUser, HeldEnds, HeldSubmit DEF UserCall, Submit, Clients
<1>2. ASSUME NEW p \in Procs, Delete(p) PROVE Held'
  BY <1>2, HeldEnds
<1>3. CASE Sweep
  BY <1>3, HeldSweep
<1>4. CASE Operator
  BY <1>4, HeldOperator
<1>5. ASSUME NEW w \in Workers, Work(w) PROVE Held'
  BY <1>5, HeldTake, HeldLoad, HeldClaim, HeldRun DEF Work
<1>6. CASE Failure
  BY <1>6, NoFailures
     DEF Failure, NoFailures, BrokerFails, ClientCrash, WorkerCrash, SweeperCrash
<1>7. CASE UNCHANGED vars
  BY <1>7 DEF vars, Held, Carried, ByClient, ByQueue, ByWorker
<1> QED
  BY <1>1, <1>2, <1>3, <1>4, <1>5, <1>6, <1>7 DEF Next

\* While no worker, client or clean-up task is killed and the broker answers, no
\* interleaving of creations, resumes, aborts, deletions, pauses, sweeps and
\* workers leaves a CREATED or RESUMED process without a message on its way.
THEOREM NothingLost ==
  ASSUME NoFailures
  PROVE  Spec => []NotLost
<1>1. Typing /\ Held => NotLost
  <2> SUFFICES ASSUME Typing, Held, NEW p \in Procs,
                      status[p] \in {"created", "resumed"}
               PROVE  Pending(p)
    BY DEF NotLost
  <2>1. PICK kind \in MessageKinds : Carried(p, kind)
    BY DEF Held, StatusFor, MessageKinds
  <2>2. <<kind, p>> \in Messages
    BY DEF Messages, MessageKinds
  <2> QED
    BY <2>1, <2>2 DEF Pending, Carried, ByClient, ByQueue, ByWorker
<1>2. Init => Held
  BY HeldInit
<1>3. Typing /\ Held /\ [Next]_vars => Held'
  BY HeldNext, NoFailures
<1> QED
  BY <1>1, <1>2, <1>3, TypingInvariant, PTL DEF Spec

-----------------------------------------------------------------------------
(* With one worker the steps of a process are logged in order and once        *)

OneWorker == \A v, w \in Workers : v = w

\* The rows that count as done are those of the steps from the first one on.
Ordered(rows) ==
  \A i \in ClearedRows(rows) :
    rows[i].step = <<Cardinality({j \in ClearedRows(rows) : j <= i}), 0>>

\* A worker that may still write is at the step after those that are logged.
Positioned(record, rows) ==
  (\/ record.pc \in {"claim", "claimed", "write"}
   \/ record.pc = "loop" /\ Continues(record.st))
  => (record.todo <= N => record.todo = StepCount(rows) + 1)

InSequence == \A p \in Procs : Ordered(log[p])

\* Somebody else may delete the process the worker is at; nobody creates it then.
AtNextStep ==
  \A w \in Workers : worker[w].pc # "idle" =>
    /\ status[worker[w].proc] # "absent"
    /\ Exists(worker[w].proc) => Positioned(worker[w], log[worker[w].proc])

NobodyAborts == \A c \in Clients : client[c].pc # "abort"

Serial == InSequence /\ AtNextStep /\ NobodyAborts

\* A row that replaces none keeps the log ordered, if it is the next step's.
LEMMA OrderedAppended ==
  ASSUME NEW rows \in Seq(LogRow), NEW row \in LogRow, Ordered(rows),
         IsCleared(row) => row.step = <<StepCount(rows) + 1, 0>>
  PROVE  \A new : new = Append(rows, row) => Ordered(new)
<1> SUFFICES ASSUME NEW new, new = Append(rows, row), NEW i \in ClearedRows(new)
             PROVE  new[i].step = <<Cardinality({j \in ClearedRows(new) : j <= i}), 0>>
  BY DEF Ordered
<1>1. /\ DOMAIN rows = 1..Len(rows) /\ Len(rows) \in Nat
      /\ DOMAIN new = 1..(Len(rows) + 1) /\ new[Len(rows) + 1] = row
      /\ \A j \in DOMAIN rows : new[j] = rows[j]
  BY AppendProperties
<1>2. ClearedRows(new) =
        IF IsCleared(row) THEN ClearedRows(rows) \cup {Len(rows) + 1}
        ELSE ClearedRows(rows)
  BY <1>1 DEF ClearedRows
<1>3. ClearedRows(rows) \in SUBSET (1..Len(rows)) /\ StepCount(rows) \in Nat
  BY ClearedRowsFinite
<1>4. CASE i \in ClearedRows(rows)
  <2>1. {j \in ClearedRows(new) : j <= i} = {j \in ClearedRows(rows) : j <= i}
    BY <1>1, <1>2, <1>3, <1>4
  <2>2. new[i] = rows[i]
    BY <1>1, <1>3, <1>4
  <2> QED
    BY <1>4, <2>1, <2>2 DEF Ordered
<1>5. CASE i \notin ClearedRows(rows)
  <2>1. IsCleared(row) /\ i = Len(rows) + 1
    BY <1>2, <1>5
  <2>2. \A j \in ClearedRows(new) : j <= i
    BY <1>1, <1>2, <1>3, <2>1
  <2>3. {j \in ClearedRows(new) : j <= i} = ClearedRows(new)
    BY <2>2
  <2>4. Cardinality(ClearedRows(new)) = StepCount(rows) + 1
    BY <2>1, AppendCount DEF StepCount
  <2> QED
    BY <1>1, <2>1, <2>3, <2>4
<1> QED
  BY <1>4, <1>5

LEMMA OrderedWritten ==
  ASSUME NEW rows \in Seq(LogRow), NEW row \in LogRow, NEW same \in BOOLEAN,
         Ordered(rows), IsCleared(row) => row.step = <<StepCount(rows) + 1, 0>>
  PROVE  Ordered(WriteRow(rows, row, FALSE, same))
<1>1. CASE rows # <<>> /\ IsRepeat(rows, row, same)
  <2> DEFINE last == Row(rows[Len(rows)].step, row.status, row.sub)
             new == [rows EXCEPT ![Len(rows)] = last]
  <2>1. Len(rows) \in 1..Len(rows) /\ rows[Len(rows)] \in LogRow
    BY <1>1, EmptySeq, ElementOfSeq
  <2>2. last \in LogRow /\ last.status = row.status /\ last.step = rows[Len(rows)].step
    BY <2>1 DEF Row, LogRow
  <2>3. WriteRow(rows, row, FALSE, same) = new
    BY <1>1 DEF WriteRow
  <2>4. last.status = rows[Len(rows)].status
    BY <1>1, <2>2 DEF IsRepeat
  <2> HIDE DEF last
  <2>5. /\ new \in Seq(LogRow) /\ Len(new) = Len(rows)
        /\ \A j \in 1..Len(rows) : new[j] = IF j = Len(rows) THEN last ELSE rows[j]
    BY <2>1, <2>2, ExceptSeq
  <2> HIDE DEF new
  <2>6. DOMAIN rows = 1..Len(rows) /\ DOMAIN new = 1..Len(rows)
    BY <2>5, LenProperties
  <2>7. \A i \in 1..Len(rows) : /\ IsCleared(new[i]) <=> IsCleared(rows[i])
                                /\ new[i].step = rows[i].step
    BY <2>2, <2>4, <2>5 DEF IsCleared
  <2>8. ClearedRows(new) = ClearedRows(rows)
    BY <2>6, <2>7 DEF ClearedRows
  <2>9. \A i \in ClearedRows(new) : new[i].step = rows[i].step
    BY <2>6, <2>7 DEF ClearedRows
  <2>10. Ordered(new)
    BY <2>8, <2>9 DEF Ordered
  <2> QED
    BY <2>3, <2>10
<1>2. CASE ~ (rows # <<>> /\ IsRepeat(rows, row, same))
  <2>1. WriteRow(rows, row, FALSE, same) = Append(rows, row)
    BY <1>2 DEF WriteRow
  <2> QED
    BY <2>1, OrderedAppended
<1> QED
  BY <1>1, <1>2

\* A process that is loaded is positioned at its next step.
LEMMA LoadedPositioned ==
  ASSUME Typing, NEW p \in Procs
  PROVE  Positioned(Loaded(p, "claim"), log[p])
<1>1. StepCount(log[p]) \in Nat /\ N \in Nat
  BY ClearedRowsFinite, DispatchAssumption DEF Typing, TypeOK
<1>2. RestFrom(log[p], N) <= N => RestFrom(log[p], N) = StepCount(log[p]) + 1
  BY <1>1 DEF RestFrom
<1> QED
  BY <1>2 DEF Positioned, Loaded

\* What everybody but a worker at work may do to a process: keep its log and not
\* bring it back, create it, or delete it with its log.
Leaves(p) ==
  \/ /\ log'[p] = log[p]
     /\ status'[p] = "absent" => status[p] = "absent"
     /\ status[p] = "deleted" => status'[p] = "deleted"
  \/ log'[p] = <<>> /\ status'[p] = "deleted"

\* Then the worker stays where it is.
LEMMA SerialQuiet ==
  ASSUME Typing, InSequence, AtNextStep, worker' = worker, \A p \in Procs : Leaves(p)
  PROVE  InSequence' /\ AtNextStep'
<1>1. ASSUME NEW p \in Procs PROVE Ordered(log'[p])
  <2>1. Ordered(<<>>)
    BY DEF Ordered, ClearedRows
  <2> QED
    BY <2>1 DEF InSequence, Leaves
<1>2. ASSUME NEW w \in Workers, worker[w].pc # "idle"
      PROVE  /\ status'[worker[w].proc] # "absent"
             /\ status'[worker[w].proc] \notin {"absent", "deleted"} =>
                  Positioned(worker[w], log'[worker[w].proc])
  <2>1. worker[w].proc \in Procs
    BY <1>2 DEF Typing, WorkerPlacesOK
  <2>2. Leaves(worker[w].proc) /\ status[worker[w].proc] # "absent"
    BY <1>2, <2>1 DEF AtNextStep
  <2> QED
    BY <1>2, <2>2 DEF Leaves, AtNextStep, Exists
<1>3. AtNextStep'
  BY <1>2 DEF AtNextStep, Exists
<1> QED
  BY <1>1, <1>3 DEF InSequence

\* The only worker gets a record that is idle or positioned; the logs stay.
LEMMA SerialWorker ==
  ASSUME OneWorker, Typing, InSequence, NEW w \in Workers, NEW r,
         worker' = [worker EXCEPT ![w] = r], log' = log,
         r.pc # "idle" => /\ status'[r.proc] # "absent"
                          /\ Positioned(r, log[r.proc])
  PROVE  InSequence' /\ AtNextStep'
<1>1. \A v \in Workers : worker'[v] = r
  BY DEF OneWorker, Typing, TypeOK
<1> QED
  BY <1>1 DEF InSequence, AtNextStep

\* What a client does to the processes, and that it does not abort.
LEMMA SerialClients ==
  ASSUME "abort" \notin Events, Typing, NobodyAborts,
         \/ \E u \in Users : UserCall(u) \/ Submit(u)
         \/ \E p \in Procs : Delete(p)
         \/ Sweep \/ Operator
         \/ \E c \in Clients : BrokerFails(c) \/ ClientCrash(c)
         \/ SweeperCrash
  PROVE  (\A p \in Procs : Leaves(p)) /\ worker' = worker /\ NobodyAborts'
<1> USE DEF NobodyAborts
<1>0. /\ status \in [Procs -> DispatchStatus] /\ log \in [Procs -> Seq(LogRow)]
      /\ client \in [Clients -> ClientRecords] /\ {"sweeper", "operator"} \subseteq Clients
      /\ Users \subseteq Clients
      /\ \A c \in Clients : client[c].pc = "publish" => client[c].proc \in Procs
      /\ \A c \in Clients : client[c].pc = "mark" => client[c].proc \in Procs
  BY DEF Typing, TypeOK, Clients, ClientPlacesOK
<1>1. ASSUME UNCHANGED <<status, log>> PROVE \A p \in Procs : Leaves(p)
  BY <1>1 DEF Leaves
<1>2. ASSUME NEW p \in Procs, NEW s, SetStatus(p, s), log' = log,
             s # "absent" \/ status[p] = "absent", status[p] = "deleted" => s = "deleted"
      PROVE  \A q \in Procs : Leaves(q)
  BY <1>0, <1>2 DEF Leaves, SetStatus
<1>3. ASSUME NEW p \in Procs, SetStatus(p, "deleted"), log' = [log EXCEPT ![p] = <<>>]
      PROVE  \A q \in Procs : Leaves(q)
  <2>1. /\ status'[p] = "deleted" /\ log'[p] = <<>>
        /\ \A q \in Procs : q # p => status'[q] = status[q] /\ log'[q] = log[q]
    BY <1>0, <1>3 DEF SetStatus
  <2> QED
    BY <2>1 DEF Leaves
<1>4. ASSUME NEW c \in Clients, NEW r, client' = [client EXCEPT ![c] = r], r.pc # "abort"
      PROVE  NobodyAborts'
  BY <1>0, <1>4
<1>5. ASSUME NEW c \in Clients, NEW place, Rest(c, place) \/ GoTo(c, place), place # "abort"
      PROVE  NobodyAborts'
  BY <1>0, <1>5 DEF Rest, GoTo, Resting, ClientRecords
<1>6. ASSUME NEW c \in Clients, AfterSubmit(c) PROVE NobodyAborts'
  BY <1>5, <1>6 DEF AfterSubmit
<1>7. ASSUME NEW c \in Clients, NEW m, NEW place, Take(c, m, place), place # "abort"
      PROVE  NobodyAborts'
  BY <1>4, <1>7, TakeForm
<1>8. ASSUME NEW c \in Clients, NEW m, Skip(c, m) PROVE NobodyAborts'
  BY <1>0, <1>8 DEF Skip, ClientRecords
<1>9. ASSUME NEW u \in Users, NEW p \in Procs,
             Create(u, p) \/ ReadResumable(u, p) \/ ReadAbortable(u, p)
      PROVE  (\A q \in Procs : Leaves(q)) /\ worker' = worker /\ NobodyAborts'
  <2>1. CASE Create(u, p)
    <3>1. NobodyAborts'
      BY <1>0, <2>1 DEF Create, Resting
    <3> QED
      BY <1>2, <2>1, <3>1 DEF Create
  <2>2. CASE ReadResumable(u, p)
    <3>1. NobodyAborts'
      BY <1>0, <2>2 DEF ReadResumable, Resting
    <3> QED
      BY <1>1, <2>2, <3>1 DEF ReadResumable
  <2>3. CASE ReadAbortable(u, p)
    BY <2>3 DEF ReadAbortable
  <2> QED
    BY <1>9, <2>1, <2>2, <2>3
<1>10. ASSUME NEW c \in Clients, Submit(c)
       PROVE  (\A q \in Procs : Leaves(q)) /\ worker' = worker /\ NobodyAborts'
  <2>1. CASE MarkResumed(c)
    <3> DEFINE p == client[c].proc
    <3>1. p \in Procs /\ worker' = worker /\ log' = log
      BY <1>0, <2>1 DEF MarkResumed
    <3>2. CASE Exists(p)
      <4>1. PICK s \in {status[p], "resumed"} : SetStatus(p, s)
        BY <2>1, <3>2 DEF MarkResumed
      <4>2. GoTo(c, "publish")
        BY <2>1, <3>2 DEF MarkResumed
      <4>3. s # "absent" /\ status[p] # "deleted"
        BY <3>2, <4>1 DEF Exists
      <4>4. NobodyAborts'
        BY <1>5, <4>2
      <4> HIDE DEF p
      <4>5. \A q \in Procs : Leaves(q)
        BY <1>2, <3>1, <4>1, <4>3
      <4> QED
        BY <3>1, <4>4, <4>5
    <3>3. CASE ~ Exists(p)
      BY <1>1, <1>6, <2>1, <3>1, <3>3 DEF MarkResumed
    <3> QED
      BY <3>2, <3>3
  <2>2. CASE Publish(c)
    BY <1>1, <1>6, <2>2 DEF Publish
  <2> QED
    BY <1>10, <2>1, <2>2 DEF Submit
<1>11. ASSUME NEW u \in Users, UserCall(u) \/ Submit(u)
       PROVE  (\A q \in Procs : Leaves(q)) /\ worker' = worker /\ NobodyAborts'
  BY <1>0, <1>9, <1>10, <1>11 DEF UserCall, Abort
<1>12. ASSUME NEW p \in Procs, Delete(p)
       PROVE  (\A q \in Procs : Leaves(q)) /\ worker' = worker /\ NobodyAborts'
  BY <1>3, <1>12 DEF Delete
<1>13. ASSUME NEW c \in Clients, Finish(c)
       PROVE  (\A q \in Procs : Leaves(q)) /\ worker' = worker /\ NobodyAborts'
  BY <1>1, <1>5, <1>13 DEF Finish
<1>14. CASE Sweep
  <2>1. CASE FindStuck
    <3>1. NobodyAborts'
      BY <1>0, <2>1 DEF FindStuck, Resting
    <3> QED
      BY <1>1, <2>1, <3>1 DEF FindStuck
  <2>2. ASSUME NEW p \in Procs, SweepResume(p) \/ SweepRestart(p)
        PROVE  (\A q \in Procs : Leaves(q)) /\ worker' = worker /\ NobodyAborts'
    <3>1. log' = log /\ worker' = worker /\ status' = status
      BY <2>2 DEF SweepResume, SweepRestart
    <3>2. CASE SweepResume(p)
      <4>1. \/ Take("sweeper", <<"resume", p>>, "mark")
            \/ Skip("sweeper", <<"resume", p>>)
        BY <3>2 DEF SweepResume
      <4> QED
        BY <1>0, <1>1, <1>7, <1>8, <3>1, <4>1
    <3>3. CASE SweepRestart(p)
      <4>1. \/ Take("sweeper", <<"start", p>>, "publish")
            \/ Skip("sweeper", <<"start", p>>)
        BY <3>3 DEF SweepRestart
      <4> QED
        BY <1>0, <1>1, <1>7, <1>8, <3>1, <4>1
    <3> QED
      BY <2>2, <3>2, <3>3
  <2> QED
    BY <1>0, <1>10, <1>13, <1>14, <2>1, <2>2 DEF Sweep
<1>15. CASE Operator
  <2>1. CASE Pause
    BY <1>1, <2>1 DEF Pause
  <2>2. CASE Unlock
    BY <1>0, <1>1, <1>5, <2>2 DEF Unlock
  <2>3. CASE FindRunning
    <3>1. NobodyAborts'
      BY <1>0, <2>3 DEF FindRunning, Resting
    <3> QED
      BY <1>1, <2>3, <3>1 DEF FindRunning
  <2>4. ASSUME NEW p \in Procs, UnpauseNext(p)
        PROVE  (\A q \in Procs : Leaves(q)) /\ worker' = worker /\ NobodyAborts'
    <3>1. CASE Exists(p) /\ EmptyAnswerAccepted(p)
      <4>1. /\ SetStatus(p, "resumed") /\ Take("operator", <<"resume", p>>, "publish")
            /\ log' = log /\ worker' = worker /\ status[p] # "deleted"
        BY <2>4, <3>1 DEF UnpauseNext, Exists
      <4> QED
        BY <1>0, <1>2, <1>7, <4>1
    <3>2. CASE ~ (Exists(p) /\ EmptyAnswerAccepted(p))
      BY <1>0, <1>1, <1>5, <2>4, <3>2 DEF UnpauseNext
    <3> QED
      BY <3>1, <3>2
  <2> QED
    BY <1>0, <1>10, <1>13, <1>15, <2>1, <2>2, <2>3, <2>4 DEF Operator, Submit
<1>16. ASSUME NEW c \in Clients, BrokerFails(c)
       PROVE  (\A q \in Procs : Leaves(q)) /\ worker' = worker /\ NobodyAborts'
  <2>1. client[c].proc \in Procs /\ worker' = worker
    BY <1>0, <1>16 DEF BrokerFails
  <2>2. NobodyAborts'
    BY <1>5, <1>16 DEF BrokerFails
  <2>3. CASE client[c].msg = "start" /\ Exists(client[c].proc)
    BY <1>3, <1>16, <2>1, <2>2, <2>3 DEF BrokerFails
  <2>4. CASE ~ (client[c].msg = "start" /\ Exists(client[c].proc))
    BY <1>1, <1>16, <2>1, <2>2, <2>4 DEF BrokerFails
  <2> QED
    BY <2>3, <2>4
<1>17. ASSUME NEW c \in Clients, ClientCrash(c)
       PROVE  (\A q \in Procs : Leaves(q)) /\ worker' = worker /\ NobodyAborts'
  BY <1>1, <1>5, <1>17 DEF ClientCrash
<1>18. CASE SweeperCrash
  BY <1>0, <1>1, <1>5, <1>18 DEF SweeperCrash
<1> QED
  BY <1>11, <1>12, <1>14, <1>15, <1>16, <1>17, <1>18

\* The only worker takes, loads and claims a process, fails, leaves or is killed.
LEMMA SerialMoves ==
  ASSUME OneWorker, Typing, InSequence, AtNextStep, NEW w \in Workers,
         \/ \E p \in Procs : TakeStart(w, p) \/ TakeResume(w, p)
         \/ Load(w) \/ Claim(w) \/ AnswerFails(w) \/ Continue(w) \/ RunStep(w)
         \/ Leave(w) \/ WorkerCrash(w)
  PROVE  InSequence' /\ AtNextStep'
<1>1. /\ worker \in [Workers -> WorkerRecords] /\ worker[w] \in WorkerRecords
      /\ status \in [Procs -> DispatchStatus]
      /\ worker[w].pc # "idle" => worker[w].proc \in Procs
      /\ worker[w].pc # "idle" => status[worker[w].proc] # "absent"
  BY DEF Typing, TypeOK, WorkerPlacesOK, AtNextStep
<1>2. Free.pc = "idle"
  BY DEF Free
<1>3. ASSUME worker' = [worker EXCEPT ![w] = Free], log' = log
      PROVE  InSequence' /\ AtNextStep'
  BY <1>2, <1>3, SerialWorker
<1>4. ASSUME NEW p \in Procs, Exists(p), worker' = [worker EXCEPT ![w] = Loaded(p, "claim")],
             UNCHANGED <<status, log>>
      PROVE  InSequence' /\ AtNextStep'
  <2>1. Loaded(p, "claim").proc = p /\ Positioned(Loaded(p, "claim"), log[p])
    BY LoadedPositioned, LoadedType
  <2> QED
    BY <1>4, <2>1, SerialWorker DEF Exists
<1>5. ASSUME NEW p \in Procs, TakeStart(w, p) PROVE InSequence' /\ AtNextStep'
  <2>1. CASE status[p] = "created"
    BY <1>4, <1>5, <2>1 DEF TakeStart, Exists
  <2>2. CASE status[p] # "created"
    BY <1>3, <1>5, <2>2 DEF TakeStart
  <2> QED
    BY <2>1, <2>2
<1>6. ASSUME NEW p \in Procs, TakeResume(w, p) PROVE InSequence' /\ AtNextStep'
  <2>1. CASE status[p] = "resumed"
    <3> DEFINE r == [Free EXCEPT !.pc = "load", !.proc = p]
    <3>1. r.pc = "load" /\ r.proc = p
      BY DEF Free
    <3>2. worker' = [worker EXCEPT ![w] = r] /\ UNCHANGED <<status, log>>
      BY <1>6, <2>1 DEF TakeResume
    <3> HIDE DEF r
    <3>3. Positioned(r, log[p])
      BY <3>1 DEF Positioned
    <3> QED
      BY <2>1, <3>1, <3>2, <3>3, SerialWorker
  <2>2. CASE status[p] # "resumed"
    BY <1>3, <1>6, <2>2 DEF TakeResume
  <2> QED
    BY <2>1, <2>2
<1>7. CASE Load(w)
  <2>1. CASE Exists(worker[w].proc)
    <3>1. worker[w].proc \in Procs
      BY <1>1, <1>7 DEF Load
    <3>2. /\ worker' = [worker EXCEPT ![w] = Loaded(worker[w].proc, "claim")]
          /\ UNCHANGED <<status, log>>
      BY <1>7, <2>1 DEF Load
    <3> QED
      BY <1>4, <2>1, <3>1, <3>2
  <2>2. CASE ~ Exists(worker[w].proc)
    BY <1>3, <1>7, <2>2 DEF Load
  <2> QED
    BY <2>1, <2>2
<1>8. CASE Claim(w)
  <2> DEFINE p == worker[w].proc
  <2>1. p \in Procs /\ log' = log /\ worker[w].pc = "claim"
    BY <1>1, <1>8 DEF Claim
  <2>2. CASE Exists(p)
    <3> DEFINE r == [worker[w] EXCEPT !.pc = "claimed"]
    <3>1. r.proc = p /\ r.pc = "claimed" /\ r.todo = worker[w].todo
      BY <1>1 DEF WorkerRecords
    <3>2. worker' = [worker EXCEPT ![w] = r]
      BY <1>8, <2>2 DEF Claim
    <3>3. status'[p] # "absent"
      BY <1>1, <1>8, <2>1, <2>2 DEF Claim, SetStatus, Exists
    <3>4. Positioned(worker[w], log[p])
      BY <2>1, <2>2 DEF AtNextStep
    <3> HIDE DEF r
    <3>5. Positioned(r, log[p])
      BY <2>1, <3>1, <3>4 DEF Positioned
    <3> QED
      BY <2>1, <3>1, <3>2, <3>3, <3>5, SerialWorker
  <2>3. CASE ~ Exists(p)
    BY <1>3, <1>8, <2>1, <2>3 DEF Claim
  <2> QED
    BY <2>2, <2>3
<1>9. CASE AnswerFails(w) \/ Leave(w) \/ WorkerCrash(w)
  BY <1>3, <1>9 DEF AnswerFails, Leave, WorkerCrash
<1>10. CASE Continue(w)
  <2> DEFINE r == [worker[w] EXCEPT !.pc = "loop", !.st = ResumeStatus(worker[w].st)]
  <2>1. r.proc = worker[w].proc /\ r.pc = "loop" /\ r.todo = worker[w].todo
    BY <1>1 DEF WorkerRecords
  <2>2. /\ worker' = [worker EXCEPT ![w] = r] /\ worker[w].pc = "claimed"
        /\ UNCHANGED <<status, log>>
    BY <1>10 DEF Continue
  <2> HIDE DEF r
  <2>3. Exists(worker[w].proc) => Positioned(r, log[worker[w].proc])
    BY <2>1, <2>2 DEF AtNextStep, Positioned
  <2>4. \A v \in Workers : worker'[v] = r
    BY <1>1, <2>2 DEF OneWorker
  <2> QED
    BY <1>1, <2>1, <2>2, <2>3, <2>4 DEF InSequence, AtNextStep, Exists
<1>11. CASE RunStep(w)
  <2>1. PICK outcome : worker' = [worker EXCEPT ![w].pc = "write", ![w].pend = outcome]
    BY <1>11 DEF RunStep
  <2> DEFINE r == [worker[w] EXCEPT !.pc = "write", !.pend = outcome]
  <2>2. r.proc = worker[w].proc /\ r.pc = "write" /\ r.todo = worker[w].todo
    BY <1>1 DEF WorkerRecords
  <2>3. /\ worker' = [worker EXCEPT ![w] = r] /\ worker[w].pc = "loop"
        /\ Continues(worker[w].st) /\ UNCHANGED <<status, log>>
    BY <1>11, <2>1 DEF RunStep, MayGoOn
  <2> HIDE DEF r
  <2>4. Exists(worker[w].proc) => Positioned(r, log[worker[w].proc])
    BY <2>2, <2>3 DEF AtNextStep, Positioned
  <2>5. \A v \in Workers : worker'[v] = r
    BY <1>1, <2>3 DEF OneWorker
  <2> QED
    BY <1>1, <2>2, <2>3, <2>4, <2>5 DEF InSequence, AtNextStep, Exists
<1> QED
  BY <1>5, <1>6, <1>7, <1>8, <1>9, <1>10, <1>11

\* The only worker writes the row of the next step and goes on behind it.
LEMMA SerialWrites ==
  ASSUME OneWorker, Typing, InSequence, AtNextStep, NEW w \in Workers,
         Answer(w) \/ WriteStep(w)
  PROVE  InSequence' /\ AtNextStep'
<1> DEFINE p == worker[w].proc
           i == worker[w].todo
<1>1. /\ worker \in [Workers -> WorkerRecords] /\ worker[w] \in WorkerRecords
      /\ status \in [Procs -> DispatchStatus] /\ log \in [Procs -> Seq(LogRow)]
      /\ p \in Procs /\ status[p] # "absent" /\ worker[w].pc \in {"claimed", "write"}
      /\ log[p] \in Seq(LogRow) /\ StepCount(log[p]) \in Nat /\ i \in Nat
      /\ Ordered(log[p])
  <2>1. worker[w].pc \in {"claimed", "write"}
    BY DEF Answer, WriteStep
  <2>2. p \in Procs /\ status[p] # "absent" /\ log \in [Procs -> Seq(LogRow)]
    BY <2>1 DEF Typing, TypeOK, WorkerPlacesOK, AtNextStep
  <2>3. StepCount(log[p]) \in Nat
    BY <2>2, ClearedRowsFinite
  <2> QED
    BY <2>1, <2>2, <2>3 DEF Typing, TypeOK, WorkerRecords, InSequence
<1>2. CASE Answer(w) \/ Exists(p)
  <2>1. PICK s \in StepStatus, same \in BOOLEAN :
          /\ log' = [log EXCEPT ![p] = WriteRow(@, Row(<<i, 0>>, s, NoSub), FALSE, same)]
          /\ worker' = [worker EXCEPT ![w].pc = "loop", ![w].todo = i + 1, ![w].st = s]
    <3>1. CASE Answer(w)
      BY <3>1, Zenon DEF Answer, StepStatus
    <3>2. CASE WriteStep(w) /\ Exists(p)
      <4>1. worker[w].pend \in StepStatus
        BY <1>1 DEF WorkerRecords
      <4> QED
        BY <3>2, <4>1, Zenon DEF WriteStep, Row
    <3> QED
      BY <1>2, <3>1, <3>2
  <2>2. Exists(p) /\ i <= N /\ status'[p] # "absent"
    <3>1. CASE Answer(w)
      BY <1>1, <3>1 DEF Answer, SetStatus
    <3>2. CASE WriteStep(w) /\ Exists(p)
      <4>1. i <= N
        BY <3>2 DEF WriteStep, Typing, WorkerPlacesOK
      <4>2. PICK x \in StoredStatuses(worker[w].pend, p \in Tasks) : SetStatus(p, x)
        BY <3>2 DEF WriteStep, Row
      <4>3. x # "absent"
        <5>1. worker[w].pend \in StepStatus
          BY <1>1 DEF WorkerRecords
        <5> QED
          BY <4>2, <5>1 DEF StoredStatuses, OverallStatus, StepStatus
      <4> QED
        BY <1>1, <3>2, <4>1, <4>2, <4>3 DEF SetStatus
    <3> QED
      BY <1>2, <3>1, <3>2
  <2>3. i = StepCount(log[p]) + 1
    BY <1>1, <2>2 DEF AtNextStep, Positioned
  <2> DEFINE row == Row(<<i, 0>>, s, NoSub)
             new == WriteRow(log[p], row, FALSE, same)
  <2>4. row \in LogRow /\ row.step = <<StepCount(log[p]) + 1, 0>> /\ row.status = s
    BY <1>1, <2>3, RowOfStep DEF Row
  <2>5. log' = [log EXCEPT ![p] = new]
    BY <2>1
  <2> HIDE DEF row
  <2>6. Ordered(new)
    BY <1>1, <2>4, OrderedWritten
  <2>7. StepCount(new) = StepCount(log[p]) + (IF IsCleared(row) THEN 1 ELSE 0)
    BY <1>1, <2>4, WrittenCount
  <2>8. Continues(s) => IsCleared(row)
    BY <2>4 DEF Continues, IsCleared
  <2> HIDE DEF new
  <2>9. \A q \in Procs : Ordered(log'[q])
    BY <1>1, <2>5, <2>6 DEF InSequence
  <2> DEFINE r == [worker[w] EXCEPT !.pc = "loop", !.todo = i + 1, !.st = s]
  <2>10. r.pc = "loop" /\ r.todo = i + 1 /\ r.st = s /\ r.proc = p
    BY <1>1 DEF WorkerRecords
  <2>11. \A v \in Workers : worker'[v] = r
    BY <1>1, <2>1 DEF OneWorker
  <2> HIDE DEF r
  <2>12. Positioned(r, log'[p])
    <3>1. Continues(s) => StepCount(log'[p]) = i
      BY <1>1, <2>3, <2>5, <2>7, <2>8
    <3> QED
      BY <1>1, <2>10, <3>1 DEF Positioned
  <2>13. AtNextStep'
    BY <2>2, <2>10, <2>11, <2>12 DEF AtNextStep
  <2> QED
    BY <2>9, <2>13 DEF InSequence
<1>3. CASE WriteStep(w) /\ ~ Exists(p)
  <2>1. worker' = [worker EXCEPT ![w] = Free] /\ log' = log
    BY <1>3 DEF WriteStep
  <2>2. Free.pc = "idle"
    BY DEF Free
  <2> QED
    BY <2>1, <2>2, SerialWorker
<1> QED
  BY <1>2, <1>3

\* It holds before anything is done, and every step preserves it.
LEMMA SerialInit == Init => Serial
<1> SUFFICES ASSUME Init PROVE Serial
  OBVIOUS
<1>1. Ordered(<<>>)
  BY DEF Ordered, ClearedRows
<1>2. \A w \in Workers : worker[w].pc = "idle"
  BY DEF Init, Free
<1>3. \A c \in Clients : client[c].pc = "idle"
  BY DEF Init, Resting
<1> QED
  BY <1>1, <1>2, <1>3 DEF Init, Serial, InSequence, AtNextStep, NobodyAborts

LEMMA SerialNext ==
  ASSUME OneWorker, "abort" \notin Events
  PROVE  Typing /\ Serial /\ [Next]_vars => Serial'
<1> SUFFICES ASSUME Typing, Serial, [Next]_vars PROVE Serial'
  OBVIOUS
<1>1. ASSUME \/ \E u \in Users : UserCall(u) \/ Submit(u)
             \/ \E p \in Procs : Delete(p)
             \/ Sweep \/ Operator
             \/ \E c \in Clients : BrokerFails(c) \/ ClientCrash(c)
             \/ SweeperCrash
      PROVE  Serial'
  BY <1>1, SerialClients, SerialQuiet DEF Serial
<1>2. ASSUME NEW w \in Workers, Work(w) \/ WorkerCrash(w) PROVE Serial'
  <2>1. client' = client
    BY <1>2 DEF Work, TakeStart, TakeResume, Load, Claim, Answer, AnswerFails, Continue,
      RunStep, WriteStep, Leave, WorkerCrash
  <2>2. InSequence' /\ AtNextStep'
    BY <1>2, SerialMoves, SerialWrites DEF Work, Serial
  <2> QED
    BY <2>1, <2>2 DEF Serial, NobodyAborts
<1>3. CASE UNCHANGED vars
  BY <1>3 DEF vars, Serial, InSequence, AtNextStep, NobodyAborts, Exists
<1> QED
  BY <1>1, <1>2, <1>3 DEF Next, Failure

\* With one worker and no aborts, the rows of every process that count as done are
\* those of its first steps, in order and once, although messages are lost or
\* repeated and workers, clients and the clean-up task are killed at any moment.
THEOREM StepsLoggedInOrder ==
  ASSUME OneWorker, "abort" \notin Events
  PROVE  Spec => []LogInOrder
<1>1. Serial => LogInOrder
  BY DEF Serial, InSequence, Ordered, LogInOrder
<1>2. Typing /\ Serial /\ [Next]_vars => Serial'
  BY SerialNext
<1> QED
  BY <1>1, <1>2, SerialInit, TypingInvariant, PTL DEF Spec

=============================================================================
