--------------------------- MODULE Callback_proofs ---------------------------
(* What a callback posts is used for the attempt it was meant for, and once,  *)
(* for any number of calls, workers and attempts.                             *)
EXTENDS Callback, StepLog_proofs

-----------------------------------------------------------------------------
(* States carry data for their own token *)

\* A state is outside of the group or has a token that was generated, and data
\* in it was posted with that token.  (Cleanup removes the token, not the data.)
\* last: the last token that was generated.
GoodState(s, last) ==
  /\ s.stage = 0 <=> s.token = 0
  /\ s.token <= last
  /\ s.token # 0 => s.data \in {0, s.token}

\* A row that waits has a token.
GoodRow(row, last) ==
  /\ GoodState(row.state, last)
  /\ row.status \in {"suspend", "awaiting_callback"} => row.state.token # 0

GoodCall(record, last) ==
  /\ GoodState(record.copy, last)
  /\ record.pc = "read" => record.copy.token # 0

\* A worker enters the group with the data of the token it answers, or without.
GoodWorker(record, last) ==
  /\ GoodState(record.state, last)
  /\ record.pc = "group" => record.todo = 1
  /\ record.pc \in {"claim", "claimed", "group"} /\ record.todo = 1
       /\ record.state.stage = 0 => record.state.data = 0
  /\ record.pc = "leave" => record.st \in {"success", "failed", "awaiting_callback"}
  /\ record.pc = "leave" /\ record.st = "awaiting_callback" => record.state.token # 0

Matching ==
  /\ \A i \in DOMAIN rows : GoodRow(rows[i], token)
  /\ \A c \in Calls : GoodCall(call[c], token)
  /\ \A w \in Workers : GoodWorker(worker[w], token)
  /\ GoodState(sweep.copy, token)
  /\ \A s \in seen : s[1] <= token /\ s[2] \in {0, s[1]}
  /\ \A t \in Tokens : accepted[t] # 0 => t <= token

Typing == TypeOK /\ Matching

LogRows == [status : StepStatus, state : State]
CallRecord == [pc : {"idle", "read"}, row : Nat, copy : State]
WorkerRecord ==
  [pc : {"idle", "load", "claim", "claimed", "group", "leave", "done"},
   todo : 1..3, st : StepStatus, state : State,
   replace : BOOLEAN, age : 0..(Timeout + 1)]

-----------------------------------------------------------------------------
(* Rows *)

\* What the types say of states and records.
LEMMA StateType ==
  /\ Len(Stages) = 5
  /\ State = [stage : 0..5, token : 0..MaxToken, data : 0..MaxToken]
  /\ NoState \in State /\ \A last \in Nat : GoodState(NoState, last)
<1>1. Len(Stages) = 5
  BY DEF Stages
<1> QED
  BY <1>1, CallbackAssumption DEF State, NoState, GoodState

\* A state stays good when tokens are generated.
LEMMA GoodStays ==
  ASSUME NEW last \in Nat, NEW next \in Nat, last <= next
  PROVE  /\ \A s \in State : GoodState(s, last) => GoodState(s, next)
         /\ \A row \in LogRows : GoodRow(row, last) => GoodRow(row, next)
         /\ \A r \in CallRecord : GoodCall(r, last) => GoodCall(r, next)
         /\ \A r \in WorkerRecord : GoodWorker(r, last) => GoodWorker(r, next)
<1>1. ASSUME NEW s \in State, GoodState(s, last) PROVE GoodState(s, next)
  BY <1>1, StateType, CallbackAssumption DEF GoodState
<1>2. \A row \in LogRows : GoodRow(row, last) => GoodRow(row, next)
  BY <1>1 DEF GoodRow, LogRows
<1>3. \A r \in CallRecord : GoodCall(r, last) => GoodCall(r, next)
  BY <1>1 DEF GoodCall, CallRecord
<1>4. \A r \in WorkerRecord : GoodWorker(r, last) => GoodWorker(r, next)
  BY <1>1 DEF GoodWorker, WorkerRecord
<1> QED
  BY <1>1, <1>2, <1>3, <1>4

\* What load_process recovers.
LEMMA Recovered ==
  ASSUME Typing
  PROVE  /\ RecoveredState \in State /\ GoodState(RecoveredState, token)
         /\ RecoveredStatus(rows) \in StepStatus
         /\ RestFrom(rows, 2) \in 1..3
         /\ IsHalted(rows) => /\ rows # <<>> /\ RecoveredState = LastRow.state
                              /\ RecoveredStatus(rows) = LastRow.status
                              /\ LastRow \in LogRows /\ LastRow.state.token # 0
         /\ RestFrom(rows, 2) = 1 /\ ~ IsHalted(rows) => RecoveredState = NoState
         /\ rows = <<>> => RecoveredState = NoState
<1>1. rows \in Seq(LogRows) /\ token \in Nat
  BY CallbackAssumption DEF Typing, TypeOK, LogRows
<1>2. \A i \in 1..Len(rows) : rows[i] \in LogRows /\ GoodRow(rows[i], token)
  BY <1>1, ElementOfSeq, LenProperties DEF Typing, Matching
<1>3. /\ ClearedRows(rows) \in SUBSET (1..Len(rows))
      /\ IsFiniteSet(ClearedRows(rows)) /\ StepCount(rows) \in Nat
  BY <1>1, ClearedRowsFinite
<1>4. ClearedRows(rows) # {} => LastCleared(rows) \in 1..Len(rows)
  BY <1>1, <1>3, LastClearedIsLast
<1>5. rows # <<>> => Len(rows) \in 1..Len(rows)
  BY <1>1, EmptySeq
<1>6. IsHalted(rows) => /\ rows # <<>> /\ RecoveredState = LastRow.state
                        /\ RecoveredStatus(rows) = LastRow.status
                        /\ LastRow \in LogRows /\ GoodRow(LastRow, token)
                        /\ LastRow.status \in {"suspend", "awaiting_callback"}
  BY <1>2, <1>5 DEF IsHalted, RecoveredState, RecoveredStatus, LastRow
<1>7. ~ IsHalted(rows) /\ ClearedRows(rows) # {} =>
        /\ RecoveredState \in State /\ GoodState(RecoveredState, token)
        /\ RecoveredStatus(rows) \in StepStatus
  <2> SUFFICES ASSUME ~ IsHalted(rows), ClearedRows(rows) # {}
               PROVE  /\ RecoveredState \in State /\ GoodState(RecoveredState, token)
                      /\ RecoveredStatus(rows) \in StepStatus
    OBVIOUS
  <2>1. rows[LastCleared(rows)] \in LogRows /\ GoodRow(rows[LastCleared(rows)], token)
    BY <1>2, <1>4
  <2>2. /\ RecoveredState = rows[LastCleared(rows)].state
        /\ RecoveredStatus(rows) = rows[LastCleared(rows)].status
    BY DEF RecoveredState, RecoveredStatus
  <2> QED
    BY <2>1, <2>2 DEF GoodRow, LogRows
<1>8. ~ IsHalted(rows) /\ ClearedRows(rows) = {} =>
        RecoveredState = NoState /\ RecoveredStatus(rows) = "success"
  BY DEF RecoveredState, RecoveredStatus
<1>9. RestFrom(rows, 2) \in 1..3
  BY <1>3 DEF RestFrom
<1>10. RestFrom(rows, 2) = 1 => ClearedRows(rows) = {}
  <2> SUFFICES ASSUME RestFrom(rows, 2) = 1 PROVE ClearedRows(rows) = {}
    OBVIOUS
  <2>1. StepCount(rows) = 0
    BY <1>3 DEF RestFrom
  <2> QED
    BY <1>3, <2>1, FS_EmptySet DEF StepCount
<1>11. rows = <<>> => RecoveredState = NoState
  <2>1. rows = <<>> => ~ IsHalted(rows) /\ ClearedRows(rows) = {}
    BY DEF IsHalted, ClearedRows
  <2> QED
    BY <1>8, <2>1
<1>12. RecoveredState \in State /\ GoodState(RecoveredState, token)
         /\ RecoveredStatus(rows) \in StepStatus
  BY <1>1, <1>6, <1>7, <1>8, StateType DEF GoodRow, LogRows, StepStatus
<1> QED
  BY <1>6, <1>8, <1>9, <1>10, <1>11, <1>12 DEF GoodRow

\* Rows that are written are good if the new one is.
LEMMA RowsWritten ==
  ASSUME rows \in Seq(LogRows), NEW row \in LogRows, NEW replace \in BOOLEAN
  PROVE  \A new : new \in {Written(row, replace), Append(rows, row)} =>
           /\ new \in Seq(LogRows) /\ new # <<>> /\ new[Len(new)] = row
           /\ \A i \in DOMAIN new : new[i] = row \/ (i \in DOMAIN rows /\ new[i] = rows[i])
<1>1. /\ Append(rows, row) \in Seq(LogRows) /\ Append(rows, row) # <<>>
      /\ Len(Append(rows, row)) = Len(rows) + 1
      /\ \A i \in 1..Len(rows) : Append(rows, row)[i] = rows[i]
      /\ Append(rows, row)[Len(rows) + 1] = row
  BY AppendProperties
<1>2. DOMAIN rows = 1..Len(rows) /\ Len(rows) \in Nat
      /\ DOMAIN Append(rows, row) = 1..(Len(rows) + 1)
  BY <1>1, LenProperties
<1>3. \A i \in DOMAIN Append(rows, row) :
        \/ Append(rows, row)[i] = row
        \/ i \in DOMAIN rows /\ Append(rows, row)[i] = rows[i]
  BY <1>1, <1>2
<1>4. CASE replace /\ rows # <<>>
  <2> DEFINE new == [rows EXCEPT ![Len(rows)] = row]
  <2>1. Len(rows) \in 1..Len(rows)
    BY <1>4, EmptySeq
  <2>2. /\ new \in Seq(LogRows) /\ Len(new) = Len(rows)
        /\ \A j \in 1..Len(rows) : new[j] = IF j = Len(rows) THEN row ELSE rows[j]
    BY <2>1, ExceptSeq
  <2>3. Written(row, replace) = new
    BY <1>4 DEF Written
  <2> HIDE DEF new
  <2>4. DOMAIN new = 1..Len(rows) /\ new # <<>> /\ new[Len(new)] = row
    BY <2>1, <2>2, LenProperties, EmptySeq
  <2>5. \A i \in DOMAIN new : new[i] = row \/ (i \in DOMAIN rows /\ new[i] = rows[i])
    BY <1>2, <2>2, <2>4
  <2> QED
    BY <1>1, <1>3, <2>2, <2>3, <2>4, <2>5
<1>5. CASE ~ (replace /\ rows # <<>>)
  <2>1. Written(row, replace) = Append(rows, row)
    BY <1>5 DEF Written
  <2> QED
    BY <1>1, <1>3, <2>1
<1> QED
  BY <1>4, <1>5

-----------------------------------------------------------------------------
(* Typing is inductive *)

\* What the types and Matching say, in the names used here.
LEMMA TypingParts ==
  ASSUME Typing
  PROVE  /\ status \in ProcessStatus /\ rows \in Seq(LogRows) /\ queue \in Nat
         /\ call \in [Calls -> CallRecord] /\ worker \in [Workers -> WorkerRecord]
         /\ sweep \in [pc : {"idle", "found", "loaded"}, copy : State]
         /\ token \in 0..MaxToken /\ token \in Nat /\ MaxToken \in Nat
         /\ age \in 0..(Timeout + 1) /\ accepted \in [Tokens -> 0..2]
         /\ seen \in SUBSET (Tokens \X (0..MaxToken)) /\ raced \in BOOLEAN
         /\ \A i \in DOMAIN rows : rows[i] \in LogRows /\ GoodRow(rows[i], token)
         /\ \A c \in Calls : GoodCall(call[c], token)
         /\ \A w \in Workers : GoodWorker(worker[w], token)
<1>1. rows \in Seq(LogRows) /\ MaxToken \in Nat /\ token \in Nat
  BY CallbackAssumption DEF Typing, TypeOK, LogRows
<1>2. \A i \in DOMAIN rows : rows[i] \in LogRows
  BY <1>1, ElementOfSeq, LenProperties
<1> QED
  BY <1>1, <1>2 DEF Typing, TypeOK, Matching, CallRecord, WorkerRecord

\* Typing is established from its parts.
LEMMA TypingFrom ==
  ASSUME status' \in ProcessStatus, rows' \in Seq(LogRows), queue' \in Nat,
         call' \in [Calls -> CallRecord], worker' \in [Workers -> WorkerRecord],
         sweep' \in [pc : {"idle", "found", "loaded"}, copy : State],
         token' \in 0..MaxToken, age' \in 0..(Timeout + 1),
         accepted' \in [Tokens -> 0..2],
         seen' \in SUBSET (Tokens \X (0..MaxToken)), raced' \in BOOLEAN,
         \A i \in DOMAIN rows' : GoodRow(rows'[i], token'),
         \A c \in Calls : GoodCall(call'[c], token'),
         \A w \in Workers : GoodWorker(worker'[w], token'),
         GoodState(sweep'.copy, token'),
         \A s \in seen' : s[1] <= token' /\ s[2] \in {0, s[1]},
         \A t \in Tokens : accepted'[t] # 0 => t <= token'
  PROVE  Typing'
BY DEF Typing, TypeOK, Matching, LogRows, CallRecord, WorkerRecord

\* A worker gets a good record; a token may be generated.
LEMMA WorkerUpdate ==
  ASSUME Typing, NEW w \in Workers, NEW new \in WorkerRecord, GoodWorker(new, token'),
         token' \in Nat, token <= token', worker' = [worker EXCEPT ![w] = new]
  PROVE  /\ worker' \in [Workers -> WorkerRecord]
         /\ \A v \in Workers : GoodWorker(worker'[v], token')
<1>1. worker \in [Workers -> WorkerRecord] /\ token \in Nat
      /\ \A v \in Workers : GoodWorker(worker[v], token)
  BY TypingParts
<1>2. \A v \in Workers : GoodWorker(worker[v], token')
  BY <1>1, GoodStays
<1>3. \A v \in Workers : worker'[v] = IF v = w THEN new ELSE worker[v]
  BY <1>1
<1>4. worker' \in [Workers -> WorkerRecord]
  BY <1>1
<1> QED
  BY <1>2, <1>3, <1>4

\* A good row is written; a token may be generated.
LEMMA RowsUpdate ==
  ASSUME Typing, NEW row \in LogRows, GoodRow(row, token'), NEW replace \in BOOLEAN,
         token' \in Nat, token <= token',
         rows' \in {Written(row, replace), Append(rows, row)}
  PROVE  /\ rows' \in Seq(LogRows)
         /\ \A i \in DOMAIN rows' : GoodRow(rows'[i], token')
<1>1. /\ rows \in Seq(LogRows) /\ token \in Nat
      /\ \A i \in DOMAIN rows : rows[i] \in LogRows /\ GoodRow(rows[i], token)
  BY TypingParts
<1>2. \A i \in DOMAIN rows : GoodRow(rows[i], token')
  BY <1>1, GoodStays
<1>3. /\ rows' \in Seq(LogRows)
      /\ \A i \in DOMAIN rows' : rows'[i] = row \/ (i \in DOMAIN rows /\ rows'[i] = rows[i])
  BY <1>1, RowsWritten
<1> QED
  BY <1>2, <1>3

\* A call that ends writes a state with a token into a row.
LEMMA StateWritten ==
  ASSUME Typing, NEW k, NEW s \in State, GoodState(s, token), s.token # 0
  PROVE  LET new == [rows EXCEPT ![k].state = s] IN
           /\ new \in Seq(LogRows) /\ Len(new) = Len(rows)
           /\ \A i \in DOMAIN new :
                /\ GoodRow(new[i], token) /\ i \in DOMAIN rows
                /\ new[i] = IF i = k THEN Put(rows[i].status, s) ELSE rows[i]
<1> DEFINE new == [rows EXCEPT ![k].state = s]
<1>1. /\ rows \in Seq(LogRows) /\ DOMAIN rows = 1..Len(rows) /\ Len(rows) \in Nat
      /\ \A i \in DOMAIN rows : rows[i] \in LogRows /\ GoodRow(rows[i], token)
  BY TypingParts, LenProperties
<1>2. DOMAIN new = 1..Len(rows)
  BY <1>1
<1>3. \A i \in DOMAIN rows : new[i] = IF i = k THEN Put(rows[i].status, s) ELSE rows[i]
  <2> SUFFICES ASSUME NEW i \in DOMAIN rows
               PROVE  new[i] = IF i = k THEN Put(rows[i].status, s) ELSE rows[i]
    OBVIOUS
  <2>1. CASE i = k
    <3>1. new[i] = [rows[i] EXCEPT !.state = s]
      BY <2>1
    <3>2. rows[i] \in LogRows
      BY <1>1
    <3>3. new[i] = Put(rows[i].status, s)
      BY <3>1, <3>2 DEF LogRows, Put
    <3> QED
      BY <2>1, <3>3
  <2>2. CASE i # k
    BY <2>2
  <2> QED
    BY <2>1, <2>2
<1> HIDE DEF new
<1>4. \A i \in DOMAIN rows : new[i] \in LogRows /\ GoodRow(new[i], token)
  <2> SUFFICES ASSUME NEW i \in DOMAIN rows
               PROVE  new[i] \in LogRows /\ GoodRow(new[i], token)
    OBVIOUS
  <2>1. rows[i] \in LogRows /\ GoodRow(rows[i], token)
    BY <1>1
  <2>2. Put(rows[i].status, s) \in LogRows
    BY <2>1 DEF LogRows, Put
  <2>3. GoodRow(Put(rows[i].status, s), token)
    BY <2>1 DEF GoodRow, Put
  <2> QED
    BY <1>3, <2>1, <2>2, <2>3
<1>5. new = [i \in 1..Len(rows) |-> new[i]]
  <2>1. new = [i \in DOMAIN new |-> new[i]]
    BY DEF new
  <2> QED
    BY <1>2, <2>1
<1>6. new \in Seq(LogRows) /\ Len(new) = Len(rows)
  BY <1>1, <1>2, <1>4, <1>5, IsASeq, LenProperties
<1>7. /\ new \in Seq(LogRows) /\ Len(new) = Len(rows)
      /\ \A i \in DOMAIN new :
           /\ GoodRow(new[i], token) /\ i \in DOMAIN rows
           /\ new[i] = IF i = k THEN Put(rows[i].status, s) ELSE rows[i]
  BY <1>1, <1>2, <1>3, <1>4, <1>6
<1> QED
  BY <1>7 DEF new

\* What a sub step writes is good if its state is.
LEMMA SubWritten ==
  ASSUME Typing, NEW w \in Workers, NEW s \in {"success", "failed", "awaiting_callback"},
         NEW state \in State, token' \in Nat, token <= token', GoodState(state, token'),
         s = "awaiting_callback" => state.token # 0, worker[w].pc = "group",
         WriteSub(w, s, state)
  PROVE  /\ status' \in ProcessStatus /\ rows' \in Seq(LogRows)
         /\ \A i \in DOMAIN rows' : GoodRow(rows'[i], token')
         /\ age' \in 0..(Timeout + 1)
         /\ worker' \in [Workers -> WorkerRecord]
         /\ \A v \in Workers : GoodWorker(worker'[v], token')
<1> DEFINE new == [worker[w] EXCEPT
             !.pc = IF s = "success" /\ state.stage # 0 THEN "group" ELSE "leave",
             !.st = s, !.state = state, !.replace = TRUE]
<1>1. worker \in [Workers -> WorkerRecord] /\ worker[w] \in WorkerRecord
      /\ GoodWorker(worker[w], token)
  BY TypingParts
<1>2. new \in WorkerRecord
  BY <1>1 DEF WorkerRecord, StepStatus
<1>3. /\ new.state = state /\ new.st = s /\ new.todo = 1
      /\ new.pc = IF s = "success" /\ state.stage # 0 THEN "group" ELSE "leave"
  BY <1>1 DEF WorkerRecord, GoodWorker
<1>4. worker' = [worker EXCEPT ![w] = new]
  BY <1>1 DEF WriteSub, WorkerRecord
<1> HIDE DEF new
<1>5. GoodWorker(new, token')
  BY <1>3 DEF GoodWorker
<1>6. Put(s, state) \in LogRows /\ GoodRow(Put(s, state), token')
  BY DEF Put, LogRows, GoodRow, StepStatus
<1>7. rows' \in {Written(Put(s, state), worker[w].replace), Append(rows, Put(s, state))}
      /\ worker[w].replace \in BOOLEAN
  BY <1>1 DEF WriteSub, WorkerRecord
<1>8. /\ rows' \in Seq(LogRows)
      /\ \A i \in DOMAIN rows' : GoodRow(rows'[i], token')
  BY <1>6, <1>7, RowsUpdate
<1>9. /\ worker' \in [Workers -> WorkerRecord]
      /\ \A v \in Workers : GoodWorker(worker'[v], token')
  BY <1>2, <1>4, <1>5, WorkerUpdate
<1>10. status' \in ProcessStatus /\ age' \in 0..(Timeout + 1)
  BY CallbackAssumption DEF WriteSub, OverallStatus, ProcessStatus
<1> QED
  BY <1>8, <1>9, <1>10

\* What the loop does with a record: the worker leaves, or goes on with its state.
LEMMA Looped ==
  ASSUME NEW record \in WorkerRecord, NEW last \in Nat, GoodState(record.state, last),
         record.todo = 1 /\ record.state.stage = 0 => record.state.data = 0
  PROVE  Loop(record) \in WorkerRecord /\ GoodWorker(Loop(record), last)
<1>1. Free \in WorkerRecord /\ GoodWorker(Free, last)
  BY StateType, CallbackAssumption DEF Free, WorkerRecord, GoodWorker, StepStatus
<1> DEFINE pc == IF record.todo = 1 THEN "group" ELSE "done"
           new == [record EXCEPT !.pc = pc]
<1>2. new \in WorkerRecord /\ new.pc = pc /\ new.state = record.state
      /\ new.todo = record.todo
  BY DEF WorkerRecord
<1>3. Loop(record) = Free \/ Loop(record) = new
  BY DEF Loop
<1> HIDE DEF new
<1>4. GoodWorker(new, last)
  BY <1>2 DEF GoodWorker
<1> QED
  BY <1>1, <1>2, <1>3, <1>4

\* Typing holds before anything is done.
LEMMA TypingInit == Init => Typing
<1> SUFFICES ASSUME Init PROVE Typing
  OBVIOUS
<1>1. /\ NoState \in State /\ GoodState(NoState, 0) /\ MaxToken \in Nat
      /\ NoState.token = 0 /\ NoState.data = 0
  BY StateType, CallbackAssumption DEF NoState
<1>2. Free \in WorkerRecord /\ GoodWorker(Free, 0)
  BY <1>1, CallbackAssumption DEF Free, WorkerRecord, GoodWorker, StepStatus
<1>3. NoCall \in CallRecord /\ GoodCall(NoCall, 0)
  BY <1>1 DEF NoCall, CallRecord, GoodCall
<1>4. TypeOK
  <2>1. /\ call \in [Calls -> CallRecord] /\ worker \in [Workers -> WorkerRecord]
        /\ sweep \in [pc : {"idle", "found", "loaded"}, copy : State]
    BY <1>1, <1>2, <1>3 DEF Init, NoSweep
  <2>2. /\ rows \in Seq([status : StepStatus, state : State])
        /\ raced \in BOOLEAN
    BY EmptySeq DEF Init
  <2>5. seen \in SUBSET (Tokens \X (0..MaxToken))
    BY DEF Init
  <2>4. accepted \in [Tokens -> 0..2]
    BY DEF Init
  <2>3. /\ status \in ProcessStatus /\ queue \in Nat /\ token \in 0..MaxToken
        /\ age \in 0..(Timeout + 1)
    BY <1>1, CallbackAssumption DEF Init, ProcessStatus
  <2> QED
    BY <2>1, <2>2, <2>3, <2>4, <2>5 DEF TypeOK, CallRecord, WorkerRecord
<1>5. Matching
  BY <1>1, <1>2, <1>3 DEF Init, Matching, NoSweep
<1> QED
  BY <1>4, <1>5 DEF Typing

\* A call reads, a callback or a report is stored.
LEMMA TypingCalls ==
  ASSUME Typing, NEW c \in Calls,
         (\E t \in Tokens : Read(c, t)) \/ CommitCallback(c) \/ CommitProgress(c)
  PROVE  Typing'
<1>1. /\ call \in [Calls -> CallRecord] /\ call[c] \in CallRecord
      /\ GoodCall(call[c], token) /\ \A d \in Calls : GoodCall(call[d], token)
      /\ rows \in Seq(LogRows) /\ Len(rows) \in Nat
      /\ accepted \in [Tokens -> 0..2] /\ token \in 0..MaxToken /\ MaxToken \in Nat
  BY TypingParts, LenProperties
<1>2. NoCall \in CallRecord /\ GoodCall(NoCall, token)
  BY <1>1, StateType DEF NoCall, CallRecord, GoodCall
<1>3. CASE \E t \in Tokens : Read(c, t)
  <2>1. PICK t \in Tokens : Read(c, t)
    BY <1>3
  <2>2. RecoveredState \in State /\ GoodState(RecoveredState, token)
    BY Recovered
  <2> DEFINE new == [pc |-> "read", row |-> Len(rows), copy |-> RecoveredState]
  <2>3. new \in CallRecord /\ GoodCall(new, token)
    BY <1>1, <2>1, <2>2 DEF CallRecord, GoodCall, Read, Tokens
  <2>4. call' = [call EXCEPT ![c] = new]
    BY <2>1 DEF Read
  <2> HIDE DEF new
  <2>5. call' \in [Calls -> CallRecord] /\ \A d \in Calls : GoodCall(call'[d], token)
    BY <1>1, <2>3, <2>4
  <2>6. UNCHANGED <<status, rows, queue, worker, sweep, token, age, accepted, seen, raced>>
    BY <2>1 DEF Read, history
  <2> QED
    BY <2>5, <2>6 DEF Typing, TypeOK, Matching, CallRecord
<1>4. ASSUME call[c].pc = "read" PROVE call[c].copy.token \in Tokens
                                     /\ call[c].copy.token <= token
                                     /\ call[c].copy \in State
                                     /\ GoodState(call[c].copy, token)
  BY <1>1, <1>4, StateType DEF GoodCall, GoodState, CallRecord, Tokens
<1>5. ASSUME call' = [call EXCEPT ![c] = NoCall]
      PROVE  call' \in [Calls -> CallRecord] /\ \A d \in Calls : GoodCall(call'[d], token)
  BY <1>1, <1>2, <1>5
<1>6. CASE CommitCallback(c)
  <2> DEFINE s == [call[c].copy EXCEPT !.data = call[c].copy.token]
             t == call[c].copy.token
  <2>1. call[c].pc = "read" /\ rows' = [rows EXCEPT ![call[c].row].state = s]
    BY <1>6 DEF CommitCallback
  <2>2. s \in State /\ GoodState(s, token) /\ s.token # 0
    BY <1>1, <1>4, <2>1, StateType DEF GoodState, Tokens
  <2> HIDE DEF s
  <2>3. rows' \in Seq(LogRows) /\ \A i \in DOMAIN rows' : GoodRow(rows'[i], token)
    BY <2>1, <2>2, StateWritten
  <2>4. /\ accepted' = [accepted EXCEPT ![t] = IF @ = 0 THEN 1 ELSE 2]
        /\ t \in Tokens /\ t <= token
    BY <1>4, <1>6, <2>1 DEF CommitCallback
  <2> HIDE DEF t
  <2>5. /\ accepted' \in [Tokens -> 0..2]
        /\ \A u \in Tokens : u # t => accepted'[u] = accepted[u]
    BY <1>1, <2>4
  <2>6. \A u \in Tokens : accepted'[u] # 0 => u <= token
    BY <2>4, <2>5 DEF Typing, Matching
  <2>7. call' \in [Calls -> CallRecord] /\ \A d \in Calls : GoodCall(call'[d], token)
    BY <1>5, <1>6 DEF CommitCallback
  <2>8. /\ status' = "resumed" /\ queue' = queue + 1 /\ raced' = (raced \/ Overtaken(call[c].copy))
        /\ UNCHANGED <<worker, sweep, token, age, seen>>
    BY <1>6 DEF CommitCallback
  <2>9. /\ status' \in ProcessStatus /\ queue' \in Nat /\ raced' \in BOOLEAN
    BY <2>8, TypingParts DEF ProcessStatus
  <2> QED
    BY <2>3, <2>5, <2>6, <2>7, <2>8, <2>9 DEF Typing, TypeOK, Matching, LogRows, CallRecord
<1>7. CASE CommitProgress(c)
  <2>1. call[c].pc = "read" /\ rows' = [rows EXCEPT ![call[c].row].state = call[c].copy]
    BY <1>7 DEF CommitProgress
  <2>2. call[c].copy \in State /\ GoodState(call[c].copy, token) /\ call[c].copy.token # 0
    BY <1>4, <2>1 DEF Tokens
  <2>3. rows' \in Seq(LogRows) /\ \A i \in DOMAIN rows' : GoodRow(rows'[i], token)
    BY <2>1, <2>2, StateWritten
  <2>4. call' \in [Calls -> CallRecord] /\ \A d \in Calls : GoodCall(call'[d], token)
    BY <1>5, <1>7 DEF CommitProgress
  <2>5. /\ raced' = (raced \/ Overtaken(call[c].copy))
        /\ UNCHANGED <<status, queue, worker, sweep, token, age, accepted, seen>>
    BY <1>7 DEF CommitProgress, history
  <2>6. raced' \in BOOLEAN
    BY <2>5, TypingParts
  <2> QED
    BY <2>3, <2>4, <2>5, <2>6 DEF Typing, TypeOK, Matching, LogRows, CallRecord
<1> QED
  BY <1>3, <1>6, <1>7

\* A user resumes or aborts.
LEMMA TypingUsers == Typing /\ (Resume \/ Abort) => Typing'
<1> SUFFICES ASSUME Typing, Resume \/ Abort PROVE Typing'
  OBVIOUS
<1>1. CASE Resume
  <2>1. /\ status' = "resumed" /\ queue' = queue + 1
        /\ UNCHANGED <<rows, call, worker, sweep, token, age, accepted, seen, raced>>
    BY <1>1 DEF Resume, history
  <2>2. status' \in ProcessStatus /\ queue' \in Nat
    BY <2>1, TypingParts DEF ProcessStatus
  <2> QED
    BY <2>1, <2>2 DEF Typing, TypeOK, Matching
<1>2. CASE Abort
  <2>1. /\ status' = "aborted" /\ rows' = Append(rows, Put("abort", RecoveredState))
        /\ UNCHANGED <<queue, call, worker, sweep, token, age, accepted, seen, raced>>
    BY <1>2 DEF Abort, history
  <2>2. Put("abort", RecoveredState) \in LogRows /\ GoodRow(Put("abort", RecoveredState), token)
    BY Recovered DEF Put, LogRows, GoodRow, StepStatus
  <2>3. token' \in Nat /\ token <= token'
    BY <2>1, TypingParts
  <2>4. rows' \in Seq(LogRows) /\ \A i \in DOMAIN rows' : GoodRow(rows'[i], token')
    BY <2>1, <2>2, <2>3, RowsUpdate
  <2>5. status' \in ProcessStatus
    BY <2>1 DEF ProcessStatus
  <2> QED
    BY <2>1, <2>4, <2>5 DEF Typing, TypeOK, Matching, LogRows
<1> QED
  BY <1>1, <1>2

\* A worker takes a message, loads and claims the process, and goes on.
LEMMA TypingStarts ==
  ASSUME Typing, NEW w \in Workers,
         Take(w) \/ Load(w) \/ Claim(w) \/ Answer(w) \/ Continue(w)
  PROVE  Typing'
<1>1. /\ worker \in [Workers -> WorkerRecord] /\ worker[w] \in WorkerRecord
      /\ GoodWorker(worker[w], token) /\ token \in Nat /\ token <= token
      /\ rows \in Seq(LogRows) /\ queue \in Nat
  BY TypingParts
<1>2. Free \in WorkerRecord /\ GoodState(Free.state, token) /\ Free.state = NoState
      /\ Free.todo = 1
  BY <1>1, StateType, CallbackAssumption DEF Free, WorkerRecord, StepStatus
<1>3. CASE Take(w)
  <2> DEFINE new == IF status = "resumed" THEN [Free EXCEPT !.pc = "load"] ELSE Free
  <2>1. new \in WorkerRecord /\ new.state = NoState /\ new.pc \in {"load", "idle"}
    BY <1>2 DEF WorkerRecord, Free
  <2>2. /\ queue' = queue - 1 /\ queue > 0 /\ worker' = [worker EXCEPT ![w] = new]
        /\ UNCHANGED <<status, rows, call, sweep, token, age, accepted, seen, raced>>
    BY <1>3 DEF Take, history
  <2> HIDE DEF new
  <2>3. GoodWorker(new, token)
    BY <1>1, <2>1, StateType DEF GoodWorker
  <2>4. /\ worker' \in [Workers -> WorkerRecord]
        /\ \A v \in Workers : GoodWorker(worker'[v], token')
    BY <1>1, <2>1, <2>2, <2>3, WorkerUpdate
  <2>5. queue' \in Nat
    BY <1>1, <2>2
  <2> QED
    BY <2>2, <2>4, <2>5 DEF Typing, TypeOK, Matching, WorkerRecord
<1>4. CASE Load(w)
  <2> DEFINE new == [Free EXCEPT !.pc = "claim", !.todo = RestFrom(rows, 2),
                       !.st = RecoveredStatus(rows), !.state = RecoveredState]
  <2>1. /\ RecoveredState \in State /\ GoodState(RecoveredState, token)
        /\ RecoveredStatus(rows) \in StepStatus /\ RestFrom(rows, 2) \in 1..3
    BY Recovered
  <2>2. /\ new \in WorkerRecord /\ new.state = RecoveredState /\ new.pc = "claim"
        /\ new.todo = RestFrom(rows, 2)
    BY <1>2, <2>1 DEF WorkerRecord, Free
  <2>3. /\ worker' = [worker EXCEPT ![w] = new]
        /\ UNCHANGED <<status, rows, queue, call, sweep, token, age, accepted, seen, raced>>
    BY <1>4 DEF Load, history
  <2> HIDE DEF new
  <2>4. RestFrom(rows, 2) = 1 /\ RecoveredState.stage = 0 => RecoveredState.data = 0
    <3>1. CASE IsHalted(rows)
      <4>1. RecoveredState.token # 0
        BY <3>1, Recovered
      <4> QED
        BY <2>1, <4>1 DEF GoodState
    <3>2. CASE ~ IsHalted(rows)
      BY <3>2, Recovered DEF NoState
    <3> QED
      BY <3>1, <3>2
  <2>5. GoodWorker(new, token)
    BY <2>1, <2>2, <2>4 DEF GoodWorker
  <2>6. /\ worker' \in [Workers -> WorkerRecord]
        /\ \A v \in Workers : GoodWorker(worker'[v], token')
    BY <1>1, <2>2, <2>3, <2>5, WorkerUpdate
  <2> QED
    BY <2>3, <2>6 DEF Typing, TypeOK, Matching, WorkerRecord
<1>5. CASE Claim(w)
  <2> DEFINE new == [worker[w] EXCEPT !.pc = "claimed"]
  <2>1. /\ new \in WorkerRecord /\ new.state = worker[w].state /\ new.pc = "claimed"
        /\ new.todo = worker[w].todo
    BY <1>1 DEF WorkerRecord
  <2>2. /\ worker' = [worker EXCEPT ![w] = new] /\ status' = "running"
        /\ worker[w].pc = "claim"
        /\ UNCHANGED <<rows, queue, call, sweep, token, age, accepted, seen, raced>>
    BY <1>5 DEF Claim, history
  <2> HIDE DEF new
  <2>3. GoodWorker(new, token)
    BY <1>1, <2>1, <2>2 DEF GoodWorker
  <2>4. /\ worker' \in [Workers -> WorkerRecord]
        /\ \A v \in Workers : GoodWorker(worker'[v], token')
    BY <1>1, <2>1, <2>2, <2>3, WorkerUpdate
  <2>5. status' \in ProcessStatus
    BY <2>2 DEF ProcessStatus
  <2> QED
    BY <2>2, <2>4, <2>5 DEF Typing, TypeOK, Matching, WorkerRecord
<1>6. ASSUME NEW record \in WorkerRecord, record.state = worker[w].state,
             record.todo = worker[w].todo, worker[w].pc = "claimed",
             worker' = [worker EXCEPT ![w] = Loop(record)], token' = token
      PROVE  /\ worker' \in [Workers -> WorkerRecord]
             /\ \A v \in Workers : GoodWorker(worker'[v], token')
  <2>1. /\ GoodState(record.state, token)
        /\ record.todo = 1 /\ record.state.stage = 0 => record.state.data = 0
    BY <1>1, <1>6 DEF GoodWorker
  <2>2. Loop(record) \in WorkerRecord /\ GoodWorker(Loop(record), token)
    BY <1>1, <2>1, Looped
  <2> QED
    BY <1>1, <1>6, <2>2, WorkerUpdate
<1>7. CASE Answer(w)
  <2> DEFINE record == [worker[w] EXCEPT !.st = "success", !.replace = TRUE]
  <2>1. /\ record \in WorkerRecord /\ record.state = worker[w].state
        /\ record.todo = worker[w].todo
    BY <1>1 DEF WorkerRecord, StepStatus
  <2>2. /\ worker' = [worker EXCEPT ![w] = Loop(record)]
        /\ worker[w].pc = "claimed" /\ status' = "running" /\ age' = 0
        /\ rows' = Append(rows, Put("success", worker[w].state))
        /\ UNCHANGED <<queue, call, sweep, token, accepted, seen, raced>>
    BY <1>1, <1>7 DEF Answer, history
  <2> HIDE DEF record
  <2>3. /\ worker' \in [Workers -> WorkerRecord]
        /\ \A v \in Workers : GoodWorker(worker'[v], token')
    BY <1>6, <2>1, <2>2
  <2>4. /\ Put("success", worker[w].state) \in LogRows
        /\ GoodRow(Put("success", worker[w].state), token)
    BY <1>1 DEF Put, LogRows, GoodRow, StepStatus, WorkerRecord, GoodWorker
  <2>5. rows' \in Seq(LogRows) /\ \A i \in DOMAIN rows' : GoodRow(rows'[i], token')
    BY <1>1, <2>2, <2>4, RowsUpdate
  <2>6. status' \in ProcessStatus /\ age' \in 0..(Timeout + 1)
    BY <2>2, CallbackAssumption DEF ProcessStatus
  <2> QED
    BY <2>2, <2>3, <2>5, <2>6 DEF Typing, TypeOK, Matching, WorkerRecord, LogRows
<1>8. CASE Continue(w)
  <2> DEFINE record == [worker[w] EXCEPT !.st = ResumeStatus(worker[w].st)]
  <2>1. /\ record \in WorkerRecord /\ record.state = worker[w].state
        /\ record.todo = worker[w].todo
    BY <1>1 DEF WorkerRecord, StepStatus, ResumeStatus
  <2>2. worker[w].pc = "claimed" /\
        UNCHANGED <<status, rows, queue, call, sweep, token, age, accepted, seen, raced>>
    BY <1>8 DEF Continue, history
  <2>4. worker' = [worker EXCEPT ![w] = Loop(record)]
    BY <1>8 DEF Continue
  <2> HIDE DEF record
  <2>3. /\ worker' \in [Workers -> WorkerRecord]
        /\ \A v \in Workers : GoodWorker(worker'[v], token')
    BY <1>6, <2>1, <2>2, <2>4
  <2> QED
    BY <2>2, <2>3 DEF Typing, TypeOK, Matching, WorkerRecord
<1> QED
  BY <1>3, <1>4, <1>5, <1>7, <1>8

\* The sub steps of the group.
LEMMA TypingSubSteps ==
  ASSUME Typing, NEW w \in Workers,
         CreateEndpoint(w) \/ CallService(w) \/ Await(w) \/ Validate(w) \/ Cleanup(w)
  PROVE  Typing'
<1> DEFINE old == worker[w].state
<1>1. /\ worker \in [Workers -> WorkerRecord] /\ worker[w] \in WorkerRecord
      /\ GoodWorker(worker[w], token) /\ token \in 0..MaxToken /\ token \in Nat
      /\ MaxToken \in Nat /\ old \in State /\ GoodState(old, token)
  BY TypingParts DEF WorkerRecord, GoodWorker
<1>2. State = [stage : 0..5, token : 0..MaxToken, data : 0..MaxToken]
      /\ NoState \in State /\ GoodState(NoState, token)
  BY <1>1, StateType
<1> HIDE DEF old
<1>3. ASSUME NEW s \in {"success", "failed", "awaiting_callback"}, NEW state \in State,
             GoodState(state, token'), s = "awaiting_callback" => state.token # 0,
             worker[w].pc = "group", WriteSub(w, s, state),
             token' \in 0..MaxToken, token <= token',
             accepted' = accepted, seen' = seen
      PROVE  Typing'
  <2>1. token' \in Nat
    BY <1>1, <1>3
  <2>2. /\ status' \in ProcessStatus /\ rows' \in Seq(LogRows)
        /\ \A i \in DOMAIN rows' : GoodRow(rows'[i], token')
        /\ age' \in 0..(Timeout + 1)
        /\ worker' \in [Workers -> WorkerRecord]
        /\ \A v \in Workers : GoodWorker(worker'[v], token')
    BY <1>3, <2>1, SubWritten
  <2>3. UNCHANGED <<queue, call, sweep, raced>>
    BY <1>3 DEF WriteSub
  <2>4. /\ \A c \in Calls : GoodCall(call[c], token) /\ call[c] \in CallRecord
        /\ call \in [Calls -> CallRecord]
        /\ sweep \in [pc : {"idle", "found", "loaded"}, copy : State]
        /\ GoodState(sweep.copy, token) /\ sweep.copy \in State
        /\ \A u \in seen : u[1] <= token /\ u[2] \in {0, u[1]}
        /\ \A t \in Tokens : accepted[t] # 0 => t <= token
        /\ seen \in SUBSET (Tokens \X (0..MaxToken))
    BY TypingParts DEF Typing, Matching
  <2>5. \A c \in Calls : GoodCall(call[c], token')
    BY <1>1, <1>3, <2>1, <2>4, GoodStays
  <2>6. GoodState(sweep.copy, token')
    BY <1>1, <1>3, <2>1, <2>4, GoodStays
  <2>7. \A u \in seen : u[1] <= token' /\ u[2] \in {0, u[1]}
    <3>1. \A u \in seen : u[1] \in Nat
      BY <1>1, <2>4 DEF Tokens
    <3> QED
      BY <1>1, <1>3, <2>1, <2>4, <3>1
  <2>8. \A t \in Tokens : accepted[t] # 0 => t <= token'
    BY <1>1, <1>3, <2>1, <2>4 DEF Tokens
  <2> QED
    BY <1>3, <2>2, <2>3, <2>4, <2>5, <2>6, <2>7, <2>8 DEF Typing, TypeOK, Matching,
       LogRows, CallRecord, WorkerRecord
<1>4. CASE CreateEndpoint(w)
  <2> DEFINE state == [old EXCEPT !.stage = 1, !.token = token']
  <2>1. /\ worker[w].pc = "group" /\ old.stage = 0 /\ token < MaxToken /\ token' = token + 1
        /\ WriteSub(w, "success", state) /\ accepted' = accepted /\ seen' = seen
    BY <1>4 DEF CreateEndpoint, SubStep, history, old
  <2>2. old.data = 0
    BY <1>1, <2>1 DEF GoodWorker, old
  <2>3. token' \in 0..MaxToken /\ token <= token'
    BY <1>1, <2>1
  <2>4. state \in State /\ state.stage = 1 /\ state.token = token' /\ state.data = 0
    <3>1. 1 \in 0..Len(Stages)
      BY StateType
    <3>2. state \in State
      BY <1>1, <2>3, <3>1 DEF State, state
    <3>3. state.stage = 1 /\ state.token = token' /\ state.data = old.data
      BY <1>1 DEF State, state
    <3> QED
      BY <2>2, <3>2, <3>3
  <2> HIDE DEF state
  <2>5. GoodState(state, token')
    BY <1>1, <2>1, <2>3, <2>4 DEF GoodState
  <2> QED
    BY <1>3, <2>1, <2>3, <2>4, <2>5
<1>5. CASE CallService(w)
  <2>1. /\ worker[w].pc = "group" /\ old.stage = 1 /\ token' = token
        /\ accepted' = accepted /\ seen' = seen
        /\ \/ WriteSub(w, "success", [old EXCEPT !.stage = 2])
           \/ WriteSub(w, "failed", NoState)
    BY <1>5 DEF CallService, SubStep, history, old
  <2>2. [old EXCEPT !.stage = 2] \in State /\ GoodState([old EXCEPT !.stage = 2], token)
    BY <1>1, <1>2, <2>1 DEF GoodState
  <2> QED
    BY <1>1, <1>2, <1>3, <2>1, <2>2
<1>6. CASE Await(w)
  <2>1. /\ worker[w].pc = "group" /\ old.stage = 2 /\ token' = token
        /\ accepted' = accepted /\ seen' = seen
        /\ WriteSub(w, "awaiting_callback", [old EXCEPT !.stage = 3])
    BY <1>6 DEF Await, SubStep, history, old
  <2>2. /\ [old EXCEPT !.stage = 3] \in State /\ GoodState([old EXCEPT !.stage = 3], token)
        /\ [old EXCEPT !.stage = 3].token # 0
    BY <1>1, <1>2, <2>1 DEF GoodState
  <2>3. token' \in 0..MaxToken /\ token <= token'
    BY <1>1, <2>1
  <2> DEFINE state == [old EXCEPT !.stage = 3]
  <2> HIDE DEF state
  <2>4. /\ state \in State /\ GoodState(state, token') /\ state.token # 0
        /\ WriteSub(w, "awaiting_callback", state)
    BY <2>1, <2>2 DEF state
  <2> QED
    BY <1>3, <2>1, <2>3, <2>4
<1>7. CASE Cleanup(w)
  <2>1. /\ worker[w].pc = "group" /\ token' = token
        /\ accepted' = accepted /\ seen' = seen
        /\ WriteSub(w, "success", [old EXCEPT !.stage = 0, !.token = 0])
    BY <1>7 DEF Cleanup, SubStep, history, old
  <2>2. /\ [old EXCEPT !.stage = 0, !.token = 0] \in State
        /\ GoodState([old EXCEPT !.stage = 0, !.token = 0], token)
    <3> DEFINE new == [old EXCEPT !.stage = 0, !.token = 0]
    <3>1. 0 \in 0..Len(Stages) /\ 0 \in 0..MaxToken
      BY <1>1, StateType
    <3>2. new \in State /\ new.stage = 0 /\ new.token = 0
      BY <1>1, <3>1 DEF State, new
    <3> HIDE DEF new
    <3>3. GoodState(new, token)
      BY <1>1, <3>2 DEF GoodState
    <3> QED
      BY <3>2, <3>3 DEF new
  <2> QED
    BY <1>1, <1>3, <2>1, <2>2
<1>8. CASE Validate(w)
  <2>1. /\ worker[w].pc = "group" /\ old.stage = 3 /\ token' = token
        /\ accepted' = accepted /\ seen' = seen \cup {<<old.token, old.data>>}
        /\ \/ WriteSub(w, "success", [old EXCEPT !.stage = 4])
           \/ WriteSub(w, "failed", NoState)
    BY <1>8 DEF Validate, SubStep, history, old
  <2>2. [old EXCEPT !.stage = 4] \in State /\ GoodState([old EXCEPT !.stage = 4], token)
    BY <1>1, <1>2, <2>1 DEF GoodState
  <2>3. PICK s \in {"success", "failed"}, state \in {[old EXCEPT !.stage = 4], NoState} :
          WriteSub(w, s, state)
    BY <2>1
  <2>4. /\ status' \in ProcessStatus /\ rows' \in Seq(LogRows)
        /\ \A i \in DOMAIN rows' : GoodRow(rows'[i], token')
        /\ age' \in 0..(Timeout + 1)
        /\ worker' \in [Workers -> WorkerRecord]
        /\ \A v \in Workers : GoodWorker(worker'[v], token')
    <3>1. state \in State /\ GoodState(state, token') /\ token' \in Nat /\ token <= token'
      BY <1>1, <1>2, <2>1, <2>2, <2>3
    <3>2. s \in {"success", "failed", "awaiting_callback"} /\ s # "awaiting_callback"
      BY <2>3
    <3> QED
      BY <2>1, <2>3, <3>1, <3>2, SubWritten
  <2>5. /\ old.token \in Tokens /\ old.token <= token /\ old.data \in 0..MaxToken
        /\ old.data \in {0, old.token}
    BY <1>1, <1>2, <2>1 DEF GoodState, Tokens
  <2>6. UNCHANGED <<queue, call, sweep, raced>>
    BY <2>3 DEF WriteSub
  <2>7. /\ seen' \in SUBSET (Tokens \X (0..MaxToken))
        /\ \A u \in seen' : u[1] <= token /\ u[2] \in {0, u[1]}
    BY <2>1, <2>5, TypingParts DEF Typing, Matching
  <2> QED
    BY <2>1, <2>4, <2>6, <2>7 DEF Typing, TypeOK, Matching, LogRows, CallRecord, WorkerRecord
<1> QED
  BY <1>4, <1>5, <1>6, <1>7, <1>8

\* A worker leaves the group, or finishes the process.
LEMMA TypingEnds ==
  ASSUME Typing, NEW w \in Workers, LeaveGroup(w) \/ Finish(w)
  PROVE  Typing'
<1>1. /\ worker \in [Workers -> WorkerRecord] /\ worker[w] \in WorkerRecord
      /\ GoodWorker(worker[w], token) /\ token \in Nat /\ token <= token
      /\ worker[w].state \in State /\ GoodState(worker[w].state, token)
  BY TypingParts DEF WorkerRecord, GoodWorker
<1>2. CASE LeaveGroup(w)
  <2> DEFINE row == Put(worker[w].st, worker[w].state)
             record == [worker[w] EXCEPT !.todo = 2, !.age = 0]
  <2>1. /\ worker[w].pc = "leave" /\ rows' = Written(row, TRUE)
        /\ status' = OverallStatus[worker[w].st] /\ age' = worker[w].age
        /\ worker' = [worker EXCEPT ![w] = Loop(record)]
        /\ raced' = (raced \/ LastRow # row \/ status # status')
        /\ UNCHANGED <<queue, call, sweep, token, accepted, seen>>
    BY <1>2 DEF LeaveGroup, history, Put
  <2>2. record \in WorkerRecord /\ record.todo = 2 /\ record.state = worker[w].state
    <3>1. 0 \in 0..(Timeout + 1) /\ 2 \in 1..3
      BY CallbackAssumption
    <3> QED
      BY <1>1, <3>1 DEF WorkerRecord
  <2> HIDE DEF record
  <2>3. Loop(record) \in WorkerRecord /\ GoodWorker(Loop(record), token)
    BY <1>1, <2>2, Looped
  <2>4. /\ worker' \in [Workers -> WorkerRecord]
        /\ \A v \in Workers : GoodWorker(worker'[v], token')
    BY <1>1, <2>1, <2>3, WorkerUpdate
  <2>5. row \in LogRows /\ GoodRow(row, token)
    BY <1>1, <2>1 DEF Put, LogRows, GoodRow, GoodWorker, StepStatus
  <2> HIDE DEF row
  <2>6. rows' \in Seq(LogRows) /\ \A i \in DOMAIN rows' : GoodRow(rows'[i], token')
    BY <1>1, <2>1, <2>5, RowsUpdate
  <2>7. status' \in ProcessStatus /\ age' \in 0..(Timeout + 1) /\ raced' \in BOOLEAN
    <3>1. worker[w].st \in {"success", "failed", "awaiting_callback"}
      BY <1>1, <2>1 DEF GoodWorker
    <3>2. status' \in ProcessStatus
      BY <2>1, <3>1 DEF OverallStatus, ProcessStatus
    <3>3. raced' \in BOOLEAN
      BY <2>1
    <3> QED
      BY <1>1, <2>1, <3>2, <3>3 DEF WorkerRecord
  <2> QED
    BY <2>1, <2>4, <2>6, <2>7 DEF Typing, TypeOK, Matching, WorkerRecord, LogRows
<1>3. CASE Finish(w)
  <2>1. /\ rows' = Append(rows, Put("complete", worker[w].state))
        /\ status' = "completed" /\ age' = 0 /\ worker' = [worker EXCEPT ![w] = Free]
        /\ UNCHANGED <<queue, call, sweep, token, accepted, seen, raced>>
    BY <1>3 DEF Finish, history
  <2>2. Free \in WorkerRecord /\ GoodWorker(Free, token)
    BY <1>1, StateType, CallbackAssumption DEF Free, WorkerRecord, GoodWorker, StepStatus
  <2>3. /\ worker' \in [Workers -> WorkerRecord]
        /\ \A v \in Workers : GoodWorker(worker'[v], token')
    BY <1>1, <2>1, <2>2, WorkerUpdate
  <2>4. /\ Put("complete", worker[w].state) \in LogRows
        /\ GoodRow(Put("complete", worker[w].state), token)
    BY <1>1 DEF Put, LogRows, GoodRow, StepStatus
  <2>5. rows' \in Seq(LogRows) /\ \A i \in DOMAIN rows' : GoodRow(rows'[i], token')
    BY <1>1, <2>1, <2>4, RowsUpdate
  <2>6. status' \in ProcessStatus /\ age' \in 0..(Timeout + 1)
    BY <2>1, CallbackAssumption DEF ProcessStatus
  <2> QED
    BY <2>1, <2>3, <2>5, <2>6 DEF Typing, TypeOK, Matching, WorkerRecord, LogRows
<1> QED
  BY <1>2, <1>3

\* The task finds, loads and fails.
LEMMA TypingSweep == Typing /\ Sweep => Typing'
<1> SUFFICES ASSUME Typing, Sweep PROVE Typing'
  OBVIOUS
<1>1. /\ sweep \in [pc : {"idle", "found", "loaded"}, copy : State] /\ sweep.copy \in State
      /\ GoodState(sweep.copy, token) /\ NoState \in State /\ GoodState(NoState, token)
      /\ token \in Nat /\ token <= token /\ rows \in Seq(LogRows)
  BY TypingParts, StateType DEF Typing, Matching
<1>2. CASE SweepFind
  <2>1. /\ sweep' = [sweep EXCEPT !.pc = "found"]
        /\ UNCHANGED <<status, rows, queue, call, worker, token, age, accepted, seen, raced>>
    BY <1>2 DEF SweepFind, history
  <2>2. /\ sweep' \in [pc : {"idle", "found", "loaded"}, copy : State]
        /\ sweep'.copy = sweep.copy
    BY <1>1, <2>1
  <2> QED
    BY <1>1, <2>1, <2>2 DEF Typing, TypeOK, Matching
<1>3. CASE SweepLoad
  <2>1. /\ sweep' = IF status = "awaiting_callback" /\ IsHalted(rows)
                    THEN [pc |-> "loaded", copy |-> LastRow.state] ELSE NoSweep
        /\ UNCHANGED <<status, rows, queue, call, worker, token, age, accepted, seen, raced>>
    BY <1>3 DEF SweepLoad, history
  <2>2. /\ sweep' \in [pc : {"idle", "found", "loaded"}, copy : State]
        /\ GoodState(sweep'.copy, token)
    <3>1. CASE status = "awaiting_callback" /\ IsHalted(rows)
      <4>1. LastRow.state \in State /\ GoodState(LastRow.state, token)
        BY <3>1, Recovered
      <4> QED
        BY <2>1, <3>1, <4>1
    <3>2. CASE ~ (status = "awaiting_callback" /\ IsHalted(rows))
      BY <1>1, <2>1, <3>2 DEF NoSweep
    <3> QED
      BY <3>1, <3>2
  <2> QED
    BY <2>1, <2>2 DEF Typing, TypeOK, Matching
<1>4. CASE SweepFail
  <2>1. /\ rows' = Written(Put("failed", sweep.copy), TRUE) /\ status' = "failed" /\ age' = 0
        /\ sweep' = NoSweep /\ raced' = (raced \/ Overtaken(sweep.copy))
        /\ UNCHANGED <<queue, call, worker, token, accepted, seen>>
    BY <1>4 DEF SweepFail, history
  <2>2. /\ sweep' \in [pc : {"idle", "found", "loaded"}, copy : State]
        /\ GoodState(sweep'.copy, token)
    BY <1>1, <2>1 DEF NoSweep
  <2>3. /\ Put("failed", sweep.copy) \in LogRows
        /\ GoodRow(Put("failed", sweep.copy), token)
    BY <1>1 DEF Put, LogRows, GoodRow, StepStatus
  <2>4. rows' \in Seq(LogRows) /\ \A i \in DOMAIN rows' : GoodRow(rows'[i], token')
    BY <1>1, <2>1, <2>3, RowsUpdate
  <2>5. status' \in ProcessStatus /\ age' \in 0..(Timeout + 1)
    BY <2>1, CallbackAssumption DEF ProcessStatus
  <2>6. raced' \in BOOLEAN
    BY <2>1, TypingParts
  <2> QED
    BY <2>1, <2>2, <2>4, <2>5, <2>6 DEF Typing, TypeOK, Matching, LogRows
<1> QED
  BY <1>2, <1>3, <1>4 DEF Sweep

\* Time passes.
LEMMA TypingTick == Typing /\ Tick => Typing'
<1> SUFFICES ASSUME Typing, Tick PROVE Typing'
  OBVIOUS
<1>1. /\ worker \in [Workers -> WorkerRecord] /\ age \in 0..(Timeout + 1)
      /\ \A w \in Workers : worker[w] \in WorkerRecord /\ GoodWorker(worker[w], token)
  BY TypingParts
<1>2. \A time \in 0..(Timeout + 1) : Later(time) \in 0..(Timeout + 1)
  BY CallbackAssumption DEF Later
<1>3. age' \in 0..(Timeout + 1)
  BY <1>1, <1>2 DEF Tick
<1>4. ASSUME NEW w \in Workers
      PROVE  /\ worker'[w] \in WorkerRecord
             /\ worker'[w].pc = worker[w].pc /\ worker'[w].state = worker[w].state
             /\ worker'[w].st = worker[w].st /\ worker'[w].todo = worker[w].todo
  <2>1. worker'[w] = worker[w] \/ worker'[w] = [worker[w] EXCEPT !.age = Later(worker[w].age)]
    BY DEF Tick
  <2>2. Later(worker[w].age) \in 0..(Timeout + 1)
    BY <1>1, <1>2 DEF WorkerRecord
  <2> QED
    BY <1>1, <2>1, <2>2 DEF WorkerRecord
<1>5. \A w \in Workers : GoodWorker(worker'[w], token)
  BY <1>1, <1>4 DEF GoodWorker
<1>6. worker' \in [Workers -> WorkerRecord]
  <2>1. worker' = [w \in Workers |-> worker'[w]]
    BY DEF Tick
  <2> QED
    BY <1>4, <2>1
<1>7. UNCHANGED <<status, rows, queue, call, sweep, token, accepted, seen, raced>>
  BY DEF Tick
<1> QED
  BY <1>3, <1>5, <1>6, <1>7 DEF Typing, TypeOK, Matching, WorkerRecord

\* Every step preserves Typing.
LEMMA TypingNext == Typing /\ [Next]_vars => Typing'
<1> SUFFICES ASSUME Typing, [Next]_vars PROVE Typing'
  OBVIOUS
<1>1. CASE UNCHANGED vars
  BY <1>1 DEF vars, Typing, TypeOK, Matching
<1>2. ASSUME NEW c \in Calls, (\E t \in Tokens : Read(c, t)) \/ Commit(c) PROVE Typing'
  BY <1>2, TypingCalls DEF Commit
<1>3. ASSUME NEW w \in Workers, WorkerStep(w) PROVE Typing'
  BY <1>3, TypingStarts, TypingSubSteps, TypingEnds DEF WorkerStep
<1>4. CASE Next
  BY <1>2, <1>3, <1>4, TypingUsers, TypingSweep, TypingTick DEF Next
<1> QED
  BY <1>1, <1>4

\* The records of the calls, of the workers and of the scheduled task are what
\* the code can have read.
THEOREM CallbackTypeCorrect == Spec => []TypeOK
<1>1. Typing => TypeOK
  BY DEF Typing
<1> QED
  BY <1>1, TypingInit, TypingNext, PTL DEF Spec

\* Data that reaches the validating step was posted with the token of the very
\* attempt that is validated, however calls, workers, users and the scheduled
\* task overtake each other.
THEOREM DataOfItsToken == Spec => []DataMatchesToken
<1>1. Typing => DataMatchesToken
  BY DEF Typing, Matching, DataMatchesToken
<1> QED
  BY <1>1, TypingInit, TypingNext, PTL DEF Spec

-----------------------------------------------------------------------------
(* What holds as long as nothing was written from an outdated copy *)

\* A worker that is about to run the process, one that runs it, and either.  (A
\* worker that leaves the group with anything but a success only writes its row.)
Takes(record) == record.pc \in {"load", "claim"}
Runs(record) ==
  \/ record.pc \in {"claimed", "group", "done"}
  \/ record.pc = "leave" /\ record.st = "success"
AtWork(record) == Takes(record) \/ Runs(record)

\* One worker at most is at work, and then nobody is asked to be; the status tells
\* which of the two it does, and a message is only sent when none is at work.
OneAtWork(workers, current, messages) ==
  /\ \A w \in Workers : Takes(workers[w]) => current = "resumed" /\ messages = 0
  /\ \A w \in Workers : Runs(workers[w]) => current = "running" /\ messages = 0
  /\ \A v, w \in Workers : AtWork(workers[v]) /\ AtWork(workers[w]) => v = w
  /\ messages # 0 => /\ current \in {"resumed", "aborted"}
                     /\ \A w \in Workers : ~ AtWork(workers[w])
  /\ messages <= 1

\* Nothing has been validated under the token.
Unseen(t, validated) == \A s \in validated : s[1] # t

\* Nobody outside of the process can know the token yet.
Fresh(t, taken, validated, calls) ==
  /\ t \in Tokens /\ taken[t] = 0 /\ Unseen(t, validated)
  /\ \A c \in Calls : calls[c].pc = "read" => calls[c].copy.token # t

\* A state that is to be validated has the data that was accepted, if any was.
Due(s, taken, validated) ==
  /\ s.stage = 3 /\ s.token \in Tokens /\ Unseen(s.token, validated)
  /\ \/ taken[s.token] = 0 /\ s.data = 0
     \/ taken[s.token] = 1 /\ s.data = s.token

\* The last row waits: nothing was accepted yet for its token, and whoever read
\* the token read it in that row.
Waits(log, taken, validated, calls) ==
  /\ log # <<>> /\ log[Len(log)].status = "awaiting_callback"
  /\ Due(log[Len(log)].state, taken, validated) /\ log[Len(log)].state.data = 0
  /\ \A c \in Calls :
       calls[c].pc = "read" /\ calls[c].copy.token = log[Len(log)].state.token
         => calls[c].row = Len(log)

\* What a worker at work will do with the state it holds.
Prepared(record, taken, validated, calls) ==
  /\ record.pc \in {"claim", "claimed"} /\ record.todo = 1 => record.state.stage \in {0, 3}
  /\ record.pc \in {"claim", "claimed", "group"} /\ record.todo = 1
       /\ record.state.stage = 3 => Due(record.state, taken, validated)
  /\ record.pc = "group" /\ record.state.stage \in {1, 2} =>
       Fresh(record.state.token, taken, validated, calls) /\ record.state.data = 0

\* No token is accepted twice, and what is validated under an accepted token is
\* its data.
Used(taken, validated) ==
  \A t \in Tokens : taken[t] <= 1 /\ (taken[t] = 1 => <<t, 0>> \notin validated)

\* What the last row says when the process is not running.
AtRest(current, log, taken, validated, calls) ==
  /\ current = "awaiting_callback" => Waits(log, taken, validated, calls)
  /\ current = "failed" => log # <<>> /\ log[Len(log)].status = "failed"
  /\ current = "resumed" /\ IsHalted(log) => Due(log[Len(log)].state, taken, validated)
  /\ current \in {"resumed", "running", "awaiting_callback", "failed", "aborted", "completed"}

Orderly ==
  /\ OneAtWork(worker, status, queue)
  /\ Used(accepted, seen)
  /\ \A w \in Workers : Prepared(worker[w], accepted, seen, call)
  /\ AtRest(status, rows, accepted, seen, call)

InOrder == ~ raced => Orderly

\* A worker that is not at work is prepared for nothing.
LEMMA NotAtWork ==
  ASSUME NEW record, ~ AtWork(record), NEW taken, NEW validated, NEW calls
  PROVE  Prepared(record, taken, validated, calls)
BY DEF AtWork, Takes, Runs, Prepared

\* When the process rests, nobody is at work and nobody is asked to be.
LEMMA NobodyAtWork ==
  ASSUME Orderly, status \notin {"resumed", "running", "aborted"}, queue \in Nat
  PROVE  queue = 0 /\ \A w \in Workers : ~ AtWork(worker[w])
BY DEF Orderly, OneAtWork, AtWork

\* The worker at work takes a step; nobody else is at work.
LEMMA WorkerGoesOn ==
  ASSUME Typing, Orderly, NEW w \in Workers, AtWork(worker[w]), NEW new,
         worker' = [worker EXCEPT ![w] = new], queue' = queue,
         Takes(new) => status' = "resumed", Runs(new) => status' = "running",
         Prepared(new, accepted', seen', call')
  PROVE  /\ OneAtWork(worker', status', queue')
         /\ \A v \in Workers : Prepared(worker'[v], accepted', seen', call')
<1>1. \A v \in Workers : worker'[v] = IF v = w THEN new ELSE worker[v]
  BY TypingParts
<1>2. queue' = 0 /\ \A v \in Workers : v # w => ~ AtWork(worker'[v])
  BY <1>1 DEF Orderly, OneAtWork, AtWork
<1>3. OneAtWork(worker', status', queue')
  BY <1>1, <1>2 DEF OneAtWork, AtWork
<1>4. \A v \in Workers : Prepared(worker'[v], accepted', seen', call')
  BY <1>1, <1>2, NotAtWork
<1> QED
  BY <1>3, <1>4

\* Whoever writes a row that waits, from a copy that is not outdated, finds the
\* process at rest.
LEMMA NotOvertaken ==
  ASSUME Typing, Orderly, NEW copy, ~ Overtaken(copy)
  PROVE  /\ status = "awaiting_callback" /\ rows # <<>> /\ Len(rows) \in DOMAIN rows
         /\ LastRow.status = "awaiting_callback" /\ LastRow.state = copy
         /\ Waits(rows, accepted, seen, call)
         /\ queue = 0 /\ \A w \in Workers : ~ AtWork(worker[w])
<1>1. status = "awaiting_callback" /\ rows # <<>> /\ LastRow = Put("awaiting_callback", copy)
  BY DEF Overtaken
<1>2. queue = 0 /\ \A w \in Workers : ~ AtWork(worker[w])
  BY <1>1, NobodyAtWork, TypingParts
<1>3. Len(rows) \in DOMAIN rows
  BY <1>1, TypingParts, EmptySeq, LenProperties
<1> QED
  BY <1>1, <1>2, <1>3 DEF Orderly, AtRest, Put

\* The calls of the external service.
LEMMA OrderlyCalls ==
  ASSUME Typing, Orderly, ~ raced', NEW c \in Calls,
         (\E t \in Tokens : Read(c, t)) \/ CommitCallback(c) \/ CommitProgress(c)
  PROVE  Orderly'
<1>1. /\ call \in [Calls -> CallRecord] /\ rows \in Seq(LogRows) /\ queue \in Nat
      /\ accepted \in [Tokens -> 0..2]
      /\ \A i \in DOMAIN rows : rows[i] \in LogRows /\ GoodRow(rows[i], token)
  BY TypingParts
<1>2. CASE \E t \in Tokens : Read(c, t)
  <2>1. /\ status = "awaiting_callback"
        /\ \A d \in Calls : d # c => call'[d] = call[d]
        /\ call'[c].row = Len(rows)
        /\ UNCHANGED <<status, rows, queue, worker, accepted, seen>>
    BY <1>1, <1>2 DEF Read, history
  <2>2. \A w \in Workers : ~ AtWork(worker[w])
    BY <1>1, <2>1, NobodyAtWork
  <2>3. Waits(rows, accepted, seen, call')
    BY <2>1 DEF Orderly, AtRest, Waits
  <2>4. \A w \in Workers : Prepared(worker[w], accepted, seen, call')
    BY <2>2, NotAtWork
  <2> QED
    BY <2>1, <2>3, <2>4 DEF Orderly, AtRest
<1>3. CASE CommitCallback(c)
  <2> DEFINE copy == call[c].copy
             t == copy.token
             s == [copy EXCEPT !.data = t]
  <2>1. /\ call[c].pc = "read" /\ rows' = [rows EXCEPT ![call[c].row].state = s]
        /\ status' = "resumed" /\ queue' = queue + 1
        /\ accepted' = [accepted EXCEPT ![t] = IF accepted[t] = 0 THEN 1 ELSE 2]
        /\ raced' = (raced \/ Overtaken(copy))
        /\ call' = [call EXCEPT ![c] = NoCall]
        /\ UNCHANGED <<worker, seen>>
    BY <1>3 DEF CommitCallback
  <2>2. copy \in State /\ GoodState(copy, token) /\ t # 0
    BY <1>1, <2>1, TypingParts DEF CallRecord, GoodCall
  <2>3. s \in State /\ GoodState(s, token) /\ s.token = t /\ s.data = t /\ s.stage = copy.stage
    BY <2>2, StateType DEF GoodState
  <2>4. /\ status = "awaiting_callback" /\ rows # <<>> /\ Len(rows) \in DOMAIN rows
        /\ LastRow.state = copy /\ Waits(rows, accepted, seen, call)
        /\ queue = 0 /\ \A w \in Workers : ~ AtWork(worker[w])
    BY <2>1, NotOvertaken
  <2>5. call[c].row = Len(rows) /\ Due(copy, accepted, seen) /\ copy.data = 0
    BY <2>1, <2>4 DEF Waits, LastRow
  <2> HIDE DEF s
  <2>6. /\ rows' \in Seq(LogRows) /\ Len(rows') = Len(rows)
        /\ \A i \in DOMAIN rows' :
             rows'[i] = IF i = Len(rows) THEN Put(rows[i].status, s) ELSE rows[i]
        /\ Len(rows) \in DOMAIN rows'
    <3>1. s.token # 0
      BY <2>2, <2>3
    <3>4. rows' = [rows EXCEPT ![Len(rows)].state = s]
      BY <2>1, <2>5
    <3>2. /\ rows' \in Seq(LogRows) /\ Len(rows') = Len(rows)
          /\ \A i \in DOMAIN rows' :
               rows'[i] = IF i = Len(rows) THEN Put(rows[i].status, s) ELSE rows[i]
      <4>1. s \in State /\ GoodState(s, token) /\ s.token # 0
        BY <2>3, <3>1
      <4> QED
        BY <3>4, <4>1, StateWritten
    <3>3. DOMAIN rows' = DOMAIN rows
      BY <1>1, <3>2, LenProperties
    <3> QED
      BY <2>4, <3>2, <3>3
  <2>7. rows'[Len(rows')].state = s
    BY <2>6 DEF Put
  <2>8. t \in Tokens /\ accepted[t] = 0 /\ Unseen(t, seen) /\ copy.stage = 3
    BY <2>2, <2>5 DEF Due
  <2> HIDE DEF t
  <2>9. accepted'[t] = 1 /\ \A u \in Tokens : u # t => accepted'[u] = accepted[u]
    BY <1>1, <2>1, <2>8
  <2>10. OneAtWork(worker', status', queue')
    BY <2>1, <2>4 DEF OneAtWork, AtWork
  <2>11. Used(accepted', seen')
    <3>1. <<t, 0>> \notin seen
      BY <2>8 DEF Unseen
    <3>2. \A u \in Tokens : u # t => accepted'[u] <= 1 /\ (accepted'[u] = 1 => <<u, 0>> \notin seen)
      BY <2>9 DEF Orderly, Used
    <3>3. accepted'[t] <= 1
      BY <2>9
    <3>4. \A u \in Tokens : accepted'[u] <= 1 /\ (accepted'[u] = 1 => <<u, 0>> \notin seen)
      BY <3>1, <3>2, <3>3
    <3> QED
      BY <2>1, <3>4 DEF Used
  <2>12. \A w \in Workers : Prepared(worker'[w], accepted', seen', call')
    BY <2>1, <2>4, NotAtWork
  <2>13. Due(s, accepted', seen')
    BY <2>1, <2>3, <2>8, <2>9 DEF Due
  <2>14. AtRest(status', rows', accepted', seen', call')
    BY <2>1, <2>7, <2>13 DEF AtRest
  <2> QED
    BY <2>10, <2>11, <2>12, <2>14 DEF Orderly
<1>4. CASE CommitProgress(c)
  <2> DEFINE copy == call[c].copy
  <2>1. /\ call[c].pc = "read" /\ rows' = [rows EXCEPT ![call[c].row].state = copy]
        /\ raced' = (raced \/ Overtaken(copy))
        /\ call' = [call EXCEPT ![c] = NoCall]
        /\ UNCHANGED <<status, queue, worker, accepted, seen>>
    BY <1>4 DEF CommitProgress, history
  <2>2. copy \in State /\ GoodState(copy, token) /\ copy.token # 0
    BY <1>1, <2>1, TypingParts DEF CallRecord, GoodCall
  <2>3. /\ status = "awaiting_callback" /\ rows # <<>> /\ Len(rows) \in DOMAIN rows
        /\ LastRow.state = copy /\ Waits(rows, accepted, seen, call)
        /\ \A w \in Workers : ~ AtWork(worker[w])
    BY <2>1, NotOvertaken
  <2>4. call[c].row = Len(rows)
    BY <2>1, <2>3 DEF Waits, LastRow
  <2> HIDE DEF copy
  <2>5. /\ rows' \in Seq(LogRows) /\ Len(rows') = Len(rows)
        /\ \A i \in DOMAIN rows' :
             rows'[i] = IF i = Len(rows) THEN Put(rows[i].status, copy) ELSE rows[i]
    <3>1. rows' = [rows EXCEPT ![Len(rows)].state = copy]
      BY <2>1, <2>4
    <3> QED
      BY <2>2, <3>1, StateWritten
  <2>6. rows'[Len(rows')] = Put(rows[Len(rows)].status, copy) /\ rows' # <<>>
    <3>1. DOMAIN rows' = DOMAIN rows
      BY <1>1, <2>5, LenProperties
    <3>2. rows' # <<>>
      BY <1>1, <2>3, <2>5, EmptySeq
    <3> QED
      BY <2>3, <2>5, <3>1, <3>2
  <2>7. /\ rows'[Len(rows')].status = rows[Len(rows)].status
        /\ rows'[Len(rows')].state = rows[Len(rows)].state
    BY <2>3, <2>6 DEF Put, LastRow
  <2>8. \A d \in Calls : call'[d] = call[d] \/ call'[d].pc = "idle"
    BY <1>1, <2>1 DEF NoCall
  <2>9. Waits(rows', accepted, seen, call')
    BY <2>3, <2>5, <2>6, <2>7, <2>8 DEF Waits
  <2>10. \A w \in Workers : Prepared(worker[w], accepted, seen, call')
    BY <2>3, NotAtWork
  <2> QED
    BY <2>1, <2>3, <2>9, <2>10 DEF Orderly, AtRest
<1> QED
  BY <1>2, <1>3, <1>4

\* Users.
LEMMA OrderlyUsers ==
  ASSUME Typing, Orderly, Resume \/ Abort
  PROVE  Orderly'
<1>1. queue \in Nat /\ rows \in Seq(LogRows)
  BY TypingParts
<1>2. CASE Resume
  <2>1. /\ status \in RESUMABLE_STATUSES \ {"resumed"} /\ status' = "resumed"
        /\ queue' = queue + 1
        /\ UNCHANGED <<rows, call, worker, accepted, seen>>
    BY <1>2 DEF Resume, history
  <2>2. status \in {"awaiting_callback", "failed"}
    BY <2>1 DEF RESUMABLE_STATUSES, Orderly, AtRest
  <2>3. queue = 0 /\ \A w \in Workers : ~ AtWork(worker[w])
    BY <1>1, <2>2, NobodyAtWork
  <2>4. OneAtWork(worker', status', queue')
    BY <2>1, <2>3 DEF OneAtWork, AtWork
  <2>5. IsHalted(rows) => Due(rows[Len(rows)].state, accepted, seen)
    BY <2>2 DEF Orderly, AtRest, Waits, IsHalted
  <2>6. AtRest(status', rows', accepted', seen', call')
    BY <2>1, <2>5 DEF AtRest
  <2> QED
    BY <2>1, <2>4, <2>6 DEF Orderly
<1>3. CASE Abort
  <2>1. /\ \A w \in Workers : worker[w].pc = "idle"
        /\ status' = "aborted"
        /\ UNCHANGED <<queue, call, worker, accepted, seen>>
    BY <1>3 DEF Abort, history
  <2>2. OneAtWork(worker', status', queue')
    BY <2>1 DEF Orderly, OneAtWork, AtWork, Takes, Runs
  <2>3. AtRest(status', rows', accepted', seen', call')
    BY <2>1 DEF AtRest
  <2> QED
    BY <2>1, <2>2, <2>3 DEF Orderly
<1> QED
  BY <1>2, <1>3

\* A worker takes a message.
LEMMA OrderlyTake ==
  ASSUME Typing, Orderly, NEW w \in Workers, Take(w)
  PROVE  Orderly'
<1> DEFINE new == IF status = "resumed" THEN [Free EXCEPT !.pc = "load"] ELSE Free
<1>1. /\ queue' = queue - 1 /\ queue > 0 /\ worker' = [worker EXCEPT ![w] = new]
      /\ UNCHANGED <<status, rows, call, accepted, seen>>
  BY DEF Take, history
<1>2. queue \in Nat /\ queue <= 1 /\ \A v \in Workers : ~ AtWork(worker[v])
  BY <1>1, TypingParts DEF Orderly, OneAtWork
<1>3. queue' = 0
  BY <1>1, <1>2
<1>4. new.pc \in {"load", "idle"} /\ (new.pc = "load" => status = "resumed")
  BY DEF Free
<1> HIDE DEF new
<1>5. \A v \in Workers : worker'[v] = IF v = w THEN new ELSE worker[v]
  BY <1>1, TypingParts
<1>6. OneAtWork(worker', status', queue')
  BY <1>1, <1>2, <1>3, <1>4, <1>5 DEF OneAtWork, AtWork, Takes, Runs
<1>7. \A v \in Workers : Prepared(worker'[v], accepted, seen, call)
  BY <1>4, <1>5 DEF Orderly, Prepared
<1> QED
  BY <1>1, <1>6, <1>7 DEF Orderly

\* A worker loads and claims the process.
LEMMA OrderlyStart ==
  ASSUME Typing, Orderly, NEW w \in Workers, Load(w) \/ Claim(w)
  PROVE  Orderly'
<1>1. /\ worker \in [Workers -> WorkerRecord] /\ worker[w] \in WorkerRecord
  BY TypingParts
<1>2. CASE Load(w)
  <2> DEFINE new == [Free EXCEPT !.pc = "claim", !.todo = RestFrom(rows, 2),
                       !.st = RecoveredStatus(rows), !.state = RecoveredState]
  <2>1. /\ worker[w].pc = "load" /\ worker' = [worker EXCEPT ![w] = new]
        /\ UNCHANGED <<status, rows, queue, call, accepted, seen>>
    BY <1>2 DEF Load, history
  <2>2. /\ new.pc = "claim" /\ new.todo = RestFrom(rows, 2) /\ new.state = RecoveredState
    BY DEF Free
  <2> HIDE DEF new
  <2>3. AtWork(worker[w]) /\ status = "resumed"
    BY <2>1 DEF Orderly, OneAtWork, AtWork, Takes
  <2>4. Prepared(new, accepted, seen, call)
    <3>1. CASE IsHalted(rows)
      <4>1. RecoveredState = rows[Len(rows)].state
        BY <3>1, Recovered DEF LastRow
      <4>2. Due(RecoveredState, accepted, seen)
        BY <2>3, <3>1, <4>1 DEF Orderly, AtRest
      <4> QED
        BY <2>2, <4>2 DEF Prepared, Due
    <3>2. CASE ~ IsHalted(rows)
      <4>1. RestFrom(rows, 2) = 1 => RecoveredState.stage = 0
        BY <3>2, Recovered DEF NoState
      <4> QED
        BY <2>2, <4>1 DEF Prepared
    <3> QED
      BY <3>1, <3>2
  <2>5. /\ OneAtWork(worker', status', queue')
        /\ \A v \in Workers : Prepared(worker'[v], accepted', seen', call')
    BY <2>1, <2>2, <2>3, <2>4, WorkerGoesOn DEF Runs
  <2> QED
    BY <2>1, <2>5 DEF Orderly
<1>3. CASE Claim(w)
  <2> DEFINE new == [worker[w] EXCEPT !.pc = "claimed"]
  <2>1. /\ worker[w].pc = "claim" /\ worker' = [worker EXCEPT ![w] = new]
        /\ status' = "running"
        /\ UNCHANGED <<rows, queue, call, accepted, seen>>
    BY <1>3 DEF Claim, history
  <2>2. /\ new.pc = "claimed" /\ new.state = worker[w].state /\ new.todo = worker[w].todo
    BY <1>1 DEF WorkerRecord
  <2> HIDE DEF new
  <2>3. AtWork(worker[w]) /\ ~ Takes(new)
    BY <2>1, <2>2 DEF AtWork, Takes
  <2>4. Prepared(new, accepted, seen, call)
    BY <2>1, <2>2 DEF Orderly, Prepared
  <2>5. /\ OneAtWork(worker', status', queue')
        /\ \A v \in Workers : Prepared(worker'[v], accepted', seen', call')
    BY <2>1, <2>3, <2>4, WorkerGoesOn
  <2>6. AtRest(status', rows', accepted', seen', call')
    BY <2>1 DEF AtRest
  <2> QED
    BY <2>1, <2>5, <2>6 DEF Orderly
<1> QED
  BY <1>2, <1>3

\* A worker answers the row that waits, or goes on from another.
LEMMA OrderlyResumes ==
  ASSUME Typing, Orderly, NEW w \in Workers, Answer(w) \/ Continue(w)
  PROVE  Orderly'
<1>1. /\ worker \in [Workers -> WorkerRecord] /\ worker[w] \in WorkerRecord
  BY TypingParts
<1>2. PICK record \in WorkerRecord : /\ record.state = worker[w].state
                                     /\ record.todo = worker[w].todo
                                     /\ worker' = [worker EXCEPT ![w] = Loop(record)]
  <2>1. CASE Answer(w)
    <3> DEFINE new == [worker[w] EXCEPT !.st = "success", !.replace = TRUE]
    <3>1. new \in WorkerRecord /\ new.state = worker[w].state /\ new.todo = worker[w].todo
      BY <1>1 DEF WorkerRecord, StepStatus
    <3>2. worker' = [worker EXCEPT ![w] = Loop(new)]
      BY <1>1, <2>1 DEF Answer
    <3> HIDE DEF new
    <3> QED
      BY <3>1, <3>2
  <2>2. CASE Continue(w)
    <3> DEFINE new == [worker[w] EXCEPT !.st = ResumeStatus(worker[w].st)]
    <3>1. new \in WorkerRecord /\ new.state = worker[w].state /\ new.todo = worker[w].todo
      BY <1>1 DEF WorkerRecord, StepStatus, ResumeStatus
    <3>2. worker' = [worker EXCEPT ![w] = Loop(new)]
      BY <1>1, <2>2 DEF Continue
    <3> HIDE DEF new
    <3> QED
      BY <3>1, <3>2
  <2> QED
    BY <2>1, <2>2
<1>3. /\ worker[w].pc = "claimed" /\ UNCHANGED <<queue, call, accepted, seen>>
      /\ status' \in {"running", status}
  BY DEF Answer, Continue, history
<1>4. AtWork(worker[w]) /\ status = "running"
  BY <1>3 DEF Orderly, OneAtWork, AtWork, Runs
<1>5. /\ Loop(record).pc \in {"idle", "group", "done"}
      /\ Loop(record).pc = "group" => /\ record.todo = 1
                                      /\ Loop(record).state = worker[w].state
  BY <1>2 DEF Loop, Free, WorkerRecord
<1>6. Prepared(Loop(record), accepted, seen, call)
  BY <1>2, <1>3, <1>5 DEF Orderly, Prepared
<1>7. /\ OneAtWork(worker', status', queue')
      /\ \A v \in Workers : Prepared(worker'[v], accepted', seen', call')
  BY <1>2, <1>3, <1>4, <1>5, <1>6, WorkerGoesOn DEF Takes
<1>8. AtRest(status', rows', accepted', seen', call')
  BY <1>3, <1>4 DEF AtRest
<1> QED
  BY <1>3, <1>7, <1>8 DEF Orderly

\* A sub step that is written: what is left to show is what the new state is good
\* for, what has been used, and what the new row says.
LEMMA OrderlyWrites ==
  ASSUME Typing, Orderly, NEW w \in Workers, worker[w].pc = "group",
         NEW s \in {"success", "failed", "awaiting_callback"}, NEW state \in State,
         WriteSub(w, s, state),
         s = "success" /\ state.stage # 0 =>
           \A record \in WorkerRecord :
             record.pc = "group" /\ record.state = state => Prepared(record, accepted', seen', call),
         Used(accepted', seen'),
         s = "awaiting_callback" =>
           \A log \in Seq(LogRows) :
             log # <<>> /\ log[Len(log)] = Put(s, state) => Waits(log, accepted', seen', call)
  PROVE  Orderly'
<1> DEFINE new == [worker[w] EXCEPT
             !.pc = IF s = "success" /\ state.stage # 0 THEN "group" ELSE "leave",
             !.st = s, !.state = state, !.replace = TRUE]
<1>1. worker \in [Workers -> WorkerRecord] /\ worker[w] \in WorkerRecord
      /\ rows \in Seq(LogRows)
  BY TypingParts
<1>2. new \in WorkerRecord
  BY <1>1 DEF WorkerRecord, StepStatus
<1>3. /\ new.state = state /\ new.st = s
      /\ new.pc = IF s = "success" /\ state.stage # 0 THEN "group" ELSE "leave"
  BY <1>1 DEF WorkerRecord
<1>4. /\ worker' = [worker EXCEPT ![w] = new]
      /\ rows' \in {Written(Put(s, state), worker[w].replace), Append(rows, Put(s, state))}
      /\ status' = OverallStatus[s] /\ queue' = queue /\ call' = call
  BY <1>1 DEF WriteSub, WorkerRecord
<1> HIDE DEF new
<1>5. AtWork(worker[w])
  BY DEF AtWork, Runs
<1>6. Prepared(new, accepted', seen', call')
  BY <1>2, <1>3, <1>4 DEF Prepared
<1>7. ~ Takes(new) /\ (Runs(new) => status' = "running")
  BY <1>3, <1>4 DEF Takes, Runs, OverallStatus
<1>8. /\ OneAtWork(worker', status', queue')
      /\ \A v \in Workers : Prepared(worker'[v], accepted', seen', call')
  BY <1>4, <1>5, <1>6, <1>7, WorkerGoesOn
<1>9. rows' \in Seq(LogRows) /\ rows' # <<>> /\ rows'[Len(rows')] = Put(s, state)
  <2>1. Put(s, state) \in LogRows /\ worker[w].replace \in BOOLEAN
    BY <1>1 DEF Put, LogRows, StepStatus, WorkerRecord
  <2> QED
    BY <1>1, <1>4, <2>1, RowsWritten
<1>10. AtRest(status', rows', accepted', seen', call')
  <2>1. CASE s = "success"
    BY <1>4, <2>1 DEF AtRest, OverallStatus
  <2>2. CASE s = "failed"
    BY <1>4, <1>9, <2>2 DEF AtRest, OverallStatus, Put
  <2>3. CASE s = "awaiting_callback"
    <3>1. Waits(rows', accepted', seen', call')
      BY <1>4, <1>9, <2>3
    <3> QED
      BY <1>4, <2>3, <3>1 DEF AtRest, OverallStatus
  <2> QED
    BY <2>1, <2>2, <2>3
<1> QED
  BY <1>8, <1>10 DEF Orderly

\* The sub steps of the group.
LEMMA OrderlySubSteps ==
  ASSUME Typing, Orderly, NEW w \in Workers,
         CreateEndpoint(w) \/ CallService(w) \/ Await(w) \/ Validate(w) \/ Cleanup(w)
  PROVE  Orderly'
<1> DEFINE old == worker[w].state
<1>1. /\ worker[w] \in WorkerRecord /\ GoodWorker(worker[w], token)
      /\ token \in 0..MaxToken /\ token \in Nat /\ MaxToken \in Nat
      /\ old \in State /\ GoodState(old, token)
      /\ accepted \in [Tokens -> 0..2] /\ seen \in SUBSET (Tokens \X (0..MaxToken))
      /\ Used(accepted, seen)
      /\ Prepared(worker[w], accepted, seen, call)
  BY TypingParts DEF WorkerRecord, GoodWorker, Orderly
<1>2. State = [stage : 0..5, token : 0..MaxToken, data : 0..MaxToken] /\ NoState \in State
  BY <1>1, StateType
<1>3. worker[w].pc = "group" /\ worker[w].todo = 1
  BY <1>1 DEF CreateEndpoint, CallService, Await, Validate, Cleanup, SubStep, GoodWorker
<1>4. old.stage \in {1, 2} => Fresh(old.token, accepted, seen, call) /\ old.data = 0
  BY <1>1, <1>3 DEF Prepared
<1>5. old.stage = 3 => Due(old, accepted, seen)
  BY <1>1, <1>3 DEF Prepared
<1> HIDE DEF old
<1>6. CASE CreateEndpoint(w)
  <2> DEFINE state == [old EXCEPT !.stage = 1, !.token = token']
  <2>1. /\ old.stage = 0 /\ token < MaxToken /\ token' = token + 1
        /\ WriteSub(w, "success", state) /\ accepted' = accepted /\ seen' = seen
    BY <1>6 DEF CreateEndpoint, SubStep, history, old
  <2>2. old.data = 0
    BY <1>1, <1>3, <2>1 DEF GoodWorker, old
  <2>3. token' \in 0..MaxToken /\ token' \in Tokens /\ token' > token
    BY <1>1, <2>1 DEF Tokens
  <2>4. state \in State
    <3>1. 1 \in 0..Len(Stages)
      BY StateType
    <3> QED
      BY <1>1, <2>3, <3>1 DEF State, state
  <2>5. state.stage = 1 /\ state.token = token' /\ state.data = 0
    BY <1>1, <2>2 DEF State, state
  <2> HIDE DEF state
  <2>6. accepted[token'] = 0
    <3>1. accepted[token'] # 0 => token' <= token
      BY <2>3 DEF Typing, Matching
    <3> QED
      BY <1>1, <2>3, <3>1
  <2>7. Unseen(token', seen)
    <3>1. \A u \in seen : u[1] <= token
      BY DEF Typing, Matching
    <3> QED
      BY <1>1, <2>3, <3>1 DEF Unseen
  <2>8. \A c \in Calls : call[c].pc = "read" => call[c].copy.token # token'
    <3>1. \A c \in Calls : call[c].copy.token <= token
      BY DEF Typing, Matching, GoodCall, GoodState
    <3> QED
      BY <1>1, <2>3, <3>1
  <2>9. Fresh(token', accepted, seen, call)
    BY <2>3, <2>6, <2>7, <2>8 DEF Fresh
  <2>10. \A record \in WorkerRecord :
           record.pc = "group" /\ record.state = state => Prepared(record, accepted, seen, call)
    BY <2>5, <2>9 DEF Prepared
  <2> QED
    BY <1>1, <1>3, <2>1, <2>4, <2>10, OrderlyWrites
<1>7. CASE CallService(w)
  <2> DEFINE state == [old EXCEPT !.stage = 2]
  <2>1. /\ old.stage = 1 /\ accepted' = accepted /\ seen' = seen
        /\ WriteSub(w, "success", state) \/ WriteSub(w, "failed", NoState)
    BY <1>7 DEF CallService, SubStep, history, old
  <2>2. state \in State /\ state.stage = 2 /\ state.token = old.token /\ state.data = old.data
    BY <1>1, <1>2
  <2> HIDE DEF state
  <2>3. \A record \in WorkerRecord :
          record.pc = "group" /\ record.state = state => Prepared(record, accepted, seen, call)
    BY <1>4, <2>1, <2>2 DEF Prepared
  <2>4. CASE WriteSub(w, "success", state)
    BY <1>1, <1>3, <2>1, <2>2, <2>3, <2>4, OrderlyWrites
  <2>5. CASE WriteSub(w, "failed", NoState)
    BY <1>1, <1>2, <1>3, <2>1, <2>5, OrderlyWrites
  <2> QED
    BY <2>1, <2>4, <2>5
<1>8. CASE Await(w)
  <2> DEFINE state == [old EXCEPT !.stage = 3]
  <2>1. /\ old.stage = 2 /\ accepted' = accepted /\ seen' = seen
        /\ WriteSub(w, "awaiting_callback", state)
    BY <1>8 DEF Await, SubStep, history, old
  <2>2. state \in State /\ state.stage = 3 /\ state.token = old.token /\ state.data = old.data
    BY <1>1, <1>2
  <2> HIDE DEF state
  <2>3. Fresh(state.token, accepted, seen, call) /\ state.data = 0
    BY <1>4, <2>1, <2>2
  <2>4. ASSUME NEW log \in Seq(LogRows), log # <<>>,
               log[Len(log)] = Put("awaiting_callback", state)
        PROVE  Waits(log, accepted, seen, call)
    <3>1. log[Len(log)].status = "awaiting_callback" /\ log[Len(log)].state = state
      BY <2>4 DEF Put
    <3>2. Due(state, accepted, seen)
      BY <2>2, <2>3 DEF Due, Fresh
    <3> QED
      BY <2>3, <2>4, <3>1, <3>2 DEF Waits, Fresh
  <2> QED
    BY <1>1, <1>3, <2>1, <2>2, <2>4, OrderlyWrites
<1>9. CASE Validate(w)
  <2> DEFINE state == [old EXCEPT !.stage = 4]
  <2>1. /\ old.stage = 3 /\ accepted' = accepted
        /\ seen' = seen \cup {<<old.token, old.data>>}
        /\ WriteSub(w, "success", state) \/ WriteSub(w, "failed", NoState)
    BY <1>9 DEF Validate, SubStep, history, old
  <2>2. state \in State /\ state.stage = 4
    BY <1>1, <1>2
  <2> HIDE DEF state
  <2>3. \A record \in WorkerRecord :
          record.pc = "group" /\ record.state = state => Prepared(record, accepted', seen', call)
    BY <2>2 DEF Prepared
  <2>4. Used(accepted', seen')
    <3>1. old.token \in Tokens /\ (accepted[old.token] = 1 => old.data # 0)
      BY <1>5, <2>1 DEF Due, Tokens
    <3>2. ASSUME NEW t \in Tokens
          PROVE  accepted[t] <= 1 /\ (accepted[t] = 1 => <<t, 0>> \notin seen')
      <4>1. accepted[t] = 1 => <<t, 0>> # <<old.token, old.data>>
        BY <3>1
      <4> QED
        BY <1>1, <2>1, <4>1 DEF Used
    <3> QED
      BY <2>1, <3>2 DEF Used
  <2>5. CASE WriteSub(w, "success", state)
    BY <1>3, <2>2, <2>3, <2>4, <2>5, OrderlyWrites
  <2>6. CASE WriteSub(w, "failed", NoState)
    BY <1>2, <1>3, <2>4, <2>6, OrderlyWrites
  <2> QED
    BY <2>1, <2>5, <2>6
<1>10. CASE Cleanup(w)
  <2> DEFINE state == [old EXCEPT !.stage = 0, !.token = 0]
  <2>1. /\ accepted' = accepted /\ seen' = seen /\ WriteSub(w, "success", state)
    BY <1>10 DEF Cleanup, SubStep, history, old
  <2>2. state \in State /\ state.stage = 0
    <3>1. 0 \in 0..Len(Stages) /\ 0 \in 0..MaxToken
      BY <1>1, StateType
    <3> QED
      BY <1>1, <3>1 DEF State, state
  <2> HIDE DEF state
  <2> QED
    BY <1>1, <1>3, <2>1, <2>2, OrderlyWrites
<1> QED
  BY <1>6, <1>7, <1>8, <1>9, <1>10

\* A worker leaves the group, or finishes the process.
LEMMA OrderlyEnds ==
  ASSUME Typing, Orderly, ~ raced', NEW w \in Workers, LeaveGroup(w) \/ Finish(w)
  PROVE  Orderly'
<1>1. /\ worker \in [Workers -> WorkerRecord] /\ worker[w] \in WorkerRecord
      /\ GoodWorker(worker[w], token) /\ rows \in Seq(LogRows)
  BY TypingParts
<1>2. ~ AtWork(Free) /\ ~ Takes(Free) /\ ~ Runs(Free)
  BY DEF Free, AtWork, Takes, Runs
<1>3. CASE Finish(w)
  <2>1. /\ worker[w].pc = "done" /\ worker' = [worker EXCEPT ![w] = Free]
        /\ status' = "completed" /\ UNCHANGED <<queue, call, accepted, seen>>
    BY <1>3 DEF Finish, history
  <2>2. AtWork(worker[w]) /\ Prepared(Free, accepted', seen', call')
    BY <1>2, <2>1, NotAtWork DEF AtWork, Runs
  <2>3. /\ OneAtWork(worker', status', queue')
        /\ \A v \in Workers : Prepared(worker'[v], accepted', seen', call')
    BY <1>2, <2>1, <2>2, WorkerGoesOn
  <2>4. AtRest(status', rows', accepted', seen', call')
    BY <2>1 DEF AtRest
  <2> QED
    BY <2>1, <2>3, <2>4 DEF Orderly
<1>4. CASE LeaveGroup(w)
  <2> DEFINE row == Put(worker[w].st, worker[w].state)
             record == [worker[w] EXCEPT !.todo = 2, !.age = 0]
  <2>1. /\ worker[w].pc = "leave" /\ rows' = Written(row, TRUE)
        /\ status' = OverallStatus[worker[w].st]
        /\ worker' = [worker EXCEPT ![w] = Loop(record)]
        /\ raced' = (raced \/ LastRow # row \/ status # status')
        /\ UNCHANGED <<queue, call, accepted, seen>>
    BY <1>4 DEF LeaveGroup, history, Put
  <2>2. LastRow = row /\ status' = status
    BY <2>1
  <2>3. record.st = worker[w].st /\ record.todo = 2
    BY <1>1 DEF WorkerRecord
  <2> HIDE DEF record
  <2>4. rows # <<>> => rows' = rows
    <3> SUFFICES ASSUME rows # <<>> PROVE rows' = rows
      OBVIOUS
    <3>1. rows' = [rows EXCEPT ![Len(rows)] = row]
      BY <2>1 DEF Written
    <3>2. row = rows[Len(rows)]
      BY <2>2 DEF LastRow
    <3> QED
      BY <1>1, <3>1, <3>2
  <2> HIDE DEF row
  <2>5. CASE worker[w].st = "success"
    <3>1. status' = "running" /\ AtWork(worker[w])
      BY <2>1, <2>5 DEF OverallStatus, AtWork, Runs
    <3>2. Loop(record).pc \in {"idle", "done"}
      BY <2>3 DEF Loop, Free
    <3>3. ~ Takes(Loop(record)) /\ Prepared(Loop(record), accepted', seen', call')
      BY <3>2 DEF Takes, Prepared
    <3>4. /\ OneAtWork(worker', status', queue')
          /\ \A v \in Workers : Prepared(worker'[v], accepted', seen', call')
      BY <2>1, <3>1, <3>3, WorkerGoesOn
    <3>5. AtRest(status', rows', accepted', seen', call')
      BY <3>1 DEF AtRest
    <3> QED
      BY <2>1, <3>4, <3>5 DEF Orderly
  <2>6. CASE worker[w].st \in {"failed", "awaiting_callback"}
    <3>1. status \in {"failed", "awaiting_callback"}
      BY <2>1, <2>2, <2>6 DEF OverallStatus
    <3>2. rows' = rows
      BY <2>4, <3>1 DEF Orderly, AtRest, Waits
    <3>3. Loop(record) = Free
      BY <2>3, <2>6 DEF Loop, Continues
    <3>4. \A v \in Workers : worker'[v] = IF v = w THEN Free ELSE worker[v]
      BY <1>1, <2>1, <3>3
    <3>5. OneAtWork(worker', status', queue')
      BY <1>2, <2>1, <2>2, <3>4 DEF Orderly, OneAtWork
    <3>6. \A v \in Workers : Prepared(worker'[v], accepted, seen, call)
      BY <1>2, <3>4, NotAtWork DEF Orderly
    <3> QED
      BY <2>1, <2>2, <3>2, <3>5, <3>6 DEF Orderly
  <2>7. worker[w].st \in {"success", "failed", "awaiting_callback"}
    BY <1>1, <2>1 DEF GoodWorker
  <2> QED
    BY <2>5, <2>6, <2>7
<1> QED
  BY <1>3, <1>4

\* The task.
LEMMA OrderlySweep ==
  ASSUME Typing, Orderly, ~ raced', Sweep
  PROVE  Orderly'
<1>1. CASE SweepFind \/ SweepLoad
  <2>1. UNCHANGED <<status, rows, queue, call, worker, accepted, seen>>
    BY <1>1 DEF SweepFind, SweepLoad, history
  <2> QED
    BY <2>1 DEF Orderly
<1>2. CASE SweepFail
  <2>1. /\ rows' = Written(Put("failed", sweep.copy), TRUE) /\ status' = "failed"
        /\ raced' = (raced \/ Overtaken(sweep.copy))
        /\ UNCHANGED <<queue, call, worker, accepted, seen>>
    BY <1>2 DEF SweepFail, history
  <2>2. queue = 0 /\ \A w \in Workers : ~ AtWork(worker[w])
    BY <2>1, NotOvertaken
  <2>3. OneAtWork(worker', status', queue')
    BY <2>1, <2>2 DEF OneAtWork, AtWork
  <2>4. Put("failed", sweep.copy) \in LogRows /\ rows \in Seq(LogRows)
    BY TypingParts DEF Put, LogRows, StepStatus
  <2>5. rows' # <<>> /\ rows'[Len(rows')] = Put("failed", sweep.copy)
    BY <2>1, <2>4, RowsWritten
  <2>6. AtRest(status', rows', accepted', seen', call')
    <3>1. rows'[Len(rows')].status = "failed"
      BY <2>5 DEF Put
    <3> QED
      BY <2>1, <2>5, <3>1 DEF AtRest
  <2> QED
    BY <2>1, <2>3, <2>6 DEF Orderly
<1> QED
  BY <1>1, <1>2 DEF Sweep

\* Time passes.
LEMMA OrderlyTick ==
  ASSUME Typing, Orderly, Tick
  PROVE  Orderly'
<1>1. UNCHANGED <<status, rows, queue, call, accepted, seen>>
  BY DEF Tick
<1>2. \A w \in Workers : /\ worker'[w].pc = worker[w].pc /\ worker'[w].st = worker[w].st
                         /\ worker'[w].todo = worker[w].todo
                         /\ worker'[w].state = worker[w].state
  BY TypingParts DEF Tick, WorkerRecord
<1>3. \A w \in Workers : /\ Takes(worker'[w]) <=> Takes(worker[w])
                         /\ Runs(worker'[w]) <=> Runs(worker[w])
  BY <1>2 DEF Takes, Runs
<1>4. OneAtWork(worker', status', queue')
  BY <1>1, <1>3 DEF Orderly, OneAtWork, AtWork
<1>5. \A w \in Workers : Prepared(worker'[w], accepted, seen, call)
  BY <1>2 DEF Orderly, Prepared
<1> QED
  BY <1>1, <1>4, <1>5 DEF Orderly

\* It holds before anything is done.
LEMMA InOrderInit == Init => InOrder
<1> SUFFICES ASSUME Init PROVE Orderly
  BY DEF InOrder
<1>1. \A w \in Workers : worker[w].pc = "idle"
  BY DEF Init, Free
<1>2. OneAtWork(worker, status, queue)
  BY <1>1 DEF Init, OneAtWork, AtWork, Takes, Runs
<1>3. Used(accepted, seen)
  BY DEF Init, Used
<1>4. \A w \in Workers : Prepared(worker[w], accepted, seen, call)
  BY <1>1 DEF Prepared
<1>5. AtRest(status, rows, accepted, seen, call)
  BY DEF Init, AtRest, IsHalted
<1> QED
  BY <1>2, <1>3, <1>4, <1>5 DEF Orderly

\* What was written from an outdated copy stays written.
LEMMA RacedLasts ==
  ASSUME [Next]_vars, ~ raced'
  PROVE  ~ raced
<1>1. ASSUME NEW c \in Calls, (\E t \in Tokens : Read(c, t)) \/ Commit(c) PROVE ~ raced
  BY <1>1 DEF Read, Commit, CommitCallback, CommitProgress
<1>2. ASSUME Resume \/ Abort \/ Sweep \/ Tick \/ UNCHANGED vars PROVE ~ raced
  BY <1>2 DEF Resume, Abort, Sweep, SweepFind, SweepLoad, SweepFail, Tick, vars
<1>3. ASSUME NEW w \in Workers, WorkerStep(w) PROVE ~ raced
  <2>1. CASE Take(w) \/ Load(w) \/ Claim(w) \/ Answer(w) \/ Continue(w)
    BY <2>1 DEF Take, Load, Claim, Answer, Continue
  <2>2. CASE CreateEndpoint(w) \/ CallService(w) \/ Await(w) \/ Validate(w) \/ Cleanup(w)
    BY <2>2 DEF CreateEndpoint, CallService, Await, Validate, Cleanup, WriteSub
  <2>3. CASE LeaveGroup(w) \/ Finish(w)
    BY <2>3 DEF LeaveGroup, Finish
  <2> QED
    BY <1>3, <2>1, <2>2, <2>3 DEF WorkerStep
<1> QED
  BY <1>1, <1>2, <1>3 DEF Next

\* Every step that does not write from an outdated copy preserves it.
LEMMA InOrderNext == Typing /\ InOrder /\ [Next]_vars => InOrder'
<1> SUFFICES ASSUME Typing, InOrder, [Next]_vars, ~ raced' PROVE Orderly'
  BY DEF InOrder
<1>1. ~ raced
  BY RacedLasts
<1>2. Orderly
  BY <1>1 DEF InOrder
<1>3. CASE UNCHANGED vars
  BY <1>2, <1>3 DEF vars, Orderly
<1>4. ASSUME NEW c \in Calls, (\E t \in Tokens : Read(c, t)) \/ Commit(c) PROVE Orderly'
  BY <1>2, <1>4, OrderlyCalls DEF Commit
<1>5. ASSUME NEW w \in Workers, WorkerStep(w) PROVE Orderly'
  BY <1>2, <1>5, OrderlyTake, OrderlyStart, OrderlyResumes, OrderlySubSteps, OrderlyEnds
    DEF WorkerStep
<1>6. CASE Next
  BY <1>2, <1>4, <1>5, <1>6, OrderlyUsers, OrderlySweep, OrderlyTick DEF Next
<1> QED
  BY <1>3, <1>6

\* As long as no transaction wrote from a copy that was out of date, the callback
\* of an attempt is accepted once at most, and an attempt is never validated
\* without the data that was accepted for it.
THEOREM CallbackAcceptedOnce == Spec => []CallbackUsedOnce
<1>1. InOrder => CallbackUsedOnce
  BY DEF InOrder, Orderly, Used, CallbackUsedOnce
<1> QED
  BY <1>1, TypingInit, TypingNext, InOrderInit, InOrderNext, PTL DEF Spec

-----------------------------------------------------------------------------
(* The attempts of the group implement OneTimeRoute *)

\* No row counts as done; none but perhaps the last one does.
NoneCleared(log) == \A i \in DOMAIN log : ~ IsCleared(log[i])
OpenRows(log) == \A i \in DOMAIN log : i < Len(log) => ~ IsCleared(log[i])

\* An answer was accepted on the last route and is still to be validated.
Pending(last, taken, validated) ==
  last # 0 /\ taken[last] # 0 /\ Unseen(last, validated)

\* What the worker holds has been validated.
Delivers(record) ==
  \/ record.pc = "done"
  \/ record.pc = "leave" /\ record.st = "success"
  \/ record.pc = "group" /\ record.state.stage = 4

\* A worker at work starts with the group, holds the last token or none, and if an
\* answer is pending is about to validate it.
Onward(record, log, last, taken, validated) ==
  /\ record.pc \in {"claim", "claimed"} => record.todo = 1 /\ NoneCleared(log)
  /\ record.pc = "group" => IF record.replace THEN OpenRows(log) ELSE NoneCleared(log)
  /\ record.pc \in {"claim", "claimed", "group"} =>
       /\ record.state.stage # 0 => record.state.token = last
       /\ record.state.stage # 3 => ~ Pending(last, taken, validated)
  /\ Delivers(record) => last # 0 /\ ~ Unseen(last, validated)

\* While the process waits for a call, a user or a worker, recovery starts with the
\* group, and with the last route if the last row waits; else no answer is pending.
Waiting(current, log, last, taken, validated) ==
  /\ current \in {"resumed", "awaiting_callback", "failed"} => NoneCleared(log)
  /\ current \in {"resumed", "awaiting_callback"} /\ IsHalted(log)
       => log[Len(log)].state.token = last
  /\ current \in {"resumed", "failed"} /\ ~ IsHalted(log)
       => ~ Pending(last, taken, validated)
  /\ current = "completed" => log # <<>> /\ log[Len(log)].status = "complete"

Steady ==
  /\ \A w \in Workers : Onward(worker[w], rows, token, accepted, seen)
  /\ Waiting(status, rows, token, accepted, seen)

NotDropped == ~ raced => Steady

\* What a step of the process is to OneTimeRoute.
Advances ==
  \/ Outcome = "open" /\ Route!Step
  \/ UNCHANGED <<token, accepted, seen, Outcome>>

\* A worker that is not at work drops nothing.
LEMMA NotOnward ==
  ASSUME NEW record, ~ AtWork(record),
         NEW log, NEW last, NEW taken, NEW validated
  PROVE  Onward(record, log, last, taken, validated)
BY DEF AtWork, Takes, Runs, Onward, Delivers

\* The worker at work takes a step; nobody else is at work.
LEMMA OnlyOnward ==
  ASSUME Typing, Orderly, NEW w \in Workers, AtWork(worker[w]), NEW new,
         worker' = [worker EXCEPT ![w] = new],
         Onward(new, rows', token', accepted', seen')
  PROVE  \A v \in Workers : Onward(worker'[v], rows', token', accepted', seen')
<1>1. \A v \in Workers : worker'[v] = IF v = w THEN new ELSE worker[v]
  BY TypingParts
<1>2. \A v \in Workers : v # w => ~ AtWork(worker[v])
  BY DEF Orderly, OneAtWork
<1>3. ASSUME NEW v \in Workers
      PROVE  Onward(worker'[v], rows', token', accepted', seen')
  BY <1>1, <1>2, NotOnward
<1> QED
  BY <1>3

\* Nobody is at work before and after the step.
LEMMA NobodyOnward ==
  ASSUME \A w \in Workers : ~ AtWork(worker[w]), worker' = worker
  PROVE  \A w \in Workers : Onward(worker'[w], rows', token', accepted', seen')
BY NotOnward

\* Rows that are written over the last one, or after rows that do not count.
LEMMA RowsOpen ==
  ASSUME rows \in Seq(LogRows), NEW row \in LogRows, NEW replace \in BOOLEAN,
         IF replace THEN OpenRows(rows) ELSE NoneCleared(rows)
  PROVE  \A new : new = Written(row, replace) =>
           /\ OpenRows(new)
           /\ ~ IsCleared(row) => NoneCleared(new)
<1>1. DOMAIN rows = 1..Len(rows) /\ Len(rows) \in Nat
  BY LenProperties
<1>2. ASSUME NEW new, new = Written(row, replace)
      PROVE  /\ OpenRows(new) /\ DOMAIN new = 1..Len(new) /\ Len(new) \in Nat
             /\ new[Len(new)] = row
  <2>1. CASE replace /\ rows # <<>>
    <3>1. Len(rows) \in 1..Len(rows)
      BY <2>1, EmptySeq
    <3>2. new = [rows EXCEPT ![Len(rows)] = row]
      BY <1>2, <2>1 DEF Written
    <3>3. /\ new \in Seq(LogRows) /\ Len(new) = Len(rows)
          /\ \A j \in 1..Len(rows) : new[j] = IF j = Len(rows) THEN row ELSE rows[j]
      BY <3>1, <3>2, ExceptSeq
    <3>4. DOMAIN new = 1..Len(rows)
      BY <3>3, LenProperties
    <3>5. \A i \in DOMAIN rows : i < Len(rows) => ~ IsCleared(rows[i])
      BY <2>1 DEF OpenRows
    <3>6. ASSUME NEW i \in DOMAIN new, i < Len(new) PROVE ~ IsCleared(new[i])
      <4>1. Len(new) = Len(rows)
        BY <3>3
      <4>2. i \in 1..Len(rows) /\ i < Len(rows)
        BY <3>4, <3>6, <4>1
      <4>3. i \in Int /\ i # Len(rows)
        BY <1>1, <4>2
      <4>4. new[i] = rows[i]
        BY <3>3, <4>2, <4>3
      <4>5. i \in DOMAIN rows
        BY <1>1, <4>2
      <4> QED
        BY <3>5, <4>2, <4>4, <4>5
    <3> QED
      BY <1>1, <3>1, <3>3, <3>4, <3>6 DEF OpenRows
  <2>2. CASE ~ (replace /\ rows # <<>>)
    <3>1. new = Append(rows, row)
      BY <1>2, <2>2 DEF Written
    <3>2. /\ new \in Seq(LogRows) /\ Len(new) = Len(rows) + 1
          /\ \A i \in 1..Len(rows) : new[i] = rows[i]
          /\ new[Len(rows) + 1] = row
      BY <3>1, AppendProperties
    <3>3. \A i \in DOMAIN rows : ~ IsCleared(rows[i])
      BY <2>2 DEF NoneCleared
    <3>4. DOMAIN new = 1..(Len(rows) + 1)
      BY <3>2, LenProperties
    <3>5. \A i \in DOMAIN new : i < Len(new) => i \in 1..Len(rows)
      BY <1>1, <3>2, <3>4
    <3>6. \A i \in DOMAIN new : i < Len(new) => ~ IsCleared(new[i])
      BY <1>1, <3>2, <3>3, <3>5
    <3> QED
      BY <1>1, <3>2, <3>4, <3>6 DEF OpenRows
  <2> QED
    BY <2>1, <2>2
<1>3. ASSUME NEW new, new = Written(row, replace), ~ IsCleared(row)
      PROVE  NoneCleared(new)
  <2>1. /\ OpenRows(new) /\ DOMAIN new = 1..Len(new) /\ Len(new) \in Nat
        /\ new[Len(new)] = row
    BY <1>2, <1>3
  <2>2. ASSUME NEW i \in DOMAIN new PROVE ~ IsCleared(new[i])
    <3>1. i < Len(new) \/ i = Len(new)
      BY <2>1
    <3> QED
      BY <1>3, <2>1, <3>1 DEF OpenRows
  <2> QED
    BY <2>2 DEF NoneCleared
<1> QED
  BY <1>2, <1>3

\* Whoever writes over a row that waits, from a copy that is not outdated, finds the
\* last route, on which nothing was accepted or validated.
LEMMA LastRoute ==
  ASSUME Typing, Orderly, Steady, NEW copy, ~ Overtaken(copy)
  PROVE  /\ copy.token = token /\ token \in Tokens /\ token # 0
         /\ accepted[token] = 0 /\ Unseen(token, seen)
         /\ NoneCleared(rows) /\ OpenRows(rows) /\ IsHalted(rows)
<1>1. /\ status = "awaiting_callback" /\ rows # <<>>
      /\ LastRow.status = "awaiting_callback" /\ LastRow.state = copy
      /\ Waits(rows, accepted, seen, call)
  BY NotOvertaken
<1>2. IsHalted(rows)
  BY <1>1 DEF IsHalted, LastRow
<1>3. copy.token = token /\ NoneCleared(rows)
  BY <1>1, <1>2 DEF Steady, Waiting, LastRow
<1>4. Due(copy, accepted, seen) /\ copy.data = 0
  BY <1>1 DEF Waits, LastRow
<1>5. token \in Tokens /\ accepted[token] = 0 /\ Unseen(token, seen)
  BY <1>3, <1>4 DEF Due, Tokens
<1> QED
  BY <1>2, <1>3, <1>5 DEF OpenRows, NoneCleared, Tokens

\* The calls of the external service: a callback is Accept.
LEMMA SteadyCalls ==
  ASSUME Typing, Orderly, Steady, ~ raced', NEW c \in Calls,
         (\E t \in Tokens : Read(c, t)) \/ CommitCallback(c) \/ CommitProgress(c)
  PROVE  Steady' /\ Advances
<1>1. /\ call \in [Calls -> CallRecord] /\ rows \in Seq(LogRows)
      /\ accepted \in [Tokens -> 0..2]
      /\ DOMAIN rows = 1..Len(rows) /\ Len(rows) \in Nat
      /\ GoodState(call[c].copy, token) /\ call[c].copy \in State
      /\ call[c].pc = "read" => call[c].copy.token # 0
  BY TypingParts, LenProperties DEF GoodCall, CallRecord
<1>2. CASE \E t \in Tokens : Read(c, t)
  <2>1. UNCHANGED <<status, rows, worker, token, accepted, seen>>
    BY <1>2 DEF Read, history
  <2> QED
    BY <2>1 DEF Steady, Advances, Outcome
<1>3. CASE CommitCallback(c) \/ CommitProgress(c)
  <2> DEFINE copy == call[c].copy
  <2>1. PICK s \in State :
          /\ GoodState(s, token) /\ s.token = copy.token /\ s.token # 0
          /\ rows' = [rows EXCEPT ![call[c].row].state = s]
    <3>1. CASE CommitCallback(c)
      <4> DEFINE s == [copy EXCEPT !.data = copy.token]
      <4>1. rows' = [rows EXCEPT ![call[c].row].state = s] /\ call[c].pc = "read"
        BY <3>1 DEF CommitCallback
      <4>2. s \in State /\ GoodState(s, token) /\ s.token = copy.token
        BY <1>1, <4>1, StateType DEF GoodState
      <4> HIDE DEF s
      <4> QED
        BY <1>1, <4>1, <4>2
    <3>2. CASE CommitProgress(c)
      BY <1>1, <3>2 DEF CommitProgress
    <3> QED
      BY <1>3, <3>1, <3>2
  <2>2. /\ call[c].pc = "read" /\ raced' = (raced \/ Overtaken(copy))
        /\ UNCHANGED <<worker, token, seen>>
    BY <1>3 DEF CommitCallback, CommitProgress, history
  <2>3. /\ status = "awaiting_callback" /\ rows # <<>> /\ Len(rows) \in DOMAIN rows
        /\ Waits(rows, accepted, seen, call) /\ LastRow.state = copy
        /\ \A w \in Workers : ~ AtWork(worker[w])
    BY <2>2, NotOvertaken
  <2>4. /\ copy.token = token /\ token \in Tokens /\ token # 0
        /\ accepted[token] = 0 /\ Unseen(token, seen)
        /\ NoneCleared(rows) /\ IsHalted(rows)
    BY <2>2, LastRoute
  <2>5. call[c].row = Len(rows)
    BY <2>2, <2>3 DEF Waits, LastRow
  <2>6. /\ rows' \in Seq(LogRows) /\ Len(rows') = Len(rows)
        /\ \A i \in DOMAIN rows' :
             /\ i \in DOMAIN rows
             /\ rows'[i] = IF i = Len(rows) THEN Put(rows[i].status, s) ELSE rows[i]
    <3>1. rows' = [rows EXCEPT ![Len(rows)].state = s]
      BY <2>1, <2>5
    <3>2. s \in State /\ GoodState(s, token) /\ s.token # 0
      BY <2>1
    <3> HIDE DEF copy
    <3> QED
      BY <3>1, <3>2, StateWritten
  <2>7. \A i \in DOMAIN rows' : i \in DOMAIN rows /\ rows'[i].status = rows[i].status
    BY <2>6 DEF Put
  <2>8. NoneCleared(rows')
    BY <2>4, <2>7 DEF NoneCleared, IsCleared
  <2>9. Len(rows') \in DOMAIN rows' /\ rows' # <<>>
    BY <1>1, <2>3, <2>6, LenProperties, EmptySeq
  <2>10. IsHalted(rows') /\ rows'[Len(rows')].state.token = token
    <3>1. rows'[Len(rows')].status = rows[Len(rows)].status
      BY <2>6, <2>7, <2>9
    <3>2. rows'[Len(rows')].state = s
      BY <2>6, <2>9 DEF Put
    <3> QED
      BY <2>1, <2>4, <2>9, <3>1, <3>2 DEF IsHalted
  <2>11. status' \in {"resumed", "awaiting_callback"}
    BY <1>3, <2>3 DEF CommitCallback, CommitProgress
  <2>12. Waiting(status', rows', token', accepted', seen')
    BY <2>2, <2>8, <2>10, <2>11 DEF Waiting
  <2>13. Steady'
    BY <2>2, <2>3, <2>12, NobodyOnward DEF Steady
  <2>14. Advances
    <3>1. Outcome = "open" /\ Outcome' = "open"
      BY <2>3, <2>11 DEF Outcome
    <3>2. CASE CommitCallback(c)
      <4>1. accepted' = [accepted EXCEPT ![token] = 1]
        BY <1>1, <2>4, <3>2 DEF CommitCallback
      <4>2. ~ Route!Answered /\ ~ Route!Validated
        BY <2>4 DEF Route!Answered, Route!Validated, Unseen
      <4>3. Route!Accept
        BY <2>2, <2>4, <3>1, <4>1, <4>2 DEF Route!Accept
      <4> QED
        BY <3>1, <4>3 DEF Advances, Route!Step
    <3>3. CASE CommitProgress(c)
      BY <2>2, <3>1, <3>3 DEF Advances, CommitProgress, history
    <3> QED
      BY <1>3, <3>2, <3>3
  <2> QED
    BY <2>13, <2>14
<1> QED
  BY <1>2, <1>3

\* Users: an abort is GiveUp.
LEMMA SteadyUsers ==
  ASSUME Typing, Orderly, Steady, Resume \/ Abort
  PROVE  Steady' /\ Advances
<1>1. queue \in Nat /\ rows \in Seq(LogRows)
  BY TypingParts
<1>2. CASE Resume
  <2>1. /\ status \in RESUMABLE_STATUSES \ {"resumed"} /\ status' = "resumed"
        /\ UNCHANGED <<rows, worker, token, accepted, seen>>
    BY <1>2 DEF Resume, history
  <2>2. status \in {"awaiting_callback", "failed"}
    BY <2>1 DEF RESUMABLE_STATUSES, Orderly, AtRest
  <2>3. \A w \in Workers : ~ AtWork(worker[w])
    BY <1>1, <2>2, NobodyAtWork
  <2>4. status = "awaiting_callback" => IsHalted(rows)
    BY DEF Orderly, AtRest, Waits, IsHalted
  <2>5. status = "failed" => ~ IsHalted(rows)
    BY DEF Orderly, AtRest, IsHalted
  <2>6. Waiting(status', rows', token', accepted', seen')
    BY <2>1, <2>2, <2>4, <2>5 DEF Steady, Waiting
  <2>7. Advances
    BY <2>1, <2>2 DEF Advances, Outcome
  <2> QED
    BY <2>1, <2>3, <2>6, <2>7, NobodyOnward DEF Steady
<1>3. CASE Abort
  <2>1. /\ \A w \in Workers : worker[w].pc = "idle"
        /\ status # "aborted" /\ status' = "aborted"
        /\ RecoveredStatus(rows) # "complete"
        /\ UNCHANGED <<worker, token, accepted, seen>>
    BY <1>3 DEF Abort, history
  <2>2. \A w \in Workers : ~ AtWork(worker[w])
    BY <2>1 DEF AtWork, Takes, Runs
  <2>3. Waiting(status', rows', token', accepted', seen')
    BY <2>1 DEF Waiting
  <2>4. status # "completed"
    <3> SUFFICES ASSUME status = "completed" PROVE FALSE
      OBVIOUS
    <3>1. rows # <<>> /\ rows[Len(rows)].status = "complete"
      BY DEF Steady, Waiting
    <3>2. IsCleared(rows[Len(rows)])
      BY <3>1 DEF IsCleared
    <3>3. RecoveredStatus(rows) = "complete"
      BY <1>1, <3>1, <3>2, RecoverLast
    <3> QED
      BY <2>1, <3>3
  <2>5. Outcome = "open" /\ Outcome' = "aborted"
    BY <2>1, <2>4 DEF Outcome
  <2>6. Route!GiveUp
    BY <2>1, <2>5 DEF Route!GiveUp
  <2>7. Advances
    BY <2>5, <2>6 DEF Advances, Route!Step
  <2> QED
    BY <2>1, <2>2, <2>3, <2>7, NobodyOnward DEF Steady
<1> QED
  BY <1>2, <1>3

\* A worker takes a message.
LEMMA SteadyTake ==
  ASSUME Typing, Steady, NEW w \in Workers, Take(w)
  PROVE  Steady' /\ Advances
<1> DEFINE new == IF status = "resumed" THEN [Free EXCEPT !.pc = "load"] ELSE Free
<1>1. /\ worker' = [worker EXCEPT ![w] = new]
      /\ UNCHANGED <<status, rows, token, accepted, seen>>
  BY DEF Take, history
<1>2. new.pc \in {"load", "idle"}
  BY DEF Free
<1> HIDE DEF new
<1>3. \A v \in Workers : worker'[v] = IF v = w THEN new ELSE worker[v]
  BY <1>1, TypingParts
<1>4. Onward(new, rows, token, accepted, seen)
  BY <1>2 DEF Onward, Delivers
<1>5. \A v \in Workers : Onward(worker'[v], rows, token, accepted, seen)
  BY <1>3, <1>4 DEF Steady
<1> QED
  BY <1>1, <1>5 DEF Steady, Advances, Outcome

\* Recovery from rows of which none counts starts with the group.
LEMMA RecoversGroup ==
  ASSUME Typing, NoneCleared(rows)
  PROVE  RestFrom(rows, 2) = 1
<1>1. ClearedRows(rows) = {}
  BY DEF ClearedRows, NoneCleared
<1>2. StepCount(rows) = 0
  BY <1>1, FS_EmptySet DEF StepCount
<1>3. RecoveredStatus(rows) # "complete"
  BY <1>1 DEF RecoveredStatus, IsHalted
<1> QED
  BY <1>2, <1>3 DEF RestFrom

\* A worker loads and claims the process.
LEMMA SteadyStart ==
  ASSUME Typing, Orderly, Steady, NEW w \in Workers, Load(w) \/ Claim(w)
  PROVE  Steady' /\ Advances
<1>1. worker \in [Workers -> WorkerRecord] /\ worker[w] \in WorkerRecord
  BY TypingParts
<1>2. AtWork(worker[w]) /\ status = "resumed"
  BY DEF Load, Claim, Orderly, OneAtWork, AtWork, Takes
<1>3. NoneCleared(rows)
  BY <1>2 DEF Steady, Waiting
<1>4. CASE Load(w)
  <2> DEFINE new == [Free EXCEPT !.pc = "claim", !.todo = RestFrom(rows, 2),
                       !.st = RecoveredStatus(rows), !.state = RecoveredState]
  <2>1. /\ worker' = [worker EXCEPT ![w] = new]
        /\ UNCHANGED <<status, rows, token, accepted, seen>>
    BY <1>4 DEF Load, history
  <2>2. new.pc = "claim" /\ new.todo = RestFrom(rows, 2) /\ new.state = RecoveredState
    BY DEF Free
  <2> HIDE DEF new
  <2>3. new.todo = 1
    BY <1>3, <2>2, RecoversGroup
  <2>4. /\ RecoveredState.stage # 0 => RecoveredState.token = token
        /\ RecoveredState.stage # 3 => ~ Pending(token, accepted, seen)
    <3>1. CASE IsHalted(rows)
      <4>1. RecoveredState = rows[Len(rows)].state
        BY <3>1, Recovered DEF LastRow
      <4>2. RecoveredState.stage = 3
        BY <1>2, <3>1, <4>1 DEF Orderly, AtRest, Due
      <4>3. RecoveredState.token = token
        BY <1>2, <3>1, <4>1 DEF Steady, Waiting
      <4> QED
        BY <4>2, <4>3
    <3>2. CASE ~ IsHalted(rows)
      <4>1. RecoveredState.stage = 0
        BY <2>2, <2>3, <3>2, Recovered DEF NoState
      <4>2. ~ Pending(token, accepted, seen)
        BY <1>2, <3>2 DEF Steady, Waiting
      <4> QED
        BY <4>1, <4>2
    <3> QED
      BY <3>1, <3>2
  <2>5. Onward(new, rows, token, accepted, seen)
    BY <1>3, <2>2, <2>3, <2>4 DEF Onward, Delivers
  <2>6. \A v \in Workers : Onward(worker'[v], rows', token', accepted', seen')
    BY <1>2, <2>1, <2>5, OnlyOnward
  <2> QED
    BY <2>1, <2>6 DEF Steady, Advances, Outcome
<1>5. CASE Claim(w)
  <2> DEFINE new == [worker[w] EXCEPT !.pc = "claimed"]
  <2>1. /\ worker[w].pc = "claim" /\ worker' = [worker EXCEPT ![w] = new]
        /\ status' = "running" /\ UNCHANGED <<rows, token, accepted, seen>>
    BY <1>5 DEF Claim, history
  <2>2. new.pc = "claimed" /\ new.state = worker[w].state /\ new.todo = worker[w].todo
    BY <1>1 DEF WorkerRecord
  <2> HIDE DEF new
  <2>3. Onward(new, rows, token, accepted, seen)
    BY <2>1, <2>2 DEF Steady, Onward, Delivers
  <2>4. \A v \in Workers : Onward(worker'[v], rows', token', accepted', seen')
    BY <1>2, <2>1, <2>3, OnlyOnward
  <2>5. Waiting(status', rows', token', accepted', seen')
    BY <2>1 DEF Waiting
  <2>6. Advances
    BY <1>2, <2>1 DEF Advances, Outcome
  <2> QED
    BY <2>4, <2>5, <2>6 DEF Steady
<1> QED
  BY <1>4, <1>5

\* A worker answers the row that waits, or goes on from another.
LEMMA SteadyResumes ==
  ASSUME Typing, Orderly, Steady, NEW w \in Workers, Answer(w) \/ Continue(w)
  PROVE  Steady' /\ Advances
<1>1. /\ worker \in [Workers -> WorkerRecord] /\ worker[w] \in WorkerRecord
      /\ rows \in Seq(LogRows)
  BY TypingParts
<1>2. /\ worker[w].pc = "claimed" /\ UNCHANGED <<token, accepted, seen>>
      /\ status' \in {"running", status}
  BY DEF Answer, Continue, history
<1>3. AtWork(worker[w]) /\ status = "running"
  BY <1>2 DEF Orderly, OneAtWork, AtWork, Runs
<1>4. /\ worker[w].todo = 1 /\ NoneCleared(rows) /\ worker[w].state.stage # 4
      /\ worker[w].state.stage # 0 => worker[w].state.token = token
      /\ worker[w].state.stage # 3 => ~ Pending(token, accepted, seen)
  BY <1>2 DEF Steady, Onward, Orderly, Prepared
<1>5. PICK record \in WorkerRecord :
        /\ record.state = worker[w].state /\ record.todo = worker[w].todo
        /\ worker' = [worker EXCEPT ![w] = Loop(record)]
        /\ OpenRows(rows') /\ (~ record.replace => NoneCleared(rows'))
  <2>1. CASE Answer(w)
    <3> DEFINE new == [worker[w] EXCEPT !.st = "success", !.replace = TRUE]
               row == Put("success", worker[w].state)
    <3>1. new \in WorkerRecord /\ new.state = worker[w].state /\ new.todo = worker[w].todo
          /\ new.replace = TRUE
      BY <1>1 DEF WorkerRecord, StepStatus
    <3>2. worker' = [worker EXCEPT ![w] = Loop(new)] /\ rows' = Append(rows, row)
      BY <1>1, <2>1 DEF Answer
    <3> HIDE DEF new
    <3>3. row \in LogRows /\ rows' = Written(row, FALSE)
      BY <1>1, <3>2 DEF Put, LogRows, StepStatus, WorkerRecord, Written
    <3> HIDE DEF row
    <3>4. OpenRows(rows')
      BY <1>1, <1>4, <3>3, RowsOpen
    <3> QED
      BY <3>1, <3>2, <3>4
  <2>2. CASE Continue(w)
    <3> DEFINE new == [worker[w] EXCEPT !.st = ResumeStatus(worker[w].st)]
    <3>1. new \in WorkerRecord /\ new.state = worker[w].state /\ new.todo = worker[w].todo
      BY <1>1 DEF WorkerRecord, StepStatus, ResumeStatus
    <3>2. worker' = [worker EXCEPT ![w] = Loop(new)] /\ rows' = rows
      BY <1>1, <2>2 DEF Continue
    <3> HIDE DEF new
    <3>3. OpenRows(rows') /\ NoneCleared(rows')
      BY <1>4, <3>2 DEF OpenRows, NoneCleared
    <3> QED
      BY <3>1, <3>2, <3>3
  <2> QED
    BY <2>1, <2>2
<1>6. \/ Loop(record).pc = "idle"
      \/ /\ Loop(record).pc = "group" /\ Loop(record).state = worker[w].state
         /\ Loop(record).replace = record.replace
  BY <1>4, <1>5 DEF Loop, Free, WorkerRecord
<1>7. Onward(Loop(record), rows', token', accepted', seen')
  BY <1>2, <1>4, <1>5, <1>6 DEF Onward, Delivers
<1>8. \A v \in Workers : Onward(worker'[v], rows', token', accepted', seen')
  BY <1>3, <1>5, <1>7, OnlyOnward
<1>9. Waiting(status', rows', token', accepted', seen')
  BY <1>2, <1>3 DEF Waiting
<1>10. Advances
  BY <1>2, <1>3 DEF Advances, Outcome
<1> QED
  BY <1>8, <1>9, <1>10 DEF Steady

\* A sub step that is written: what is left to show is what the new state says of
\* the last route.
LEMMA SteadyWrites ==
  ASSUME Typing, Orderly, Steady, NEW w \in Workers, worker[w].pc = "group",
         NEW s \in {"success", "failed", "awaiting_callback"}, NEW state \in State,
         WriteSub(w, s, state),
         s = "success" /\ state.stage \notin {0, 4} =>
           state.token = token' /\ (state.stage # 3 => ~ Pending(token', accepted', seen')),
         s = "success" /\ state.stage = 4 => state.token = token',
         s = "success" /\ state.stage \in {0, 4} => token' # 0 /\ ~ Unseen(token', seen'),
         s = "awaiting_callback" => state.token = token',
         s = "failed" => ~ Pending(token', accepted', seen')
  PROVE  Steady' /\ Outcome = "open" /\ Outcome' = "open"
<1> DEFINE new == [worker[w] EXCEPT
             !.pc = IF s = "success" /\ state.stage # 0 THEN "group" ELSE "leave",
             !.st = s, !.state = state, !.replace = TRUE]
           row == Put(s, state)
<1>1. /\ worker \in [Workers -> WorkerRecord] /\ worker[w] \in WorkerRecord
      /\ rows \in Seq(LogRows)
  BY TypingParts
<1>2. /\ new.state = state /\ new.st = s /\ new.replace = TRUE
      /\ new.pc = IF s = "success" /\ state.stage # 0 THEN "group" ELSE "leave"
  BY <1>1 DEF WorkerRecord
<1>3. /\ worker' = [worker EXCEPT ![w] = new]
      /\ rows' = Written(row, worker[w].replace) /\ status' = OverallStatus[s]
  BY <1>1 DEF WriteSub, WorkerRecord
<1>4. row.status = s /\ row.state = state
  BY DEF Put
<1>5. row \in LogRows /\ worker[w].replace \in BOOLEAN
  BY <1>1 DEF Put, LogRows, StepStatus, WorkerRecord
<1> HIDE DEF new, row
<1>6. AtWork(worker[w]) /\ status = "running"
  BY DEF Orderly, OneAtWork, AtWork, Runs
<1>7. IF worker[w].replace THEN OpenRows(rows) ELSE NoneCleared(rows)
  BY DEF Steady, Onward
<1>8. OpenRows(rows') /\ (~ IsCleared(row) => NoneCleared(rows'))
  BY <1>1, <1>3, <1>5, <1>7, RowsOpen
<1>9. rows' # <<>> /\ rows'[Len(rows')] = row
  BY <1>1, <1>3, <1>5, RowsWritten
<1>10. Pending(token', accepted', seen') => Unseen(token', seen')
  BY DEF Pending
<1>11. Onward(new, rows', token', accepted', seen')
  <2>1. CASE s = "success" /\ state.stage \notin {0, 4}
    BY <1>2, <1>8, <2>1 DEF Onward, Delivers
  <2>2. CASE s = "success" /\ state.stage = 4
    BY <1>2, <1>8, <1>10, <2>2 DEF Onward, Delivers
  <2>3. CASE s = "success" /\ state.stage = 0
    BY <1>2, <2>3 DEF Onward, Delivers
  <2>4. CASE s # "success"
    BY <1>2, <2>4 DEF Onward, Delivers
  <2> QED
    BY <2>1, <2>2, <2>3, <2>4
<1>12. \A v \in Workers : Onward(worker'[v], rows', token', accepted', seen')
  BY <1>3, <1>6, <1>11, OnlyOnward
<1>13. Waiting(status', rows', token', accepted', seen')
  <2>1. CASE s = "success"
    BY <1>3, <2>1 DEF Waiting, OverallStatus
  <2>2. CASE s = "failed"
    <3>1. status' = "failed" /\ NoneCleared(rows') /\ ~ IsHalted(rows')
      BY <1>3, <1>4, <1>8, <1>9, <2>2 DEF OverallStatus, IsCleared, IsHalted
    <3> QED
      BY <2>2, <3>1 DEF Waiting
  <2>3. CASE s = "awaiting_callback"
    <3>1. /\ status' = "awaiting_callback" /\ NoneCleared(rows')
          /\ rows'[Len(rows')].state.token = token'
      BY <1>3, <1>4, <1>8, <1>9, <2>3 DEF OverallStatus, IsCleared
    <3> QED
      BY <3>1 DEF Waiting
  <2> QED
    BY <2>1, <2>2, <2>3
<1>14. Outcome = "open" /\ Outcome' = "open"
  BY <1>3, <1>6 DEF Outcome, OverallStatus
<1> QED
  BY <1>12, <1>13, <1>14 DEF Steady

\* The sub steps of the group: creating the endpoint is Issue, and the validating
\* step Validate.
LEMMA SteadySubSteps ==
  ASSUME Typing, Orderly, Steady, NEW w \in Workers,
         CreateEndpoint(w) \/ CallService(w) \/ Await(w) \/ Validate(w) \/ Cleanup(w)
  PROVE  Steady' /\ Advances
<1> DEFINE old == worker[w].state
<1>1. /\ worker[w] \in WorkerRecord /\ GoodWorker(worker[w], token)
      /\ token \in 0..MaxToken /\ token \in Nat /\ MaxToken \in Nat
      /\ old \in State /\ GoodState(old, token) /\ accepted \in [Tokens -> 0..2]
      /\ seen \in SUBSET (Tokens \X (0..MaxToken))
      /\ Prepared(worker[w], accepted, seen, call)
      /\ Onward(worker[w], rows, token, accepted, seen)
  BY TypingParts DEF WorkerRecord, GoodWorker, Orderly, Steady
<1>2. State = [stage : 0..5, token : 0..MaxToken, data : 0..MaxToken] /\ NoState \in State
  BY <1>1, StateType
<1>3. worker[w].pc = "group" /\ worker[w].todo = 1
  BY <1>1 DEF CreateEndpoint, CallService, Await, Validate, Cleanup, SubStep, GoodWorker
<1>4. /\ old.stage # 0 => old.token = token
      /\ old.stage # 3 => ~ Pending(token, accepted, seen)
      /\ old.stage = 4 => token # 0 /\ ~ Unseen(token, seen)
  BY <1>1, <1>3 DEF Onward, Delivers
<1>5. old.stage = 3 => Due(old, accepted, seen)
  BY <1>1, <1>3 DEF Prepared
<1> HIDE DEF old
<1>6. CASE CreateEndpoint(w)
  <2> DEFINE state == [old EXCEPT !.stage = 1, !.token = token']
  <2>1. /\ old.stage = 0 /\ token < MaxToken /\ token' = token + 1
        /\ WriteSub(w, "success", state) /\ accepted' = accepted /\ seen' = seen
    BY <1>6 DEF CreateEndpoint, SubStep, history, old
  <2>2. token' \in 0..MaxToken /\ token' \in Tokens /\ token' > token
    BY <1>1, <2>1 DEF Tokens
  <2>3. state \in State /\ state.stage = 1 /\ state.token = token'
    <3>1. 1 \in 0..Len(Stages)
      BY StateType
    <3> QED
      BY <1>1, <2>2, <3>1 DEF State, state
  <2> HIDE DEF state
  <2>4. accepted[token'] = 0
    <3>1. accepted[token'] # 0 => token' <= token
      BY <2>2 DEF Typing, Matching
    <3> QED
      BY <1>1, <2>2, <3>1
  <2>5. ~ Pending(token', accepted', seen')
    BY <2>1, <2>4 DEF Pending
  <2>6. Steady' /\ Outcome = "open" /\ Outcome' = "open"
    BY <1>3, <2>1, <2>3, <2>5, SteadyWrites
  <2>7. Route!Issue
    <3>1. Route!Answered => Route!Validated
      BY <1>4, <2>1 DEF Pending, Unseen, Route!Answered, Route!Validated
    <3> QED
      BY <2>1, <2>6, <3>1 DEF Route!Issue
  <2> QED
    BY <2>6, <2>7 DEF Advances, Route!Step
<1>7. CASE CallService(w)
  <2> DEFINE state == [old EXCEPT !.stage = 2]
  <2>1. /\ old.stage = 1 /\ UNCHANGED <<token, accepted, seen>>
        /\ WriteSub(w, "success", state) \/ WriteSub(w, "failed", NoState)
    BY <1>7 DEF CallService, SubStep, history, old
  <2>2. state \in State /\ state.stage = 2 /\ state.token = old.token
    BY <1>1, <1>2
  <2> HIDE DEF state
  <2>3. ~ Pending(token', accepted', seen') /\ state.token = token'
    BY <1>4, <2>1, <2>2
  <2>4. Steady' /\ Outcome = "open" /\ Outcome' = "open"
    <3>1. CASE WriteSub(w, "success", state)
      BY <1>3, <2>2, <2>3, <3>1, SteadyWrites
    <3>2. CASE WriteSub(w, "failed", NoState)
      BY <1>2, <1>3, <2>3, <3>2, SteadyWrites
    <3> QED
      BY <2>1, <3>1, <3>2
  <2> QED
    BY <2>1, <2>4 DEF Advances
<1>8. CASE Await(w)
  <2> DEFINE state == [old EXCEPT !.stage = 3]
  <2>1. /\ old.stage = 2 /\ UNCHANGED <<token, accepted, seen>>
        /\ WriteSub(w, "awaiting_callback", state)
    BY <1>8 DEF Await, SubStep, history, old
  <2>2. state \in State /\ state.token = old.token
    BY <1>1, <1>2
  <2> HIDE DEF state
  <2>3. state.token = token'
    BY <1>4, <2>1, <2>2
  <2>4. Steady' /\ Outcome = "open" /\ Outcome' = "open"
    BY <1>3, <2>1, <2>2, <2>3, SteadyWrites
  <2> QED
    BY <2>1, <2>4 DEF Advances
<1>9. CASE Validate(w)
  <2> DEFINE state == [old EXCEPT !.stage = 4]
  <2>1. /\ old.stage = 3 /\ UNCHANGED <<token, accepted>>
        /\ seen' = seen \cup {<<old.token, old.data>>}
        /\ WriteSub(w, "success", state) \/ WriteSub(w, "failed", NoState)
    BY <1>9 DEF Validate, SubStep, history, old
  <2>2. state \in State /\ state.stage = 4 /\ state.token = old.token
    BY <1>1, <1>2
  <2> HIDE DEF state
  <2>3. /\ old.token = token /\ token # 0 /\ Unseen(token, seen)
        /\ old.data = IF accepted[token] # 0 THEN token ELSE 0
    BY <1>4, <1>5, <2>1 DEF Due, Tokens
  <2>4. ~ Unseen(token', seen')
    <3>1. <<token, old.data>> \in seen' /\ token' = token
      BY <2>1, <2>3
    <3>2. <<token, old.data>>[1] = token
      OBVIOUS
    <3> QED
      BY <3>1, <3>2 DEF Unseen
  <2>5. ~ Pending(token', accepted', seen')
    BY <2>4 DEF Pending
  <2>6. Steady' /\ Outcome = "open" /\ Outcome' = "open"
    <3>1. CASE WriteSub(w, "success", state)
      BY <1>3, <2>1, <2>2, <2>3, <2>4, <3>1, SteadyWrites
    <3>2. CASE WriteSub(w, "failed", NoState)
      BY <1>2, <1>3, <2>5, <3>2, SteadyWrites
    <3> QED
      BY <2>1, <3>1, <3>2
  <2>7. Route!Validate
    <3>1. ~ Route!Validated
      BY <2>3 DEF Unseen, Route!Validated
    <3>2. seen' = seen \cup {<<token, IF Route!Answered THEN token ELSE 0>>}
      BY <2>1, <2>3 DEF Route!Answered
    <3> QED
      BY <2>1, <2>3, <2>6, <3>1, <3>2 DEF Route!Validate
  <2> QED
    BY <2>6, <2>7 DEF Advances, Route!Step
<1>10. CASE Cleanup(w)
  <2> DEFINE state == [old EXCEPT !.stage = 0, !.token = 0]
  <2>1. /\ old.stage = 4 /\ UNCHANGED <<token, accepted, seen>>
        /\ WriteSub(w, "success", state)
    BY <1>10 DEF Cleanup, SubStep, history, old
  <2>2. state \in State /\ state.stage = 0
    <3>1. 0 \in 0..Len(Stages) /\ 0 \in 0..MaxToken
      BY <1>1, StateType
    <3> QED
      BY <1>1, <3>1 DEF State, state
  <2> HIDE DEF state
  <2>3. token' # 0 /\ ~ Unseen(token', seen')
    BY <1>4, <2>1
  <2>4. Steady' /\ Outcome = "open" /\ Outcome' = "open"
    BY <1>3, <2>1, <2>2, <2>3, SteadyWrites
  <2> QED
    BY <2>1, <2>4 DEF Advances
<1> QED
  BY <1>6, <1>7, <1>8, <1>9, <1>10

\* A worker leaves the group, or finishes the process, which is Complete.
LEMMA SteadyEnds ==
  ASSUME Typing, Orderly, Steady, ~ raced', NEW w \in Workers, LeaveGroup(w) \/ Finish(w)
  PROVE  Steady' /\ Advances
<1>1. /\ worker \in [Workers -> WorkerRecord] /\ worker[w] \in WorkerRecord
      /\ GoodWorker(worker[w], token) /\ rows \in Seq(LogRows)
      /\ Onward(worker[w], rows, token, accepted, seen)
  BY TypingParts DEF Steady
<1>2. ~ AtWork(Free)
  BY DEF Free, AtWork, Takes, Runs
<1>3. CASE Finish(w)
  <2> DEFINE row == Put("complete", worker[w].state)
  <2>1. /\ worker[w].pc = "done" /\ worker' = [worker EXCEPT ![w] = Free]
        /\ rows' = Append(rows, row)
        /\ status' = "completed" /\ UNCHANGED <<token, accepted, seen>>
    BY <1>3 DEF Finish, history
  <2>2. AtWork(worker[w]) /\ status = "running"
    BY <2>1 DEF Orderly, OneAtWork, AtWork, Runs
  <2>3. \A v \in Workers : Onward(worker'[v], rows', token', accepted', seen')
    BY <1>2, <2>1, <2>2, NotOnward, OnlyOnward
  <2>4. row \in LogRows /\ row.status = "complete"
    BY <1>1 DEF Put, LogRows, StepStatus, WorkerRecord
  <2> HIDE DEF row
  <2>5. rows' # <<>> /\ rows'[Len(rows')].status = "complete"
    BY <1>1, <2>1, <2>4, RowsWritten
  <2>6. Waiting(status', rows', token', accepted', seen')
    BY <2>1, <2>5 DEF Waiting
  <2>7. Outcome = "open" /\ Outcome' = "completed"
    BY <2>1, <2>2 DEF Outcome
  <2>8. Route!Complete
    <3>1. token # 0 /\ Route!Validated
      BY <1>1, <2>1 DEF Onward, Delivers, Unseen, Route!Validated
    <3> QED
      BY <2>1, <2>7, <3>1 DEF Route!Complete
  <2> QED
    BY <2>3, <2>6, <2>7, <2>8 DEF Steady, Advances, Route!Step
<1>4. CASE LeaveGroup(w)
  <2> DEFINE row == Put(worker[w].st, worker[w].state)
             record == [worker[w] EXCEPT !.todo = 2, !.age = 0]
  <2>1. /\ worker[w].pc = "leave" /\ rows' = Written(row, TRUE)
        /\ status' = OverallStatus[worker[w].st]
        /\ worker' = [worker EXCEPT ![w] = Loop(record)]
        /\ raced' = (raced \/ LastRow # row \/ status # status')
        /\ UNCHANGED <<token, accepted, seen>>
    BY <1>4 DEF LeaveGroup, history, Put
  <2>2. LastRow = row /\ status' = status
    BY <2>1
  <2>3. record.st = worker[w].st /\ record.todo = 2
    BY <1>1 DEF WorkerRecord
  <2> HIDE DEF record
  <2>4. Advances
    BY <2>1, <2>2 DEF Advances, Outcome
  <2>5. CASE worker[w].st = "success"
    <3>1. status' = "running" /\ AtWork(worker[w])
      BY <2>1, <2>5 DEF OverallStatus, AtWork, Runs
    <3>2. token # 0 /\ ~ Unseen(token, seen)
      BY <1>1, <2>1, <2>5 DEF Onward, Delivers
    <3>3. Loop(record).pc \in {"idle", "done"}
      BY <2>3 DEF Loop, Free
    <3>4. Onward(Loop(record), rows', token', accepted', seen')
      BY <2>1, <3>2, <3>3 DEF Onward
    <3>5. \A v \in Workers : Onward(worker'[v], rows', token', accepted', seen')
      BY <2>1, <3>1, <3>4, OnlyOnward
    <3>6. Waiting(status', rows', token', accepted', seen')
      BY <3>1 DEF Waiting
    <3> QED
      BY <2>4, <3>5, <3>6 DEF Steady
  <2>6. CASE worker[w].st \in {"failed", "awaiting_callback"}
    <3>1. status \in {"failed", "awaiting_callback"}
      BY <2>1, <2>2, <2>6 DEF OverallStatus
    <3>2. rows # <<>>
      BY <3>1 DEF Orderly, AtRest, Waits
    <3>3. rows' = [rows EXCEPT ![Len(rows)] = row] /\ row = rows[Len(rows)]
      BY <2>1, <2>2, <3>2 DEF Written, LastRow
    <3> HIDE DEF row
    <3>4. rows' = rows
      BY <1>1, <3>3
    <3>5. Loop(record) = Free
      BY <2>3, <2>6 DEF Loop, Continues
    <3>6. \A v \in Workers : worker'[v] = IF v = w THEN Free ELSE worker[v]
      BY <1>1, <2>1, <3>5
    <3>7. ASSUME NEW v \in Workers
          PROVE  Onward(worker'[v], rows', token', accepted', seen')
      <4>1. CASE v = w
        BY <1>2, <3>6, <4>1, NotOnward
      <4>2. CASE v # w
        BY <2>1, <3>4, <3>6, <4>2 DEF Steady
      <4> QED
        BY <4>1, <4>2
    <3> QED
      BY <2>1, <2>2, <2>4, <3>4, <3>7 DEF Steady
  <2> QED
    BY <1>1, <2>1, <2>5, <2>6 DEF GoodWorker
<1> QED
  BY <1>3, <1>4

\* The task.
LEMMA SteadySweep ==
  ASSUME Typing, Orderly, Steady, ~ raced', Sweep
  PROVE  Steady' /\ Advances
<1>1. CASE SweepFind \/ SweepLoad
  <2>1. UNCHANGED <<status, rows, worker, token, accepted, seen>>
    BY <1>1 DEF SweepFind, SweepLoad, history
  <2> QED
    BY <2>1 DEF Steady, Advances, Outcome
<1>2. CASE SweepFail
  <2> DEFINE row == Put("failed", sweep.copy)
  <2>1. /\ rows' = Written(row, TRUE) /\ status' = "failed"
        /\ raced' = (raced \/ Overtaken(sweep.copy))
        /\ UNCHANGED <<worker, token, accepted, seen>>
    BY <1>2 DEF SweepFail, history
  <2>2. status = "awaiting_callback" /\ \A w \in Workers : ~ AtWork(worker[w])
    BY <2>1, NotOvertaken
  <2>3. accepted[token] = 0 /\ OpenRows(rows)
    BY <2>1, LastRoute
  <2>4. row \in LogRows /\ rows \in Seq(LogRows) /\ row.status = "failed"
    BY TypingParts DEF Put, LogRows, StepStatus
  <2> HIDE DEF row
  <2>5. NoneCleared(rows')
    BY <2>1, <2>3, <2>4, RowsOpen DEF IsCleared
  <2>6. ~ IsHalted(rows')
    <3>1. rows'[Len(rows')] = row
      BY <2>1, <2>4, RowsWritten
    <3> QED
      BY <2>4, <3>1 DEF IsHalted
  <2>7. ~ Pending(token', accepted', seen')
    BY <2>1, <2>3 DEF Pending
  <2>8. Waiting(status', rows', token', accepted', seen')
    BY <2>1, <2>5, <2>6, <2>7 DEF Waiting
  <2>9. Advances
    BY <2>1, <2>2 DEF Advances, Outcome
  <2> QED
    BY <2>1, <2>2, <2>8, <2>9, NobodyOnward DEF Steady
<1> QED
  BY <1>1, <1>2 DEF Sweep

\* Time passes.
LEMMA SteadyTick ==
  ASSUME Typing, Steady, Tick
  PROVE  Steady' /\ Advances
<1>1. UNCHANGED <<status, rows, token, accepted, seen>>
  BY DEF Tick
<1>2. \A w \in Workers : /\ worker'[w].pc = worker[w].pc /\ worker'[w].st = worker[w].st
                         /\ worker'[w].todo = worker[w].todo
                         /\ worker'[w].state = worker[w].state
                         /\ worker'[w].replace = worker[w].replace
  BY TypingParts DEF Tick, WorkerRecord
<1>3. \A w \in Workers : Onward(worker'[w], rows, token, accepted, seen)
  BY <1>2 DEF Steady, Onward, Delivers
<1> QED
  BY <1>1, <1>3 DEF Steady, Advances, Outcome

\* It holds before anything is done.
LEMMA SteadyInit == Init => NotDropped
<1> SUFFICES ASSUME Init PROVE Steady
  BY DEF NotDropped
<1>1. \A w \in Workers : worker[w].pc = "idle"
  BY DEF Init, Free
<1>2. \A w \in Workers : Onward(worker[w], rows, token, accepted, seen)
  BY <1>1 DEF Onward, Delivers
<1>3. ~ Pending(token, accepted, seen)
  BY DEF Init, Pending
<1>4. NoneCleared(rows) /\ ~ IsHalted(rows) /\ status = "resumed"
  BY DEF Init, NoneCleared, IsHalted
<1> QED
  BY <1>2, <1>3, <1>4 DEF Steady, Waiting

\* Every step that does not write from an outdated copy preserves it, and advances
\* the route or leaves it alone.
LEMMA SteadyNext ==
  ASSUME Typing, InOrder, NotDropped, [Next]_vars, ~ raced'
  PROVE  ~ raced /\ Steady' /\ Advances
<1>1. ~ raced
  BY RacedLasts
<1>2. Orderly /\ Steady
  BY <1>1 DEF InOrder, NotDropped
<1>3. CASE UNCHANGED vars
  BY <1>2, <1>3 DEF vars, Steady, Advances, Outcome
<1>4. ASSUME NEW c \in Calls, (\E t \in Tokens : Read(c, t)) \/ Commit(c)
      PROVE  Steady' /\ Advances
  BY <1>2, <1>4, SteadyCalls DEF Commit
<1>5. ASSUME NEW w \in Workers, WorkerStep(w) PROVE Steady' /\ Advances
  BY <1>2, <1>5, SteadyTake, SteadyStart, SteadyResumes, SteadySubSteps, SteadyEnds
    DEF WorkerStep
<1>6. Resume \/ Abort => Steady' /\ Advances
  BY <1>2, SteadyUsers
<1>7. Sweep \/ Tick => Steady' /\ Advances
  BY <1>2, SteadySweep, SteadyTick
<1>8. CASE Next
  <2>1. CASE \E c \in Calls, t \in Tokens : Read(c, t)
    BY <1>1, <1>4, <2>1
  <2>2. CASE \E c \in Calls : Commit(c)
    BY <1>1, <1>4, <2>2
  <2>3. CASE \E w \in Workers : WorkerStep(w)
    BY <1>1, <1>5, <2>3
  <2> QED
    BY <1>1, <1>6, <1>7, <1>8, <2>1, <2>2, <2>3 DEF Next
<1> QED
  BY <1>1, <1>3, <1>8

\* Whatever races, tokens are only added one by one and nothing that was validated
\* is forgotten.
LEMMA Additions ==
  ASSUME Typing, [Next]_vars
  PROVE  token' \in {token, token + 1} /\ seen \subseteq seen'
<1>1. ASSUME NEW c \in Calls, (\E t \in Tokens : Read(c, t)) \/ Commit(c)
      PROVE  UNCHANGED <<token, seen>>
  BY <1>1 DEF Read, Commit, CommitCallback, CommitProgress, history
<1>2. ASSUME Resume \/ Abort \/ Sweep \/ Tick \/ UNCHANGED vars
      PROVE  UNCHANGED <<token, seen>>
  BY <1>2 DEF Resume, Abort, Sweep, SweepFind, SweepLoad, SweepFail, Tick, vars, history
<1>3. ASSUME NEW w \in Workers, WorkerStep(w)
      PROVE  token' \in {token, token + 1} /\ seen \subseteq seen'
  <2>1. CASE Take(w) \/ Load(w) \/ Claim(w) \/ Answer(w) \/ Continue(w)
    BY <2>1 DEF Take, Load, Claim, Answer, Continue, history
  <2>2. CASE CreateEndpoint(w) \/ CallService(w) \/ Await(w) \/ Validate(w) \/ Cleanup(w)
    BY <2>2 DEF CreateEndpoint, CallService, Await, Validate, Cleanup, WriteSub, history
  <2>3. CASE LeaveGroup(w) \/ Finish(w)
    BY <2>3 DEF LeaveGroup, Finish, history
  <2> QED
    BY <1>3, <2>1, <2>2, <2>3 DEF WorkerStep
<1> QED
  BY <1>1, <1>2, <1>3 DEF Next

\* Every step is one of OneTimeRoute.
LEMMA RouteNext ==
  Typing /\ Typing' /\ InOrder /\ NotDropped /\ [Next]_vars => [Route!Next]_(Route!vars)
<1> SUFFICES ASSUME Typing, Typing', InOrder, NotDropped, [Next]_vars
             PROVE  [Route!Next]_(Route!vars)
  OBVIOUS
<1>1. CASE ~ raced'
  <2>1. ~ raced /\ Advances
    BY <1>1, SteadyNext
  <2>2. raced' = raced
    BY <1>1, <2>1 DEF Typing, TypeOK
  <2>3. Outcome = "open" /\ Route!Step => Route!Next
    BY <2>1, <2>2 DEF Route!Next
  <2>4. UNCHANGED <<token, accepted, seen, Outcome>> => UNCHANGED Route!vars
    BY <2>2 DEF Route!vars
  <2> QED
    BY <2>1, <2>3, <2>4 DEF Advances
<1>2. CASE raced'
  <2>1. token' \in {token, token + 1} /\ seen \subseteq seen'
    BY Additions
  <2>2. \A s \in seen' : s[2] \in {0, s[1]}
    BY DEF Typing, Matching
  <2>3. raced' = TRUE
    BY <1>2 DEF Typing, TypeOK
  <2>4. Route!Break
    BY <2>1, <2>2, <2>3 DEF Route!Break
  <2> QED
    BY <2>4 DEF Route!Next
<1> QED
  BY <1>1, <1>2

\* The attempts of the group implement OneTimeRoute, for any number of calls, reports,
\* workers and attempts: an answer is accepted once and on the last route only, it is
\* validated before the group is started anew, with the data that was posted, and the
\* process is only completed after its last route was validated.  When a transaction
\* writes from an outdated copy, data still belongs to its token.
THEOREM CallbackIsRoute == Spec => ImplementsRoute
<1>1. Init => Route!Init
  BY DEF Init, Outcome, Tokens, Route!Init, Route!Tokens
<1>2. Typing /\ InOrder /\ NotDropped /\ [Next]_vars => NotDropped'
  BY SteadyNext DEF NotDropped
<1> QED
  BY <1>1, <1>2, TypingInit, TypingNext, InOrderInit, InOrderNext, SteadyInit, RouteNext, PTL
    DEF Spec, ImplementsRoute, Route!Spec

=============================================================================
