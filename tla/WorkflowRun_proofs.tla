-------------------------- MODULE WorkflowRun_proofs --------------------------
(* Theorems about the execution of a process, for every workflow. *)
EXTENDS WorkflowRun, StepLog_proofs

\* Where the executor is says what its indices point at.
PlacesOK ==
  /\ pc \in {"step", "write", "group", "substep", "subwrite"} => todo \in 1..N
  /\ pc \in {"substep", "subwrite"} => idx \in 1..Len(Subs[todo])

Typing == TypeOK /\ PlacesOK

\* Every step returns one of the step statuses.
LEMMA OutcomesType ==
  ASSUME NEW k \in Kinds
  PROVE  Outcomes[k] \subseteq StepStatus
BY DEF Kinds, Outcomes, StepStatus

\* The rows the executor and abort_wf write.
LEMMA RowType ==
  ASSUME NEW i \in Nat, NEW j \in Nat, NEW s \in StepStatus, NEW p \in Position
  PROVE  Row(<<i, j>>, s, p) \in LogRow
BY DEF Row, LogRow, Position

LEMMA NoSubType == NoSub \in Position /\ UserAborted \in Position
BY DEF NoSub, UserAborted, Position

\* The initial state is well typed.
LEMMA TypingInit == Init => Typing
<1> SUFFICES ASSUME Init PROVE Typing
  OBVIOUS
<1>1. TypeOK
  <2>1. log \in Seq(LogRow)
    BY DEF Init
  <2>2. todo \in 1..(N + 1) /\ idx \in Nat \ {0}
    BY WorkflowAssumption DEF Init
  <2>3. sub \in Position /\ ran \in SUBSET Position
    BY NoSubType DEF Init
  <2>4. st \in StepStatus /\ pend \in StepStatus
          /\ lastStatus \in ProcessStatus /\ pc \in Locations
    BY DEF Init, ProcessStatus, StepStatus, Locations
  <2>5. lock \in BOOLEAN /\ repl \in BOOLEAN /\ had \in BOOLEAN
    BY DEF Init
  <2> QED
    BY <2>1, <2>2, <2>3, <2>4, <2>5 DEF TypeOK
<1>2. PlacesOK
  BY DEF Init, PlacesOK
<1> QED
  BY <1>1, <1>2 DEF Typing

\* Every step of the executor outside of groups preserves the types.
LEMMA TypingExecutor ==
  ASSUME Typing,
         Begin \/ ResumeHalted \/ ResumeOther \/ Check \/ RunStep \/ WriteStep
  PROVE  Typing'
<1> USE WorkflowAssumption DEF Typing
<1>1. CASE Begin
  <2>1. RecoveredStatus(log) \in StepStatus /\ RecoveredSub(log) \in Position
          /\ RestFrom(log, N) \in 1..(N + 1)
    BY RecoveryType DEF TypeOK
  <2>2. TypeOK'
    BY <1>1, <2>1 DEF Begin, TypeOK, ProcessStatus, Locations
  <2> QED
    BY <1>1, <2>2 DEF Begin, PlacesOK
<1>2. CASE ResumeHalted
  <2>0. todo \in Nat /\ sub \in Position /\ "success" \in StepStatus
    BY DEF TypeOK, StepStatus
  <2>1. Row(<<todo, 0>>, "success", sub) \in LogRow
    BY <2>0, RowType
  <2>2. log' \in Seq(LogRow)
    BY <1>2, <2>1, WriteRowType DEF ResumeHalted, TypeOK
  <2>3. todo' \in 1..(N + 1) /\ ran' \in SUBSET Position
    BY <1>2 DEF ResumeHalted, TypeOK, Position
  <2>4. pc' \in {"step", "idle"} /\ (pc' = "step" => todo' \in 1..N)
    BY <1>2, <2>3 DEF ResumeHalted, LoopHead
  <2>5. TypeOK'
    BY <1>2, <2>2, <2>3, <2>4
       DEF ResumeHalted, TypeOK, ProcessStatus, StepStatus, Locations
  <2> QED
    BY <1>2, <2>4, <2>5 DEF PlacesOK
<1>3. CASE ResumeOther
  <2>1. ResumeStatus(st) \in StepStatus
    BY DEF ResumeStatus, TypeOK, StepStatus
  <2>2. pc' \in {"step", "idle"} /\ (pc' = "step" => todo' \in 1..N)
    BY <1>3 DEF ResumeOther, LoopHead, TypeOK
  <2>3. TypeOK'
    BY <1>3, <2>1, <2>2 DEF ResumeOther, TypeOK, Locations
  <2> QED
    BY <2>2, <2>3 DEF PlacesOK
<1>4. CASE Check
  <2>1. pc' \in {"step", "idle"} /\ (pc' = "step" => todo' \in 1..N)
    BY <1>4 DEF Check, LoopHead, TypeOK, memory
  <2>2. TypeOK'
    BY <1>4, <2>1 DEF Check, TypeOK, Locations, memory, database
  <2> QED
    BY <2>1, <2>2 DEF PlacesOK
<1>5. CASE RunStep
  <2>1. todo \in 1..N /\ Kind[todo] \in Kinds
    BY <1>5 DEF RunStep, PlacesOK
  <2>2. Outcomes[Kind[todo]] \subseteq StepStatus
    BY <2>1, OutcomesType
  <2>3. pend' \in StepStatus /\ sub' \in Position /\ ran' \in SUBSET Position
    BY <1>5, <2>1, <2>2, NoSubType
       DEF RunStep, Carries, Executed, TypeOK, Position
  <2>4. TypeOK'
    BY <1>5, <2>3 DEF RunStep, TypeOK, Locations, database
  <2> QED
    BY <1>5, <2>1, <2>4 DEF RunStep, PlacesOK
<1>6. CASE WriteStep
  <2>1. todo \in 1..N
    BY <1>6 DEF WriteStep, PlacesOK
  <2>2. Row(<<todo, 0>>, pend, sub) \in LogRow
    BY <2>1, RowType DEF TypeOK
  <2>3. log' \in Seq(LogRow)
    BY <1>6, <2>2, WriteRowType DEF WriteStep, TypeOK
  <2>4. lastStatus' \in ProcessStatus
    BY <1>6, StoredStatusesType DEF WriteStep, TypeOK
  <2>5. TypeOK'
    BY <1>6, <2>1, <2>3, <2>4 DEF WriteStep, TypeOK, Locations
  <2> QED
    BY <1>6, <2>5 DEF WriteStep, PlacesOK
<1> QED
  BY <1>1, <1>2, <1>3, <1>4, <1>5, <1>6

\* So does every step inside a group.
LEMMA TypingGroup ==
  ASSUME Typing, RunGroup
  PROVE  Typing'
<1> USE WorkflowAssumption DEF Typing
<1>1. CASE EnterGroup
  <2>1. todo \in 1..N /\ Len(Subs[todo]) \in Nat
    BY <1>1 DEF EnterGroup, PlacesOK
  <2>2. FirstSub(todo, sub) \in Nat \ {0}
    BY <2>1 DEF FirstSub, TypeOK, Position
  <2>3. TypeOK'
    BY <1>1, <2>2 DEF EnterGroup, TypeOK, StepStatus, Locations, database
  <2> QED
    BY <1>1, <2>1, <2>3 DEF EnterGroup, PlacesOK
<1>2. CASE CheckSub
  BY <1>2 DEF CheckSub, TypeOK, PlacesOK, Locations, memory, database
<1>3. CASE LeaveGroup
  BY <1>3 DEF LeaveGroup, TypeOK, PlacesOK, Locations, database
<1>4. CASE RunSub
  <2>1. todo \in 1..N /\ idx \in 1..Len(Subs[todo])
    BY <1>4 DEF RunSub, PlacesOK
  <2>2. Subs[todo][idx] \in Kinds
    BY <2>1, ElementOfSeq
  <2>3. Outcomes[Subs[todo][idx]] \subseteq StepStatus
    BY <2>2, OutcomesType
  <2>4. pend' \in StepStatus /\ ran' \in SUBSET Position
    BY <1>4, <2>1, <2>3 DEF RunSub, Executed, TypeOK, Position
  <2>5. TypeOK'
    BY <1>4, <2>4 DEF RunSub, TypeOK, Locations, database
  <2> QED
    BY <1>4, <2>1, <2>5 DEF RunSub, PlacesOK
<1>5. CASE WriteSub
  <2>1. todo \in 1..N
    BY <1>5 DEF WriteSub, PlacesOK
  <2>2. sub' \in Position
    BY <1>5, <2>1, NoSubType DEF WriteSub, TypeOK, Position
  <2>3. Row(<<todo, 0>>, pend, sub') \in LogRow
    BY <2>1, <2>2, RowType DEF TypeOK
  <2>4. log' \in Seq(LogRow)
    BY <1>5, <2>3, WriteRowType DEF WriteSub, TypeOK
  <2>5. lastStatus' \in ProcessStatus
    BY <1>5, StoredStatusesType DEF WriteSub, TypeOK
  <2>6. idx' \in Nat \ {0} /\ st' \in StepStatus /\ pc' \in Locations
    BY <1>5 DEF WriteSub, TypeOK, Locations
  <2>7. UNCHANGED <<lock, todo, pend, repl, had, ran>>
    BY <1>5 DEF WriteSub
  <2>8. TypeOK'
    BY <2>2, <2>4, <2>5, <2>6, <2>7 DEF TypeOK
  <2> QED
    BY <1>5, <2>1, <2>8 DEF WriteSub, PlacesOK
<1> QED
  BY <1>1, <1>2, <1>3, <1>4, <1>5 DEF RunGroup

\* Failures of the logging preserve the types.
LEMMA TypingFault ==
  ASSUME Typing, WriteFault
  PROVE  Typing'
<1> USE WorkflowAssumption DEF Typing
<1>0. "failed" \in StepStatus /\ "failed" \in ProcessStatus
        /\ "waiting" \in ProcessStatus
  BY DEF StepStatus, ProcessStatus
<1>1. CASE WriteFails
  <2>1. todo \in 1..N
    BY <1>1 DEF WriteFails, PlacesOK
  <2>2. Row(<<todo, 0>>, "failed", NoSub) \in LogRow
    BY <1>0, <2>1, RowType, NoSubType
  <2>3. log' \in Seq(LogRow)
    BY <1>1, <2>2, WriteRowType DEF WriteFails, TypeOK
  <2>4. lastStatus' \in ProcessStatus
    BY <1>0, <1>1, StoredStatusesType DEF WriteFails
  <2>5. sub' \in Position /\ st' \in StepStatus /\ pc' \in Locations
          /\ todo' \in 1..(N + 1)
    BY <1>0, <1>1, <2>1, NoSubType DEF WriteFails, TypeOK, Locations
  <2>6. UNCHANGED <<lock, pend, repl, idx, had, ran>>
    BY <1>1 DEF WriteFails
  <2>7. TypeOK'
    BY <2>3, <2>4, <2>5, <2>6 DEF TypeOK
  <2> QED
    BY <1>1, <2>7 DEF WriteFails, PlacesOK
<1>2. CASE WriteGivesUp
  BY <1>0, <1>2 DEF WriteGivesUp, TypeOK, PlacesOK, Locations, memory
<1>3. CASE WriteSubFails
  <2>1. todo \in 1..N /\ idx \in Nat
    BY <1>3 DEF WriteSubFails, PlacesOK, TypeOK
  <2>2. Row(<<todo, idx>>, "failed", NoSub) \in LogRow
    BY <1>0, <2>1, RowType, NoSubType
  <2>3. log' \in Seq(LogRow)
    BY <1>3, <2>2, WriteRowType DEF WriteSubFails, TypeOK
  <2>4. lastStatus' \in ProcessStatus
    BY <1>0, <1>3, StoredStatusesType DEF WriteSubFails
  <2>5. sub' \in Position /\ st' \in StepStatus /\ pc' \in Locations
          /\ idx' \in Nat \ {0}
    BY <1>0, <1>3, NoSubType DEF WriteSubFails, TypeOK, Locations
  <2>6. UNCHANGED <<lock, todo, pend, repl, had, ran>>
    BY <1>3 DEF WriteSubFails
  <2>7. TypeOK'
    BY <2>3, <2>4, <2>5, <2>6 DEF TypeOK
  <2> QED
    BY <1>3, <2>1, <2>7 DEF WriteSubFails, PlacesOK
<1>4. CASE WriteSubGivesUp
  BY <1>0, <1>4, NoSubType
     DEF WriteSubGivesUp, TypeOK, PlacesOK, Locations, database
<1> QED
  BY <1>1, <1>2, <1>3, <1>4 DEF WriteFault

\* Crashes, users and operators preserve the types.
LEMMA TypingUser ==
  ASSUME Typing, Crash \/ User
  PROVE  Typing'
<1> USE DEF Typing
<1>1. CASE Crash
  BY <1>1 DEF Crash, TypeOK, PlacesOK, Locations, memory, database
<1>2. CASE Resume
  BY <1>2 DEF Resume, TypeOK, PlacesOK, ProcessStatus, memory
<1>3. CASE Abort
  <2>1. RecoveredSub(log) \in Position
    BY WorkflowAssumption, RecoveryType DEF TypeOK
  <2>2. Row(UserAborted, "abort", RecoveredSub(log)) \in LogRow
    BY <2>1, RowType DEF UserAborted, StepStatus
  <2>3. log' \in Seq(LogRow)
    BY <1>3, <2>2, WriteRowType DEF Abort, TypeOK
  <2> QED
    BY <1>3, <2>3 DEF Abort, TypeOK, PlacesOK, ProcessStatus, memory
<1>4. CASE Pause
  BY <1>4 DEF Pause, TypeOK, PlacesOK, memory
<1>5. CASE Unpause
  BY <1>5 DEF Unpause, TypeOK, PlacesOK, ProcessStatus, memory
<1> QED
  BY <1>1, <1>2, <1>3, <1>4, <1>5 DEF User

LEMMA TypingNext == Typing /\ [Next]_vars => Typing'
<1> SUFFICES ASSUME Typing, [Next]_vars PROVE Typing'
  OBVIOUS
<1>1. CASE Executor
  BY <1>1, TypingExecutor, TypingGroup DEF Executor
<1>2. CASE WriteFault
  BY <1>2, TypingFault
<1>3. CASE Crash \/ User
  BY <1>3, TypingUser
<1>4. CASE UNCHANGED vars
  BY <1>4 DEF vars, Typing, TypeOK, PlacesOK
<1> QED
  BY <1>1, <1>2, <1>3, <1>4 DEF Next

\* The state of the engine is well typed in every execution of every workflow:
\* in particular the position that recovery computes from an arbitrary log
\* never points outside of the workflow or of a group.
THEOREM TypeCorrect == Spec => []TypeOK
<1>1. Spec => []Typing
  BY TypingInit, TypingNext, PTL DEF Spec
<1>2. Typing => TypeOK
  BY DEF Typing
<1> QED
  BY <1>1, <1>2, PTL

-----------------------------------------------------------------------------
(* The sub steps of every group are executed in order, for every workflow and *)
(* whatever is paused, killed, aborted or fails to be logged.                 *)

\* The predecessor of a sub step has been executed.
Prepared(done, w) == w[2] > 1 => <<w[1], w[2] - 1>> \in done

\* A sub step has been executed.  <<i, 0>> is no sub step.
Finished(done, w) == w[2] > 0 => w \in done

\* The outcomes after which a sub step counts as executed.
Effective == {"success", "skipped", "complete"}

\* An outcome with the position in a group that it is logged with.  A sub step
\* that is halted is executed when it is answered.  done: what has been executed.
Sound(done, status, position) ==
  /\ Prepared(done, position)
  /\ status \in Effective => Finished(done, position)

RowsSound == \A i \in DOMAIN log : Sound(ran, log[i].status, log[i].sub)

\* In a group: the sub step before the next one has been executed.
AtSub == 1 < idx /\ idx <= Len(Subs[todo]) => <<todo, idx - 1>> \in ran

ExecutorSound ==
  /\ pc = "loaded" => Sound(ran, st, sub) /\ st \notin {"failed", "waiting"}
  /\ pc \in {"loop", "step", "group"} => Sound(ran, st, sub)
  /\ pc = "step" => Continues(st)
  /\ pc = "write" => Sound(ran, pend, sub)
  /\ pc = "group" => (Continues(st) => AtSub)
  /\ pc \in {"substep", "subwrite"} => AtSub
  /\ pc = "subwrite" => (pend \in Effective => <<todo, idx>> \in ran)

\* The inductive strengthening of SubStepsInOrder.
InOrder == SubStepsInOrder /\ RowsSound /\ ExecutorSound

-----------------------------------------------------------------------------
\* What has been executed stays executed, so soundness lasts.
LEMMA SoundLasts ==
  ASSUME NEW done, NEW later, done \subseteq later,
         NEW status, NEW position, Sound(done, status, position)
  PROVE  Sound(later, status, position)
BY DEF Sound, Prepared, Finished

LEMMA AtSubLasts ==
  ASSUME ran \subseteq ran', UNCHANGED <<todo, idx>>, AtSub
  PROVE  AtSub'
BY DEF AtSub

\* A state that carries no sub step is sound with every outcome.
LEMMA NoSubSound == \A done, status : Sound(done, status, NoSub)
BY DEF Sound, Prepared, Finished, NoSub

\* A row that is written, or written over the last one, tells nothing but its
\* own outcome.
LEMMA WrittenRows ==
  ASSUME NEW rows \in Seq(LogRow), NEW row \in LogRow,
         NEW replace \in BOOLEAN, NEW same \in BOOLEAN,
         NEW k \in DOMAIN WriteRow(rows, row, replace, same)
  PROVE  LET new == WriteRow(rows, row, replace, same)[k] IN
           \/ new.status = row.status /\ new.sub = row.sub
           \/ k \in DOMAIN rows /\ new = rows[k]
<1>1. CASE rows # <<>> /\ (replace \/ IsRepeat(rows, row, same))
  <2>1. Len(rows) \in DOMAIN rows
    BY <1>1, EmptySeq
  <2>2. WriteRow(rows, row, replace, same) =
          [rows EXCEPT ![Len(rows)] =
             Row(rows[Len(rows)].step, row.status, row.sub)]
    BY <1>1 DEF WriteRow
  <2>3. k \in DOMAIN rows
    BY <2>2
  <2>4. CASE k = Len(rows)
    BY <2>1, <2>2, <2>4 DEF Row
  <2>5. CASE k # Len(rows)
    BY <2>2, <2>3, <2>5
  <2> QED
    BY <2>4, <2>5
<1>2. CASE ~ (rows # <<>> /\ (replace \/ IsRepeat(rows, row, same)))
  <2>1. WriteRow(rows, row, replace, same) = Append(rows, row)
    BY <1>2 DEF WriteRow
  <2>2. k \in 1..(Len(rows) + 1)
    BY <2>1
  <2>3. CASE k = Len(rows) + 1
    BY <2>1, <2>3
  <2>4. CASE k # Len(rows) + 1
    BY <2>1, <2>2, <2>4
  <2> QED
    BY <2>3, <2>4
<1> QED
  BY <1>1, <1>2

\* Writing a sound outcome keeps the log sound.
LEMMA SoundRowWritten ==
  ASSUME Typing, RowsSound, ran \subseteq ran', NEW row \in LogRow,
         NEW replace \in BOOLEAN, NEW same \in BOOLEAN,
         Sound(ran', row.status, row.sub),
         log' = WriteRow(log, row, replace, same)
  PROVE  RowsSound'
<1> SUFFICES ASSUME NEW k \in DOMAIN log'
             PROVE  Sound(ran', log'[k].status, log'[k].sub)
  BY DEF RowsSound
<1>1. log \in Seq(LogRow)
  BY DEF Typing, TypeOK
<1>2. \/ log'[k].status = row.status /\ log'[k].sub = row.sub
      \/ k \in DOMAIN log /\ log'[k] = log[k]
  BY <1>1, WrittenRows
<1>3. CASE log'[k].status = row.status /\ log'[k].sub = row.sub
  BY <1>3
<1>4. CASE k \in DOMAIN log /\ log'[k] = log[k]
  <2>1. Sound(ran, log[k].status, log[k].sub)
    BY <1>4 DEF RowsSound
  <2> QED
    BY <1>4, <2>1 DEF Sound, Prepared, Finished
<1> QED
  BY <1>2, <1>3, <1>4

LEMMA RowsLast ==
  ASSUME RowsSound, ran \subseteq ran', log' = log
  PROVE  RowsSound'
BY DEF RowsSound, Sound, Prepared, Finished

\* A recovered process carries a sound outcome, and never an error.
LEMMA RecoveredSound ==
  ASSUME Typing, RowsSound
  PROVE  /\ Sound(ran, RecoveredStatus(log), RecoveredSub(log))
         /\ RecoveredStatus(log) \notin {"failed", "waiting"}
<1>0. log \in Seq(LogRow)
  BY DEF Typing, TypeOK
<1>1. CASE IsHalted(log)
  <2>1. Len(log) \in DOMAIN log
    BY <1>0, <1>1, EmptySeq DEF IsHalted
  <2> QED
    BY <1>1, <2>1 DEF RowsSound, RecoveredStatus, RecoveredSub, IsHalted
<1>2. CASE ~ IsHalted(log) /\ ClearedRows(log) # {}
  <2>1. LastCleared(log) \in ClearedRows(log)
    BY <1>0, <1>2, LastClearedIsLast
  <2>2. LastCleared(log) \in DOMAIN log /\ IsCleared(log[LastCleared(log)])
    BY <2>1 DEF ClearedRows
  <2>3. /\ RecoveredStatus(log) = log[LastCleared(log)].status
        /\ RecoveredSub(log) = log[LastCleared(log)].sub
    BY <1>2 DEF RecoveredStatus, RecoveredSub
  <2> QED
    BY <2>2, <2>3 DEF RowsSound, IsCleared
<1>3. CASE ~ IsHalted(log) /\ ClearedRows(log) = {}
  BY <1>3, NoSubSound DEF RecoveredStatus, RecoveredSub
<1> QED
  BY <1>1, <1>2, <1>3

-----------------------------------------------------------------------------
LEMMA InOrderInit == Init => InOrder
BY DEF Init, InOrder, SubStepsInOrder, RowsSound, ExecutorSound

\* Executing steps and answering halted ones.
LEMMA InOrderExecutor ==
  ASSUME Typing, InOrder,
         Begin \/ ResumeHalted \/ ResumeOther \/ Check \/ RunStep \/ WriteStep
  PROVE  InOrder'
<1> USE DEF InOrder
<1>1. CASE Begin
  <2>1. ran' = ran /\ log' = log /\ pc' = "loaded"
          /\ st' = RecoveredStatus(log) /\ sub' = RecoveredSub(log)
    BY <1>1 DEF Begin
  <2>2. RowsSound'
    BY <2>1, RowsLast
  <2>3. Sound(ran', st', sub') /\ st' \notin {"failed", "waiting"}
    BY <2>1, RecoveredSound, SoundLasts DEF Sound, Prepared, Finished
  <2>4. ExecutorSound'
    BY <2>1, <2>3 DEF ExecutorSound
  <2> QED
    BY <2>1, <2>2, <2>4 DEF SubStepsInOrder
<1>2. CASE ResumeHalted
  <2>1. todo \in Nat /\ sub \in Position /\ "success" \in StepStatus
    BY DEF Typing, TypeOK, StepStatus
  <2>2. Prepared(ran, sub)
    BY <1>2 DEF ResumeHalted, ExecutorSound, Sound
  <2>3. ran' = ran \cup {IF sub = NoSub THEN <<todo, 0>> ELSE sub}
    BY <1>2 DEF ResumeHalted
  <2>4. SubStepsInOrder'
    BY <2>2, <2>3 DEF SubStepsInOrder, Prepared
  <2>5. Sound(ran', "success", sub')
    <3>1. sub' = sub
      BY <1>2 DEF ResumeHalted
    <3>2. Sound(ran', "success", NoSub)
      BY DEF Sound, Prepared, Finished, NoSub
    <3> QED
      BY <2>2, <2>3, <3>1, <3>2 DEF Sound, Prepared, Finished
  <2>6. Row(<<todo, 0>>, "success", sub) \in LogRow
    BY <2>1, RowType
  <2>7. RowsSound'
    <3> DEFINE row == Row(<<todo, 0>>, "success", sub)
    <3>1. log' = WriteRow(log, row, FALSE, FALSE) /\ sub' = sub
      BY <1>2 DEF ResumeHalted
    <3>2. Sound(ran', row.status, row.sub)
      BY <2>5, <3>1 DEF Row, Sound, Prepared, Finished
    <3> QED
      BY <2>3, <2>6, <3>1, <3>2, SoundRowWritten
  <2>8. ExecutorSound'
    <3>1. st' = "success" /\ pc' \in {"step", "idle"}
      BY <1>2 DEF ResumeHalted, LoopHead
    <3> QED
      BY <2>5, <3>1 DEF ExecutorSound, Continues
  <2> QED
    BY <2>4, <2>7, <2>8
<1>3. CASE ResumeOther
  <2>1. UNCHANGED <<log, ran, sub>> /\ st' = ResumeStatus(st)
          /\ pc' = LoopHead(ResumeStatus(st), todo) /\ pc = "loaded"
          /\ st \notin {"suspend", "awaiting_callback"}
    BY <1>3 DEF ResumeOther
  <2>2. Sound(ran, st, sub) /\ st \notin {"failed", "waiting"} /\ st \in StepStatus
    BY <2>1 DEF ExecutorSound, Typing, TypeOK
  <2>3. st \in Effective \/ st' = "abort"
    BY <2>1, <2>2 DEF StepStatus, Effective, ResumeStatus
  <2>4. Sound(ran, st', sub)
    BY <2>2, <2>3 DEF Sound, Effective
  <2>5. pc' \in {"step", "idle"} /\ (pc' = "step" => Continues(st'))
    BY <2>1 DEF LoopHead
  <2>6. ExecutorSound'
    BY <2>1, <2>4, <2>5 DEF ExecutorSound, Sound, Prepared, Finished, Continues
  <2> QED
    BY <2>1, <2>6, RowsLast DEF SubStepsInOrder
<1>4. CASE Check
  <2>1. UNCHANGED <<log, ran, sub, st>> /\ pc = "loop" /\ pc' = LoopHead(st, todo)
    BY <1>4 DEF Check, database, memory
  <2>2. pc' \in {"step", "idle"} /\ (pc' = "step" => Continues(st))
    BY <2>1 DEF LoopHead
  <2>3. ExecutorSound'
    BY <2>1, <2>2 DEF ExecutorSound, Sound, Prepared, Finished, Continues
  <2> QED
    BY <2>1, <2>3, RowsLast DEF SubStepsInOrder
<1>5. CASE RunStep
  <2>1. PICK outcome \in Outcomes[Kind[todo]] :
          /\ pend' = outcome
          /\ sub' = Carries(outcome, sub)
          /\ ran' = ran \cup Executed(outcome, <<todo, 0>>)
    BY <1>5 DEF RunStep
  <2>2. log' = log /\ pc = "step" /\ pc' = "write"
    BY <1>5 DEF RunStep, database
  <2>3. \A w \in ran' : w \in ran \/ w[2] = 0
    BY <2>1 DEF Executed
  <2>4. SubStepsInOrder'
    BY <2>1, <2>3 DEF SubStepsInOrder
  <2>5. Sound(ran, "success", sub)
    BY <2>2 DEF ExecutorSound, Sound, Continues, Effective
  <2>6. Sound(ran', pend', sub')
    <3>1. CASE outcome \in {"failed", "waiting"}
      BY <2>1, <3>1 DEF Carries, Sound, Prepared, Finished, NoSub
    <3>2. CASE outcome \notin {"failed", "waiting"}
      BY <2>1, <2>5, <3>2 DEF Carries, Sound, Prepared, Finished, Effective
    <3> QED
      BY <3>1, <3>2
  <2>7. ExecutorSound'
    BY <2>2, <2>6 DEF ExecutorSound
  <2> QED
    BY <2>1, <2>2, <2>4, <2>7, RowsLast
<1>6. CASE WriteStep
  <2>1. PICK same \in BOOLEAN :
          log' = WriteRow(log, Row(<<todo, 0>>, pend, sub), repl, same)
    BY <1>6 DEF WriteStep
  <2>2. /\ pc = "write" /\ pc' = "loop" /\ st' = pend
        /\ sub' = sub /\ ran' = ran
    BY <1>6 DEF WriteStep
  <2>3. Sound(ran, pend, sub)
    BY <2>2 DEF ExecutorSound
  <2>4. Row(<<todo, 0>>, pend, sub) \in LogRow /\ repl \in BOOLEAN
    BY RowType DEF Typing, TypeOK
  <2>5. RowsSound'
    <3> DEFINE row == Row(<<todo, 0>>, pend, sub)
    <3>1. row.status = pend /\ row.sub = sub
      BY DEF Row
    <3>2. Sound(ran', row.status, row.sub)
      BY <2>2, <2>3, <3>1 DEF Row, Sound, Prepared, Finished
    <3> QED
      BY <2>1, <2>2, <2>4, <3>2, SoundRowWritten
  <2>6. ExecutorSound'
    BY <2>2, <2>3 DEF ExecutorSound, Sound, Prepared, Finished
  <2> QED
    BY <2>2, <2>5, <2>6 DEF SubStepsInOrder
<1> QED
  BY <1>1, <1>2, <1>3, <1>4, <1>5, <1>6
\* Running the sub steps of a group.
LEMMA InOrderGroup ==
  ASSUME Typing, InOrder, RunGroup
  PROVE  InOrder'
<1> USE DEF InOrder
<1>1. CASE EnterGroup
  <2>1. /\ UNCHANGED <<log, ran, todo, sub>>
        /\ pc = "step" /\ pc' = "group" /\ st' = "success"
        /\ idx' = FirstSub(todo, sub)
    BY <1>1 DEF EnterGroup, database
  <2>2. Sound(ran, "success", sub)
    BY <2>1 DEF ExecutorSound, Sound, Continues, Effective
  <2>3. sub \in Position
    BY DEF Typing, TypeOK
  <2>4. AtSub'
    <3> SUFFICES ASSUME 1 < idx', idx' <= Len(Subs[todo])
                 PROVE  <<todo, idx' - 1>> \in ran
      BY <2>1 DEF AtSub
    <3>1. Len(Subs[todo]) \in Nat
      BY <1>1, WorkflowAssumption DEF EnterGroup, Typing, PlacesOK
    <3>2. sub # NoSub /\ sub[1] = todo /\ idx' = sub[2] + 1
      BY <2>1, <2>3, <3>1 DEF FirstSub
    <3>3. sub[2] \in Nat /\ sub = <<todo, sub[2]>>
      BY <2>3, <3>2 DEF Position
    <3>4. sub \in ran
      BY <2>2, <3>2, <3>3 DEF Sound, Finished, Effective
    <3> QED
      BY <3>2, <3>3, <3>4
  <2>5. ExecutorSound'
    BY <2>1, <2>2, <2>4 DEF ExecutorSound
  <2> QED
    BY <2>1, <2>5, RowsLast DEF SubStepsInOrder
<1>2. CASE CheckSub
  <2>1. /\ UNCHANGED <<log, ran, todo, idx>>
        /\ pc = "group" /\ pc' = "substep" /\ Continues(st)
    BY <1>2 DEF CheckSub, database, memory
  <2>2. AtSub'
    BY <2>1 DEF ExecutorSound, AtSub
  <2>3. ExecutorSound'
    BY <2>1, <2>2 DEF ExecutorSound
  <2> QED
    BY <2>1, <2>3, RowsLast DEF SubStepsInOrder
<1>3. CASE LeaveGroup
  <2>1. /\ UNCHANGED <<log, ran, sub>>
        /\ pc = "group" /\ pc' = "write" /\ pend' = st
    BY <1>3 DEF LeaveGroup, database
  <2>2. ExecutorSound'
    BY <2>1 DEF ExecutorSound
  <2> QED
    BY <2>1, <2>2, RowsLast DEF SubStepsInOrder
<1>4. CASE RunSub
  <2>1. PICK outcome \in Outcomes[Subs[todo][idx]] :
          pend' = outcome /\ ran' = ran \cup Executed(outcome, <<todo, idx>>)
    BY <1>4 DEF RunSub
  <2>2. UNCHANGED <<log, todo, idx>> /\ pc = "substep" /\ pc' = "subwrite"
    BY <1>4 DEF RunSub, database
  <2>3. AtSub /\ idx \in 1..Len(Subs[todo])
    BY <2>2 DEF ExecutorSound, Typing, PlacesOK
  <2>4. Prepared(ran, <<todo, idx>>)
    BY <2>3 DEF AtSub, Prepared
  <2>5. ran \subseteq ran' /\ \A w \in ran' : w \in ran \/ w = <<todo, idx>>
    BY <2>1 DEF Executed
  <2>6. SubStepsInOrder'
    BY <2>4, <2>5 DEF SubStepsInOrder, Prepared
  <2>7. AtSub'
    BY <2>2, <2>3, <2>5 DEF AtSub
  <2>8. pend' \in Effective => <<todo, idx>> \in ran'
    BY <2>1 DEF Effective, Executed
  <2>9. ExecutorSound'
    BY <2>2, <2>7, <2>8 DEF ExecutorSound
  <2> QED
    BY <2>2, <2>5, <2>6, <2>9, RowsLast
<1>5. CASE WriteSub
  <2>1. /\ pc = "subwrite" /\ pc' = "group" /\ st' = pend
        /\ sub' = IF Subs[todo][idx] = "exit" THEN NoSub ELSE <<todo, idx>>
        /\ log' = WriteRow(log, Row(<<todo, 0>>, pend, sub'), had \/ idx # 1, FALSE)
        /\ idx' = idx + 1 /\ UNCHANGED <<todo, ran>>
    BY <1>5 DEF WriteSub
  <2>2. /\ AtSub /\ idx \in 1..Len(Subs[todo]) /\ todo \in Nat
        /\ pend \in Effective => <<todo, idx>> \in ran
        /\ pend \in StepStatus /\ had \in BOOLEAN
    BY <2>1 DEF ExecutorSound, Typing, PlacesOK, TypeOK
  <2>3. Sound(ran, pend, <<todo, idx>>)
    BY <2>2 DEF Sound, Prepared, Finished, AtSub
  <2>4. Sound(ran, pend, sub')
    BY <2>1, <2>3, NoSubSound
  <2>5. sub' \in Position
    BY <2>1, <2>2, NoSubType DEF Position
  <2>6. Row(<<todo, 0>>, pend, sub') \in LogRow
    BY <2>2, <2>5, RowType
  <2>7. RowsSound'
    <3> DEFINE row == Row(<<todo, 0>>, pend, sub')
    <3>1. Sound(ran', row.status, row.sub)
      BY <2>1, <2>4 DEF Row
    <3> QED
      BY <2>1, <2>2, <2>6, <3>1, SoundRowWritten
  <2>8. Continues(pend) => AtSub'
    BY <2>1, <2>2 DEF Continues, Effective, AtSub
  <2>9. ExecutorSound'
    BY <2>1, <2>4, <2>8 DEF ExecutorSound
  <2> QED
    BY <2>1, <2>7, <2>9 DEF SubStepsInOrder
<1> QED
  BY <1>1, <1>2, <1>3, <1>4, <1>5 DEF RunGroup

\* Failures of the logging write errors, which carry no sub step.
LEMMA InOrderFault ==
  ASSUME Typing, InOrder, WriteFault
  PROVE  InOrder'
<1> USE DEF InOrder
<1>0. "failed" \in StepStatus /\ NoSub \in Position
  BY NoSubType DEF StepStatus
<1>1. ran' = ran
  BY DEF WriteFault, WriteFails, WriteGivesUp, WriteSubFails, WriteSubGivesUp
<1>2. \A i, j \in Nat : Sound(ran', Row(<<i, j>>, "failed", NoSub).status,
                                   Row(<<i, j>>, "failed", NoSub).sub)
  BY NoSubSound DEF Row
<1>3. CASE WriteFails
  <2>1. PICK same \in BOOLEAN :
          log' = WriteRow(log, Row(<<todo, 0>>, "failed", NoSub), FALSE, same)
    BY <1>3 DEF WriteFails
  <2>2. Row(<<todo, 0>>, "failed", NoSub) \in LogRow /\ todo \in Nat
    BY <1>0, RowType DEF Typing, TypeOK
  <2>3. RowsSound'
    BY <1>1, <1>2, <2>1, <2>2, SoundRowWritten
  <2>4. ExecutorSound'
    BY <1>3, NoSubSound DEF WriteFails, ExecutorSound
  <2> QED
    BY <1>1, <2>3, <2>4 DEF SubStepsInOrder
<1>4. CASE WriteGivesUp
  <2>1. ExecutorSound' /\ log' = log
    BY <1>4 DEF WriteGivesUp, ExecutorSound
  <2> QED
    BY <1>1, <2>1, RowsLast DEF SubStepsInOrder
<1>5. CASE WriteSubFails
  <2>1. log' = WriteRow(log, Row(<<todo, idx>>, "failed", NoSub), FALSE, FALSE)
    BY <1>5 DEF WriteSubFails
  <2>2. Row(<<todo, idx>>, "failed", NoSub) \in LogRow
          /\ todo \in Nat /\ idx \in Nat
    BY <1>0, RowType DEF Typing, TypeOK
  <2>3. RowsSound'
    BY <1>1, <1>2, <2>1, <2>2, SoundRowWritten
  <2>4. ExecutorSound'
    BY <1>5, NoSubSound DEF WriteSubFails, ExecutorSound, Continues
  <2> QED
    BY <1>1, <2>3, <2>4 DEF SubStepsInOrder
<1>6. CASE WriteSubGivesUp
  <2>1. ExecutorSound' /\ log' = log
    BY <1>6, NoSubSound DEF WriteSubGivesUp, ExecutorSound, database
  <2> QED
    BY <1>1, <2>1, RowsLast DEF SubStepsInOrder
<1> QED
  BY <1>3, <1>4, <1>5, <1>6 DEF WriteFault

\* Crashes, users and operators execute nothing.
LEMMA InOrderUser ==
  ASSUME Typing, InOrder, Crash \/ User
  PROVE  InOrder'
<1> USE DEF InOrder
<1>1. ran' = ran
  BY DEF User, Crash, Resume, Abort, Pause, Unpause
<1>2. ExecutorSound'
  <2>1. CASE Crash
    BY <2>1 DEF Crash, ExecutorSound
  <2>2. CASE User
    <3>1. UNCHANGED <<pc, todo, st, sub, pend, repl, idx, had>>
      BY <2>2 DEF User, Resume, Abort, Pause, Unpause, memory
    <3> QED
      BY <1>1, <3>1 DEF ExecutorSound, AtSub
  <2> QED
    BY <2>1, <2>2
<1>3. RowsSound'
  <2>1. CASE Abort
    <3> DEFINE row == Row(UserAborted, "abort", RecoveredSub(log))
    <3>1. log' = WriteRow(log, row, FALSE, FALSE)
      BY <2>1 DEF Abort
    <3>2. RecoveredSub(log) \in Position
      BY WorkflowAssumption, RecoveryType DEF Typing, TypeOK
    <3>3. row \in LogRow
      BY <3>2, NoSubType DEF Row, LogRow, StepStatus
    <3>4. Prepared(ran, RecoveredSub(log))
      BY RecoveredSound DEF Sound
    <3>5. Sound(ran', row.status, row.sub)
      BY <1>1, <3>4 DEF Row, Sound, Effective
    <3> QED
      BY <1>1, <3>1, <3>3, <3>5, SoundRowWritten
  <2>2. CASE ~ Abort
    <3>1. log' = log
      BY <2>2 DEF User, Crash, Resume, Pause, Unpause, database
    <3> QED
      BY <1>1, <3>1, RowsLast
  <2> QED
    BY <2>1, <2>2
<1> QED
  BY <1>1, <1>2, <1>3 DEF SubStepsInOrder

LEMMA InOrderNext == Typing /\ InOrder /\ [Next]_vars => InOrder'
<1> SUFFICES ASSUME Typing, InOrder, [Next]_vars PROVE InOrder'
  OBVIOUS
<1>1. CASE Executor
  BY <1>1, InOrderExecutor, InOrderGroup DEF Executor
<1>2. CASE WriteFault
  BY <1>2, InOrderFault
<1>3. CASE Crash \/ User
  BY <1>3, InOrderUser
<1>4. CASE UNCHANGED vars
  <2>1. SubStepsInOrder' /\ RowsSound'
    BY <1>4, RowsLast DEF vars, InOrder, SubStepsInOrder
  <2>2. ExecutorSound'
    BY <1>4 DEF vars, InOrder, ExecutorSound, Sound, Prepared, Finished,
                Continues, AtSub
  <2> QED
    BY <2>1, <2>2 DEF InOrder
<1> QED
  BY <1>1, <1>2, <1>3, <1>4 DEF Next

\* In every workflow the sub steps of a group are executed in order: whatever
\* is paused, killed, aborted, resumed or fails to be logged between two of
\* them, step_group never goes on with a sub step whose predecessor has not
\* been executed.  (That it executes all of them is not so: see NothingSkipped.)
THEOREM SubStepsOrdered == Spec => []SubStepsInOrder
<1>1. Init => Typing /\ InOrder
  BY TypingInit, InOrderInit
<1>2. Typing /\ InOrder /\ [Next]_vars => (Typing /\ InOrder)'
  BY TypingNext, InOrderNext
<1>3. InOrder => SubStepsInOrder
  BY DEF InOrder
<1> QED
  BY <1>1, <1>2, <1>3, PTL DEF Spec

-----------------------------------------------------------------------------
(* The status of the process and its last row *)

\* A status that is not about to change is the one of the last row.
Told(status, rows) ==
  status \notin {"created", "running", "resumed"} =>
    rows # <<>> /\ status \in StoredStatuses(rows[Len(rows)].status, IsTask)

\* The last row has the status of the outcome that was written.
LEMMA LastWritten ==
  ASSUME NEW rows \in Seq(LogRow), NEW row \in LogRow,
         NEW replace \in BOOLEAN, NEW same \in BOOLEAN
  PROVE  \A new : new = WriteRow(rows, row, replace, same) =>
           new # <<>> /\ new[Len(new)].status = row.status
<1>1. CASE rows # <<>> /\ (replace \/ IsRepeat(rows, row, same))
  <2> DEFINE last == Row(rows[Len(rows)].step, row.status, row.sub)
  <2>1. Len(rows) \in 1..Len(rows) /\ rows[Len(rows)] \in LogRow
    BY <1>1, EmptySeq, ElementOfSeq
  <2>2. last \in LogRow /\ last.status = row.status
    BY <2>1 DEF Row, LogRow
  <2>3. WriteRow(rows, row, replace, same) = [rows EXCEPT ![Len(rows)] = last]
    BY <1>1 DEF WriteRow
  <2> HIDE DEF last
  <2>4. /\ Len([rows EXCEPT ![Len(rows)] = last]) = Len(rows)
        /\ [rows EXCEPT ![Len(rows)] = last] \in Seq(LogRow)
        /\ [rows EXCEPT ![Len(rows)] = last][Len(rows)] = last
    BY <2>1, <2>2, ExceptSeq
  <2> QED
    BY <2>1, <2>2, <2>3, <2>4, EmptySeq
<1>2. CASE ~ (rows # <<>> /\ (replace \/ IsRepeat(rows, row, same)))
  <2>1. WriteRow(rows, row, replace, same) = Append(rows, row)
    BY <1>2 DEF WriteRow
  <2> QED
    BY <2>1, AppendProperties
<1> QED
  BY <1>1, <1>2

\* Every transaction leaves a status that the log tells, unless the log fails.
LEMMA ToldNext ==
  ASSUME Typing, "log" \notin Faults, Told(lastStatus, log), [Next]_vars
  PROVE  Told(lastStatus', log')
<1>1. /\ log \in Seq(LogRow) /\ sub \in Position /\ pend \in StepStatus
      /\ repl \in BOOLEAN /\ had \in BOOLEAN /\ idx \in Nat
  BY DEF Typing, TypeOK
<1>2. CASE UNCHANGED <<log, lastStatus>>
  BY <1>2
<1>3. CASE lastStatus' \in {"running", "resumed"}
  BY <1>3 DEF Told
<1>4. CASE WriteStep
  <2>1. PICK same \in BOOLEAN : log' = WriteRow(log, Row(<<todo, 0>>, pend, sub), repl, same)
    BY <1>4 DEF WriteStep
  <2>2. Row(<<todo, 0>>, pend, sub) \in LogRow /\ Row(<<todo, 0>>, pend, sub).status = pend
    <3>1. todo \in Nat
      BY <1>4 DEF WriteStep, Typing, PlacesOK
    <3> QED
      BY <1>1, <3>1, RowType DEF Row
  <2>3. log' # <<>> /\ log'[Len(log')].status = pend
    BY <1>1, <2>1, <2>2, LastWritten
  <2>4. lastStatus' \in StoredStatuses(pend, IsTask)
    BY <1>4 DEF WriteStep
  <2> QED
    BY <2>3, <2>4 DEF Told
<1>5. CASE WriteSub
  <2>1. /\ log' = WriteRow(log, Row(<<todo, 0>>, pend, sub'), had \/ idx # 1, FALSE)
        /\ lastStatus' \in StoredStatuses(pend, IsTask)
    BY <1>5 DEF WriteSub
  <2>2. todo \in Nat /\ sub' \in Position
    <3>1. todo \in 1..N
      BY <1>5 DEF WriteSub, Typing, PlacesOK
    <3> QED
      BY <1>1, <1>5, <3>1, NoSubType, WorkflowAssumption DEF WriteSub, Position
  <2>3. /\ Row(<<todo, 0>>, pend, sub') \in LogRow
        /\ Row(<<todo, 0>>, pend, sub').status = pend
    BY <1>1, <2>2, RowType DEF Row
  <2> DEFINE row == Row(<<todo, 0>>, pend, sub')
  <2> HIDE DEF row
  <2>4. row \in LogRow /\ row.status = pend
    BY <2>3 DEF row
  <2>6. PICK replace \in BOOLEAN, same \in BOOLEAN :
          log' = WriteRow(log, row, replace, same)
    <3>1. log' = WriteRow(log, row, had \/ idx # 1, FALSE)
      BY <2>1 DEF row
    <3> QED
      BY <3>1, Zenon
  <2>5. log' # <<>> /\ log'[Len(log')].status = pend
    <3>1. log \in Seq(LogRow) /\ row \in LogRow
      BY <1>1, <2>4
    <3>2. \A new : new = WriteRow(log, row, replace, same) =>
            new # <<>> /\ new[Len(new)].status = row.status
      BY <3>1, LastWritten
    <3> QED
      BY <2>4, <2>6, <3>2
  <2> QED
    BY <2>1, <2>5 DEF Told
<1>6. CASE Abort
  <2>1. /\ log' = WriteRow(log, Row(UserAborted, "abort", RecoveredSub(log)), FALSE, FALSE)
        /\ lastStatus' = "aborted"
    BY <1>6 DEF Abort
  <2>2. RecoveredSub(log) \in Position
    BY <1>1, WorkflowAssumption, RecoveryType
  <2>3. /\ Row(UserAborted, "abort", RecoveredSub(log)) \in LogRow
        /\ Row(UserAborted, "abort", RecoveredSub(log)).status = "abort"
    BY <2>2, RowType DEF UserAborted, Row, StepStatus
  <2> DEFINE row == Row(UserAborted, "abort", RecoveredSub(log))
  <2> HIDE DEF row
  <2>6. row \in LogRow /\ row.status = "abort"
    BY <2>3 DEF row
  <2>7. PICK replace \in BOOLEAN, same \in BOOLEAN :
          log' = WriteRow(log, row, replace, same)
    <3>1. log' = WriteRow(log, row, FALSE, FALSE)
      BY <2>1 DEF row
    <3> QED
      BY <3>1, Zenon
  <2>4. log' # <<>> /\ log'[Len(log')].status = "abort"
    <3>1. log \in Seq(LogRow) /\ row \in LogRow
      BY <1>1, <2>6
    <3>2. \A new : new = WriteRow(log, row, replace, same) =>
            new # <<>> /\ new[Len(new)].status = row.status
      BY <3>1, LastWritten
    <3> QED
      BY <2>6, <2>7, <3>2
  <2>5. "aborted" \in StoredStatuses("abort", IsTask)
    BY DEF StoredStatuses, OverallStatus
  <2> QED
    BY <2>1, <2>4, <2>5 DEF Told
<1>7. ASSUME [Next]_vars
      PROVE  \/ WriteStep \/ WriteSub \/ Abort
             \/ lastStatus' \in {"running", "resumed"}
             \/ UNCHANGED <<log, lastStatus>>
  <2>1. CASE Executor
    BY <2>1 DEF Executor, RunGroup, Begin, ResumeHalted, ResumeOther, Check, RunStep,
      EnterGroup, CheckSub, LeaveGroup, RunSub, database
  <2>2. CASE WriteFault
    BY <2>2 DEF WriteFault, WriteFails, WriteGivesUp, WriteSubFails, WriteSubGivesUp
  <2>3. CASE Crash \/ User
    BY <2>3 DEF Crash, User, Resume, Pause, Unpause, database
  <2>4. CASE UNCHANGED vars
    BY <2>4 DEF vars
  <2> QED
    BY <1>7, <2>1, <2>2, <2>3, <2>4 DEF Next
<1> QED
  BY <1>2, <1>3, <1>4, <1>5, <1>6, <1>7

\* The status of the process tells the outcome of its last row whenever it is not
\* about to be executed, for every workflow and with groups, crashes, pauses and
\* aborts while it runs: not only when the process is at rest.
THEOREM StatusIsLogged ==
  ASSUME "log" \notin Faults
  PROVE  Spec => []StatusMatchesLog
<1>1. Init => Told(lastStatus, log)
  BY DEF Init, Told
<1>2. Typing /\ Told(lastStatus, log) /\ [Next]_vars => Told(lastStatus, log)'
  BY ToldNext
<1>3. Told(lastStatus, log) => StatusMatchesLog
  BY DEF Told, StatusMatchesLog
<1> QED
  BY <1>1, <1>2, <1>3, TypingInit, TypingNext, PTL DEF Spec

-----------------------------------------------------------------------------
(* An abort is final. *)

\* What steps can return: only "done" completes a process, and none aborts one.
LEMMA StepOutcomes ==
  ASSUME NEW k \in Kinds, NEW outcome \in Outcomes[k]
  PROVE  /\ outcome \in StepStatus /\ outcome # "abort"
         /\ outcome = "complete" <=> k = "done"
         /\ k = "exit" => outcome = "success"
         /\ IsCleared(Row(<<0, 0>>, outcome, NoSub)) <=> outcome \in Effective
BY DEF Kinds, Outcomes, StepStatus, IsCleared, Row, Effective

\* The status of a process after an outcome was stored.
LEMMA StatusStored ==
  ASSUME NEW outcome \in StepStatus, outcome # "abort",
         NEW status \in StoredStatuses(outcome, IsTask)
  PROVE  /\ status # "aborted"
         /\ status = "completed" <=> outcome = "complete"
         /\ Continues(outcome) => status = "running"
BY DEF StoredStatuses, OverallStatus, StepStatus, Continues

\* No executor is at work on an aborted process, or holds an outcome that is an abort.
Parted ==
  /\ lastStatus = "aborted" => pc = "idle"
  /\ pend # "abort"
  /\ pc = "group" => st # "abort"

LEMMA PartedExecutor ==
  ASSUME Typing, Parted, Executor
  PROVE  Parted'
<1> USE DEF Parted
<1>1. CASE Begin \/ ResumeHalted \/ ResumeOther \/ Check \/ EnterGroup \/ CheckSub
  BY <1>1 DEF Begin, ResumeHalted, ResumeOther, Check, EnterGroup, CheckSub, LoopHead,
              database, memory
<1>2. CASE RunStep
  <2>1. PICK outcome \in Outcomes[Kind[todo]] : pend' = outcome
    BY <1>2 DEF RunStep
  <2>2. Kind[todo] \in Kinds
    BY <1>2, WorkflowAssumption DEF RunStep, Typing, PlacesOK
  <2>3. pend' # "abort"
    BY <2>1, <2>2, StepOutcomes
  <2> QED
    BY <1>2, <2>3 DEF RunStep, database
<1>3. CASE RunSub
  <2>1. PICK outcome \in Outcomes[Subs[todo][idx]] : pend' = outcome
    BY <1>3 DEF RunSub
  <2>2. Subs[todo][idx] \in Kinds
    <3>1. todo \in 1..N /\ idx \in 1..Len(Subs[todo])
      BY <1>3 DEF RunSub, Typing, PlacesOK
    <3>2. Subs[todo] \in Seq(Kinds)
      BY <3>1, WorkflowAssumption
    <3> QED
      BY <3>1, <3>2, ElementOfSeq
  <2>3. pend' # "abort"
    BY <2>1, <2>2, StepOutcomes
  <2> QED
    BY <1>3, <2>3 DEF RunSub, database
<1>4. CASE WriteStep \/ WriteSub
  <2>1. lastStatus' \in StoredStatuses(pend, IsTask) /\ st' = pend /\ pend' = pend
    BY <1>4 DEF WriteStep, WriteSub
  <2>2. lastStatus' # "aborted"
    BY <2>1, StatusStored DEF Typing, TypeOK
  <2> QED
    BY <2>1, <2>2
<1>5. CASE LeaveGroup
  BY <1>5 DEF LeaveGroup, database
<1> QED
  BY <1>1, <1>2, <1>3, <1>4, <1>5 DEF Executor, RunGroup

LEMMA PartedOther ==
  ASSUME Typing, "abort_running" \notin Faults, Parted, WriteFault \/ Crash \/ User
  PROVE  Parted'
<1> USE DEF Parted
<1>1. CASE WriteFault
  <2>1. \A status \in StoredStatuses("failed", IsTask) : status # "aborted"
    BY DEF StoredStatuses, OverallStatus
  <2> QED
    BY <1>1, <2>1 DEF WriteFault, WriteFails, WriteGivesUp, WriteSubFails, WriteSubGivesUp,
                      database, memory
<1>2. CASE Crash \/ User
  BY <1>2 DEF Crash, User, Resume, Abort, Pause, Unpause, database, memory
<1> QED
  BY <1>1, <1>2

\* Unless the process is aborted while an executor works on it, it stays aborted:
\* no executor writes over the status, and nobody can resume the process.
THEOREM AbortLasts ==
  ASSUME "abort_running" \notin Faults
  PROVE  Spec => AbortIsFinal
<1>1. Init => Typing /\ Parted
  BY TypingInit DEF Init, Parted
<1>2. Typing /\ Parted /\ [Next]_vars => (Typing /\ Parted)'
  <2> SUFFICES ASSUME Typing, Parted, [Next]_vars PROVE Parted'
    BY TypingNext
  <2>1. CASE UNCHANGED vars
    BY <2>1 DEF vars, Parted
  <2> QED
    BY <2>1, PartedExecutor, PartedOther DEF Next
<1>3. Typing /\ Parted /\ [Next]_vars =>
        [lastStatus = "aborted" => lastStatus' = "aborted"]_vars
  <2> SUFFICES ASSUME Typing, Parted, Next, lastStatus = "aborted"
               PROVE  lastStatus' = "aborted"
    OBVIOUS
  <2>1. pc = "idle"
    BY DEF Parted
  <2>2. Resume \/ Abort \/ Pause \/ Unpause
    BY <2>1 DEF Next, Executor, RunGroup, WriteFault, Crash, User, Begin, ResumeHalted,
                ResumeOther, Check, RunStep, WriteStep, EnterGroup, CheckSub, LeaveGroup,
                RunSub, WriteSub, WriteFails, WriteGivesUp, WriteSubFails, WriteSubGivesUp
  <2> QED
    BY <2>2 DEF Resume, Abort, Pause, Unpause, RESUMABLE_STATUSES
<1> QED
  BY <1>1, <1>2, <1>3, PTL DEF Spec, AbortIsFinal

-----------------------------------------------------------------------------
(* Processes keep the promise of AtLeastOnce.  Workflows without step groups  *)
(* do so whatever their steps are, however often the engine is paused or      *)
(* killed, and although the logging may fail; workflows with groups do so as  *)
(* long as nobody pauses the engine and what is logged is logged.             *)

NoGroups == \A i \in 1..N : Kind[i] # "group"

\* Users abort processes that are at rest.
Straight == NoGroups /\ "abort_running" \notin Faults

-----------------------------------------------------------------------------
\* Nothing is in a group and no row is replaced.
Plain ==
  /\ \A i \in DOMAIN log : log[i].sub = NoSub
  /\ sub = NoSub
  /\ repl = FALSE
  /\ pc \in {"idle", "loaded", "loop", "step", "write"}

\* The cleared rows stand for the first steps, which have been executed.
Counted ==
  /\ WasAborted => pc = "idle" /\ lastStatus = "aborted"
  /\ ~ WasAborted => /\ StepCount(log) <= N
                     /\ \A i \in 1..StepCount(log) : <<i, 0>> \in ran
  /\ IsHalted(log) => StepCount(log) + 1 # N
  /\ lastStatus = "completed" => /\ ~ WasAborted
                                 /\ StepCount(log) = N
                                 /\ RecoveredStatus(log) = "complete"

\* The executor is where recovery would put it, and the process is RUNNING.
Placed ==
  /\ pc = "loaded" => todo = RestFrom(log, N) /\ st = RecoveredStatus(log)
  /\ pc \in {"loop", "step", "write"} /\ Continues(st) => todo = StepCount(log) + 1
  /\ pc \in {"step", "write"} => Continues(st)
  /\ pc = "write" => /\ pend # "abort"
                     /\ pend \in Effective => <<todo, 0>> \in ran
                     /\ (pend = "complete") <=> (todo = N)
  /\ pc \in {"loaded", "step", "write"} \/ (pc = "loop" /\ Continues(st)) =>
       lastStatus = "running"
  /\ pc # "idle" => lastStatus # "aborted"

\* The inductive invariant of workflows without groups.
Straightness == Plain /\ Counted /\ Placed

-----------------------------------------------------------------------------
\* A log whose rows are in no group recovers into no group.
LEMMA RecoveredNoSub ==
  ASSUME Typing, Plain
  PROVE  RecoveredSub(log) = NoSub
<1>1. log \in Seq(LogRow)
  BY DEF Typing, TypeOK
<1>2. CASE IsHalted(log)
  <2>1. Len(log) \in DOMAIN log
    BY <1>1, <1>2, EmptySeq DEF IsHalted
  <2> QED
    BY <1>2, <2>1 DEF Plain, RecoveredSub
<1>3. CASE ~ IsHalted(log) /\ ClearedRows(log) # {}
  <2>1. LastCleared(log) \in DOMAIN log
    BY <1>1, <1>3, LastClearedIsLast DEF ClearedRows
  <2> QED
    BY <1>3, <2>1 DEF Plain, RecoveredSub
<1>4. CASE ~ IsHalted(log) /\ ClearedRows(log) = {}
  BY <1>4 DEF RecoveredSub
<1> QED
  BY <1>2, <1>3, <1>4

\* A log that is written to without replacing: how its rows, its count and its
\* end change.
LEMMA Logged ==
  ASSUME Typing, Plain, NEW row \in LogRow, row.sub = NoSub, NEW same \in BOOLEAN,
         log' = WriteRow(log, row, FALSE, same)
  PROVE  /\ \A i \in DOMAIN log' : log'[i].sub = NoSub
         /\ WasAborted' => WasAborted \/ row.status = "abort"
         /\ StepCount(log') = StepCount(log) + (IF IsCleared(row) THEN 1 ELSE 0)
         /\ IsHalted(log') => row.status \in {"suspend", "awaiting_callback"}
         /\ IsCleared(row) => RecoveredStatus(log') = row.status
         /\ StepCount(log) \in Nat
<1>1. log \in Seq(LogRow)
  BY DEF Typing, TypeOK
<1>2. \A k \in DOMAIN log' :
        \/ log'[k].status = row.status /\ log'[k].sub = row.sub
        \/ k \in DOMAIN log /\ log'[k] = log[k]
  <2>1. PICK replace \in BOOLEAN : replace = FALSE
    OBVIOUS
  <2>2. \A k \in DOMAIN WriteRow(log, row, replace, same) :
          LET new == WriteRow(log, row, replace, same)[k] IN
            \/ new.status = row.status /\ new.sub = row.sub
            \/ k \in DOMAIN log /\ new = log[k]
    BY <1>1, WrittenRows
  <2> QED
    BY <2>1, <2>2
<1>3. \A i \in DOMAIN log' : log'[i].sub = NoSub
  BY <1>2 DEF Plain
<1>4. WasAborted' => WasAborted \/ row.status = "abort"
  BY <1>2 DEF WasAborted
<1>5. /\ StepCount(log') = StepCount(log) + (IF IsCleared(row) THEN 1 ELSE 0)
      /\ log' # <<>> /\ log'[Len(log')].status = row.status
  BY <1>1, WrittenCount
<1>6. IsHalted(log') => row.status \in {"suspend", "awaiting_callback"}
  BY <1>5 DEF IsHalted
<1>7. log' \in Seq(LogRow)
  BY <1>1, WriteRowType
<1>8. IsCleared(row) => RecoveredStatus(log') = row.status
  BY <1>5, <1>7, RecoverLast DEF IsCleared
<1> QED
  BY <1>1, <1>3, <1>4, <1>5, <1>6, <1>8, ClearedRowsFinite

\* Where a workflow is entered that is not at its end.
LEMMA RestInside ==
  ASSUME NEW n \in Nat, NEW rows \in Seq(LogRow), RestFrom(rows, n) <= n
  PROVE  /\ RestFrom(rows, n) = StepCount(rows) + 1
         /\ StepCount(rows) < n
         /\ RecoveredStatus(rows) # "complete"
BY ClearedRowsFinite DEF RestFrom

\* One more step has been executed.
LEMMA RanGrows ==
  ASSUME NEW k \in Nat, NEW done, NEW later,
         \A i \in 1..k : <<i, 0>> \in done,
         done \subseteq later, <<k + 1, 0>> \in later
  PROVE  \A i \in 1..(k + 1) : <<i, 0>> \in later
<1> SUFFICES ASSUME NEW i \in 1..(k + 1) PROVE <<i, 0>> \in later
  OBVIOUS
<1>1. i \in 1..k \/ i = k + 1
  OBVIOUS
<1> QED
  BY <1>1

-----------------------------------------------------------------------------
LEMMA StraightInit == Init => Straightness
<1> SUFFICES ASSUME Init PROVE Straightness
  OBVIOUS
<1>1. ClearedRows(log) = {}
  BY DEF Init, ClearedRows
<1>2. StepCount(log) = 0
  BY <1>1, FS_EmptySet DEF StepCount
<1>3. ~ IsHalted(log) /\ ~ WasAborted
  BY DEF Init, IsHalted, WasAborted
<1> QED
  BY <1>2, <1>3, WorkflowAssumption DEF Init, Straightness, Plain, Counted, Placed

\* Taking up a process and executing its steps.
LEMMA StraightExecutor ==
  ASSUME Typing, Straight, Straightness,
         Begin \/ ResumeHalted \/ ResumeOther \/ Check \/ RunStep \/ WriteStep
  PROVE  Straightness'
<1> USE WorkflowAssumption DEF Straightness
<1>0. log \in Seq(LogRow) /\ StepCount(log) \in Nat
  BY ClearedRowsFinite DEF Typing, TypeOK
<1>1. CASE Begin
  <2>1. UNCHANGED <<log, ran, repl>> /\ pc' = "loaded" /\ lastStatus' = "running"
          /\ lastStatus \in {"created", "resumed"}
          /\ st' = RecoveredStatus(log) /\ todo' = RestFrom(log, N)
          /\ sub' = NoSub
    BY <1>1, RecoveredNoSub DEF Begin
  <2>2. Plain'
    BY <2>1 DEF Plain
  <2>3. Counted'
    BY <2>1 DEF Counted, WasAborted
  <2>4. Placed'
    BY <2>1 DEF Placed
  <2> QED
    BY <2>2, <2>3, <2>4
<1>2. CASE ResumeHalted
  <2> DEFINE row == Row(<<todo, 0>>, "success", NoSub)
  <2>1. /\ sub = NoSub /\ sub' = NoSub /\ repl' = FALSE /\ pc = "loaded"
        /\ log' = WriteRow(log, row, FALSE, FALSE)
        /\ lastStatus' = "running" /\ st' = "success" /\ todo' = todo + 1
        /\ ran' = ran \cup {<<todo, 0>>} /\ pc' \in {"step", "idle"}
    BY <1>2 DEF ResumeHalted, Plain, LoopHead
  <2>2. todo = StepCount(log) + 1 /\ StepCount(log) < N /\ ~ WasAborted
    BY <1>0, <1>2, <2>1, RestInside DEF ResumeHalted, Placed, Counted
  <2>3. row \in LogRow /\ row.sub = NoSub /\ row.status = "success" /\ IsCleared(row)
    BY <1>0, <2>2, RowType, NoSubType DEF Row, IsCleared, StepStatus
  <2>4. /\ \A i \in DOMAIN log' : log'[i].sub = NoSub
        /\ ~ WasAborted'
        /\ StepCount(log') = StepCount(log) + 1
        /\ ~ IsHalted(log')
    BY <2>1, <2>2, <2>3, Logged
  <2>5. Plain'
    BY <2>1, <2>4 DEF Plain
  <2> HIDE DEF row
  <2>6. \A i \in 1..StepCount(log') : <<i, 0>> \in ran'
    BY <1>0, <2>1, <2>2, <2>4, RanGrows DEF Counted
  <2>7. Counted'
    <3>1. StepCount(log') <= N /\ StepCount(log') \in Nat
      BY <1>0, <2>2, <2>4
    <3> QED
      BY <2>1, <2>4, <2>6, <3>1 DEF Counted
  <2>8. Placed'
    BY <2>1, <2>2, <2>4 DEF Placed, Continues
  <2> QED
    BY <2>5, <2>7, <2>8
<1>3. CASE ResumeOther
  <2>1. /\ UNCHANGED <<log, lastStatus, todo, sub, repl, ran>> /\ pc = "loaded"
        /\ st' = ResumeStatus(st) /\ pc' \in {"step", "idle"}
        /\ pc' = "step" => Continues(st') /\ todo <= N
    BY <1>3 DEF ResumeOther, LoopHead
  <2>2. pc' = "step" => todo = StepCount(log) + 1
    BY <1>0, <2>1, RestInside DEF Placed
  <2>3. Plain' /\ Counted'
    BY <2>1 DEF Plain, Counted, WasAborted
  <2>4. Placed'
    BY <2>1, <2>2 DEF Placed
  <2> QED
    BY <2>3, <2>4
<1>4. CASE Check
  <2>1. /\ UNCHANGED <<log, lastStatus, todo, st, sub, repl, ran>> /\ pc = "loop"
        /\ pc' \in {"step", "idle"} /\ (pc' = "step" => Continues(st))
    BY <1>4 DEF Check, LoopHead, database, memory
  <2>2. Plain' /\ Counted'
    BY <2>1 DEF Plain, Counted, WasAborted
  <2>3. Placed'
    BY <2>1 DEF Placed
  <2> QED
    BY <2>2, <2>3
<1>5. CASE RunStep
  <2>1. PICK outcome \in Outcomes[Kind[todo]] :
          /\ pend' = outcome
          /\ sub' = Carries(outcome, sub)
          /\ ran' = ran \cup Executed(outcome, <<todo, 0>>)
    BY <1>5 DEF RunStep
  <2>2. /\ UNCHANGED <<log, lastStatus, todo, st>> /\ repl' = FALSE
        /\ pc = "step" /\ pc' = "write" /\ Kind[todo] # "group"
    BY <1>5 DEF RunStep, database
  <2>3. sub' = NoSub
    BY <2>1 DEF Plain, Carries
  <2>4. todo \in 1..N /\ Kind[todo] \in Kinds
    BY <2>2 DEF Typing, PlacesOK
  <2>5. outcome # "abort" /\ (outcome = "complete" <=> Kind[todo] = "done")
    BY <2>1, <2>4, StepOutcomes
  <2>6. Kind[todo] = "done" <=> todo = N
    BY <2>4
  <2>7. outcome \in Effective => <<todo, 0>> \in ran'
    BY <2>1 DEF Effective, Executed
  <2>8. Plain'
    BY <2>2, <2>3 DEF Plain
  <2>9. Counted'
    BY <2>1, <2>2 DEF Counted, WasAborted
  <2>10. Placed'
    BY <2>1, <2>2, <2>5, <2>6, <2>7 DEF Placed
  <2> QED
    BY <2>8, <2>9, <2>10
<1>6. CASE WriteStep
  <2> DEFINE row == Row(<<todo, 0>>, pend, NoSub)
  <2>1. PICK same \in BOOLEAN : log' = WriteRow(log, row, FALSE, same)
    BY <1>6 DEF WriteStep, Plain
  <2>2. /\ UNCHANGED <<sub, repl, ran, pend>> /\ pc = "write" /\ pc' = "loop"
        /\ lastStatus' \in StoredStatuses(pend, IsTask)
        /\ st' = pend /\ todo' = todo + 1
    BY <1>6 DEF WriteStep
  <2>3. /\ todo = StepCount(log) + 1 /\ todo \in 1..N /\ ~ WasAborted
        /\ pend # "abort" /\ pend \in StepStatus
        /\ pend \in Effective => <<todo, 0>> \in ran
        /\ pend = "complete" <=> todo = N
    BY <2>2 DEF Placed, Counted, Typing, TypeOK, PlacesOK
  <2>4. row \in LogRow /\ row.sub = NoSub /\ row.status = pend
    BY <1>0, <2>3, RowType, NoSubType DEF Row
  <2>5. IsCleared(row) <=> pend \in Effective
    BY <2>3, <2>4 DEF IsCleared, Effective, StepStatus
  <2>6. /\ \A i \in DOMAIN log' : log'[i].sub = NoSub
        /\ ~ WasAborted'
        /\ StepCount(log') = StepCount(log) + (IF IsCleared(row) THEN 1 ELSE 0)
        /\ IsHalted(log') => pend \in {"suspend", "awaiting_callback"}
        /\ IsCleared(row) => RecoveredStatus(log') = pend
    BY <2>1, <2>3, <2>4, Logged
  <2>7. /\ lastStatus' # "aborted" /\ (lastStatus' = "completed" <=> pend = "complete")
        /\ Continues(pend) => lastStatus' = "running"
    BY <2>2, <2>3 DEF StoredStatuses, OverallStatus, StepStatus, Continues
  <2> HIDE DEF row
  <2>8. Plain'
    BY <2>2, <2>6 DEF Plain
  <2>9. \A i \in 1..StepCount(log') : <<i, 0>> \in ran'
    <3>1. \A i \in 1..StepCount(log) : <<i, 0>> \in ran
      BY <2>3 DEF Counted
    <3>2. CASE pend \in Effective
      <4>1. StepCount(log') = StepCount(log) + 1
        BY <2>5, <2>6, <3>2
      <4> QED
        BY <1>0, <2>2, <2>3, <3>1, <3>2, <4>1, RanGrows
    <3>3. CASE pend \notin Effective
      <4>1. StepCount(log') = StepCount(log)
        BY <1>0, <2>5, <2>6, <3>3
      <4> QED
        BY <2>2, <3>1, <4>1
    <3> QED
      BY <3>2, <3>3
  <2>10. StepCount(log') <= N
    BY <1>0, <2>3, <2>6
  <2>11. IsHalted(log') => StepCount(log') + 1 # N
    BY <1>0, <2>3, <2>5, <2>6 DEF Effective
  <2>12. lastStatus' = "completed" =>
           StepCount(log') = N /\ RecoveredStatus(log') = "complete"
    BY <1>0, <2>3, <2>5, <2>6, <2>7 DEF Effective
  <2>13. Counted'
    BY <2>2, <2>6, <2>9, <2>10, <2>11, <2>12 DEF Counted
  <2>14. Placed'
    BY <1>0, <2>2, <2>3, <2>5, <2>6, <2>7 DEF Placed, Continues, Effective
  <2> QED
    BY <2>8, <2>13, <2>14
<1> QED
  BY <1>1, <1>2, <1>3, <1>4, <1>5, <1>6

\* No group is entered.
LEMMA StraightGroup ==
  ASSUME Typing, Straight, Straightness, RunGroup
  PROVE  FALSE
<1>1. CASE EnterGroup
  BY <1>1 DEF EnterGroup, Straight, NoGroups, Typing, PlacesOK
<1>2. CASE CheckSub \/ LeaveGroup \/ RunSub \/ WriteSub
  BY <1>2 DEF CheckSub, LeaveGroup, RunSub, WriteSub, Straightness, Plain
<1> QED
  BY <1>1, <1>2 DEF RunGroup

\* Logging that fails, and crashes.
LEMMA StraightFault ==
  ASSUME Typing, Straight, Straightness, WriteFault \/ Crash
  PROVE  Straightness'
<1> USE WorkflowAssumption DEF Straightness
<1>0. log \in Seq(LogRow) /\ StepCount(log) \in Nat
  BY ClearedRowsFinite DEF Typing, TypeOK
<1>1. CASE WriteFails
  <2> DEFINE row == Row(<<todo, 0>>, "failed", NoSub)
  <2>1. PICK same \in BOOLEAN : log' = WriteRow(log, row, FALSE, same)
    BY <1>1 DEF WriteFails
  <2>2. /\ UNCHANGED <<repl, ran>> /\ pc = "write" /\ pc' = "loop" /\ sub' = NoSub
        /\ lastStatus' \in {"failed", "inconsistent_data", "api_unavailable"}
        /\ st' = "failed"
    BY <1>1 DEF WriteFails, StoredStatuses, OverallStatus
  <2>3. todo \in 1..N /\ ~ WasAborted
    BY <2>2 DEF Counted, Typing, PlacesOK
  <2>4. row \in LogRow /\ row.sub = NoSub /\ row.status = "failed" /\ ~ IsCleared(row)
    BY <2>3, RowType, NoSubType DEF Row, IsCleared, StepStatus
  <2>5. /\ \A i \in DOMAIN log' : log'[i].sub = NoSub
        /\ ~ WasAborted'
        /\ StepCount(log') = StepCount(log)
        /\ ~ IsHalted(log')
    <3>1. StepCount(log') = StepCount(log) + (IF IsCleared(row) THEN 1 ELSE 0)
      BY <2>1, <2>4, Logged
    <3>2. StepCount(log') = StepCount(log)
      BY <1>0, <2>4, <3>1
    <3> QED
      BY <2>1, <2>3, <2>4, <3>2, Logged
  <2>6. Plain'
    BY <2>2, <2>5 DEF Plain
  <2>7. Counted'
    BY <2>2, <2>3, <2>5 DEF Counted
  <2>8. Placed'
    BY <2>2 DEF Placed, Continues
  <2> QED
    BY <2>6, <2>7, <2>8
<1>2. CASE WriteGivesUp \/ Crash
  <2>1. /\ UNCHANGED <<log, sub, repl, ran>> /\ pc # "idle" /\ pc' = "idle"
        /\ lastStatus' \in {lastStatus, "waiting", "failed"}
    BY <1>2 DEF WriteGivesUp, Crash, database, memory
  <2>2. Plain' /\ Counted' /\ Placed'
    BY <2>1 DEF Plain, Counted, Placed, WasAborted
  <2> QED
    BY <2>2
<1>3. CASE WriteSubFails \/ WriteSubGivesUp
  BY <1>3 DEF WriteSubFails, WriteSubGivesUp, Plain
<1> QED
  BY <1>1, <1>2, <1>3 DEF WriteFault

\* What users and operators do.
LEMMA StraightUser ==
  ASSUME Typing, Straight, Straightness, User
  PROVE  Straightness'
<1> USE DEF Straightness
<1>1. CASE Resume
  <2>1. /\ UNCHANGED <<log, pc, memory, ran>> /\ lastStatus' = "resumed"
        /\ lastStatus \in RESUMABLE_STATUSES
    BY <1>1 DEF Resume
  <2>2. Plain' /\ Counted' /\ Placed'
    BY <2>1 DEF Plain, Counted, Placed, WasAborted, memory, RESUMABLE_STATUSES
  <2> QED
    BY <2>2
<1>2. CASE Abort
  <2> DEFINE row == Row(UserAborted, "abort", NoSub)
  <2>1. /\ UNCHANGED <<pc, memory, ran>> /\ pc = "idle" /\ lastStatus' = "aborted"
        /\ log' = WriteRow(log, row, FALSE, FALSE)
    BY <1>2, RecoveredNoSub DEF Abort, Straight
  <2>2. row \in LogRow /\ row.sub = NoSub /\ row.status = "abort"
    BY NoSubType DEF Row, LogRow, StepStatus
  <2>3. /\ \A i \in DOMAIN log' : log'[i].sub = NoSub
        /\ ~ IsHalted(log')
    BY <2>1, <2>2, Logged
  <2>4. WasAborted'
    <3>1. log' \in Seq(LogRow) /\ log' # <<>> /\ log'[Len(log')].status = "abort"
      BY <2>1, <2>2, WrittenCount, WriteRowType DEF Typing, TypeOK
    <3>2. Len(log') \in DOMAIN log'
      BY <3>1, EmptySeq
    <3> QED
      BY <3>1, <3>2 DEF WasAborted
  <2>5. Plain' /\ Counted' /\ Placed'
    BY <2>1, <2>3, <2>4 DEF Plain, Counted, Placed, memory
  <2> QED
    BY <2>5
<1>3. CASE Pause \/ Unpause
  <2>1. /\ UNCHANGED <<log, pc, memory, ran>>
        /\ \/ lastStatus' = lastStatus
           \/ pc = "idle" /\ lastStatus = "running" /\ lastStatus' = "resumed"
    BY <1>3 DEF Pause, Unpause
  <2>2. Plain' /\ Counted' /\ Placed'
    BY <2>1 DEF Plain, Counted, Placed, WasAborted, memory
  <2> QED
    BY <2>2
<1> QED
  BY <1>1, <1>2, <1>3 DEF User

LEMMA StraightNext ==
  ASSUME Typing, Straight, Straightness, [Next]_vars
  PROVE  Straightness'
<1>1. CASE Next
  BY <1>1, StraightExecutor, StraightGroup, StraightFault, StraightUser
     DEF Next, Executor
<1>2. CASE UNCHANGED vars
  BY <1>2 DEF vars, Straightness, Plain, Counted, Placed, WasAborted
<1> QED
  BY <1>1, <1>2

LEMMA StraightAlways ==
  ASSUME Straight
  PROVE  Spec => [](Typing /\ Straightness)
<1>1. Init => Typing /\ Straightness
  BY TypingInit, StraightInit
<1>2. Typing /\ Straightness /\ [Next]_vars => (Typing /\ Straightness)'
  BY TypingNext, StraightNext
<1> QED
  BY <1>1, <1>2, PTL DEF Spec

\* Outside of groups, a process is only completed when all its steps were
\* executed or skipped, in spite of pauses, crashes and failing logging.
THEOREM NothingIsSkipped ==
  ASSUME Straight
  PROVE  Spec => []NothingSkipped
<1>1. Typing /\ Straightness => NothingSkipped
  <2> SUFFICES ASSUME Typing, Straightness, lastStatus = "completed"
               PROVE  Work \subseteq ran
    BY DEF NothingSkipped
  <2>1. \A i \in 1..N : <<i, 0>> \in ran
    BY DEF Straightness, Counted
  <2>2. \A i \in 1..N : WorkOf(i) = {<<i, 0>>}
    BY DEF WorkOf, Straight, NoGroups
  <2> QED
    BY <2>1, <2>2 DEF Work
<1> QED
  BY <1>1, StraightAlways, PTL

\* Outside of groups, what recovery counts as done has been done.
THEOREM RecoveryIsExact ==
  ASSUME Straight
  PROVE  Spec => []RecoveryExact
<1>1. Typing /\ Straightness => RecoveryExact
  <2> SUFFICES ASSUME Typing, Straightness, ~ WasAborted,
                      NEW i \in 1..StepCount(log)
               PROVE  i <= N /\ WorkOf(i) \subseteq ran
    BY DEF RecoveryExact
  <2>1. StepCount(log) \in Nat /\ StepCount(log) <= N /\ <<i, 0>> \in ran
    BY ClearedRowsFinite DEF Typing, TypeOK, Straightness, Counted
  <2>2. i \in 1..N
    BY <2>1, WorkflowAssumption
  <2>3. WorkOf(i) = {<<i, 0>>}
    BY <2>2 DEF WorkOf, Straight, NoGroups
  <2> QED
    BY <2>1, <2>2, <2>3
<1> QED
  BY <1>1, StraightAlways, PTL

\* Outside of groups, an executor is always where recovery would put it.
THEOREM PositionIsRecovered ==
  ASSUME Straight
  PROVE  Spec => []PositionMatchesLog
<1>1. Straightness => PositionMatchesLog
  BY DEF Straightness, Placed, PositionMatchesLog
<1> QED
  BY <1>1, StraightAlways, PTL

\* Outside of groups, an accepted resume is only replaced by the worker that takes
\* it up or by an abort: an executor that still writes has a process that is
\* RUNNING, which nobody can resume.
THEOREM ResumeLasts ==
  ASSUME Straight
  PROVE  Spec => ResumeKept
<1>1. Typing /\ Straightness /\ [Next]_vars =>
        [lastStatus = "resumed" => lastStatus' \in {"resumed", "running", "aborted"}]_vars
  <2> SUFFICES ASSUME Typing, Straightness, Next, lastStatus = "resumed"
               PROVE  lastStatus' \in {"resumed", "running", "aborted"}
    OBVIOUS
  <2>1. pc \notin {"loaded", "step", "write", "group", "substep", "subwrite"}
    BY DEF Straightness, Placed, Plain
  <2>2. Begin \/ Check \/ Crash \/ Resume \/ Abort \/ Pause \/ Unpause
    BY <2>1 DEF Next, Executor, RunGroup, WriteFault, User, ResumeHalted, ResumeOther,
                RunStep, WriteStep, EnterGroup, CheckSub, LeaveGroup,
                RunSub, WriteSub, WriteFails, WriteGivesUp, WriteSubFails, WriteSubGivesUp
  <2> QED
    BY <2>2 DEF Begin, Check, Crash, database, Resume, Abort, Pause, Unpause
<1> QED
  BY <1>1, StraightAlways, PTL DEF Spec, ResumeKept

-----------------------------------------------------------------------------
(* The refinement *)

\* The rows that are recorded are those that recovery counts.
LEMMA RecordedCount ==
  ASSUME Plain, ~ WasAborted
  PROVE  Cardinality(RecordedRows) = StepCount(log)
<1>1. RecordedRows = ClearedRows(log)
  BY DEF RecordedRows, ClearedRows, WasAborted, Plain
<1> QED
  BY <1>1 DEF StepCount

\* Aborting records nothing.
LEMMA AbortRecordsNothing ==
  ASSUME Typing, log' = Append(log, Row(UserAborted, "abort", NoSub))
  PROVE  RecordedRows' = RecordedRows
<1> DEFINE row == Row(UserAborted, "abort", NoSub)
<1>1. log \in Seq(LogRow) /\ row.status = "abort"
  BY DEF Typing, TypeOK, Row
<1> HIDE DEF row
<1>2. /\ DOMAIN log = 1..Len(log) /\ Len(log) \in Nat
      /\ DOMAIN log' = 1..(Len(log) + 1) /\ log'[Len(log) + 1] = row
      /\ \A i \in DOMAIN log : log'[i] = log[i]
  BY <1>1 DEF row
<1>3. ASSUME NEW i
      PROVE  i \in RecordedRows' <=> i \in RecordedRows
  <2>1. CASE i \in DOMAIN log
    BY <1>2, <2>1 DEF RecordedRows, ClearedRows
  <2>2. CASE i \notin DOMAIN log
    BY <1>1, <1>2, <2>2 DEF RecordedRows, ClearedRows
  <2> QED
    BY <2>1, <2>2
<1> QED
  BY <1>3 DEF RecordedRows

\* Recovery finds a halted process where the last row is halted.
LEMMA HaltedRecovery ==
  ASSUME NEW rows \in Seq(LogRow),
         RecoveredStatus(rows) \in {"suspend", "awaiting_callback"}
  PROVE  IsHalted(rows)
<1> SUFFICES ASSUME ~ IsHalted(rows), ClearedRows(rows) # {} PROVE FALSE
  BY DEF RecoveredStatus
<1>1. IsCleared(rows[LastCleared(rows)])
  BY LastClearedIsLast DEF ClearedRows
<1> QED
  BY <1>1 DEF RecoveredStatus, IsCleared

\* Outside of groups, the engine implements AtLeastOnce: the steps are executed
\* in order and none again once it is recorded.
THEOREM KeepsPromise ==
  ASSUME Straight
  PROVE  Spec => ImplementsPromise
<1> USE WorkflowAssumption
<1>1. Init => Promise!Init
  <2> SUFFICES ASSUME Init PROVE Promise!Init
    OBVIOUS
  <2>1. RecordedRows = {}
    BY DEF Init, RecordedRows, ClearedRows
  <2> QED
    BY <2>1, FS_EmptySet DEF Init, Promise!Init, Outcome
<1>2. Typing /\ Straightness /\ (Typing /\ Straightness)' /\ [Next]_vars
      => [Promise!Next]_(Promise!vars)
  <2> SUFFICES ASSUME Typing, Straightness, (Typing /\ Straightness)', [Next]_vars
               PROVE  [Promise!Next]_(Promise!vars)
    OBVIOUS
  <2> DEFINE pos == Cardinality(RecordedRows)
  <2>0. log \in Seq(LogRow) /\ StepCount(log) \in Nat
    BY ClearedRowsFinite DEF Typing, TypeOK
  <2>2. UNCHANGED <<ran, log>> /\ Outcome' = Outcome => UNCHANGED Promise!vars
    BY DEF Promise!vars, RecordedRows, ClearedRows
  <2>3. pc # "idle" => ~ WasAborted /\ lastStatus # "aborted"
    BY DEF Straightness, Counted, Placed
  <2>4. ~ WasAborted => pos = StepCount(log)
    BY RecordedCount DEF Straightness
  <2>5. ~ WasAborted' => pos' = StepCount(log')
    <3> SUFFICES ASSUME ~ WasAborted' PROVE pos' = StepCount(log')
      OBVIOUS
    <3>1. RecordedRows' = ClearedRows(log')
      BY DEF RecordedRows, ClearedRows, WasAborted, Plain, Straightness
    <3> QED
      BY <3>1 DEF StepCount
  <2> HIDE DEF pos
  <2>6. ASSUME NEW i \in 1..N PROVE WorkOf(i) = {<<i, 0>>}
    BY <2>6 DEF WorkOf, Straight, NoGroups
  <2>7. ASSUME ~ WasAborted, todo = StepCount(log) + 1, todo \in 1..N,
               lastStatus \notin {"completed", "aborted"},
               ran' = ran \cup {<<todo, 0>>}
        PROVE  /\ pos < N /\ pos + 1 = todo /\ <<todo, 0>> \in WorkOf(pos + 1)
               /\ Promise!Execute(<<todo, 0>>)
    <3>1. pos < N /\ pos + 1 = todo
      BY <2>0, <2>4, <2>7
    <3>2. WorkOf(todo) = {<<todo, 0>>}
      BY <2>6, <2>7
    <3>3. Promise!Before(<<todo, 0>>) = {}
      BY <3>2 DEF Promise!Before
    <3> QED
      BY <2>7, <3>1, <3>2, <3>3 DEF Promise!Execute, Outcome
  <2>8. ASSUME ~ WasAborted, ~ WasAborted', todo = StepCount(log) + 1, todo \in 1..N,
               lastStatus \notin {"completed", "aborted"}, lastStatus' # "aborted",
               ran' = ran \cup {<<todo, 0>>},
               StepCount(log') = StepCount(log) + 1,
               lastStatus' = "completed" <=> todo = N
        PROVE  Promise!Record
    <3>1. /\ pos < N /\ pos + 1 = todo /\ <<todo, 0>> \in WorkOf(pos + 1)
          /\ Promise!Execute(<<todo, 0>>)
      BY <2>7, <2>8
    <3>2. WorkOf(pos + 1) \subseteq ran'
      BY <2>6, <2>8, <3>1
    <3>3. pos' = pos + 1
      BY <2>4, <2>5, <2>8
    <3>4. Outcome' = IF pos' = N THEN "completed" ELSE "open"
      BY <2>8, <3>1, <3>3 DEF Outcome
    <3> QED
      BY <3>1, <3>2, <3>3, <3>4 DEF Promise!Record, pos
  <2>9. CASE Begin \/ ResumeOther \/ Check \/ WriteGivesUp \/ Crash
    <3>1. UNCHANGED <<ran, log>>
      BY <2>9 DEF Begin, ResumeOther, Check, WriteGivesUp, Crash, database
    <3>2. Outcome' = Outcome
      BY <2>3, <2>9 DEF Begin, ResumeOther, Check, WriteGivesUp, Crash, database,
                        Outcome, Straightness, Placed
    <3> QED
      BY <2>2, <3>1, <3>2
  <2>10. CASE Resume \/ Pause \/ Unpause
    <3>1. UNCHANGED <<ran, log>>
      BY <2>10 DEF Resume, Pause, Unpause
    <3>2. Outcome' = Outcome
      BY <2>10 DEF Resume, Pause, Unpause, Outcome, RESUMABLE_STATUSES
    <3> QED
      BY <2>2, <3>1, <3>2
  <2>11. CASE Abort
    <3>1. /\ log' = Append(log, Row(UserAborted, "abort", NoSub))
          /\ ran' = ran /\ lastStatus' = "aborted"
      <4>1. RecoveredSub(log) = NoSub
        BY RecoveredNoSub DEF Straightness
      <4>2. Row(UserAborted, "abort", NoSub).status = "abort"
        BY DEF Row
      <4> QED
        BY <2>11, <4>1, <4>2, WriteAppends DEF Abort
    <3>2. lastStatus # "completed"
      BY <2>11 DEF Abort, Straightness, Counted
    <3>3. pos' = pos
      BY <3>1, AbortRecordsNothing DEF pos
    <3>4. CASE lastStatus = "aborted"
      BY <3>1, <3>3, <3>4 DEF Promise!vars, Outcome, pos
    <3>5. CASE lastStatus # "aborted"
      BY <3>1, <3>2, <3>3, <3>5 DEF Promise!GiveUp, Promise!Next, Outcome, pos
    <3> QED
      BY <3>4, <3>5
  <2>12. CASE RunStep
    <3>1. PICK outcome \in Outcomes[Kind[todo]] :
            ran' = ran \cup Executed(outcome, <<todo, 0>>)
      BY <2>12 DEF RunStep
    <3>2. UNCHANGED <<log, lastStatus>> /\ pc = "step"
      BY <2>12 DEF RunStep, database
    <3>3. /\ ~ WasAborted /\ todo = StepCount(log) + 1 /\ todo \in 1..N
          /\ lastStatus \notin {"completed", "aborted"}
      BY <2>3, <3>2 DEF Straightness, Placed, Typing, PlacesOK
    <3>4. pos' = pos /\ Outcome' = Outcome
      BY <3>2 DEF pos, RecordedRows, ClearedRows, Outcome
    <3>5. CASE Executed(outcome, <<todo, 0>>) = {}
      BY <3>1, <3>4, <3>5 DEF Promise!vars, pos
    <3>6. CASE Executed(outcome, <<todo, 0>>) = {<<todo, 0>>}
      <4>1. /\ pos < N /\ pos + 1 = todo /\ <<todo, 0>> \in WorkOf(pos + 1)
            /\ Promise!Execute(<<todo, 0>>)
        BY <2>7, <3>1, <3>3, <3>6
      <4>2. Promise!Try
        BY <3>4, <4>1 DEF Promise!Try, pos
      <4> QED
        BY <4>2 DEF Promise!Next
    <3> QED
      BY <3>5, <3>6 DEF Executed
  <2>13. CASE ResumeHalted
    <3> DEFINE row == Row(<<todo, 0>>, "success", NoSub)
    <3>1. /\ pc = "loaded" /\ log' = WriteRow(log, row, FALSE, FALSE)
          /\ lastStatus' = "running" /\ st \in {"suspend", "awaiting_callback"}
          /\ ran' = ran \cup {<<todo, 0>>} /\ todo <= N
      BY <2>13 DEF ResumeHalted, Straightness, Plain
    <3>2. /\ ~ WasAborted /\ lastStatus \notin {"completed", "aborted"}
          /\ todo = RestFrom(log, N) /\ st = RecoveredStatus(log)
      BY <2>3, <3>1 DEF Straightness, Placed
    <3>3. todo = StepCount(log) + 1 /\ StepCount(log) < N
      BY <2>0, <3>1, <3>2, RestInside
    <3>4. StepCount(log) + 1 # N
      <4>1. IsHalted(log)
        BY <3>1, <3>2, HaltedRecovery DEF Typing, TypeOK
      <4> QED
        BY <4>1 DEF Straightness, Counted
    <3>5. todo \in 1..N /\ todo # N
      BY <2>0, <3>3, <3>4
    <3>6. row \in LogRow /\ row.sub = NoSub /\ row.status = "success" /\ IsCleared(row)
      BY <2>0, <3>5, RowType, NoSubType DEF Row, IsCleared, StepStatus
    <3> HIDE DEF row
    <3>7. StepCount(log') = StepCount(log) + 1 /\ ~ WasAborted'
      BY <3>1, <3>2, <3>6, Logged DEF Straightness
    <3>8. Promise!Record
      BY <2>8, <3>1, <3>2, <3>3, <3>5, <3>7
    <3> QED
      BY <3>8 DEF Promise!Next
  <2>14. CASE WriteStep \/ WriteFails
    <3>1. PICK status \in StepStatus, same \in BOOLEAN :
            /\ log' = WriteRow(log, Row(<<todo, 0>>, status, NoSub), FALSE, same)
            /\ lastStatus' \in StoredStatuses(status, IsTask)
            /\ status = pend \/ status = "failed"
      BY <2>14 DEF WriteStep, WriteFails, Straightness, Plain, Typing, TypeOK, StepStatus
    <3>2. pc = "write" /\ ran' = ran
      BY <2>14 DEF WriteStep, WriteFails
    <3>3. /\ ~ WasAborted /\ todo = StepCount(log) + 1 /\ todo \in 1..N
          /\ lastStatus \notin {"completed", "aborted"} /\ status # "abort"
          /\ status \in Effective => <<todo, 0>> \in ran
          /\ status = "complete" => todo = N
          /\ status \in Effective /\ todo = N => status = "complete"
      BY <2>3, <3>1, <3>2 DEF Straightness, Placed, Typing, PlacesOK, Effective
    <3>4. lastStatus' # "aborted" /\ (lastStatus' = "completed" <=> status = "complete")
      BY <3>1, <3>3 DEF StoredStatuses, OverallStatus, StepStatus
    <3> DEFINE row == Row(<<todo, 0>>, status, NoSub)
    <3>5. row \in LogRow /\ row.sub = NoSub /\ row.status = status
      BY <2>0, <3>3, RowType, NoSubType DEF Row
    <3>6. IsCleared(row) <=> status \in Effective
      BY <3>3, <3>5 DEF IsCleared, Effective, StepStatus
    <3> HIDE DEF row
    <3>7. /\ ~ WasAborted'
          /\ StepCount(log') = StepCount(log) + (IF IsCleared(row) THEN 1 ELSE 0)
      BY <3>1, <3>3, <3>5, Logged DEF row, Straightness
    <3>8. CASE status \in Effective
      <4>1. StepCount(log') = StepCount(log) + 1
        BY <3>6, <3>7, <3>8
      <4>2. ran' = ran \cup {<<todo, 0>>}
        BY <3>2, <3>3, <3>8
      <4>3. Promise!Record
        BY <2>8, <3>3, <3>4, <3>7, <3>8, <4>1, <4>2
      <4> QED
        BY <4>3 DEF Promise!Next
    <3>9. CASE status \notin Effective
      <4>1. StepCount(log') = StepCount(log)
        BY <2>0, <3>6, <3>7, <3>9
      <4>2. pos' = pos
        BY <2>4, <2>5, <3>3, <3>7, <4>1
      <4>3. Outcome' = Outcome
        BY <3>3, <3>4, <3>9 DEF Outcome, Effective
      <4> QED
        BY <3>2, <4>2, <4>3 DEF Promise!vars, pos
    <3> QED
      BY <3>8, <3>9
  <2>15. CASE WriteSubFails \/ WriteSubGivesUp
    BY <2>15 DEF WriteSubFails, WriteSubGivesUp, Straightness, Plain
  <2>16. CASE RunGroup
    BY <2>16, StraightGroup
  <2>17. CASE UNCHANGED vars
    BY <2>2, <2>17 DEF vars, Outcome
  <2> QED
    BY <2>9, <2>10, <2>11, <2>12, <2>13, <2>14, <2>15, <2>16, <2>17
       DEF Next, Executor, WriteFault, User
<1> QED
  BY <1>1, <1>2, StraightAlways, PTL DEF Spec, ImplementsPromise, Promise!Spec

-----------------------------------------------------------------------------
(* Step groups: the promise of AtLeastOnce, for every workflow.               *)

\* The engine may crash at any moment, and users abort processes at rest; nobody
\* pauses the engine, and what is logged is logged.
Undisturbed == Faults \cap {"pause", "abort_running", "log"} = {}

\* The last row.
End(rows) == rows[Len(rows)]

\* A row of a step that was recorded, as opposed to one of a group in progress.
IsRecorded(row) == IsCleared(row) /\ row.status # "abort" /\ row.sub = NoSub

\* The steps that are recorded, and how many they are.
Recorded(rows) == {i \in ClearedRows(rows) : rows[i].status # "abort" /\ rows[i].sub = NoSub}

Steps(rows) == Cardinality(Recorded(rows))

\* The last row is that of a group in progress, and recovery would count it.
IsOpen(rows) == rows # <<>> /\ IsCleared(End(rows)) /\ End(rows).sub # NoSub

\* No other row is one of a group in progress.
Closed(rows) ==
  /\ \A i \in ClearedRows(rows) : i < Len(rows) => rows[i].sub = NoSub
  /\ \A i \in DOMAIN rows : rows[i].status # "abort"

\* The first n sub steps of group i have been executed.
Through(i, n, done) == \A j \in 1..n : <<i, j>> \in done

\* A position in group i in front of its exit step.
InGroup(position, i) ==
  /\ i < N /\ Kind[i] = "group"
  /\ position[1] = i /\ position[2] \in 1..(Len(Subs[i]) - 1)

\* What the log says was done: a process that waits for an answer waits in a step or
\* in a group, and a group in progress has been executed as far as its row says.
Shape(rows, done) ==
  /\ Closed(rows)
  /\ Steps(rows) <= N
  /\ \A i \in 1..Steps(rows) : WorkOf(i) \subseteq done
  /\ IsHalted(rows) =>
       \/ /\ End(rows).sub = NoSub
          /\ Steps(rows) + 1 < N /\ Kind[Steps(rows) + 1] # "group"
       \/ /\ InGroup(End(rows).sub, Steps(rows) + 1)
          /\ Through(Steps(rows) + 1, End(rows).sub[2] - 1, done)
  /\ IsOpen(rows) =>
       /\ Continues(End(rows).status)
       /\ InGroup(End(rows).sub, Steps(rows) + 1)
       /\ Through(Steps(rows) + 1, End(rows).sub[2], done)

\* A process with a group in progress is being executed, or was when its worker was
\* killed: nobody recovers it.
Labelled(rows, status) ==
  /\ status # "aborted"
  /\ IsOpen(rows) => status = "running"
  /\ status = "completed" => Steps(rows) = N /\ RecoveredStatus(rows) = "complete"

\* The executor is at the step after those that are recorded, perhaps in its middle.
AtStep ==
  /\ lastStatus = "running"
  /\ todo = Steps(log) + 1
  /\ sub = IF IsOpen(log) THEN End(log).sub ELSE NoSub

\* The executor is at a sub step, and those before it are executed and logged.
AtSubStep ==
  /\ lastStatus = "running" /\ Continues(st)
  /\ todo = Steps(log) + 1 /\ todo < N /\ Kind[todo] = "group"
  /\ idx \in 1..Len(Subs[todo]) /\ Through(todo, idx - 1, ran)
  /\ IF idx = 1 THEN ~ had /\ ~ IsOpen(log) ELSE IsOpen(log)

\* A group returns what its last sub step wrote.
AtExit(outcome) ==
  /\ todo < N /\ Kind[todo] = "group" /\ log # <<>>
  /\ End(log).sub = sub
  /\ IF Continues(outcome)
     THEN /\ todo = Steps(log) /\ sub = NoSub
          /\ lastStatus = "running" /\ Continues(End(log).status)
     ELSE /\ todo = Steps(log) + 1
          /\ outcome = End(log).status
          /\ outcome \in {"failed", "waiting", "suspend", "awaiting_callback"}
          /\ lastStatus # "completed"

\* The executor stands where its log says.
Located ==
  /\ pc = "loaded" => /\ lastStatus = "running" /\ ~ IsOpen(log)
                      /\ todo = RestFrom(log, N)
                      /\ st = RecoveredStatus(log) /\ sub = RecoveredSub(log)
  /\ pc = "loop" /\ Continues(st) => AtStep
  /\ pc = "step" => Continues(st) /\ AtStep
  /\ pc = "write" =>
       IF repl THEN AtExit(pend)
       ELSE /\ AtStep /\ ~ IsOpen(log) /\ Kind[todo] # "group"
            /\ pend \in Outcomes[Kind[todo]]
            /\ pend \in Effective => <<todo, 0>> \in ran
  /\ pc = "group" => \/ AtSubStep
                     \/ (~ Continues(st) \/ idx > Len(Subs[todo])) /\ AtExit(st)
  /\ pc = "substep" => AtSubStep
  /\ pc = "subwrite" =>
       /\ AtSubStep /\ pend \in Outcomes[Subs[todo][idx]]
       /\ pend \in Effective => <<todo, idx>> \in ran

\* The inductive invariant of workflows with groups.  Nothing follows an abort.
Groupwise ==
  /\ ~ lock
  /\ IF WasAborted THEN pc = "idle" /\ lastStatus = "aborted"
     ELSE Shape(log, ran) /\ Labelled(log, lastStatus) /\ Located

-----------------------------------------------------------------------------
\* The last row of a log.
LEMMA EndOfLog ==
  ASSUME NEW rows \in Seq(LogRow), rows # <<>>
  PROVE  /\ Len(rows) \in DOMAIN rows /\ Len(rows) \in Nat
         /\ DOMAIN rows = 1..Len(rows)
         /\ End(rows) \in LogRow
<1>1. Len(rows) \in 1..Len(rows) /\ DOMAIN rows = 1..Len(rows) /\ Len(rows) \in Nat
  BY EmptySeq
<1>2. rows[Len(rows)] \in LogRow
  BY <1>1, ElementOfSeq
<1> QED
  BY <1>1, <1>2 DEF End

\* The recorded rows are among the rows, and can be counted.
LEMMA RecordedFinite ==
  ASSUME NEW rows \in Seq(LogRow)
  PROVE  /\ Recorded(rows) \in SUBSET (1..Len(rows))
         /\ IsFiniteSet(Recorded(rows))
         /\ Steps(rows) \in Nat
<1>1. ClearedRows(rows) \in SUBSET (1..Len(rows)) /\ IsFiniteSet(ClearedRows(rows))
  BY ClearedRowsFinite
<1>2. Recorded(rows) \subseteq ClearedRows(rows)
  BY DEF Recorded
<1> HIDE DEF Recorded, ClearedRows
<1>3. IsFiniteSet(Recorded(rows))
  BY <1>1, <1>2, FS_Subset
<1> QED
  BY <1>1, <1>2, <1>3, FS_CardinalityType DEF Steps

\* Indices of logs, one of which may have one more row.
LEMMA Indices ==
  ASSUME NEW m \in Nat, NEW n \in Nat, m = n + 1 \/ m = n, m # 0
  PROVE  /\ m \in 1..m
         /\ \A i \in 1..(m - 1) : i \in 1..m /\ i # m /\ i \in 1..n
         /\ \A i \in 1..m : i = m \/ i \in 1..(m - 1)
         /\ \A i \in 1..n : i = m \/ i \in 1..(m - 1)
         /\ m = n + 1 => m \notin 1..n
         /\ \A i \in 1..(m - 1) : i < n \/ (i = n /\ m = n + 1 /\ n # 0)
OBVIOUS

\* What is recorded when a log gets a new last row in place of none, or of one
\* that is not recorded.
LEMMA NewEnd ==
  ASSUME NEW rows \in Seq(LogRow), NEW new \in Seq(LogRow), Closed(rows),
         new # <<>>, End(new).status # "abort",
         Len(new) = Len(rows) + 1 \/ Len(new) = Len(rows),
         Len(new) = Len(rows) + 1 => ~ IsOpen(rows),
         Len(new) = Len(rows) => ~ IsRecorded(End(rows)),
         \A i \in 1..(Len(new) - 1) : new[i] = rows[i]
  PROVE  /\ Closed(new)
         /\ Steps(new) = Steps(rows) + (IF IsRecorded(End(new)) THEN 1 ELSE 0)
<1> DEFINE m == Len(new)
           n == Len(rows)
<1>0. /\ m \in Nat /\ n \in Nat /\ m # 0 /\ DOMAIN new = 1..m /\ DOMAIN rows = 1..n
      /\ n = 0 <=> rows = <<>>
  BY EmptySeq
<1>1. /\ new[m] = End(new) /\ rows[n] = End(rows)
      /\ m = n + 1 \/ m = n
      /\ m = n + 1 => ~ IsOpen(rows)
      /\ m = n => ~ IsRecorded(End(rows))
      /\ \A i \in 1..(m - 1) : new[i] = rows[i]
  BY DEF End
<1>2. /\ m \in 1..m
      /\ \A i \in 1..(m - 1) : i \in 1..m /\ i # m /\ i \in 1..n
      /\ \A i \in 1..m : i = m \/ i \in 1..(m - 1)
      /\ \A i \in 1..n : i = m \/ i \in 1..(m - 1)
      /\ m = n + 1 => m \notin 1..n
      /\ \A i \in 1..(m - 1) : i < n \/ (i = n /\ m = n + 1 /\ n # 0)
  <2> HIDE DEF m, n
  <2> QED
    BY <1>0, <1>1, Indices
<1>3. /\ Recorded(rows) \in SUBSET (1..n) /\ IsFiniteSet(Recorded(rows)) /\ Steps(rows) \in Nat
      /\ Recorded(new) \in SUBSET (1..m)
      /\ \A i \in ClearedRows(rows) : i < n => rows[i].sub = NoSub
      /\ \A i \in DOMAIN rows : rows[i].status # "abort"
  BY RecordedFinite DEF Closed
<1>4. Closed(new) <=> /\ \A i \in ClearedRows(new) : i < m => new[i].sub = NoSub
                      /\ \A i \in DOMAIN new : new[i].status # "abort"
  BY DEF Closed
<1> HIDE DEF m, n
<1>5. m \notin Recorded(rows)
  <2>1. CASE m = n + 1
    BY <1>2, <1>3, <2>1
  <2>2. CASE m = n
    BY <1>1, <2>2 DEF IsRecorded, Recorded, ClearedRows
  <2> QED
    BY <1>1, <2>1, <2>2
<1>6. \A i \in 1..(m - 1) : i \in Recorded(new) <=> i \in Recorded(rows)
  BY <1>0, <1>1, <1>2 DEF Recorded, ClearedRows
<1>7. \A i : i \in Recorded(rows) => i \in 1..(m - 1)
  BY <1>2, <1>5, <1>3
<1>8. m \in Recorded(new) <=> IsRecorded(End(new))
  BY <1>0, <1>1, <1>2 DEF Recorded, ClearedRows, IsRecorded
<1>9. Steps(new) = Steps(rows) + (IF IsRecorded(End(new)) THEN 1 ELSE 0)
  <2>1. CASE IsRecorded(End(new))
    <3>1. Recorded(new) = Recorded(rows) \cup {m}
      BY <1>2, <1>6, <1>7, <1>8, <1>3, <2>1
    <3>2. Cardinality(Recorded(new)) = Cardinality(Recorded(rows)) + 1
      BY <1>5, <1>3, <3>1, FS_AddElement
    <3> QED
      BY <2>1, <3>2 DEF Steps
  <2>2. CASE ~ IsRecorded(End(new))
    <3>1. Recorded(new) = Recorded(rows)
      BY <1>2, <1>6, <1>7, <1>8, <1>3, <2>2
    <3> QED
      BY <1>3, <2>2, <3>1 DEF Steps
  <2> QED
    BY <2>1, <2>2
<1>10. Closed(new)
  <2>1. ASSUME NEW i \in ClearedRows(new), i < m PROVE new[i].sub = NoSub
    <3>1. i \in 1..(m - 1)
      BY <1>0, <2>1 DEF ClearedRows
    <3>2. i \in ClearedRows(rows) /\ new[i] = rows[i]
      BY <1>0, <1>1, <1>2, <2>1, <3>1 DEF ClearedRows
    <3>3. CASE i < n
      BY <1>3, <3>2, <3>3
    <3>4. CASE i = n /\ m = n + 1 /\ n # 0
      BY <1>0, <1>1, <3>2, <3>4 DEF IsOpen, ClearedRows
    <3> QED
      BY <1>2, <3>1, <3>3, <3>4
  <2>2. \A i \in DOMAIN new : new[i].status # "abort"
    BY <1>0, <1>1, <1>2, <1>3
  <2> QED
    BY <1>4, <2>1, <2>2
<1> QED
  BY <1>9, <1>10

\* A recorded row that is replaced stays one, and any other that keeps its outcome.
LEMMA SameEnd ==
  ASSUME NEW rows \in Seq(LogRow), NEW new \in Seq(LogRow), Closed(rows),
         rows # <<>>, Len(new) = Len(rows), End(new).status # "abort",
         End(new).sub = End(rows).sub,
         IsCleared(End(new)) <=> IsCleared(End(rows)),
         \A i \in 1..(Len(new) - 1) : new[i] = rows[i]
  PROVE  Closed(new) /\ Steps(new) = Steps(rows)
<1>1. /\ Len(rows) \in Nat /\ Len(rows) \in 1..Len(rows)
      /\ DOMAIN rows = 1..Len(rows) /\ DOMAIN new = 1..Len(rows)
      /\ \A i \in 1..Len(rows) : i = Len(rows) \/ i \in 1..(Len(rows) - 1)
  BY EndOfLog
<1>2. \A i \in 1..Len(rows) : i \in ClearedRows(new) <=> i \in ClearedRows(rows)
  BY <1>1 DEF ClearedRows, End
<1>3. \A i \in 1..Len(rows) : new[i].sub = rows[i].sub /\ new[i].status # "abort"
                              /\ rows[i].status # "abort"
  BY <1>1 DEF End, Closed
<1>4. Closed(new)
  BY <1>1, <1>2, <1>3 DEF Closed, ClearedRows
<1>5. \A i : i \in Recorded(new) <=> i \in Recorded(rows)
  BY <1>1, <1>2, <1>3 DEF Recorded, ClearedRows
<1>6. Recorded(new) = Recorded(rows)
  BY <1>5
<1> QED
  BY <1>4, <1>6 DEF Steps

\* The row was added to the log, or written over the last one.
IsWritten(new, rows, row, replace) ==
  /\ new \in Seq(LogRow) /\ new # <<>>
  /\ End(new).status = row.status /\ End(new).sub = row.sub
  /\ \A i \in 1..(Len(new) - 1) : new[i] = rows[i]
  /\ \/ Len(new) = Len(rows) + 1 /\ ~ (replace /\ rows # <<>>)
     \/ /\ Len(new) = Len(rows) /\ rows # <<>>
        /\ replace \/ ~ IsCleared(End(rows))

\* How an outcome is written: as a new row, or over the last one.
LEMMA RowWritten ==
  ASSUME NEW rows \in Seq(LogRow), NEW row \in LogRow,
         NEW replace \in BOOLEAN, NEW same \in BOOLEAN
  PROVE  IsWritten(WriteRow(rows, row, replace, same), rows, row, replace)
<1> USE DEF IsWritten
<1>1. CASE rows # <<>> /\ (replace \/ IsRepeat(rows, row, same))
  <2> DEFINE last == Row(End(rows).step, row.status, row.sub)
  <2>1. Len(rows) \in 1..Len(rows) /\ Len(rows) \in Nat /\ End(rows) \in LogRow
    BY <1>1, EndOfLog
  <2>2. last \in LogRow /\ last.status = row.status /\ last.sub = row.sub
    BY <2>1 DEF Row, LogRow
  <2>3. WriteRow(rows, row, replace, same) = [rows EXCEPT ![Len(rows)] = last]
    BY <1>1 DEF WriteRow, End
  <2>4. IsRepeat(rows, row, same) => ~ IsCleared(End(rows))
    BY DEF IsRepeat, IsCleared, End
  <2> HIDE DEF last
  <2>5. /\ Len([rows EXCEPT ![Len(rows)] = last]) = Len(rows)
        /\ [rows EXCEPT ![Len(rows)] = last] \in Seq(LogRow)
        /\ [rows EXCEPT ![Len(rows)] = last][Len(rows)] = last
        /\ \A i \in 1..(Len(rows) - 1) : [rows EXCEPT ![Len(rows)] = last][i] = rows[i]
    BY <2>1, <2>2, ExceptSeq
  <2> QED
    BY <1>1, <2>1, <2>2, <2>3, <2>4, <2>5, EmptySeq DEF End
<1>2. CASE ~ (rows # <<>> /\ (replace \/ IsRepeat(rows, row, same)))
  <2>1. WriteRow(rows, row, replace, same) = Append(rows, row)
    BY <1>2 DEF WriteRow
  <2>2. /\ Append(rows, row) \in Seq(LogRow) /\ Append(rows, row) # <<>>
        /\ Len(Append(rows, row)) = Len(rows) + 1
        /\ Append(rows, row)[Len(rows) + 1] = row
        /\ Len(rows) \in Nat
        /\ \A i \in 1..Len(rows) : Append(rows, row)[i] = rows[i]
    BY AppendProperties
  <2> QED
    BY <1>2, <2>1, <2>2 DEF End
<1> QED
  BY <1>1, <1>2

\* Without a group in progress, recovery counts what is recorded and starts outside
\* of groups, unless it finds the process halted.
LEMMA RecoveredOutside ==
  ASSUME NEW rows \in Seq(LogRow), Closed(rows), ~ IsOpen(rows)
  PROVE  /\ StepCount(rows) = Steps(rows) /\ Steps(rows) \in Nat
         /\ ~ IsHalted(rows) => RecoveredSub(rows) = NoSub
         /\ IsHalted(rows) => /\ RecoveredSub(rows) = End(rows).sub
                              /\ RecoveredStatus(rows) = End(rows).status
<1>1. ASSUME NEW i \in ClearedRows(rows) PROVE rows[i].sub = NoSub
  <2>1. i \in 1..Len(rows) /\ Len(rows) \in Nat /\ rows # <<>> /\ IsCleared(rows[i])
    BY EmptySeq DEF ClearedRows
  <2>2. i < Len(rows) \/ i = Len(rows)
    BY <2>1
  <2>3. CASE i < Len(rows)
    BY <2>3 DEF Closed
  <2>4. CASE i = Len(rows)
    BY <2>1, <2>4 DEF IsOpen, End
  <2> QED
    BY <2>2, <2>3, <2>4
<1>2. Recorded(rows) = ClearedRows(rows)
  BY <1>1 DEF Recorded, Closed, ClearedRows
<1>3. StepCount(rows) = Steps(rows)
  BY <1>2 DEF StepCount, Steps
<1>4. ClearedRows(rows) # {} => rows[LastCleared(rows)].sub = NoSub
  BY <1>1, LastClearedIsLast
<1>5. ~ IsHalted(rows) => RecoveredSub(rows) = NoSub
  BY <1>4 DEF RecoveredSub
<1>6. IsHalted(rows) => /\ RecoveredSub(rows) = End(rows).sub
                        /\ RecoveredStatus(rows) = End(rows).status
  BY DEF RecoveredSub, RecoveredStatus, End
<1> QED
  BY <1>3, <1>5, <1>6, RecordedFinite

\* What is known of the constants, at a step that has to be executed.
LEMMA GroupOf ==
  ASSUME NEW i \in 1..N, Kind[i] = "group"
  PROVE  /\ Len(Subs[i]) \in Nat /\ Len(Subs[i]) # 0
         /\ \A j \in 1..Len(Subs[i]) : /\ Subs[i][j] \in Kinds /\ Subs[i][j] # "done"
                                       /\ Subs[i][j] = "exit" <=> j = Len(Subs[i])
         /\ WorkOf(i) = {<<i, j>> : j \in 1..Len(Subs[i])}
         /\ i < N
<1>1. Subs[i] \in Seq(Kinds) /\ Subs[i] # <<>>
  BY WorkflowAssumption, GroupsAssumption
<1>2. Len(Subs[i]) \in Nat /\ Len(Subs[i]) # 0
  BY <1>1, EmptySeq
<1>3. \A j \in 1..Len(Subs[i]) : Subs[i][j] \in Kinds
  BY <1>1, ElementOfSeq
<1>4. i # N
  BY WorkflowAssumption
<1>5. i < N
  BY <1>4, WorkflowAssumption
<1> QED
  BY <1>2, <1>3, <1>5, WorkflowAssumption, GroupsAssumption DEF WorkOf

\* More may have been executed than is needed.
LEMMA ShapeGrows ==
  ASSUME NEW rows, NEW done, NEW later, Shape(rows, done), done \subseteq later
  PROVE  Shape(rows, later)
<1>1. ASSUME NEW i, NEW n, Through(i, n, done) PROVE Through(i, n, later)
  BY <1>1 DEF Through
<1>2. \A i \in 1..Steps(rows) : WorkOf(i) \subseteq later
  BY DEF Shape
<1> QED
  BY <1>1, <1>2 DEF Shape

\* One more sub step has been executed.
LEMMA OneMore ==
  ASSUME NEW i, NEW n \in Nat, n # 0, NEW done, Through(i, n - 1, done), <<i, n>> \in done
  PROVE  Through(i, n, done)
<1>1. \A j \in 1..n : j = n \/ j \in 1..(n - 1)
  OBVIOUS
<1> QED
  BY <1>1 DEF Through

\* A group all of whose sub steps have been executed.
LEMMA WholeGroup ==
  ASSUME NEW i \in 1..N, Kind[i] = "group", NEW done, Through(i, Len(Subs[i]), done)
  PROVE  WorkOf(i) \subseteq done
BY GroupOf DEF Through

\* One more step is recorded, all of which was executed.
LEMMA OneMoreStep ==
  ASSUME NEW k \in Nat, NEW done, NEW later, done \subseteq later,
         \A i \in 1..k : WorkOf(i) \subseteq done, WorkOf(k + 1) \subseteq later
  PROVE  \A i \in 1..(k + 1) : WorkOf(i) \subseteq later
<1>1. \A i \in 1..(k + 1) : i = k + 1 \/ i \in 1..k
  OBVIOUS
<1> HIDE DEF WorkOf
<1>2. ASSUME NEW i \in 1..(k + 1) PROVE WorkOf(i) \subseteq later
  BY <1>1, <1>2
<1> QED
  BY <1>2

-----------------------------------------------------------------------------
(* The steps of AtLeastOnce *)

\* The rows that the refinement counts are those that are recorded.
LEMMA RecordedOfLog == RecordedRows = Recorded(log)
BY DEF RecordedRows, Recorded

\* A step that neither executes nor records anything new.
LEMMA PromiseStays ==
  ASSUME ran' = ran, Steps(log') = Steps(log), Outcome' = Outcome
  PROVE  [Promise!Next]_(Promise!vars)
BY RecordedOfLog DEF Promise!vars, Steps, RecordedRows, Recorded, ClearedRows

\* A part of the step at hand is executed.
LEMMA PromiseTries ==
  ASSUME Steps(log) < N, NEW w \in WorkOf(Steps(log) + 1),
         \A v \in WorkOf(w[1]) : v[2] < w[2] => v \in ran,
         ran' = ran \cup {w}, Steps(log') = Steps(log),
         Outcome = "open", Outcome' = "open"
  PROVE  [Promise!Next]_(Promise!vars)
<1>1. Cardinality(RecordedRows) = Steps(log) /\ Cardinality(RecordedRows)' = Steps(log')
  BY DEF Steps, RecordedRows, Recorded, ClearedRows
<1>2. Promise!Execute(w)
  BY DEF Promise!Execute, Promise!Before
<1>3. Promise!Try
  BY <1>1, <1>2 DEF Promise!Try
<1> QED
  BY <1>3 DEF Promise!Next

\* The step at hand is recorded.
LEMMA PromiseRecords ==
  ASSUME Steps(log) < N, NEW w \in WorkOf(Steps(log) + 1),
         \A v \in WorkOf(w[1]) : v[2] < w[2] => v \in ran,
         ran' = ran \cup {w}, WorkOf(Steps(log) + 1) \subseteq ran',
         Steps(log') = Steps(log) + 1, Outcome = "open",
         Outcome' = IF Steps(log') = N THEN "completed" ELSE "open"
  PROVE  [Promise!Next]_(Promise!vars)
<1>1. Cardinality(RecordedRows) = Steps(log) /\ Cardinality(RecordedRows)' = Steps(log')
  BY DEF Steps, RecordedRows, Recorded, ClearedRows
<1>2. Promise!Execute(w)
  BY DEF Promise!Execute, Promise!Before
<1>3. Promise!Record
  BY <1>1, <1>2 DEF Promise!Record
<1> QED
  BY <1>3 DEF Promise!Next

-----------------------------------------------------------------------------
\* What is known of the state.
LEMMA OfRun ==
  ASSUME Typing
  PROVE  /\ log \in Seq(LogRow) /\ Steps(log) \in Nat /\ todo \in 1..(N + 1)
         /\ N \in Nat /\ N # 0 /\ Kind[N] = "done"
         /\ pc \in {"step", "write", "group", "substep", "subwrite"} => todo \in 1..N
         /\ st \in StepStatus /\ sub \in Position /\ pend \in StepStatus
         /\ repl \in BOOLEAN /\ idx \in Nat /\ had \in BOOLEAN
BY RecordedFinite, WorkflowAssumption DEF Typing, TypeOK, PlacesOK

\* An outcome is written as a new row, or over one that is not recorded.
LEMMA RowCounts ==
  ASSUME NEW rows \in Seq(LogRow), NEW row \in LogRow, Closed(rows),
         NEW replace \in BOOLEAN, NEW same \in BOOLEAN, row.status # "abort",
         replace /\ rows # <<>> => ~ IsRecorded(End(rows)),
         ~ replace => ~ IsOpen(rows)
  PROVE  \A new : new = WriteRow(rows, row, replace, same) =>
           /\ new \in Seq(LogRow) /\ new # <<>>
           /\ End(new).status = row.status /\ End(new).sub = row.sub
           /\ Closed(new)
           /\ Steps(new) = Steps(rows) + (IF IsRecorded(row) THEN 1 ELSE 0)
<1> SUFFICES ASSUME NEW new, new = WriteRow(rows, row, replace, same)
             PROVE  /\ new \in Seq(LogRow) /\ new # <<>>
                    /\ End(new).status = row.status /\ End(new).sub = row.sub
                    /\ Closed(new)
                    /\ Steps(new) = Steps(rows) + (IF IsRecorded(row) THEN 1 ELSE 0)
  OBVIOUS
<1>1. /\ new \in Seq(LogRow) /\ new # <<>>
      /\ End(new).status = row.status /\ End(new).sub = row.sub
      /\ \A i \in 1..(Len(new) - 1) : new[i] = rows[i]
      /\ \/ Len(new) = Len(rows) + 1 /\ ~ (replace /\ rows # <<>>)
         \/ /\ Len(new) = Len(rows) /\ rows # <<>>
            /\ replace \/ ~ IsCleared(End(rows))
  <2>1. IsWritten(new, rows, row, replace)
    BY RowWritten
  <2> QED
    BY <2>1 DEF IsWritten
<1>2. Len(rows) \in Nat
  OBVIOUS
<1>3. Len(new) = Len(rows) + 1 => ~ IsOpen(rows)
  <2> SUFFICES ASSUME Len(new) = Len(rows) + 1 PROVE ~ IsOpen(rows)
    OBVIOUS
  <2>1. ~ (replace /\ rows # <<>>)
    BY <1>1, <1>2
  <2> QED
    BY <2>1 DEF IsOpen
<1>4. Len(new) = Len(rows) => ~ IsRecorded(End(rows))
  <2> SUFFICES ASSUME Len(new) = Len(rows) PROVE ~ IsRecorded(End(rows))
    OBVIOUS
  <2>1. rows # <<>> /\ (replace \/ ~ IsCleared(End(rows)))
    BY <1>1, <1>2
  <2> QED
    BY <2>1 DEF IsRecorded
<1>5. /\ Closed(new)
      /\ Steps(new) = Steps(rows) + (IF IsRecorded(End(new)) THEN 1 ELSE 0)
  BY <1>1, <1>3, <1>4, NewEnd
<1>6. IsRecorded(End(new)) <=> IsRecorded(row)
  BY <1>1 DEF IsRecorded, IsCleared
<1> QED
  BY <1>1, <1>5, <1>6

\* A row that is written over the last one and says the same of the step.
LEMMA RowRepeats ==
  ASSUME NEW rows \in Seq(LogRow), NEW row \in LogRow, Closed(rows), rows # <<>>,
         NEW same \in BOOLEAN, row.status # "abort",
         row.sub = End(rows).sub, IsCleared(row) <=> IsCleared(End(rows))
  PROVE  \A new : new = WriteRow(rows, row, TRUE, same) =>
           /\ new \in Seq(LogRow) /\ new # <<>>
           /\ End(new).status = row.status /\ End(new).sub = row.sub
           /\ Closed(new) /\ Steps(new) = Steps(rows)
<1> SUFFICES ASSUME NEW new, new = WriteRow(rows, row, TRUE, same)
             PROVE  /\ new \in Seq(LogRow) /\ new # <<>>
                    /\ End(new).status = row.status /\ End(new).sub = row.sub
                    /\ Closed(new) /\ Steps(new) = Steps(rows)
  OBVIOUS
<1>1. /\ new \in Seq(LogRow) /\ new # <<>>
      /\ End(new).status = row.status /\ End(new).sub = row.sub
      /\ \A i \in 1..(Len(new) - 1) : new[i] = rows[i]
      /\ Len(new) = Len(rows)
  <2>1. IsWritten(new, rows, row, TRUE)
    BY RowWritten
  <2> QED
    BY <2>1 DEF IsWritten
<1>2. IsCleared(End(new)) <=> IsCleared(End(rows))
  BY <1>1 DEF IsCleared
<1> QED
  BY <1>1, <1>2, SameEnd

\* A step that leaves the log alone.
LEMMA GroupQuiet ==
  ASSUME Typing, Groupwise, ~ WasAborted, UNCHANGED <<log, ran, lock>>,
         \/ lastStatus' = lastStatus
         \/ /\ lastStatus # "completed" /\ ~ IsOpen(log)
            /\ lastStatus' \in {"running", "resumed"},
         Located'
  PROVE  Groupwise' /\ [Promise!Next]_(Promise!vars)
<1>1. ~ WasAborted' /\ Shape(log', ran') /\ ~ lock'
  BY DEF WasAborted, Groupwise
<1>2. Labelled(log', lastStatus')
  BY DEF Labelled, Groupwise
<1>3. Groupwise'
  BY <1>1, <1>2 DEF Groupwise
<1>4. Outcome' = Outcome
  BY DEF Outcome, Groupwise, Labelled
<1>5. [Promise!Next]_(Promise!vars)
  BY <1>4, PromiseStays
<1> QED
  BY <1>3, <1>5

\* Where the executor goes on when nothing is written.
LEMMA GroupMoves ==
  ASSUME Typing, Groupwise,
         Begin \/ ResumeOther \/ Check \/ EnterGroup \/ CheckSub \/ LeaveGroup \/ Crash
  PROVE  Groupwise' /\ [Promise!Next]_(Promise!vars)
<1>1. ~ WasAborted
  BY DEF Groupwise, Begin, ResumeOther, Check, EnterGroup, CheckSub, LeaveGroup, Crash
<1>2. Shape(log, ran) /\ Labelled(log, lastStatus) /\ Located /\ ~ lock
  BY <1>1 DEF Groupwise
<1>3. CASE Begin
  <2>1. ~ IsOpen(log) /\ lastStatus # "completed"
    BY <1>2, <1>3 DEF Begin, Labelled
  <2>2. Located'
    BY <1>3, <2>1 DEF Begin, Located
  <2> QED
    BY <1>1, <1>3, <2>1, <2>2, GroupQuiet DEF Begin
<1>4. CASE ResumeOther
  <2>1. /\ pc = "loaded" /\ st \notin {"suspend", "awaiting_callback"}
        /\ UNCHANGED <<log, lastStatus, lock, todo, sub, ran>>
        /\ st' = ResumeStatus(st) /\ pc' = LoopHead(ResumeStatus(st), todo)
    BY <1>4 DEF ResumeOther
  <2>2. /\ lastStatus = "running" /\ ~ IsOpen(log) /\ todo = RestFrom(log, N)
        /\ st = RecoveredStatus(log) /\ sub = RecoveredSub(log)
    BY <1>2, <2>1 DEF Located
  <2>3. sub = NoSub /\ StepCount(log) = Steps(log)
    <3>1. Closed(log) /\ log \in Seq(LogRow)
      BY <1>2, OfRun DEF Shape
    <3>2. ~ IsHalted(log)
      BY <2>1, <2>2, <3>1, RecoveredOutside DEF IsHalted, End
    <3> QED
      BY <2>2, <3>1, <3>2, RecoveredOutside
  <2>4. pc' = "step" => todo = Steps(log) + 1 /\ Continues(st')
    <3> SUFFICES ASSUME pc' = "step" PROVE todo = Steps(log) + 1 /\ Continues(st')
      OBVIOUS
    <3>1. todo <= N /\ Continues(st')
      BY <2>1 DEF LoopHead
    <3> QED
      BY <2>2, <2>3, <3>1, RestInside, OfRun
  <2>5. pc' \in {"step", "idle"}
    BY <2>1 DEF LoopHead
  <2>6. Located'
    BY <2>1, <2>2, <2>3, <2>4, <2>5 DEF Located, AtStep
  <2> QED
    BY <1>1, <2>1, <2>6, GroupQuiet
<1>5. CASE Check
  <2>1. /\ pc = "loop" /\ pc' = LoopHead(st, todo)
        /\ UNCHANGED <<log, lastStatus, lock, todo, st, sub, ran>>
    BY <1>5 DEF Check, database, memory
  <2>2. Located'
    BY <1>2, <2>1 DEF Located, AtStep, LoopHead
  <2> QED
    BY <1>1, <2>1, <2>2, GroupQuiet
<1>6. CASE EnterGroup
  <2>1. /\ pc = "step" /\ Kind[todo] = "group" /\ st' = "success"
        /\ had' = (sub # NoSub) /\ idx' = FirstSub(todo, sub) /\ pc' = "group"
        /\ UNCHANGED <<log, lastStatus, lock, todo, sub, ran>>
    BY <1>6 DEF EnterGroup, database
  <2>2. /\ todo \in 1..N /\ lastStatus = "running" /\ todo = Steps(log) + 1
        /\ sub = IF IsOpen(log) THEN End(log).sub ELSE NoSub
    BY <1>2, <2>1, OfRun DEF Located, AtStep
  <2>3. todo < N /\ Len(Subs[todo]) \in Nat /\ Len(Subs[todo]) # 0
    BY <2>1, <2>2, GroupOf
  <2>4. /\ idx' \in 1..Len(Subs[todo]) /\ Through(todo, idx' - 1, ran)
        /\ IF idx' = 1 THEN sub = NoSub /\ ~ IsOpen(log) ELSE IsOpen(log)
    <3>1. CASE IsOpen(log)
      <4>1. sub # NoSub /\ InGroup(sub, todo) /\ Through(todo, sub[2], ran)
        BY <1>2, <2>2, <3>1 DEF Shape, IsOpen
      <4>2. idx' = sub[2] + 1 /\ sub[2] \in 1..(Len(Subs[todo]) - 1)
        BY <2>1, <4>1 DEF FirstSub, InGroup
      <4>3. /\ idx' \in 1..Len(Subs[todo]) /\ idx' - 1 = sub[2] /\ idx' # 1
        BY <2>3, <4>2
      <4> QED
        BY <3>1, <4>1, <4>3
    <3>2. CASE ~ IsOpen(log)
      <4>1. sub = NoSub /\ idx' = 1
        BY <2>1, <2>2, <3>2 DEF FirstSub
      <4>2. 1 \in 1..Len(Subs[todo]) /\ 1..(idx' - 1) = {}
        BY <2>3, <4>1
      <4> QED
        BY <3>2, <4>1, <4>2 DEF Through
    <3> QED
      BY <3>1, <3>2
  <2>5. AtSubStep'
    BY <2>1, <2>2, <2>3, <2>4 DEF AtSubStep, Continues
  <2>6. Located'
    BY <2>1, <2>5 DEF Located
  <2> QED
    BY <1>1, <2>1, <2>6, GroupQuiet
<1>7. CASE CheckSub
  <2>1. /\ pc = "group" /\ pc' = "substep" /\ Continues(st) /\ idx <= Len(Subs[todo])
        /\ UNCHANGED <<log, lastStatus, lock, todo, st, sub, idx, had, ran>>
    BY <1>7 DEF CheckSub, database, memory
  <2>2. AtSubStep
    <3>1. todo \in 1..N
      BY <2>1, OfRun
    <3>2. Kind[todo] = "group"
      BY <1>2, <2>1 DEF Located, AtSubStep, AtExit
    <3>3. ~ (idx > Len(Subs[todo]))
      BY <2>1, <3>1, <3>2, GroupOf, OfRun
    <3> QED
      BY <1>2, <2>1, <3>3 DEF Located
  <2>3. Located'
    BY <2>1, <2>2 DEF Located, AtSubStep
  <2> QED
    BY <1>1, <2>1, <2>3, GroupQuiet
<1>8. CASE LeaveGroup
  <2>1. /\ pc = "group" /\ pc' = "write" /\ pend' = st /\ repl' = TRUE
        /\ ~ (Continues(st) /\ idx <= Len(Subs[todo]))
        /\ UNCHANGED <<log, lastStatus, lock, todo, st, sub, idx, had, ran>>
    BY <1>2, <1>8 DEF LeaveGroup, database
  <2>2. AtExit(st)
    <3>1. ~ AtSubStep
      <4> SUFFICES ASSUME AtSubStep PROVE FALSE
        OBVIOUS
      <4>1. idx <= Len(Subs[todo])
        <5>1. todo \in 1..N
          BY <2>1, OfRun
        <5> QED
          BY <5>1, GroupOf DEF AtSubStep
      <4> QED
        BY <2>1, <4>1 DEF AtSubStep
    <3> QED
      BY <1>2, <2>1, <3>1 DEF Located
  <2>3. AtExit(pend)'
    BY <2>1, <2>2 DEF AtExit
  <2>4. Located'
    BY <2>1, <2>3 DEF Located
  <2> QED
    BY <1>1, <2>1, <2>4, GroupQuiet
<1>9. CASE Crash
  BY <1>1, <1>9, GroupQuiet DEF Crash, database, Located
<1> QED
  BY <1>3, <1>4, <1>5, <1>6, <1>7, <1>8, <1>9

\* A step or a sub step is run, and its outcome is not written yet.
LEMMA GroupExecutes ==
  ASSUME Typing, Groupwise, ~ WasAborted, UNCHANGED <<log, lock, lastStatus>>,
         lastStatus = "running", todo \in 1..N, todo = Steps(log) + 1,
         NEW w \in WorkOf(todo), \A v \in WorkOf(w[1]) : v[2] < w[2] => v \in ran,
         NEW outcome, ran' = ran \cup Executed(outcome, w), Located'
  PROVE  Groupwise' /\ [Promise!Next]_(Promise!vars)
<1>1. Executed(outcome, w) = {} \/ Executed(outcome, w) = {w}
  BY DEF Executed
<1>2. /\ Shape(log, ran) /\ Labelled(log, lastStatus) /\ ~ lock'
      /\ ~ WasAborted' /\ ran \subseteq ran'
  BY DEF Groupwise, WasAborted
<1>3. Shape(log, ran')
  BY <1>2, ShapeGrows
<1>4. Groupwise'
  BY <1>2, <1>3 DEF Groupwise
<1>5. Outcome = "open" /\ Outcome' = "open" /\ Steps(log') = Steps(log)
  BY DEF Outcome
<1>6. Steps(log) < N
  BY OfRun
<1>7. CASE ran' = ran
  BY <1>4, <1>5, <1>7, PromiseStays
<1>8. CASE ran' = ran \cup {w}
  BY <1>4, <1>5, <1>6, <1>8, PromiseTries
<1> QED
  BY <1>1, <1>7, <1>8

\* A step outside of groups is executed.
LEMMA GroupRun ==
  ASSUME Typing, Groupwise, RunStep
  PROVE  Groupwise' /\ [Promise!Next]_(Promise!vars)
<1>1. PICK outcome \in Outcomes[Kind[todo]] :
        /\ pend' = outcome
        /\ sub' = Carries(outcome, sub)
        /\ ran' = ran \cup Executed(outcome, <<todo, 0>>)
  BY DEF RunStep
<1>2. /\ pc = "step" /\ Kind[todo] # "group" /\ repl' = FALSE /\ pc' = "write"
      /\ UNCHANGED <<log, lastStatus, lock, todo, st, idx, had>>
  BY DEF RunStep, database
<1>3. ~ WasAborted /\ AtStep /\ Shape(log, ran) /\ todo \in 1..N
  BY <1>2, OfRun DEF Groupwise, Located
<1>4. ~ IsOpen(log)
  BY <1>2, <1>3 DEF Shape, InGroup, AtStep
<1>5. WorkOf(todo) = {<<todo, 0>>}
  BY <1>2 DEF WorkOf
<1>6. AtStep'
  BY <1>1, <1>2, <1>3, <1>4 DEF AtStep, Carries
<1>7. Located'
  <2>1. outcome \in Effective => <<todo, 0>> \in ran'
    BY <1>1 DEF Executed, Effective
  <2> QED
    BY <1>1, <1>2, <1>4, <1>6, <2>1 DEF Located
<1>8. \A v \in WorkOf(<<todo, 0>>[1]) : v[2] < <<todo, 0>>[2] => v \in ran
  BY <1>3, <1>5
<1> QED
  BY <1>1, <1>2, <1>3, <1>5, <1>7, <1>8, GroupExecutes DEF AtStep

\* A sub step is executed.
LEMMA GroupRunSub ==
  ASSUME Typing, Groupwise, RunSub
  PROVE  Groupwise' /\ [Promise!Next]_(Promise!vars)
<1>1. PICK outcome \in Outcomes[Subs[todo][idx]] :
        /\ pend' = outcome
        /\ ran' = ran \cup Executed(outcome, <<todo, idx>>)
  BY DEF RunSub
<1>2. /\ pc = "substep" /\ pc' = "subwrite"
      /\ UNCHANGED <<log, lastStatus, lock, todo, st, sub, repl, idx, had>>
  BY DEF RunSub, database
<1>3. ~ WasAborted /\ AtSubStep /\ todo \in 1..N /\ idx \in Nat
  BY <1>2, OfRun DEF Groupwise, Located
<1>4. WorkOf(todo) = {<<todo, j>> : j \in 1..Len(Subs[todo])}
  BY <1>3, GroupOf DEF AtSubStep
<1>5. ran \subseteq ran'
  BY <1>1
<1>6. AtSubStep'
  BY <1>2, <1>3, <1>5 DEF AtSubStep, Through
<1>7. Located'
  <2>1. outcome \in Effective => <<todo, idx>> \in ran'
    BY <1>1 DEF Executed, Effective
  <2> QED
    BY <1>1, <1>2, <1>6, <2>1 DEF Located
<1>8. ASSUME NEW v \in WorkOf(todo), v[2] < idx PROVE v \in ran
  <2>1. PICK j \in 1..Len(Subs[todo]) : v = <<todo, j>>
    BY <1>4, <1>8
  <2>2. j \in 1..(idx - 1)
    <3>1. Len(Subs[todo]) \in Nat
      BY <1>3, GroupOf DEF AtSubStep
    <3> QED
      BY <1>3, <1>8, <2>1, <3>1
  <2> QED
    BY <1>3, <2>1, <2>2 DEF AtSubStep, Through
<1>9. <<todo, idx>> \in WorkOf(todo)
  BY <1>3, <1>4 DEF AtSubStep
<1> QED
  BY <1>1, <1>2, <1>3, <1>7, <1>8, <1>9, GroupExecutes DEF AtSubStep

\* The outcome of a step outside of groups is written.
LEMMA GroupWriteStep ==
  ASSUME Typing, Groupwise, WriteStep, repl = FALSE
  PROVE  Groupwise' /\ [Promise!Next]_(Promise!vars)
<1> DEFINE row == Row(<<todo, 0>>, pend, sub)
<1>1. PICK same \in BOOLEAN : log' = WriteRow(log, row, FALSE, same)
  BY DEF WriteStep
<1>2. /\ pc = "write" /\ lastStatus' \in StoredStatuses(pend, IsTask) /\ st' = pend
      /\ todo' = todo + 1 /\ pc' = "loop" /\ UNCHANGED <<lock, sub, ran>>
  BY DEF WriteStep
<1>3. /\ ~ WasAborted /\ Shape(log, ran) /\ Labelled(log, lastStatus) /\ ~ lock
      /\ AtStep /\ ~ IsOpen(log) /\ Kind[todo] # "group" /\ pend \in Outcomes[Kind[todo]]
      /\ pend \in Effective => <<todo, 0>> \in ran
  BY <1>2 DEF Groupwise, Located
<1>4. /\ todo \in 1..N /\ todo = Steps(log) + 1 /\ sub = NoSub /\ lastStatus = "running"
      /\ Steps(log) \in Nat /\ log \in Seq(LogRow) /\ Steps(log) < N
  BY <1>2, <1>3, OfRun DEF AtStep
<1>5. /\ Kind[todo] \in Kinds /\ (Kind[todo] = "done" <=> todo = N)
  BY <1>3, <1>4, WorkflowAssumption
<1>6. /\ pend \in StepStatus /\ pend # "abort" /\ (pend = "complete" <=> todo = N)
  BY <1>3, <1>5, StepOutcomes
<1>7. /\ row \in LogRow /\ row.status = pend /\ row.sub = NoSub
      /\ IsRecorded(row) <=> pend \in Effective
  <2>1. row \in LogRow
    BY <1>4, <1>6, NoSubType, RowType
  <2>2. row.status = pend /\ row.sub = NoSub
    BY <1>4 DEF Row
  <2> QED
    BY <1>6, <2>1, <2>2 DEF IsRecorded, IsCleared, Effective, StepStatus
<1> HIDE DEF row
<1>8. /\ log' \in Seq(LogRow) /\ log' # <<>>
      /\ End(log').status = pend /\ End(log').sub = NoSub
      /\ Closed(log')
      /\ Steps(log') = Steps(log) + (IF IsRecorded(row) THEN 1 ELSE 0)
  <2>1. PICK replace \in BOOLEAN : replace = FALSE
    OBVIOUS
  <2>2. /\ log' = WriteRow(log, row, replace, same) /\ Closed(log)
        /\ replace /\ log # <<>> => ~ IsRecorded(End(log))
        /\ row.status # "abort" /\ ~ IsOpen(log)
    BY <1>1, <1>3, <1>6, <1>7, <2>1 DEF Shape
  <2> QED
    BY <1>4, <1>7, <2>2, RowCounts
<1>9. ~ WasAborted' /\ ~ IsOpen(log')
  BY <1>8 DEF Closed, WasAborted, IsOpen
<1>10. IsHalted(log') => pend \in {"suspend", "awaiting_callback"}
  BY <1>8 DEF IsHalted, End
<1>11. /\ lastStatus' # "aborted" /\ (lastStatus' = "completed" <=> pend = "complete")
       /\ Continues(pend) => lastStatus' = "running"
  BY <1>2, <1>6, StatusStored
<1>12. CASE pend \in Effective
  <2>1. Steps(log') = Steps(log) + 1 /\ ~ IsHalted(log')
    BY <1>7, <1>8, <1>10, <1>12 DEF Effective
  <2>2. WorkOf(todo) = {<<todo, 0>>}
    BY <1>3 DEF WorkOf
  <2>3. \A i \in 1..Steps(log') : WorkOf(i) \subseteq ran'
    <3>1. \A i \in 1..(Steps(log) + 1) : WorkOf(i) \subseteq ran
      <4>1. \A i \in 1..Steps(log) : WorkOf(i) \subseteq ran
        BY <1>3 DEF Shape
      <4>2. WorkOf(Steps(log) + 1) \subseteq ran
        BY <1>3, <1>4, <1>12, <2>2
      <4> QED
        BY <1>4, <4>1, <4>2, OneMoreStep
    <3> QED
      BY <1>2, <2>1, <3>1
  <2>4. Shape(log', ran')
    BY <1>4, <1>8, <1>9, <2>1, <2>3, OfRun DEF Shape
  <2>5. Labelled(log', lastStatus')
    <3>1. pend = "complete" => RecoveredStatus(log') = "complete"
      <4>1. pend = "complete" => IsCleared(End(log'))
        BY <1>8 DEF IsCleared
      <4> QED
        BY <1>8, <4>1, RecoverLast DEF End
    <3> QED
      BY <1>4, <1>6, <1>9, <1>11, <2>1, <3>1 DEF Labelled
  <2>6. Located'
    BY <1>2, <1>4, <1>9, <1>11, <2>1 DEF Located, AtStep
  <2>7. Groupwise'
    BY <1>2, <1>3, <1>9, <2>4, <2>5, <2>6 DEF Groupwise
  <2>8. [Promise!Next]_(Promise!vars)
    <3>1. Outcome = "open"
      BY <1>4 DEF Outcome
    <3>2. Outcome' = IF Steps(log') = N THEN "completed" ELSE "open"
      BY <1>4, <1>6, <1>11, <2>1 DEF Outcome
    <3>3. \A v \in WorkOf(<<todo, 0>>[1]) : v[2] < <<todo, 0>>[2] => v \in ran
      BY <1>4, <2>2
    <3>4. ran' = ran \cup {<<todo, 0>>} /\ WorkOf(todo) \subseteq ran'
      BY <1>2, <1>3, <1>12, <2>2
    <3> QED
      BY <1>4, <2>1, <2>2, <3>1, <3>2, <3>3, <3>4, PromiseRecords
  <2> QED
    BY <2>7, <2>8
<1>13. CASE pend \notin Effective
  <2>1. Steps(log') = Steps(log)
    BY <1>4, <1>7, <1>8, <1>13
  <2>2. pend # "complete" /\ todo # N
    BY <1>6, <1>13 DEF Effective
  <2>3. Shape(log', ran')
    BY <1>2, <1>3, <1>4, <1>8, <1>9, <2>1, <2>2, OfRun DEF Shape
  <2>4. Labelled(log', lastStatus')
    BY <1>9, <1>11, <2>2 DEF Labelled
  <2>5. Located'
    BY <1>2, <1>13 DEF Located, Continues, Effective
  <2>6. Groupwise'
    BY <1>2, <1>3, <1>9, <2>3, <2>4, <2>5 DEF Groupwise
  <2>7. Outcome' = Outcome
    BY <1>4, <1>11, <2>2 DEF Outcome
  <2> QED
    BY <1>2, <2>1, <2>6, <2>7, PromiseStays
<1> QED
  BY <1>12, <1>13

\* The row of a group is written again when the group returns.
LEMMA GroupCloses ==
  ASSUME Typing, Groupwise, WriteStep, repl
  PROVE  Groupwise' /\ [Promise!Next]_(Promise!vars)
<1> DEFINE row == Row(<<todo, 0>>, pend, sub)
<1>1. PICK same \in BOOLEAN : log' = WriteRow(log, row, repl, same)
  BY DEF WriteStep
<1>2. /\ pc = "write" /\ lastStatus' \in StoredStatuses(pend, IsTask) /\ st' = pend
      /\ todo' = todo + 1 /\ pc' = "loop" /\ UNCHANGED <<lock, sub, ran>>
  BY DEF WriteStep
<1>3. /\ ~ WasAborted /\ Shape(log, ran) /\ Labelled(log, lastStatus) /\ ~ lock
      /\ AtExit(pend)
  BY <1>2 DEF Groupwise, Located
<1>4. /\ log # <<>> /\ End(log).sub = sub /\ pend \notin {"abort", "complete"}
      /\ lastStatus # "completed"
      /\ IsCleared(End(log)) <=> Continues(pend)
  BY <1>3 DEF AtExit, Continues, IsCleared
<1>5. /\ row \in LogRow /\ row.status = pend /\ row.sub = sub
      /\ IsCleared(row) <=> Continues(pend)
  <2>1. row \in LogRow
    BY <1>2, OfRun, RowType
  <2>2. row.status = pend /\ row.sub = sub
    BY DEF Row
  <2> QED
    BY <1>4, <2>1, <2>2, OfRun DEF IsCleared, Continues, StepStatus
<1> HIDE DEF row
<1>6. /\ log' \in Seq(LogRow) /\ log' # <<>>
      /\ End(log').status = pend /\ End(log').sub = sub
      /\ Closed(log') /\ Steps(log') = Steps(log)
  <2>1. repl = TRUE
    BY OfRun
  <2>2. /\ log \in Seq(LogRow) /\ Closed(log)
        /\ row.status # "abort" /\ row.sub = End(log).sub
        /\ IsCleared(row) <=> IsCleared(End(log))
    BY <1>3, <1>4, <1>5, OfRun DEF Shape
  <2>3. log' = WriteRow(log, row, TRUE, same)
    BY <1>1, <2>1
  <2>4. \A new : new = WriteRow(log, row, TRUE, same) =>
          /\ new \in Seq(LogRow) /\ new # <<>>
          /\ End(new).status = row.status /\ End(new).sub = row.sub
          /\ Closed(new) /\ Steps(new) = Steps(log)
    BY <1>4, <1>5, <2>2, RowRepeats
  <2> QED
    BY <1>5, <2>3, <2>4
<1>7. /\ lastStatus' \notin {"aborted", "completed"}
      /\ Continues(pend) => lastStatus' = "running"
  BY <1>2, <1>4, StatusStored, OfRun
<1>8. ~ WasAborted' /\ ~ IsOpen(log')
  BY <1>3, <1>4, <1>6 DEF Closed, WasAborted, IsOpen, AtExit, IsCleared, Continues
<1>9. Shape(log', ran')
  <2>1. IsHalted(log') => IsHalted(log) /\ End(log).sub = End(log').sub
    BY <1>3, <1>4, <1>6 DEF IsHalted, End, AtExit, Continues
  <2> QED
    BY <1>2, <1>3, <1>6, <1>8, <2>1 DEF Shape
<1>10. Labelled(log', lastStatus')
  BY <1>7, <1>8 DEF Labelled
<1>11. Located'
  <2>1. Continues(pend) => AtStep'
    BY <1>2, <1>3, <1>6, <1>7, <1>8 DEF AtStep, AtExit
  <2> QED
    BY <1>2, <2>1 DEF Located
<1>12. Groupwise'
  BY <1>2, <1>3, <1>8, <1>9, <1>10, <1>11 DEF Groupwise
<1>13. Outcome' = Outcome
  <2>1. lastStatus # "aborted"
    BY <1>3 DEF Labelled
  <2> QED
    BY <1>4, <1>7, <2>1 DEF Outcome
<1> QED
  BY <1>2, <1>6, <1>12, <1>13, PromiseStays

\* The outcome of a sub step is written, over that of the one before it.
LEMMA GroupWriteSub ==
  ASSUME Typing, Groupwise, WriteSub
  PROVE  Groupwise' /\ [Promise!Next]_(Promise!vars)
<1> DEFINE row == Row(<<todo, 0>>, pend, sub')
           replace == had \/ idx # 1
<1>1. PICK same \in BOOLEAN : log' = WriteRow(log, row, replace, same)
  BY DEF WriteSub
<1>2. /\ pc = "subwrite" /\ lastStatus' \in StoredStatuses(pend, IsTask) /\ st' = pend
      /\ idx' = idx + 1 /\ pc' = "group" /\ UNCHANGED <<lock, todo, had, ran>>
      /\ sub' = IF Subs[todo][idx] = "exit" THEN NoSub ELSE <<todo, idx>>
  BY DEF WriteSub
<1>3. /\ ~ WasAborted /\ Shape(log, ran) /\ Labelled(log, lastStatus) /\ ~ lock
      /\ AtSubStep /\ pend \in Outcomes[Subs[todo][idx]]
      /\ pend \in Effective => <<todo, idx>> \in ran
  BY <1>2 DEF Groupwise, Located
<1>4. /\ todo \in 1..N /\ todo = Steps(log) + 1 /\ todo < N /\ Kind[todo] = "group"
      /\ lastStatus = "running" /\ Steps(log) \in Nat /\ log \in Seq(LogRow)
      /\ idx \in 1..Len(Subs[todo]) /\ Through(todo, idx - 1, ran)
      /\ Steps(log) < N
  BY <1>2, <1>3, OfRun DEF AtSubStep
<1>5. /\ Len(Subs[todo]) \in Nat /\ Subs[todo][idx] \in Kinds /\ Subs[todo][idx] # "done"
      /\ Subs[todo][idx] = "exit" <=> idx = Len(Subs[todo])
      /\ WorkOf(todo) = {<<todo, j>> : j \in 1..Len(Subs[todo])}
  BY <1>4, GroupOf
<1>6. /\ pend \in StepStatus /\ pend \notin {"abort", "complete"}
      /\ Subs[todo][idx] = "exit" => pend = "success"
  BY <1>3, <1>5, StepOutcomes
<1>7. /\ row \in LogRow /\ row.status = pend /\ row.sub = sub'
      /\ IsCleared(row) <=> Continues(pend)
  <2>1. sub' \in Position /\ idx \in Nat
    BY <1>2, <1>4, OfRun, NoSubType DEF Position
  <2>2. row \in LogRow
    BY <1>4, <1>6, <2>1, RowType
  <2>3. row.status = pend /\ row.sub = sub'
    BY DEF Row
  <2> QED
    BY <1>6, <2>2, <2>3 DEF IsCleared, Continues, StepStatus
<1>8. /\ replace \in BOOLEAN
      /\ replace /\ log # <<>> => ~ IsRecorded(End(log))
      /\ ~ replace => ~ IsOpen(log)
  BY <1>3 DEF AtSubStep, IsOpen, IsRecorded
<1> HIDE DEF row, replace
<1>9. /\ log' \in Seq(LogRow) /\ log' # <<>>
      /\ End(log').status = pend /\ End(log').sub = sub'
      /\ Closed(log')
      /\ Steps(log') = Steps(log) + (IF IsRecorded(row) THEN 1 ELSE 0)
  BY <1>1, <1>3, <1>4, <1>6, <1>7, <1>8, RowCounts DEF Shape
<1>10. ~ WasAborted'
  BY <1>9 DEF Closed, WasAborted
<1>11. /\ lastStatus' \notin {"aborted", "completed"}
       /\ Continues(pend) => lastStatus' = "running"
  BY <1>2, <1>6, StatusStored
<1>12. Outcome = "open" /\ Outcome' = "open"
  BY <1>4, <1>11 DEF Outcome
<1>13. Continues(pend) => Through(todo, idx, ran)
  <2> SUFFICES ASSUME Continues(pend) PROVE Through(todo, idx, ran)
    OBVIOUS
  <2>1. <<todo, idx>> \in ran
    BY <1>3 DEF Continues, Effective
  <2> QED
    BY <1>4, <2>1, OneMore
<1>14. CASE Subs[todo][idx] = "exit"
  <2>1. /\ sub' = NoSub /\ pend = "success" /\ Continues(pend) /\ idx = Len(Subs[todo])
        /\ Steps(log') = Steps(log) + 1 /\ ~ IsOpen(log') /\ ~ IsHalted(log')
    BY <1>2, <1>4, <1>5, <1>6, <1>7, <1>9, <1>14
       DEF Continues, IsRecorded, IsOpen, IsHalted, End
  <2>2. WorkOf(todo) \subseteq ran
    BY <1>4, <1>13, <2>1, WholeGroup
  <2>3. \A i \in 1..(Steps(log) + 1) : WorkOf(i) \subseteq ran
    <3>1. \A i \in 1..Steps(log) : WorkOf(i) \subseteq ran
      BY <1>3 DEF Shape
    <3> QED
      BY <1>4, <2>2, <3>1, OneMoreStep
  <2>4. Shape(log', ran')
    BY <1>2, <1>4, <1>9, <2>1, <2>3, OfRun DEF Shape
  <2>5. Labelled(log', lastStatus')
    BY <1>11, <2>1 DEF Labelled
  <2>6. AtExit(st)'
    BY <1>2, <1>4, <1>9, <1>11, <2>1 DEF AtExit
  <2>7. idx' > Len(Subs[todo'])
    BY <1>2, <1>5, <2>1
  <2>8. Located'
    BY <1>2, <2>6, <2>7 DEF Located
  <2>9. Groupwise'
    BY <1>2, <1>3, <1>10, <2>4, <2>5, <2>8 DEF Groupwise
  <2>10. [Promise!Next]_(Promise!vars)
    <3>1. <<todo, idx>> \in WorkOf(todo) /\ <<todo, idx>> \in ran
      BY <1>4, <1>5, <2>2
    <3>2. \A v \in WorkOf(<<todo, idx>>[1]) : v[2] < <<todo, idx>>[2] => v \in ran
      BY <2>2
    <3>3. ran' = ran \cup {<<todo, idx>>} /\ WorkOf(todo) \subseteq ran'
      BY <1>2, <2>2, <3>1
    <3>4. Steps(log') # N
      BY <1>4, <2>1
    <3> QED
      BY <1>4, <1>12, <2>1, <3>1, <3>2, <3>3, <3>4, PromiseRecords
  <2> QED
    BY <2>9, <2>10
<1>15. CASE Subs[todo][idx] # "exit"
  <2>1. /\ sub' = <<todo, idx>> /\ sub' # NoSub /\ idx + 1 \in 1..Len(Subs[todo])
        /\ InGroup(sub', todo) /\ Steps(log') = Steps(log)
    <3>1. sub' = <<todo, idx>> /\ sub' # NoSub
      BY <1>2, <1>4, <1>15 DEF NoSub
    <3>2. idx + 1 \in 1..Len(Subs[todo]) /\ idx \in 1..(Len(Subs[todo]) - 1)
      BY <1>4, <1>5, <1>15
    <3> QED
      BY <1>4, <1>7, <1>9, <3>1, <3>2 DEF InGroup, IsRecorded
  <2>2. IsOpen(log') <=> Continues(pend)
    BY <1>6, <1>9, <2>1 DEF IsOpen, IsCleared, Continues, StepStatus
  <2>3. Shape(log', ran')
    <3>1. IsHalted(log') => InGroup(End(log').sub, Steps(log') + 1)
                            /\ Through(Steps(log') + 1, End(log').sub[2] - 1, ran')
      BY <1>2, <1>4, <1>9, <2>1
    <3>2. IsOpen(log') => /\ Continues(End(log').status)
                          /\ InGroup(End(log').sub, Steps(log') + 1)
                          /\ Through(Steps(log') + 1, End(log').sub[2], ran')
      BY <1>2, <1>4, <1>9, <1>13, <2>1, <2>2
    <3> QED
      BY <1>2, <1>3, <1>9, <2>1, <3>1, <3>2 DEF Shape
  <2>4. Labelled(log', lastStatus')
    BY <1>11, <2>2 DEF Labelled
  <2>5. Located'
    <3>1. CASE Continues(pend)
      <4>1. idx' - 1 = idx /\ idx' # 1
        BY <1>2, <1>4, <1>5
      <4>2. AtSubStep'
        BY <1>2, <1>4, <1>11, <1>13, <2>1, <2>2, <3>1, <4>1 DEF AtSubStep
      <4> QED
        BY <1>2, <4>2 DEF Located
    <3>2. CASE ~ Continues(pend)
      <4>1. AtExit(st)'
        BY <1>2, <1>4, <1>6, <1>9, <1>11, <2>1, <3>2
           DEF AtExit, Continues, StepStatus
      <4> QED
        BY <1>2, <3>2, <4>1 DEF Located
    <3> QED
      BY <3>1, <3>2
  <2>6. Groupwise'
    BY <1>2, <1>3, <1>10, <2>3, <2>4, <2>5 DEF Groupwise
  <2> QED
    BY <1>2, <1>12, <2>1, <2>6, PromiseStays
<1> QED
  BY <1>14, <1>15

\* Rows by which users abort the process are not recorded.
LEMMA AbortCounts ==
  ASSUME NEW rows \in Seq(LogRow), NEW position \in Position
  PROVE  \A new : new = Append(rows, Row(UserAborted, "abort", position)) =>
           Steps(new) = Steps(rows) /\ \E i \in DOMAIN new : new[i].status = "abort"
<1> SUFFICES ASSUME NEW new, new = Append(rows, Row(UserAborted, "abort", position))
             PROVE  Steps(new) = Steps(rows) /\ \E i \in DOMAIN new : new[i].status = "abort"
  OBVIOUS
<1> DEFINE row == Row(UserAborted, "abort", position)
<1>1. row.status = "abort" /\ new = Append(rows, row)
  BY DEF Row
<1> HIDE DEF row
<1>2. /\ DOMAIN rows = 1..Len(rows) /\ Len(rows) \in Nat
      /\ DOMAIN new = 1..(Len(rows) + 1) /\ new[Len(rows) + 1] = row
      /\ \A i \in DOMAIN rows : new[i] = rows[i]
  BY <1>1
<1>3. ASSUME NEW i PROVE i \in Recorded(new) <=> i \in Recorded(rows)
  <2>1. CASE i \in DOMAIN rows
    BY <1>2, <2>1 DEF Recorded, ClearedRows
  <2>2. CASE i \notin DOMAIN rows
    BY <1>1, <1>2, <2>2 DEF Recorded, ClearedRows
  <2> QED
    BY <2>1, <2>2
<1>4. Recorded(new) = Recorded(rows)
  BY <1>3
<1>5. Len(rows) + 1 \in DOMAIN new
  BY <1>2
<1> QED
  BY <1>1, <1>2, <1>4, <1>5 DEF Steps

\* The answer to a halted step or sub step is logged as its success.
LEMMA GroupResumeHalted ==
  ASSUME Typing, Groupwise, ResumeHalted
  PROVE  Groupwise' /\ [Promise!Next]_(Promise!vars)
<1> DEFINE row == Row(<<todo, 0>>, "success", sub)
<1>1. /\ log' = WriteRow(log, row, FALSE, FALSE)
      /\ pc = "loaded" /\ st \in {"suspend", "awaiting_callback"} /\ todo <= N
      /\ lastStatus' = "running" /\ st' = "success" /\ UNCHANGED <<lock, sub>>
      /\ todo' = IF sub = NoSub THEN todo + 1 ELSE todo
      /\ ran' = ran \cup {IF sub = NoSub THEN <<todo, 0>> ELSE sub}
      /\ pc' \in {"step", "idle"}
  BY DEF ResumeHalted, LoopHead
<1>2. /\ ~ WasAborted /\ Shape(log, ran) /\ ~ lock /\ lastStatus = "running"
      /\ ~ IsOpen(log) /\ todo = RestFrom(log, N)
      /\ st = RecoveredStatus(log) /\ sub = RecoveredSub(log)
      /\ log \in Seq(LogRow) /\ Closed(log)
  BY <1>1, OfRun DEF Groupwise, Located, Shape
<1>3. IsHalted(log)
  BY <1>1, <1>2, HaltedRecovery
<1>4. /\ sub = End(log).sub /\ todo = Steps(log) + 1 /\ Steps(log) \in Nat
      /\ Steps(log) < N /\ todo \in 1..N
  <2>1. sub = End(log).sub /\ StepCount(log) = Steps(log) /\ Steps(log) \in Nat
    BY <1>2, <1>3, RecoveredOutside
  <2>2. todo = Steps(log) + 1 /\ Steps(log) < N
    BY <1>1, <1>2, <2>1, RestInside, OfRun
  <2> QED
    BY <2>1, <2>2, OfRun
<1>5. /\ row \in LogRow /\ row.status = "success" /\ row.sub = sub
  <2>1. row.status = "success" /\ row.sub = sub
    BY DEF Row
  <2>2. row \in LogRow
    BY <1>4, RowType, OfRun DEF StepStatus
  <2> QED
    BY <2>1, <2>2
<1> HIDE DEF row
<1>6. /\ log' \in Seq(LogRow) /\ log' # <<>>
      /\ End(log').status = "success" /\ End(log').sub = sub
      /\ Closed(log')
      /\ Steps(log') = Steps(log) + (IF IsRecorded(row) THEN 1 ELSE 0)
  <2>1. PICK replace \in BOOLEAN : replace = FALSE
    OBVIOUS
  <2>2. /\ log' = WriteRow(log, row, replace, replace)
        /\ replace /\ log # <<>> => ~ IsRecorded(End(log))
        /\ row.status # "abort"
    BY <1>1, <1>5, <2>1
  <2> QED
    BY <1>2, <1>5, <2>2, RowCounts
<1>7. /\ ~ WasAborted' /\ ~ IsHalted(log')
      /\ IsOpen(log') <=> sub # NoSub
      /\ IsRecorded(row) <=> sub = NoSub
  BY <1>5, <1>6 DEF Closed, WasAborted, IsHalted, End, IsOpen, IsRecorded, IsCleared
<1>8. Outcome = "open" /\ Outcome' = "open" /\ Labelled(log', lastStatus')
  BY <1>1, <1>2 DEF Outcome, Labelled
<1>9. CASE sub = NoSub
  <2>1. Steps(log) + 1 < N /\ Kind[Steps(log) + 1] # "group"
    BY <1>2, <1>3, <1>4, <1>9 DEF Shape, InGroup, NoSub
  <2>2. WorkOf(todo) = {<<todo, 0>>}
    BY <1>4, <2>1 DEF WorkOf
  <2>3. /\ Steps(log') = Steps(log) + 1 /\ ran' = ran \cup {<<todo, 0>>}
        /\ todo' = todo + 1 /\ ~ IsOpen(log')
    BY <1>1, <1>6, <1>7, <1>9
  <2>4. \A i \in 1..(Steps(log) + 1) : WorkOf(i) \subseteq ran'
    <3>1. \A i \in 1..Steps(log) : WorkOf(i) \subseteq ran
      BY <1>2 DEF Shape
    <3>2. ran \subseteq ran' /\ WorkOf(Steps(log) + 1) \subseteq ran'
      BY <1>4, <2>2, <2>3
    <3> QED
      BY <1>4, <3>1, <3>2, OneMoreStep
  <2>5. Shape(log', ran')
    BY <1>4, <1>6, <1>7, <2>3, <2>4, OfRun DEF Shape
  <2>6. Located'
    <3>1. AtStep'
      BY <1>1, <1>4, <1>9, <2>3 DEF AtStep
    <3>2. Continues(st)'
      BY <1>1 DEF Continues
    <3> QED
      BY <1>1, <3>1, <3>2 DEF Located
  <2>7. Groupwise'
    BY <1>1, <1>2, <1>7, <1>8, <2>5, <2>6 DEF Groupwise
  <2>8. [Promise!Next]_(Promise!vars)
    <3>1. \A v \in WorkOf(<<todo, 0>>[1]) : v[2] < <<todo, 0>>[2] => v \in ran
      BY <2>2
    <3>2. <<todo, 0>> \in WorkOf(Steps(log) + 1) /\ WorkOf(Steps(log) + 1) \subseteq ran'
      BY <1>4, <2>2, <2>3
    <3>3. Steps(log') # N
      BY <1>4, <2>1, <2>3
    <3> QED
      BY <1>4, <1>8, <2>3, <3>1, <3>2, <3>3, PromiseRecords
  <2> QED
    BY <2>7, <2>8
<1>10. CASE sub # NoSub
  <2>1. InGroup(sub, todo) /\ Through(todo, sub[2] - 1, ran)
    BY <1>2, <1>3, <1>4, <1>10 DEF Shape
  <2>2. Steps(log') = Steps(log) /\ ran' = ran \cup {sub} /\ todo' = todo /\ IsOpen(log')
    <3>1. Steps(log') = Steps(log) + 0 /\ IsOpen(log')
      BY <1>6, <1>7, <1>10
    <3>2. ran' = ran \cup {sub} /\ todo' = todo
      BY <1>1, <1>10
    <3> QED
      BY <1>4, <3>1, <3>2
  <2>3. Kind[todo] = "group" /\ sub = <<todo, sub[2]>> /\ sub[2] \in 1..Len(Subs[todo])
    <3>1. /\ Kind[todo] = "group" /\ sub[1] = todo /\ sub \in Position
          /\ sub[2] \in 1..(Len(Subs[todo]) - 1)
      BY <2>1, OfRun DEF InGroup
    <3>2. Len(Subs[todo]) \in Nat
      BY <1>4, <3>1, GroupOf
    <3> QED
      BY <3>1, <3>2 DEF Position
  <2>4. WorkOf(todo) = {<<todo, j>> : j \in 1..Len(Subs[todo])} /\ Len(Subs[todo]) \in Nat
    BY <1>4, <2>3, GroupOf
  <2>5. Through(todo, sub[2], ran')
    <3>1. Through(todo, sub[2] - 1, ran')
      BY <2>1, <2>2 DEF Through
    <3> QED
      BY <2>2, <2>3, <2>4, <3>1, OneMore
  <2>6. Shape(log', ran')
    <3>1. \A i \in 1..Steps(log') : WorkOf(i) \subseteq ran'
      BY <1>2, <2>2 DEF Shape
    <3>2. InGroup(End(log').sub, Steps(log') + 1) /\ Continues(End(log').status)
          /\ Through(Steps(log') + 1, End(log').sub[2], ran')
      BY <1>4, <1>6, <2>1, <2>2, <2>5 DEF Continues
    <3> QED
      BY <1>4, <1>6, <1>7, <2>2, <3>1, <3>2, OfRun DEF Shape
  <2>7. Located'
    <3>1. AtStep'
      BY <1>1, <1>4, <1>6, <2>2 DEF AtStep
    <3>2. Continues(st)'
      BY <1>1 DEF Continues
    <3> QED
      BY <1>1, <3>1, <3>2 DEF Located
  <2>8. Groupwise'
    BY <1>1, <1>2, <1>7, <1>8, <2>6, <2>7 DEF Groupwise
  <2>9. ASSUME NEW v \in WorkOf(todo), v[2] < sub[2] PROVE v \in ran
    <3>1. PICK j \in 1..Len(Subs[todo]) : v = <<todo, j>>
      BY <2>4
    <3>2. j \in 1..(sub[2] - 1)
      BY <2>3, <2>4, <2>9, <3>1
    <3> QED
      BY <2>1, <3>1, <3>2 DEF Through
  <2>10. sub \in WorkOf(todo) /\ sub[1] = todo
    BY <2>3, <2>4
  <2>11. [Promise!Next]_(Promise!vars)
    BY <1>4, <1>8, <2>2, <2>9, <2>10, PromiseTries
  <2> QED
    BY <2>8, <2>11
<1> QED
  BY <1>9, <1>10

\* Users resume what waits or failed and abort what rests.
LEMMA GroupUser ==
  ASSUME Undisturbed, Typing, Groupwise, User
  PROVE  Groupwise' /\ [Promise!Next]_(Promise!vars)
<1>1. CASE Resume
  <2>1. /\ UNCHANGED <<log, ran, lock, pc, memory>> /\ lastStatus' = "resumed"
        /\ lastStatus \notin {"created", "running", "resumed", "aborted", "completed"}
    BY <1>1 DEF Resume, RESUMABLE_STATUSES
  <2>2. ~ WasAborted /\ Labelled(log, lastStatus) /\ Located /\ ~ IsOpen(log)
    BY <2>1 DEF Groupwise, Labelled
  <2>3. Located'
    BY <2>1, <2>2 DEF Located, AtStep, AtSubStep, AtExit, memory
  <2> QED
    BY <2>1, <2>2, <2>3, GroupQuiet
<1>2. CASE Abort
  <2>1. /\ log' = WriteRow(log, Row(UserAborted, "abort", RecoveredSub(log)), FALSE, FALSE)
        /\ pc = "idle" /\ lastStatus' = "aborted" /\ UNCHANGED <<ran, lock, pc>>
        /\ RecoveredStatus(log) # "complete"
    BY <1>2 DEF Abort, Undisturbed
  <2>2. log \in Seq(LogRow) /\ RecoveredSub(log) \in Position
    BY OfRun, RecoveryType
  <2>3. log' = Append(log, Row(UserAborted, "abort", RecoveredSub(log)))
    <3>1. Row(UserAborted, "abort", RecoveredSub(log)).status = "abort"
      BY DEF Row
    <3> QED
      BY <2>1, <3>1, WriteAppends
  <2>4. Steps(log') = Steps(log) /\ WasAborted'
    BY <2>2, <2>3, AbortCounts DEF WasAborted
  <2>5. Groupwise'
    BY <2>1, <2>4 DEF Groupwise
  <2>6. lastStatus # "completed"
    BY <2>1 DEF Groupwise, Labelled
  <2>7. CASE lastStatus = "aborted"
    BY <2>1, <2>4, <2>5, <2>7, PromiseStays DEF Outcome
  <2>8. CASE lastStatus # "aborted"
    <3>1. Cardinality(RecordedRows) = Steps(log) /\ Cardinality(RecordedRows)' = Steps(log')
      BY DEF Steps, RecordedRows, Recorded, ClearedRows
    <3>2. Promise!GiveUp
      BY <2>1, <2>4, <2>6, <2>8, <3>1 DEF Promise!GiveUp, Outcome
    <3> QED
      BY <2>5, <3>2 DEF Promise!Next
  <2> QED
    BY <2>7, <2>8
<1>3. CASE Pause \/ Unpause
  BY <1>3 DEF Pause, Unpause, Undisturbed, Groupwise
<1> QED
  BY <1>1, <1>2, <1>3 DEF User

\* Nothing has been logged in the beginning.
LEMMA GroupInit == Init => Groupwise /\ Promise!Init
<1> SUFFICES ASSUME Init PROVE Groupwise /\ Promise!Init
  OBVIOUS
<1>1. Recorded(log) = {} /\ RecordedRows = {}
  BY DEF Init, Recorded, RecordedRows, ClearedRows
<1>2. Steps(log) = 0 /\ Cardinality(RecordedRows) = 0
  BY <1>1, FS_EmptySet DEF Steps
<1>3. ~ WasAborted /\ ~ IsHalted(log) /\ ~ IsOpen(log) /\ Closed(log)
  BY DEF Init, WasAborted, IsHalted, IsOpen, Closed, ClearedRows
<1>4. Shape(log, ran)
  BY <1>2, <1>3, WorkflowAssumption DEF Shape
<1>5. Labelled(log, lastStatus) /\ Located /\ ~ lock
  BY <1>3 DEF Init, Labelled, Located
<1> QED
  BY <1>2, <1>3, <1>4, <1>5 DEF Init, Groupwise, Promise!Init, Outcome

\* Every step keeps the log in shape and is one that was promised.
LEMMA GroupNext ==
  ASSUME Undisturbed, Typing, Groupwise, [Next]_vars
  PROVE  Groupwise' /\ [Promise!Next]_(Promise!vars)
<1>1. CASE Executor
  <2>1. CASE WriteStep
    BY <2>1, GroupWriteStep, GroupCloses, OfRun
  <2> QED
    BY <1>1, <2>1, GroupMoves, GroupResumeHalted, GroupRun, GroupRunSub, GroupWriteSub
       DEF Executor, RunGroup
<1>2. CASE WriteFault
  BY <1>2 DEF WriteFault, WriteFails, WriteGivesUp, WriteSubFails, WriteSubGivesUp,
              Undisturbed
<1>3. CASE Crash
  BY <1>3, GroupMoves
<1>4. CASE User
  BY <1>4, GroupUser
<1>5. CASE UNCHANGED vars
  <2>1. /\ UNCHANGED <<log, ran, lock, lastStatus, pc>>
        /\ WasAborted' <=> WasAborted
        /\ Located' <=> Located
    BY <1>5 DEF vars, WasAborted, Located, AtStep, AtSubStep, AtExit
  <2>2. Groupwise'
    BY <2>1 DEF Groupwise
  <2>3. Outcome' = Outcome
    BY <2>1 DEF Outcome
  <2> QED
    BY <2>1, <2>2, <2>3, PromiseStays
<1> QED
  BY <1>1, <1>2, <1>3, <1>4, <1>5 DEF Next

\* The invariant holds in every state.
LEMMA GroupsAlways ==
  ASSUME Undisturbed
  PROVE  Spec => [](Typing /\ Groupwise)
<1>1. Init => Typing /\ Groupwise
  BY TypingInit, GroupInit
<1>2. Typing /\ Groupwise /\ [Next]_vars => (Typing /\ Groupwise)'
  BY TypingNext, GroupNext
<1> QED
  BY <1>1, <1>2, PTL DEF Spec

\* Whatever groups a workflow has, and however often its worker is killed or it is
\* resumed or aborted: its steps are executed in order, each part of them before it
\* is recorded, and none again afterwards.
THEOREM GroupsKeepPromise ==
  ASSUME Undisturbed
  PROVE  Spec => ImplementsPromise
<1>1. Init => Promise!Init
  BY GroupInit
<1>2. Typing /\ Groupwise /\ [Next]_vars => [Promise!Next]_(Promise!vars)
  BY GroupNext
<1> QED
  BY <1>1, <1>2, GroupsAlways, PTL DEF Spec, ImplementsPromise, Promise!Spec

\* A process is completed only when every step, and every sub step of every group,
\* was executed.
THEOREM GroupsSkipNothing ==
  ASSUME Undisturbed
  PROVE  Spec => []NothingSkipped
<1>1. Typing /\ Groupwise => NothingSkipped
  <2> SUFFICES ASSUME Typing, Groupwise, lastStatus = "completed"
               PROVE  Work \subseteq ran
    BY DEF NothingSkipped
  <2>1. ~ WasAborted /\ Steps(log) = N /\ Shape(log, ran)
    BY DEF Groupwise, Labelled
  <2> QED
    BY <2>1 DEF Shape, Work
<1> QED
  BY <1>1, GroupsAlways, PTL
=============================================================================
