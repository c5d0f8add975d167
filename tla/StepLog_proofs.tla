--------------------------- MODULE StepLog_proofs ---------------------------
(* Facts about the step log and about recovery, for logs of any length. *)
EXTENDS StepLog, FiniteSetTheorems, SequenceTheorems, WellFoundedInduction, TLAPS

\* A non-empty set of naturals has a least element.
LEMMA LeastNatural ==
  ASSUME NEW T \in SUBSET Nat, T # {}
  PROVE  \E x \in T : \A y \in T : x <= y
<1> DEFINE R == OpToRel(<, Nat)
<1>1. \E x \in T : \A y \in T : ~ (<<y, x>> \in R)
  BY WFMin, NatLessThanWellFounded
<1>2. \A x, y \in Nat : <<y, x>> \in R <=> y < x
  BY DEF OpToRel
<1>3. \E x \in T : \A y \in T : ~ (y < x)
  BY <1>1, <1>2, Zenon
<1> QED
  BY <1>3

\* A non-empty set of naturals that are at most n has a greatest element.
LEMMA GreatestNatural ==
  ASSUME NEW n \in Nat, NEW S \in SUBSET (1..n), S # {}
  PROVE  \E x \in S : \A y \in S : y <= x
<1> DEFINE Bounds == {k \in Nat : \A y \in S : y <= k}
<1>1. n \in Bounds
  OBVIOUS
<1>2. PICK k \in Bounds : \A m \in Bounds : k <= m
  <2>1. Bounds \in SUBSET Nat /\ Bounds # {}
    BY <1>1
  <2> QED
    BY <2>1, LeastNatural
<1>3. k \in S
  <2> SUFFICES ASSUME k \notin S PROVE FALSE
    OBVIOUS
  <2>1. k # 0
    <3>1. PICK y \in S : TRUE
      OBVIOUS
    <3>2. y \in 1..n /\ y <= k
      BY <3>1
    <3> QED
      BY <3>2
  <2>2. k - 1 \in Bounds
    BY <2>1
  <2> QED
    BY <2>2, <1>2
<1> QED
  BY <1>3

\* The cleared rows of a log are finitely many positions of the log.
LEMMA ClearedRowsFinite ==
  ASSUME NEW S, NEW log \in Seq(S)
  PROVE  /\ ClearedRows(log) \in SUBSET (1..Len(log))
         /\ IsFiniteSet(ClearedRows(log))
         /\ StepCount(log) \in Nat
<1>1. DOMAIN log = 1..Len(log) /\ Len(log) \in Nat
  OBVIOUS
<1>2. ClearedRows(log) \in SUBSET (1..Len(log))
  BY <1>1 DEF ClearedRows
<1>3. IsFiniteSet(1..Len(log))
  BY <1>1, FS_Interval
<1>4. IsFiniteSet(ClearedRows(log))
  BY <1>2, <1>3, FS_Subset
<1> QED
  BY <1>2, <1>4, FS_CardinalityType DEF StepCount

\* LastCleared is what its name says.
LEMMA LastClearedIsLast ==
  ASSUME NEW S, NEW log \in Seq(S), ClearedRows(log) # {}
  PROVE  /\ LastCleared(log) \in ClearedRows(log)
         /\ \A j \in ClearedRows(log) : j <= LastCleared(log)
<1>1. \E i \in ClearedRows(log) : \A j \in ClearedRows(log) : j <= i
  <2>1. Len(log) \in Nat /\ ClearedRows(log) \in SUBSET (1..Len(log))
    BY ClearedRowsFinite
  <2> HIDE DEF ClearedRows
  <2> QED
    BY <2>1, GreatestNatural
<1> QED
  BY <1>1 DEF LastCleared

\* Writing an outcome to a log gives a log.
LEMMA WriteRowType ==
  ASSUME NEW log \in Seq(LogRow), NEW row \in LogRow,
         NEW replace \in BOOLEAN, NEW same \in BOOLEAN
  PROVE  WriteRow(log, row, replace, same) \in Seq(LogRow)
<1>1. CASE log # <<>> /\ (replace \/ IsRepeat(log, row, same))
  <2>1. Len(log) \in 1..Len(log) /\ log[Len(log)] \in LogRow
    BY <1>1, EmptySeq, ElementOfSeq
  <2>2. Row(log[Len(log)].step, row.status, row.sub) \in LogRow
    BY <2>1 DEF Row, LogRow
  <2>3. [log EXCEPT ![Len(log)] =
           Row(log[Len(log)].step, row.status, row.sub)] \in Seq(LogRow)
    BY <2>1, <2>2, ExceptSeq
  <2> QED
    BY <1>1, <2>3 DEF WriteRow
<1>2. CASE ~ (log # <<>> /\ (replace \/ IsRepeat(log, row, same)))
  BY <1>2, AppendProperties DEF WriteRow
<1> QED
  BY <1>1, <1>2

\* A recovered process has a status, a position in a group and a next step.
LEMMA RecoveryType ==
  ASSUME NEW log \in Seq(LogRow), NEW n \in Nat
  PROVE  /\ RecoveredStatus(log) \in StepStatus
         /\ RecoveredSub(log) \in Position
         /\ RestFrom(log, n) \in 1..(n + 1)
<1>1. \A i \in 1..Len(log) : log[i].status \in StepStatus /\ log[i].sub \in Position
  <2> SUFFICES ASSUME NEW i \in 1..Len(log)
               PROVE  log[i].status \in StepStatus /\ log[i].sub \in Position
    OBVIOUS
  <2>1. log[i] \in LogRow
    BY ElementOfSeq
  <2> QED
    BY <2>1 DEF LogRow
<1>2. IsHalted(log) => Len(log) \in 1..Len(log)
  BY EmptySeq DEF IsHalted
<1>3. ClearedRows(log) # {} => LastCleared(log) \in 1..Len(log)
  BY LastClearedIsLast, ClearedRowsFinite
<1>4. RecoveredStatus(log) \in StepStatus
  BY <1>1, <1>2, <1>3 DEF RecoveredStatus, StepStatus
<1>5. RecoveredSub(log) \in Position
  BY <1>1, <1>2, <1>3 DEF RecoveredSub, NoSub, Position
<1>6. RestFrom(log, n) \in 1..(n + 1)
  BY ClearedRowsFinite DEF RestFrom
<1> QED
  BY <1>4, <1>5, <1>6

\* What is stored for a step outcome is a process status.
LEMMA StoredStatusesType ==
  ASSUME NEW s \in StepStatus, NEW isTask \in BOOLEAN
  PROVE  StoredStatuses(s, isTask) \subseteq ProcessStatus
BY DEF StoredStatuses, OverallStatus, StepStatus, ProcessStatus
\* A row that is not an error is appended.
LEMMA WriteAppends ==
  ASSUME NEW rows, NEW row, NEW same, row.status \notin {"failed", "waiting"}
  PROVE  WriteRow(rows, row, FALSE, same) = Append(rows, row)
BY DEF WriteRow, IsRepeat

\* Appending a row that counts as done adds one to the count.
LEMMA AppendCount ==
  ASSUME NEW rows \in Seq(LogRow), NEW row \in LogRow,
         NEW new, new = Append(rows, row)
  PROVE  StepCount(new) = StepCount(rows) + (IF IsCleared(row) THEN 1 ELSE 0)
<1>1. /\ DOMAIN rows = 1..Len(rows) /\ Len(rows) \in Nat
      /\ DOMAIN new = 1..(Len(rows) + 1) /\ new[Len(rows) + 1] = row
      /\ \A i \in DOMAIN rows : new[i] = rows[i]
  BY AppendProperties
<1>2. ClearedRows(new) =
        IF IsCleared(row) THEN ClearedRows(rows) \cup {Len(rows) + 1}
        ELSE ClearedRows(rows)
  BY <1>1 DEF ClearedRows
<1>3. IsFiniteSet(ClearedRows(rows)) /\ StepCount(rows) \in Nat
        /\ ClearedRows(rows) \in SUBSET (1..Len(rows))
  BY ClearedRowsFinite
<1>4. Len(rows) + 1 \notin ClearedRows(rows)
  BY <1>1, <1>3
<1>5. Cardinality(ClearedRows(rows) \cup {Len(rows) + 1}) =
        Cardinality(ClearedRows(rows)) + 1
  BY <1>3, <1>4, FS_AddElement
<1>6. CASE IsCleared(row)
  BY <1>2, <1>5, <1>6 DEF StepCount
<1>7. CASE ~ IsCleared(row)
  <2>1. StepCount(new) = StepCount(rows)
    BY <1>2, <1>7 DEF StepCount
  <2> QED
    BY <1>3, <1>7, <2>1
<1> QED
  BY <1>6, <1>7

\* A last row that counts as done is the one recovery starts from.
LEMMA RecoverLast ==
  ASSUME NEW S, NEW rows \in Seq(S), rows # <<>>, IsCleared(rows[Len(rows)])
  PROVE  RecoveredStatus(rows) = rows[Len(rows)].status
<1>1. Len(rows) \in Nat /\ Len(rows) \in DOMAIN rows
  BY EmptySeq
<1>2. Len(rows) \in ClearedRows(rows)
  BY <1>1 DEF ClearedRows
<1>3. LastCleared(rows) \in 1..Len(rows) /\ Len(rows) <= LastCleared(rows)
  BY <1>2, LastClearedIsLast, ClearedRowsFinite
<1>4. LastCleared(rows) = Len(rows)
  BY <1>1, <1>3
<1> QED
  BY <1>2, <1>4 DEF RecoveredStatus, IsHalted, IsCleared

\* Replacing the last row by one of its own status counts no more rows.
LEMMA RepeatCount ==
  ASSUME NEW rows \in Seq(LogRow), NEW last \in LogRow,
         rows # <<>>, last.status = rows[Len(rows)].status
  PROVE  \A new : new = [rows EXCEPT ![Len(rows)] = last] =>
           /\ new \in Seq(LogRow) /\ Len(new) = Len(rows) /\ new # <<>>
           /\ new[Len(new)] = last
           /\ StepCount(new) = StepCount(rows)
<1> SUFFICES ASSUME NEW new, new = [rows EXCEPT ![Len(rows)] = last]
             PROVE  /\ new \in Seq(LogRow) /\ Len(new) = Len(rows) /\ new # <<>>
                    /\ new[Len(new)] = last
                    /\ StepCount(new) = StepCount(rows)
  OBVIOUS
<1>1. Len(rows) \in 1..Len(rows)
  BY EmptySeq
<1>2. /\ [rows EXCEPT ![Len(rows)] = last] \in Seq(LogRow)
      /\ Len([rows EXCEPT ![Len(rows)] = last]) = Len(rows)
      /\ \A j \in 1..Len(rows) :
           [rows EXCEPT ![Len(rows)] = last][j] =
             IF j = Len(rows) THEN last ELSE rows[j]
  BY <1>1, ExceptSeq
<1>3. /\ new \in Seq(LogRow) /\ Len(new) = Len(rows)
      /\ \A j \in 1..Len(rows) : new[j] = IF j = Len(rows) THEN last ELSE rows[j]
  BY <1>2, Zenon
<1>4. DOMAIN rows = 1..Len(rows) /\ DOMAIN new = 1..Len(rows)
  BY <1>3
<1>5. \A i \in 1..Len(rows) : IsCleared(new[i]) <=> IsCleared(rows[i])
  BY <1>3 DEF IsCleared
<1>6. ClearedRows(new) = ClearedRows(rows)
  BY <1>4, <1>5 DEF ClearedRows
<1>7. StepCount(new) = StepCount(rows)
  BY <1>6 DEF StepCount
<1>8. new # <<>>
  BY <1>1, <1>3, EmptySeq
<1> QED
  BY <1>1, <1>3, <1>7, <1>8

\* What an outcome that replaces no row does to the log.
LEMMA WrittenCount ==
  ASSUME NEW rows \in Seq(LogRow), NEW row \in LogRow, NEW same \in BOOLEAN
  PROVE  /\ StepCount(WriteRow(rows, row, FALSE, same)) =
              StepCount(rows) + (IF IsCleared(row) THEN 1 ELSE 0)
         /\ WriteRow(rows, row, FALSE, same) # <<>>
         /\ WriteRow(rows, row, FALSE, same)[Len(WriteRow(rows, row, FALSE, same))].status
              = row.status
<1> DEFINE new == WriteRow(rows, row, FALSE, same)
<1>1. CASE rows # <<>> /\ IsRepeat(rows, row, same)
  <2> DEFINE last == Row(rows[Len(rows)].step, row.status, row.sub)
  <2>1. Len(rows) \in 1..Len(rows) /\ rows[Len(rows)] \in LogRow
    BY <1>1, EmptySeq, ElementOfSeq
  <2>2. last \in LogRow /\ last.status = row.status
    BY <2>1 DEF Row, LogRow
  <2>3. new = [rows EXCEPT ![Len(rows)] = last]
    BY <1>1 DEF WriteRow
  <2>4. row.status \in {"failed", "waiting"} /\ rows[Len(rows)].status = row.status
    BY <1>1 DEF IsRepeat
  <2>5. ~ IsCleared(row) /\ StepCount(rows) \in Nat
    BY <2>4, ClearedRowsFinite DEF IsCleared
  <2> HIDE DEF last, new
  <2>6. /\ new # <<>> /\ new[Len(new)] = last
        /\ StepCount(new) = StepCount(rows)
    <3>1. rows # <<>> /\ last \in LogRow /\ last.status = rows[Len(rows)].status
      BY <1>1, <2>2, <2>4
    <3>2. \A n : n = [rows EXCEPT ![Len(rows)] = last] =>
            n # <<>> /\ n[Len(n)] = last /\ StepCount(n) = StepCount(rows)
      BY <3>1, RepeatCount, Zenon
    <3> QED
      BY <3>2, <2>3, Zenon
  <2>7. StepCount(new) = StepCount(rows) + (IF IsCleared(row) THEN 1 ELSE 0)
    BY <2>5, <2>6
  <2> QED
    BY <2>2, <2>6, <2>7 DEF new
<1>2. CASE ~ (rows # <<>> /\ IsRepeat(rows, row, same))
  <2>1. new = Append(rows, row)
    BY <1>2 DEF WriteRow
  <2> HIDE DEF new
  <2>2. Append(rows, row) \in Seq(LogRow) /\ Len(Append(rows, row)) = Len(rows) + 1
        /\ Append(rows, row)[Len(rows) + 1] = row
    BY AppendProperties
  <2>3. StepCount(new) = StepCount(rows) + (IF IsCleared(row) THEN 1 ELSE 0)
    BY <2>1, AppendCount
  <2>4. new \in Seq(LogRow) /\ Len(new) = Len(rows) + 1 /\ new[Len(new)] = row
    BY <2>1, <2>2, Zenon
  <2>5. new # <<>>
    BY <2>4, EmptySeq
  <2> QED
    BY <2>3, <2>4, <2>5 DEF new
<1> QED
  BY <1>1, <1>2
=============================================================================
