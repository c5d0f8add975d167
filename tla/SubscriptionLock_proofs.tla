----------------------- MODULE SubscriptionLock_proofs -----------------------
(* Theorems about the sync state of subscriptions, for any number of          *)
(* subscriptions and processes, any relations and all faults together.        *)
EXTENDS SubscriptionLock, SequenceTheorems, FiniteSetTheorems, TLAPS

\* The workflows that ask whether the subscription is in sync before they lock it.
Checked == {"modify", "terminate"}

\* The step that unlocks the subscription has not been committed, or will be
\* executed again.
Unfinished(p) ==
  /\ proc[p].target # "modify_note"
  /\ proc[p].status \notin {"none", "completed"}
  /\ ~AtEnd(p)
  /\ proc[p].step = Len(StepsOf(proc[p].target)) => exec[p] # "committed"

\* The relation of the process to its subscription has been stored.
Relates(r, e) == r.step >= 2 \/ e = "committed" => r.related

\* Where processes can be, and what they have done by then.
Places ==
  \A p \in Processes :
    /\ exec[p] # "off" => proc[p].status \notin {"none", "completed"}
    /\ exec[p] \in {"loaded", "committed"} => ~AtEnd(p)
    /\ proc[p].step <= Len(StepsOf(proc[p].target)) + 1
    /\ Relates(proc[p], exec[p])
    /\ proc[p].status = "aborted" => p \in aborted
    /\ p \in holds => Unfinished(p) /\ proc[p].step >= 2 /\ proc[p].target \in Checked

Typing == TypeOK /\ Places

StepNames ==
  {"store", "note", "work", "unsync", "unsync_unchecked", "set_terminated", "resync"}

\* Tuples are sequences.
LEMMA TupleOfOne ==
  ASSUME NEW S, NEW a \in S
  PROVE  <<a>> \in Seq(S) /\ Len(<<a>>) = 1 /\ <<a>>[1] = a
OBVIOUS

LEMMA TupleOfTwo ==
  ASSUME NEW S, NEW a \in S, NEW b \in S
  PROVE  <<a, b>> \in Seq(S) /\ Len(<<a, b>>) = 2 /\ <<a, b>>[1] = a /\ <<a, b>>[2] = b
OBVIOUS

\* The decorators put two steps before those of the workflow and one behind.
LEMMA LockedSteps ==
  ASSUME NEW lock \in StepNames, NEW steps \in Seq(StepNames)
  PROVE  /\ Len(Locked(lock, steps)) = Len(steps) + 3
         /\ Locked(lock, steps)[1] = "store"
         /\ Locked(lock, steps)[2] = lock
         /\ \A i \in 1..Len(steps) : Locked(lock, steps)[i + 2] = steps[i]
         /\ Locked(lock, steps)[Len(steps) + 3] = "resync"
<1> DEFINE first == <<"store", lock>>
           last == <<"resync">>
           begin == first \o steps
           all == begin \o last
<1>1. "store" \in StepNames /\ "resync" \in StepNames
  BY DEF StepNames
<1> DEFINE S == StepNames
<1> HIDE DEF S
<1>2. lock \in S /\ steps \in Seq(S) /\ "store" \in S /\ "resync" \in S
  BY <1>1 DEF S
<1>3. first \in Seq(S) /\ Len(first) = 2 /\ first[1] = "store" /\ first[2] = lock
  BY <1>2, TupleOfTwo, Zenon
<1>4. last \in Seq(S) /\ Len(last) = 1 /\ last[1] = "resync"
  BY <1>2, TupleOfOne, Zenon
<1>5. Locked(lock, steps) = all
  BY DEF Locked
<1> HIDE DEF first, last
<1>6. /\ begin \in Seq(S)
      /\ Len(begin) = Len(first) + Len(steps)
      /\ \A i \in 1..(Len(first) + Len(steps)) :
           begin[i] = IF i <= Len(first) THEN first[i] ELSE steps[i - Len(first)]
  BY <1>2, <1>3, ConcatProperties, Zenon
<1>7. Len(steps) \in Nat
  BY <1>2
<1> HIDE DEF begin
<1>8. /\ begin \in Seq(S) /\ Len(begin) = Len(steps) + 2
      /\ begin[1] = "store" /\ begin[2] = lock
      /\ \A i \in 1..Len(steps) : begin[i + 2] = steps[i]
  BY <1>3, <1>6, <1>7
<1>9. /\ Len(all) = Len(begin) + Len(last)
      /\ \A i \in 1..(Len(begin) + Len(last)) :
           all[i] = IF i <= Len(begin) THEN begin[i] ELSE last[i - Len(begin)]
  BY <1>4, <1>8, ConcatProperties, Zenon
<1> HIDE DEF all
<1> QED
  BY <1>4, <1>5, <1>7, <1>8, <1>9

\* The step lists one by one.
LEMMA StepLists ==
  ASSUME NEW t \in AllTargets
  PROVE  StepsOf(t) = IF t = "modify" THEN Locked("unsync", <<"work">>)
                      ELSE IF t = "terminate"
                      THEN Locked("unsync", <<"work", "set_terminated">>)
                      ELSE IF t = "modify_note" THEN <<"store", "note">>
                      ELSE Locked("unsync_unchecked", <<"work">>)
<1> DEFINE modify == Locked("unsync", <<"work">>)
           terminate == Locked("unsync", <<"work", "set_terminated">>)
           validate == Locked("unsync_unchecked", <<"work">>)
           note == <<"store", "note">>
<1>1. StepsOf(t) = CASE t = "modify" -> modify
                     [] t = "terminate" -> terminate
                     [] t \in {"validate", "reconcile"} -> validate
                     [] t = "modify_note" -> note
  BY DEF StepsOf
<1> HIDE DEF modify, terminate, validate, note
<1>2. StepsOf(t) = IF t = "modify" THEN modify
                   ELSE IF t = "terminate" THEN terminate
                   ELSE IF t = "modify_note" THEN note ELSE validate
  BY <1>1 DEF AllTargets
<1> QED
  BY <1>2 DEF modify, terminate, validate, note

\* What the proofs use of them: the first step stores the relation, the last one of a
\* locking workflow unlocks, and the second one may lock.
LEMMA Lists ==
  ASSUME NEW t \in AllTargets
  PROVE  /\ Len(StepsOf(t)) \in 2..5
         /\ \A i \in 1..Len(StepsOf(t)) :
              /\ StepsOf(t)[i] \in StepNames
              /\ StepsOf(t)[i] = "store" <=> i = 1
              /\ StepsOf(t)[i] = "resync" <=> i = Len(StepsOf(t)) /\ t # "modify_note"
              /\ StepsOf(t)[i] = "unsync" => i = 2 /\ t \in Checked
              /\ StepsOf(t)[i] = "note" => t = "modify_note"
              /\ t = "modify_note" => StepsOf(t)[i] \in {"store", "note"}
<1>1. CASE t = "terminate"
  <2> DEFINE own == <<"work", "set_terminated">>
  <2>1. own \in Seq(StepNames) /\ Len(own) = 2
        /\ own[1] = "work" /\ own[2] = "set_terminated"
    <3>1. "work" \in StepNames /\ "set_terminated" \in StepNames
      BY DEF StepNames
    <3> QED
      BY <3>1, TupleOfTwo, Zenon
  <2>2. StepsOf(t) = Locked("unsync", own)
    BY <1>1, StepLists
  <2> HIDE DEF own
  <2>3. /\ Len(StepsOf(t)) = 5
        /\ StepsOf(t)[1] = "store" /\ StepsOf(t)[2] = "unsync" /\ StepsOf(t)[3] = "work"
        /\ StepsOf(t)[4] = "set_terminated" /\ StepsOf(t)[5] = "resync"
    <3>1. "unsync" \in StepNames
      BY DEF StepNames
    <3>2. /\ Len(Locked("unsync", own)) = Len(own) + 3
          /\ Locked("unsync", own)[1] = "store"
          /\ Locked("unsync", own)[2] = "unsync"
          /\ \A i \in 1..Len(own) : Locked("unsync", own)[i + 2] = own[i]
          /\ Locked("unsync", own)[Len(own) + 3] = "resync"
      BY <2>1, <3>1, LockedSteps
    <3> QED
      BY <2>1, <2>2, <3>2
  <2>4. ASSUME NEW i \in 1..5
        PROVE  /\ StepsOf(t)[i] \in StepNames \ {"note"}
               /\ StepsOf(t)[i] = "store" <=> i = 1
               /\ StepsOf(t)[i] = "resync" <=> i = 5
               /\ StepsOf(t)[i] = "unsync" <=> i = 2
    BY <2>3 DEF StepNames
  <2>5. t \in Checked /\ t # "modify_note" /\ Len(StepsOf(t)) \in 2..5
    BY <1>1, <2>3 DEF Checked
  <2>6. 1..Len(StepsOf(t)) = 1..5
    BY <2>3
  <2> QED
    BY <2>3, <2>4, <2>5, <2>6
<1>2. CASE t \in {"modify", "validate", "reconcile"}
  <2> DEFINE own == <<"work">>
             lock == IF t = "modify" THEN "unsync" ELSE "unsync_unchecked"
  <2>1. own \in Seq(StepNames) /\ Len(own) = 1 /\ own[1] = "work" /\ lock \in StepNames
    <3>1. "work" \in StepNames /\ lock \in StepNames
      BY DEF StepNames
    <3> QED
      BY <3>1, TupleOfOne, Zenon
  <2>2. StepsOf(t) = Locked(lock, own)
    BY <1>2, StepLists
  <2> HIDE DEF own, lock
  <2>3. /\ Len(StepsOf(t)) = 4
        /\ StepsOf(t)[1] = "store" /\ StepsOf(t)[2] = lock /\ StepsOf(t)[3] = "work"
        /\ StepsOf(t)[4] = "resync"
    <3>1. /\ Len(Locked(lock, own)) = Len(own) + 3
          /\ Locked(lock, own)[1] = "store"
          /\ Locked(lock, own)[2] = lock
          /\ \A i \in 1..Len(own) : Locked(lock, own)[i + 2] = own[i]
          /\ Locked(lock, own)[Len(own) + 3] = "resync"
      BY <2>1, LockedSteps
    <3> QED
      BY <2>1, <2>2, <3>1
  <2> QED
    BY <1>2, <2>3 DEF Checked, StepNames, lock
<1>3. CASE t = "modify_note"
  <2>1. StepsOf(t) = <<"store", "note">>
    BY <1>3, StepLists
  <2> QED
    BY <1>3, <2>1 DEF StepNames
<1> QED
  BY <1>1, <1>2, <1>3 DEF AllTargets
-----------------------------------------------------------------------------
\* The step a process is at.
LEMMA StepAt ==
  ASSUME Typing, NEW p \in Processes, ~AtEnd(p)
  PROVE  /\ proc[p].target \in AllTargets
         /\ proc[p].step \in 1..Len(StepsOf(proc[p].target))
         /\ Len(StepsOf(proc[p].target)) \in 2..5
         /\ StepOf(p) \in StepNames
         /\ StepOf(p) = "store" <=> proc[p].step = 1
         /\ StepOf(p) = "resync" <=> /\ proc[p].step = Len(StepsOf(proc[p].target))
                                     /\ proc[p].target # "modify_note"
         /\ StepOf(p) = "unsync" => proc[p].step = 2 /\ proc[p].target \in Checked
         /\ proc[p].target = "modify_note" => StepOf(p) \in {"store", "note"}
<1>1. proc[p].target \in AllTargets /\ proc[p].step \in 1..6
  BY DEF Typing, TypeOK
<1>2. Len(StepsOf(proc[p].target)) \in 2..5
  BY <1>1, Lists
<1>3. proc[p].step \in 1..Len(StepsOf(proc[p].target))
  BY <1>1, <1>2 DEF AtEnd
<1> QED
  BY <1>1, <1>2, <1>3, Lists DEF StepOf

\* What a step saves.
LEMMA ReturnedModel ==
  ASSUME Typing, NEW p \in Processes, exec[p] = "loaded", NEW model \in Returned(p)
  PROVE  /\ model \in Rows
         /\ proc[p].target # "modify_note"
         /\ StepOf(p) = "resync" => model.insync
         /\ StepOf(p) \in {"unsync", "unsync_unchecked"} => ~model.insync
         /\ StepOf(p) \in {"work", "set_terminated"} => model.insync = copy[p].insync
         /\ model.status # "terminated" => copy[p].status # "terminated"
         /\ model.status = "terminated" =>
              copy[p].status = "terminated" \/ StepOf(p) = "set_terminated"
         /\ StepOf(p) \in {"unsync", "unsync_unchecked", "work", "set_terminated", "resync"}
<1>1. ~AtEnd(p) /\ copy[p] \in Rows
  BY DEF Typing, TypeOK, Places
<1>2. StepOf(p) \in StepNames
  BY <1>1, StepAt
<1>3. proc[p].target = "modify_note" => StepOf(p) \in {"store", "note"}
  BY <1>1, StepAt
<1>4. CASE StepOf(p) \in {"store", "note"}
  BY <1>4 DEF Returned
<1>5. CASE StepOf(p) = "work"
  BY <1>1, <1>3, <1>5 DEF Returned, Rows
<1>6. CASE StepOf(p) \in {"unsync", "unsync_unchecked"}
  BY <1>1, <1>3, <1>6 DEF Returned, Rows
<1>7. CASE StepOf(p) = "set_terminated"
  BY <1>1, <1>3, <1>7 DEF Returned, Rows
<1>8. CASE StepOf(p) = "resync"
  BY <1>1, <1>3, <1>8 DEF Returned, Rows
<1> QED
  BY <1>2, <1>4, <1>5, <1>6, <1>7, <1>8 DEF StepNames

\* A commit changes the row of its subscription at most, by one of these models, and
\* leaves what set_in_sync has locked as it is.
LEMMA CommitRow ==
  ASSUME Typing, NEW p \in Processes, Commit(p)
  PROVE  \/ UNCHANGED <<row, stale>> /\ StepOf(p) \in {"store", "note", "work"}
         \/ \E model \in Returned(p) :
              /\ row' = [row EXCEPT ![proc[p].on] = model]
              /\ proc[p].on \in unlocking => model = row[proc[p].on]
              /\ stale' = IF copy[p] = row[proc[p].on] THEN stale
                          ELSE stale \cup {proc[p].on}
BY DEF Commit, Save
-----------------------------------------------------------------------------
(* Types and places *)

LEMMA TypingInit == Init => Typing
<1> SUFFICES ASSUME Init PROVE Typing
  OBVIOUS
<1>1. TypeOK
  <2>1. (CHOOSE s \in Subscriptions : TRUE) \in Subscriptions
    BY LockAssumption
  <2>2. row \in [Subscriptions -> Rows] /\ copy \in [Processes -> Rows]
    <3> DEFINE active == [insync |-> TRUE, status |-> "active"]
    <3>1. active \in Rows
      BY DEF Rows
    <3>2. row \in [Subscriptions -> {active}] /\ copy = [p \in Processes |-> active]
      BY DEF Init, NoCopy
    <3> HIDE DEF active
    <3> QED
      BY <3>1, <3>2
  <2> DEFINE s == CHOOSE s \in Subscriptions : TRUE
  <2>3. s \in Subscriptions /\ proc = [p \in Processes |-> NoProcess(s)]
    BY <2>1 DEF Init
  <2> HIDE DEF s
  <2>4. NoProcess(s) \in [target : AllTargets, on : Subscriptions, step : 1..6,
                          status : {"none", "running", "failed", "completed", "aborted"},
                          related : BOOLEAN]
    BY <2>3 DEF NoProcess, AllTargets
  <2> QED
    BY <2>2, <2>3, <2>4 DEF Init, TypeOK
<1>2. ASSUME NEW p \in Processes
      PROVE  /\ exec[p] = "off" /\ proc[p].step = 1 /\ proc[p].status = "none"
             /\ proc[p].target \in AllTargets
  BY DEF Init, NoProcess, AllTargets
<1>3. Places
  BY <1>2, Lists DEF Places, Init, Relates
<1> QED
  BY <1>1, <1>3 DEF Typing

\* Only the process that takes a step gets another place.
LEMMA OthersStay ==
  ASSUME Typing, NEW p \in Processes,
         \A q \in Processes \ {p} :
           proc'[q] = proc[q] /\ exec'[q] = exec[q] /\ (q \in holds' => q \in holds),
         aborted \subseteq aborted',
         /\ exec'[p] # "off" => proc'[p].status \notin {"none", "completed"}
         /\ exec'[p] \in {"loaded", "committed"} =>
              proc'[p].step <= Len(StepsOf(proc'[p].target))
         /\ proc'[p].step <= Len(StepsOf(proc'[p].target)) + 1
         /\ Relates(proc'[p], exec'[p])
         /\ proc'[p].status = "aborted" => p \in aborted'
         /\ p \in holds' => Unfinished(p)' /\ proc'[p].step >= 2 /\ proc'[p].target \in Checked,
         proc'[p].step \in Nat, proc'[p].target \in AllTargets
  PROVE  Places'
<1>1. ASSUME NEW q \in Processes \ {p}
      PROVE  (AtEnd(q) <=> AtEnd(q)') /\ (Unfinished(q) <=> Unfinished(q)')
  BY <1>1 DEF AtEnd, Unfinished
<1>2. ~AtEnd(p)' <=> proc'[p].step <= Len(StepsOf(proc'[p].target))
  BY Lists DEF AtEnd
<1>3. ASSUME NEW q \in Processes \ {p}
      PROVE  /\ exec'[q] # "off" => proc'[q].status \notin {"none", "completed"}
             /\ exec'[q] \in {"loaded", "committed"} => ~AtEnd(q)'
             /\ proc'[q].step <= Len(StepsOf(proc'[q].target)) + 1
             /\ Relates(proc'[q], exec'[q])
             /\ proc'[q].status = "aborted" => q \in aborted'
             /\ q \in holds' => Unfinished(q)' /\ proc'[q].step >= 2
                                /\ proc'[q].target \in Checked
  BY <1>1, <1>3 DEF Typing, Places
<1> QED
  BY <1>2, <1>3 DEF Places

\* Starting a workflow.
LEMMA TypingStart ==
  ASSUME Typing, NEW p \in Processes, NEW s \in Subscriptions, NEW target \in Targets,
         Start(p, s, target)
  PROVE  Typing'
<1>1. target \in AllTargets
  BY LockAssumption
<1>2. TypeOK'
  BY <1>1 DEF Typing, TypeOK, Start
<1>3. proc'[p] = [target |-> target, on |-> s, step |-> 1, status |-> "running",
                  related |-> FALSE]
      /\ exec'[p] = "ready"
  BY DEF Typing, TypeOK, Start
<1>4. p \notin holds /\ holds' = holds /\ aborted' = aborted
  BY DEF Start, Typing, Places, Unfinished
<1>5. \A q \in Processes \ {p} : proc'[q] = proc[q] /\ exec'[q] = exec[q]
  BY DEF Typing, TypeOK, Start
<1>6. Len(StepsOf(target)) \in 2..5
  BY <1>1, Lists
<1>7. Relates(proc'[p], exec'[p])
  BY <1>3 DEF Relates
<1>8. Places'
  BY <1>1, <1>3, <1>4, <1>5, <1>6, <1>7, OthersStay
<1> QED
  BY <1>2, <1>8 DEF Typing

ProcessRecords ==
  [target : AllTargets, on : Subscriptions, step : 1..6,
   status : {"none", "running", "failed", "completed", "aborted"}, related : BOOLEAN]

\* A step that moves the executor to e, makes r of the process and c of its copy.
Moves(p, e, r, c) ==
  /\ exec' = [exec EXCEPT ![p] = e]
  /\ proc' = [proc EXCEPT ![p] = r]
  /\ copy' = [copy EXCEPT ![p] = c]
  /\ UNCHANGED <<row, unlocking, holds, stale, forced>>
  /\ aborted \subseteq aborted' /\ aborted' \subseteq Processes
  /\ r.target = proc[p].target /\ r.related = proc[p].related /\ r.status # "none"
  /\ e # "off" => r.status # "completed"
  /\ e \in {"loaded", "committed"} => r.step <= Len(StepsOf(r.target))
  /\ r.step <= Len(StepsOf(r.target)) + 1
  /\ Relates(r, e)
  /\ r.status = "aborted" => p \in aborted'
  /\ p \in holds =>
       /\ r.status # "completed"
       /\ r.step >= proc[p].step /\ r.step <= Len(StepsOf(r.target))
       /\ r.step = Len(StepsOf(r.target)) => e # "committed"

LEMMA TypingMove ==
  ASSUME Typing, NEW p \in Processes,
         NEW e \in {"off", "ready", "loaded", "committed"},
         NEW r \in ProcessRecords, NEW c \in Rows,
         Moves(p, e, r, c)
  PROVE  Typing'
<1> USE DEF Moves
<1>1. TypeOK'
  BY DEF Typing, TypeOK, ProcessRecords
<1>2. exec'[p] = e /\ proc'[p] = r
  BY DEF Typing, TypeOK
<1>3. \A q \in Processes \ {p} : proc'[q] = proc[q] /\ exec'[q] = exec[q]
  BY DEF Typing, TypeOK
<1>4. proc[p].target \in AllTargets /\ proc[p].step \in 1..6 /\ r.step \in 1..6
  BY DEF Typing, TypeOK, ProcessRecords
<1>5. p \in holds => /\ proc[p].step >= 2 /\ proc[p].target \in Checked
                     /\ proc[p].target # "modify_note"
  BY DEF Typing, Places, Unfinished
<1>6. Len(StepsOf(r.target)) \in 2..5
  BY <1>4, Lists
<1>7. p \in holds' => Unfinished(p)' /\ r.step >= 2 /\ r.target \in Checked
  BY <1>2, <1>4, <1>5, <1>6 DEF Unfinished, AtEnd
<1>8. r.step \in Nat /\ r.target \in AllTargets
  BY <1>4
<1>9. Places'
  BY <1>2, <1>3, <1>7, <1>8, OthersStay
<1> QED
  BY <1>1, <1>9 DEF Typing

\* What is known of one process.
LEMMA OfProcess ==
  ASSUME Typing, NEW p \in Processes
  PROVE  /\ proc[p] \in ProcessRecords
         /\ copy[p] \in Rows /\ row[proc[p].on] \in Rows /\ NoCopy \in Rows
         /\ Len(StepsOf(proc[p].target)) \in 2..5
         /\ exec[p] \in {"off", "ready", "loaded", "committed"}
         /\ copy = [copy EXCEPT ![p] = copy[p]]
         /\ aborted \subseteq Processes
         /\ exec[p] # "off" => proc[p].status \notin {"none", "completed"}
         /\ exec[p] \in {"loaded", "committed"} =>
              proc[p].step <= Len(StepsOf(proc[p].target))
         /\ proc[p].step <= Len(StepsOf(proc[p].target)) + 1 /\ proc[p].step \in 1..6
         /\ Relates(proc[p], exec[p])
         /\ proc[p].status = "aborted" => p \in aborted
         /\ p \in holds =>
              /\ proc[p].status \notin {"none", "completed"}
              /\ proc[p].step <= Len(StepsOf(proc[p].target))
              /\ proc[p].step = Len(StepsOf(proc[p].target)) => exec[p] # "committed"
<1>1. proc[p] \in ProcessRecords /\ copy[p] \in Rows /\ row[proc[p].on] \in Rows
  BY DEF Typing, TypeOK, ProcessRecords
<1>2. NoCopy \in Rows
  BY DEF NoCopy, Rows
<1>3. Len(StepsOf(proc[p].target)) \in 2..5 /\ proc[p].step \in 1..6
  BY <1>1, Lists DEF ProcessRecords
<1>4. copy = [copy EXCEPT ![p] = copy[p]] /\ aborted \subseteq Processes
      /\ exec[p] \in {"off", "ready", "loaded", "committed"}
  BY DEF Typing, TypeOK
<1> QED
  BY <1>1, <1>2, <1>3, <1>4 DEF Typing, Places, AtEnd, Unfinished

\* Whether the relation is stored does not depend on the status.
LEMMA StaysRelated ==
  ASSUME Typing, NEW p \in Processes, NEW r, NEW e,
         r.step = proc[p].step, r.related = proc[p].related,
         e = "committed" => exec[p] = "committed"
  PROVE  Relates(r, e)
BY DEF Typing, Places, Relates

LEMMA TypingLoad ==
  ASSUME Typing, NEW p \in Processes, Load(p)
  PROVE  Typing'
<1> DEFINE r == proc[p]
<1>1. r \in ProcessRecords /\ proc' = [proc EXCEPT ![p] = r]
  BY OfProcess DEF Load, Typing, TypeOK
<1>2. r.target = proc[p].target /\ r.related = proc[p].related
      /\ r.status = proc[p].status /\ r.step = proc[p].step
  OBVIOUS
<1>3. Relates(r, "loaded")
  BY <1>2, StaysRelated
<1> HIDE DEF r
<1>4. /\ exec' = [exec EXCEPT ![p] = "loaded"]
      /\ copy' = [copy EXCEPT ![p] = row[proc[p].on]]
      /\ UNCHANGED <<row, unlocking, holds, stale, forced>>
      /\ aborted' = aborted /\ exec[p] = "ready"
      /\ ~(proc[p].step > Len(StepsOf(proc[p].target)))
  BY DEF Load, AtEnd
<1>5. /\ aborted \subseteq Processes
      /\ exec[p] # "off" => proc[p].status \notin {"none", "completed"}
      /\ exec[p] \in {"loaded", "committed"} =>
           proc[p].step <= Len(StepsOf(proc[p].target))
      /\ proc[p].step <= Len(StepsOf(proc[p].target)) + 1
      /\ proc[p].step \in 1..6 /\ Len(StepsOf(proc[p].target)) \in 2..5
      /\ proc[p].status = "aborted" => p \in aborted
      /\ p \in holds =>
           /\ proc[p].status \notin {"none", "completed"}
           /\ proc[p].step <= Len(StepsOf(proc[p].target))
           /\ proc[p].step = Len(StepsOf(proc[p].target)) => exec[p] # "committed"
  BY OfProcess
<1>6. Moves(p, "loaded", r, row[proc[p].on])
  BY <1>1, <1>2, <1>3, <1>4, <1>5 DEF Moves
<1> QED
  BY <1>1, <1>6, OfProcess, TypingMove

LEMMA TypingRaise ==
  ASSUME Typing, NEW p \in Processes, Raise(p)
  PROVE  Typing'
<1> DEFINE r == [proc[p] EXCEPT !.status = "failed"]
<1>1. r \in ProcessRecords /\ proc' = [proc EXCEPT ![p] = r]
  BY OfProcess DEF Raise, ProcessRecords
<1>2. r.target = proc[p].target /\ r.related = proc[p].related /\ r.status = "failed"
      /\ r.step = proc[p].step
  BY OfProcess DEF ProcessRecords
<1> HIDE DEF r
<1>3. Relates(r, "off")
  BY <1>2, StaysRelated
<1>4. /\ exec' = [exec EXCEPT ![p] = "off"]
      /\ copy' = [copy EXCEPT ![p] = NoCopy]
      /\ UNCHANGED <<row, unlocking, holds, stale, forced>>
      /\ aborted' = aborted /\ exec[p] = "loaded"
  BY DEF Raise, AtEnd
<1>5. /\ aborted \subseteq Processes
      /\ exec[p] # "off" => proc[p].status \notin {"none", "completed"}
      /\ exec[p] \in {"loaded", "committed"} =>
           proc[p].step <= Len(StepsOf(proc[p].target))
      /\ proc[p].step <= Len(StepsOf(proc[p].target)) + 1
      /\ proc[p].step \in 1..6 /\ Len(StepsOf(proc[p].target)) \in 2..5
      /\ proc[p].status = "aborted" => p \in aborted
      /\ p \in holds =>
           /\ proc[p].status \notin {"none", "completed"}
           /\ proc[p].step <= Len(StepsOf(proc[p].target))
           /\ proc[p].step = Len(StepsOf(proc[p].target)) => exec[p] # "committed"
  BY OfProcess
<1>6. Moves(p, "off", r, NoCopy)
  BY <1>1, <1>2, <1>3, <1>4, <1>5 DEF Moves
<1> QED
  BY <1>1, <1>6, OfProcess, TypingMove

LEMMA TypingLog ==
  ASSUME Typing, NEW p \in Processes, Log(p)
  PROVE  Typing'
<1>0. proc[p].step + 1 \in 1..6
  <2>1. exec[p] = "committed"
    BY DEF Log
  <2>2. proc[p].step \in 1..6 /\ Len(StepsOf(proc[p].target)) \in 2..5
    BY OfProcess
  <2>3. proc[p].step <= Len(StepsOf(proc[p].target))
    BY <2>1, OfProcess
  <2>4. \A s \in 1..6, n \in 2..5 : s <= n => s + 1 \in 1..6
    OBVIOUS
  <2> QED
    BY <2>2, <2>3, <2>4
<1> DEFINE r == [proc[p] EXCEPT !.status = "running", !.step = @ + 1]
<1>1. r \in ProcessRecords /\ proc' = [proc EXCEPT ![p] = r]
  BY <1>0, OfProcess DEF Log, ProcessRecords
<1>2. r.target = proc[p].target /\ r.related = proc[p].related /\ r.status = "running"
      /\ r.step = proc[p].step + 1
  BY OfProcess DEF ProcessRecords
<1>3. Relates(r, "ready")
  BY <1>2, OfProcess DEF Relates, Log
<1> HIDE DEF r
<1>4. /\ exec' = [exec EXCEPT ![p] = "ready"]
      /\ copy' = [copy EXCEPT ![p] = copy[p]]
      /\ UNCHANGED <<row, unlocking, holds, stale, forced>>
      /\ aborted' = aborted /\ exec[p] = "committed"
  BY OfProcess DEF Log, AtEnd
<1>5. /\ aborted \subseteq Processes
      /\ exec[p] # "off" => proc[p].status \notin {"none", "completed"}
      /\ exec[p] \in {"loaded", "committed"} =>
           proc[p].step <= Len(StepsOf(proc[p].target))
      /\ proc[p].step <= Len(StepsOf(proc[p].target)) + 1
      /\ proc[p].step \in 1..6 /\ Len(StepsOf(proc[p].target)) \in 2..5
      /\ proc[p].status = "aborted" => p \in aborted
      /\ p \in holds =>
           /\ proc[p].status \notin {"none", "completed"}
           /\ proc[p].step <= Len(StepsOf(proc[p].target))
           /\ proc[p].step = Len(StepsOf(proc[p].target)) => exec[p] # "committed"
  BY OfProcess
<1>6. Moves(p, "ready", r, copy[p])
  BY <1>1, <1>2, <1>3, <1>4, <1>5 DEF Moves
<1> QED
  BY <1>1, <1>6, OfProcess, TypingMove

LEMMA TypingLogFails ==
  ASSUME Typing, NEW p \in Processes, LogFails(p)
  PROVE  Typing'
<1> DEFINE r == [proc[p] EXCEPT !.status = "failed"]
<1>1. r \in ProcessRecords /\ proc' = [proc EXCEPT ![p] = r]
  BY OfProcess DEF LogFails, ProcessRecords
<1>2. r.target = proc[p].target /\ r.related = proc[p].related /\ r.status = "failed"
      /\ r.step = proc[p].step
  BY OfProcess DEF ProcessRecords
<1> HIDE DEF r
<1>3. Relates(r, "off")
  BY <1>2, StaysRelated
<1>4. /\ exec' = [exec EXCEPT ![p] = "off"]
      /\ copy' = [copy EXCEPT ![p] = copy[p]]
      /\ UNCHANGED <<row, unlocking, holds, stale, forced>>
      /\ aborted' = aborted /\ exec[p] = "committed"
  BY OfProcess DEF LogFails, AtEnd
<1>5. /\ aborted \subseteq Processes
      /\ exec[p] # "off" => proc[p].status \notin {"none", "completed"}
      /\ exec[p] \in {"loaded", "committed"} =>
           proc[p].step <= Len(StepsOf(proc[p].target))
      /\ proc[p].step <= Len(StepsOf(proc[p].target)) + 1
      /\ proc[p].step \in 1..6 /\ Len(StepsOf(proc[p].target)) \in 2..5
      /\ proc[p].status = "aborted" => p \in aborted
      /\ p \in holds =>
           /\ proc[p].status \notin {"none", "completed"}
           /\ proc[p].step <= Len(StepsOf(proc[p].target))
           /\ proc[p].step = Len(StepsOf(proc[p].target)) => exec[p] # "committed"
  BY OfProcess
<1>6. Moves(p, "off", r, copy[p])
  BY <1>1, <1>2, <1>3, <1>4, <1>5 DEF Moves
<1> QED
  BY <1>1, <1>6, OfProcess, TypingMove

LEMMA TypingDone ==
  ASSUME Typing, NEW p \in Processes, Done(p)
  PROVE  Typing'
<1> DEFINE r == [proc[p] EXCEPT !.status = "completed"]
<1>1. r \in ProcessRecords /\ proc' = [proc EXCEPT ![p] = r]
  BY OfProcess DEF Done, ProcessRecords
<1>2. r.target = proc[p].target /\ r.related = proc[p].related /\ r.status = "completed"
      /\ r.step = proc[p].step
  BY OfProcess DEF ProcessRecords
<1> HIDE DEF r
<1>3. Relates(r, "off")
  BY <1>2, StaysRelated
<1>4. /\ exec' = [exec EXCEPT ![p] = "off"]
      /\ copy' = [copy EXCEPT ![p] = copy[p]]
      /\ UNCHANGED <<row, unlocking, holds, stale, forced>>
      /\ aborted' = aborted /\ exec[p] = "ready"
      /\ proc[p].step > Len(StepsOf(proc[p].target))
  BY OfProcess DEF Done, AtEnd
<1>5. /\ aborted \subseteq Processes
      /\ exec[p] # "off" => proc[p].status \notin {"none", "completed"}
      /\ exec[p] \in {"loaded", "committed"} =>
           proc[p].step <= Len(StepsOf(proc[p].target))
      /\ proc[p].step <= Len(StepsOf(proc[p].target)) + 1
      /\ proc[p].step \in 1..6 /\ Len(StepsOf(proc[p].target)) \in 2..5
      /\ proc[p].status = "aborted" => p \in aborted
      /\ p \in holds =>
           /\ proc[p].status \notin {"none", "completed"}
           /\ proc[p].step <= Len(StepsOf(proc[p].target))
           /\ proc[p].step = Len(StepsOf(proc[p].target)) => exec[p] # "committed"
  BY OfProcess
<1>6. Moves(p, "off", r, copy[p])
  BY <1>1, <1>2, <1>3, <1>4, <1>5 DEF Moves
<1> QED
  BY <1>1, <1>6, OfProcess, TypingMove

LEMMA TypingCrash ==
  ASSUME Typing, NEW p \in Processes, Crash(p)
  PROVE  Typing'
<1> DEFINE r == proc[p]
<1>1. r \in ProcessRecords /\ proc' = [proc EXCEPT ![p] = r]
  BY OfProcess DEF Crash, Typing, TypeOK
<1>2. r.target = proc[p].target /\ r.related = proc[p].related
      /\ r.status = proc[p].status /\ r.step = proc[p].step
  OBVIOUS
<1>3. Relates(r, "off")
  BY <1>2, StaysRelated
<1> HIDE DEF r
<1>4. /\ exec' = [exec EXCEPT ![p] = "off"]
      /\ copy' = [copy EXCEPT ![p] = NoCopy]
      /\ UNCHANGED <<row, unlocking, holds, stale, forced>>
      /\ aborted' = aborted /\ exec[p] # "off"
  BY DEF Crash, AtEnd
<1>5. /\ aborted \subseteq Processes
      /\ exec[p] # "off" => proc[p].status \notin {"none", "completed"}
      /\ exec[p] \in {"loaded", "committed"} =>
           proc[p].step <= Len(StepsOf(proc[p].target))
      /\ proc[p].step <= Len(StepsOf(proc[p].target)) + 1
      /\ proc[p].step \in 1..6 /\ Len(StepsOf(proc[p].target)) \in 2..5
      /\ proc[p].status = "aborted" => p \in aborted
      /\ p \in holds =>
           /\ proc[p].status \notin {"none", "completed"}
           /\ proc[p].step <= Len(StepsOf(proc[p].target))
           /\ proc[p].step = Len(StepsOf(proc[p].target)) => exec[p] # "committed"
  BY OfProcess
<1>6. Moves(p, "off", r, NoCopy)
  BY <1>1, <1>2, <1>3, <1>4, <1>5 DEF Moves
<1> QED
  BY <1>1, <1>6, OfProcess, TypingMove

LEMMA TypingResume ==
  ASSUME Typing, NEW p \in Processes, Resume(p)
  PROVE  Typing'
<1> DEFINE r == [proc[p] EXCEPT !.status = "running"]
<1>1. r \in ProcessRecords /\ proc' = [proc EXCEPT ![p] = r]
  BY OfProcess DEF Resume, ProcessRecords
<1>2. r.target = proc[p].target /\ r.related = proc[p].related /\ r.status = "running"
      /\ r.step = proc[p].step
  BY OfProcess DEF ProcessRecords
<1> HIDE DEF r
<1>3. Relates(r, "ready")
  BY <1>2, StaysRelated
<1>4. /\ exec' = [exec EXCEPT ![p] = "ready"]
      /\ copy' = [copy EXCEPT ![p] = copy[p]]
      /\ UNCHANGED <<row, unlocking, holds, stale, forced>>
      /\ aborted' = aborted
  BY OfProcess DEF Resume, AtEnd
<1>5. /\ aborted \subseteq Processes
      /\ exec[p] # "off" => proc[p].status \notin {"none", "completed"}
      /\ exec[p] \in {"loaded", "committed"} =>
           proc[p].step <= Len(StepsOf(proc[p].target))
      /\ proc[p].step <= Len(StepsOf(proc[p].target)) + 1
      /\ proc[p].step \in 1..6 /\ Len(StepsOf(proc[p].target)) \in 2..5
      /\ proc[p].status = "aborted" => p \in aborted
      /\ p \in holds =>
           /\ proc[p].status \notin {"none", "completed"}
           /\ proc[p].step <= Len(StepsOf(proc[p].target))
           /\ proc[p].step = Len(StepsOf(proc[p].target)) => exec[p] # "committed"
  BY OfProcess
<1>6. Moves(p, "ready", r, copy[p])
  BY <1>1, <1>2, <1>3, <1>4, <1>5 DEF Moves
<1> QED
  BY <1>1, <1>6, OfProcess, TypingMove

LEMMA TypingAbort ==
  ASSUME Typing, NEW p \in Processes, Abort(p)
  PROVE  Typing'
<1> DEFINE r == [proc[p] EXCEPT !.status = "aborted"]
<1>1. r \in ProcessRecords /\ proc' = [proc EXCEPT ![p] = r]
  BY OfProcess DEF Abort, ProcessRecords
<1>2. r.target = proc[p].target /\ r.related = proc[p].related /\ r.status = "aborted"
      /\ r.step = proc[p].step
  BY OfProcess DEF ProcessRecords
<1> HIDE DEF r
<1>3. Relates(r, exec[p])
  BY <1>2, StaysRelated
<1>4. /\ exec' = [exec EXCEPT ![p] = exec[p]]
      /\ copy' = [copy EXCEPT ![p] = copy[p]]
      /\ UNCHANGED <<row, unlocking, holds, stale, forced>>
      /\ aborted' = aborted \cup {p}
      /\ proc[p].status \in {"failed", "running"}
  BY OfProcess DEF Abort, AtEnd, Typing, TypeOK
<1>5. /\ aborted \subseteq Processes
      /\ exec[p] # "off" => proc[p].status \notin {"none", "completed"}
      /\ exec[p] \in {"loaded", "committed"} =>
           proc[p].step <= Len(StepsOf(proc[p].target))
      /\ proc[p].step <= Len(StepsOf(proc[p].target)) + 1
      /\ proc[p].step \in 1..6 /\ Len(StepsOf(proc[p].target)) \in 2..5
      /\ proc[p].status = "aborted" => p \in aborted
      /\ p \in holds =>
           /\ proc[p].status \notin {"none", "completed"}
           /\ proc[p].step <= Len(StepsOf(proc[p].target))
           /\ proc[p].step = Len(StepsOf(proc[p].target)) => exec[p] # "committed"
  BY OfProcess
<1>6. Moves(p, exec[p], r, copy[p])
  BY <1>1, <1>2, <1>3, <1>4, <1>5 DEF Moves
<1> QED
  BY <1>1, <1>6, OfProcess, TypingMove

\* What a commit does to the history.
LEMMA CommitHolds ==
  ASSUME Typing, NEW p \in Processes, Commit(p)
  PROVE  /\ StepOf(p) = "unsync" => holds' = holds \cup {p}
         /\ StepOf(p) = "resync" => holds' = holds \ {p}
         /\ StepOf(p) \notin {"unsync", "resync"} => holds' = holds
BY DEF Commit

LEMMA TypingCommit ==
  ASSUME Typing, NEW p \in Processes, Commit(p)
  PROVE  Typing'
<1> DEFINE r == [proc[p] EXCEPT !.related = @ \/ StepOf(p) = "store"]
<1>1. /\ exec[p] = "loaded" /\ exec' = [exec EXCEPT ![p] = "committed"]
      /\ proc' = [proc EXCEPT ![p] = r] /\ copy' = [copy EXCEPT ![p] = NoCopy]
      /\ unlocking' = unlocking /\ aborted' = aborted
      /\ forced' \in {forced, forced \cup {proc[p].on}}
  BY DEF Commit
<1>2. r \in ProcessRecords
  BY OfProcess DEF ProcessRecords
<1>3. r.target = proc[p].target /\ r.step = proc[p].step /\ r.status = proc[p].status
      /\ r.on = proc[p].on /\ r.related = (proc[p].related \/ StepOf(p) = "store")
  BY OfProcess DEF ProcessRecords
<1> HIDE DEF r
<1>4. row' \in [Subscriptions -> Rows] /\ stale' \subseteq Subscriptions
  <2>1. CASE UNCHANGED <<row, stale>>
    BY <2>1 DEF Typing, TypeOK
  <2>2. ASSUME NEW model \in Returned(p),
               row' = [row EXCEPT ![proc[p].on] = model],
               stale' \in {stale, stale \cup {proc[p].on}}
        PROVE  row' \in [Subscriptions -> Rows] /\ stale' \subseteq Subscriptions
    <3>1. model \in Rows /\ proc[p].on \in Subscriptions
      BY <1>1, OfProcess, ReturnedModel DEF ProcessRecords
    <3> QED
      BY <2>2, <3>1 DEF Typing, TypeOK
  <2> QED
    BY <2>1, <2>2, CommitRow
<1>5. holds' \in {holds, holds \cup {p}, holds \ {p}}
  BY CommitHolds
<1>6. TypeOK'
  <2>1. NoCopy \in Rows /\ proc[p].on \in Subscriptions
    BY OfProcess DEF ProcessRecords
  <2> QED
    BY <1>1, <1>2, <1>4, <1>5, <2>1 DEF Typing, TypeOK, ProcessRecords
<1>7. exec'[p] = "committed" /\ proc'[p] = r
      /\ \A q \in Processes \ {p} : proc'[q] = proc[q] /\ exec'[q] = exec[q]
  BY <1>1 DEF Typing, TypeOK
<1>8. /\ proc[p].status \notin {"none", "completed"}
      /\ proc[p].step \in 1..Len(StepsOf(proc[p].target))
      /\ Len(StepsOf(proc[p].target)) \in 2..5
      /\ proc[p].target \in AllTargets
      /\ proc[p].status = "aborted" => p \in aborted
  BY <1>1, OfProcess DEF ProcessRecords
<1>9. Relates(r, "committed")
  <2>1. ~AtEnd(p) /\ Relates(proc[p], exec[p])
    BY <1>1 DEF Typing, Places
  <2>2. StepOf(p) = "store" <=> proc[p].step = 1
    BY <2>1, StepAt
  <2>3. proc[p].step = 1 \/ proc[p].step >= 2
    BY <1>8
  <2> QED
    BY <1>3, <2>1, <2>2, <2>3 DEF Relates
<1>10. p \in holds' => Unfinished(p)' /\ r.step >= 2 /\ r.target \in Checked
  <2> SUFFICES ASSUME p \in holds'
               PROVE  Unfinished(p)' /\ r.step >= 2 /\ r.target \in Checked
    OBVIOUS
  <2>1. ~AtEnd(p)
    BY <1>1 DEF Typing, Places
  <2>2. StepOf(p) # "resync"
    BY CommitHolds
  <2>3. proc[p].step >= 2 /\ proc[p].target \in Checked
    <3>1. CASE p \in holds
      BY <3>1 DEF Typing, Places
    <3>2. CASE p \notin holds
      <4>1. StepOf(p) = "unsync"
        BY <3>2, CommitHolds
      <4> QED
        BY <2>1, <4>1, StepAt
    <3> QED
      BY <3>1, <3>2
  <2>4. proc[p].target # "modify_note"
    BY <2>3 DEF Checked
  <2>5. proc[p].step # Len(StepsOf(proc[p].target))
    BY <2>1, <2>2, <2>4, StepAt
  <2> QED
    BY <1>3, <1>7, <1>8, <2>3, <2>4, <2>5 DEF Unfinished, AtEnd
<1>11. Places'
  BY <1>1, <1>3, <1>5, <1>7, <1>8, <1>9, <1>10, OthersStay
<1> QED
  BY <1>6, <1>11 DEF Typing

LEMMA TypingNext == Typing /\ [Next]_vars => Typing'
<1> SUFFICES ASSUME Typing, [Next]_vars PROVE Typing'
  OBVIOUS
<1>1. CASE \E p \in Processes :
             \/ \E s \in Subscriptions, target \in Targets : Start(p, s, target)
             \/ Execute(p) \/ LogFails(p) \/ Crash(p) \/ Resume(p) \/ Abort(p)
  BY <1>1, TypingStart, TypingLoad, TypingCommit, TypingRaise, TypingLog, TypingLogFails,
     TypingDone, TypingCrash, TypingResume, TypingAbort DEF Execute
<1>2. ASSUME NEW s \in Subscriptions, SetInSync(s) \/ CommitInSync(s)
      PROVE  Typing'
  <2>1. UNCHANGED <<proc, exec, copy, holds, stale, forced, aborted>>
    BY <1>2 DEF SetInSync, CommitInSync
  <2>2. unlocking' \subseteq Subscriptions
    BY <1>2 DEF SetInSync, CommitInSync, Typing, TypeOK
  <2>3. row' \in [Subscriptions -> Rows]
    <3>0. row[s] \in Rows
      BY DEF Typing, TypeOK
    <3>1. [row[s] EXCEPT !.insync = TRUE] \in Rows
      BY <3>0 DEF Rows
    <3>2. row' = row \/ row' = [row EXCEPT ![s] = [row[s] EXCEPT !.insync = TRUE]]
      BY <1>2 DEF SetInSync, CommitInSync
    <3> QED
      BY <3>1, <3>2 DEF Typing, TypeOK
  <2>4. TypeOK'
    BY <2>1, <2>2, <2>3 DEF Typing, TypeOK
  <2>5. Places'
    BY <2>1 DEF Typing, Places, AtEnd, Unfinished
  <2> QED
    BY <2>4, <2>5 DEF Typing
<1>3. CASE UNCHANGED vars
  BY <1>3 DEF vars, Typing, TypeOK, Places, AtEnd, Unfinished
<1> QED
  BY <1>1, <1>2, <1>3 DEF Next

\* Rows, processes and copies keep their types, and processes their places.
THEOREM TypesHold == Spec => []TypeOK
<1>1. Spec => []Typing
  BY TypingInit, TypingNext, PTL DEF Spec
<1>2. Typing => TypeOK
  BY DEF Typing
<1> QED
  BY <1>1, <1>2, PTL

LEMMA TypingHolds == Spec => []Typing
BY TypingInit, TypingNext, PTL DEF Spec

-----------------------------------------------------------------------------
(* What the steps do to the rows *)

\* Row s after a step that a process takes: as it was, or by a commit on s.
LEMMA RowChanges ==
  ASSUME Typing, [Next]_vars, NEW s \in Subscriptions
  PROVE  \/ /\ row'[s] = row[s]
            /\ SetInSync(s) \/ (s \in unlocking' <=> s \in unlocking)
         \/ CommitInSync(s)
         \/ \E p \in Processes : Commit(p) /\ proc[p].on = s
<1>1. CASE \E p \in Processes : Commit(p)
  <2>1. PICK p \in Processes : Commit(p)
    BY <1>1
  <2>2. row' = row \/ \E model : row' = [row EXCEPT ![proc[p].on] = model]
    BY <2>1, CommitRow
  <2>3. unlocking' = unlocking
    BY <2>1 DEF Commit
  <2> QED
    BY <2>1, <2>2, <2>3 DEF Typing, TypeOK
<1>2. CASE \E u \in Subscriptions : SetInSync(u) \/ CommitInSync(u)
  BY <1>2 DEF SetInSync, CommitInSync, Typing, TypeOK
<1>3. CASE UNCHANGED <<row, unlocking>>
  BY <1>3
<1>4. CASE \E p \in Processes :
             \/ \E u \in Subscriptions, target \in Targets : Start(p, u, target)
             \/ Load(p) \/ Raise(p) \/ Log(p) \/ Done(p)
             \/ LogFails(p) \/ Crash(p) \/ Resume(p) \/ Abort(p)
  BY <1>4 DEF Start, Load, Raise, Log, Done, LogFails, Crash, Resume, Abort
<1> QED
  BY <1>1, <1>2, <1>3, <1>4 DEF Next, Execute, vars

\* A process only gets another record or place by a step of its own.
LEMMA OwnSteps ==
  ASSUME Typing, [Next]_vars, NEW q \in Processes
  PROVE  \/ proc'[q] = proc[q] /\ exec'[q] = exec[q] /\ copy'[q] = copy[q]
         \/ \E s \in Subscriptions, target \in Targets : Start(q, s, target)
         \/ Load(q) \/ Commit(q) \/ Raise(q) \/ Log(q) \/ Done(q)
         \/ LogFails(q) \/ Crash(q) \/ Resume(q) \/ Abort(q)
<1>1. ASSUME NEW p \in Processes \ {q},
             \/ \E s \in Subscriptions, target \in Targets : Start(p, s, target)
             \/ Load(p) \/ Commit(p) \/ Raise(p) \/ Log(p) \/ Done(p)
             \/ LogFails(p) \/ Crash(p) \/ Resume(p) \/ Abort(p)
      PROVE  proc'[q] = proc[q] /\ exec'[q] = exec[q] /\ copy'[q] = copy[q]
  BY <1>1 DEF Start, Load, Commit, Raise, Log, Done, LogFails, Crash, Resume, Abort,
              Typing, TypeOK
<1>2. CASE \E s \in Subscriptions : SetInSync(s) \/ CommitInSync(s)
  BY <1>2 DEF SetInSync, CommitInSync
<1>3. CASE UNCHANGED vars
  BY <1>3 DEF vars
<1> QED
  BY <1>1, <1>2, <1>3 DEF Next, Execute

\* A process that has not unlocked yet stays so until it commits the unlock step.
LEMMA UnfinishedStays ==
  ASSUME Typing, [Next]_vars, NEW q \in Processes, Unfinished(q)
  PROVE  /\ proc'[q].on = proc[q].on
         /\ Unfinished(q)' \/ (Commit(q) /\ StepOf(q) = "resync")
<1>0. /\ proc[q].target # "modify_note" /\ proc[q].status \notin {"none", "completed"}
      /\ proc[q].step <= Len(StepsOf(proc[q].target))
      /\ proc[q].step = Len(StepsOf(proc[q].target)) => exec[q] # "committed"
      /\ proc[q].step \in 1..6 /\ Len(StepsOf(proc[q].target)) \in 2..5
  BY OfProcess DEF Unfinished, AtEnd
<1> DEFINE Kept(status, step, e) ==
             /\ proc'[q].target = proc[q].target /\ proc'[q].on = proc[q].on
             /\ proc'[q].status = status /\ proc'[q].step = step /\ exec'[q] = e
<1>1. CASE proc'[q] = proc[q] /\ exec'[q] = exec[q]
  BY <1>1 DEF Unfinished, AtEnd
<1>2. CASE \E s \in Subscriptions, target \in Targets : Start(q, s, target)
  BY <1>0, <1>2 DEF Start
<1>3. CASE Load(q)
  <2>1. Kept(proc[q].status, proc[q].step, "loaded")
    BY <1>3 DEF Load, Typing, TypeOK
  <2> QED
    BY <1>0, <2>1 DEF Unfinished, AtEnd
<1>4. CASE Commit(q) /\ StepOf(q) # "resync"
  <2>1. Kept(proc[q].status, proc[q].step, "committed")
    BY <1>4 DEF Commit, Typing, TypeOK
  <2>2. proc[q].step # Len(StepsOf(proc[q].target))
    BY <1>0, <1>4, StepAt DEF Unfinished
  <2> QED
    BY <1>0, <2>1, <2>2 DEF Unfinished, AtEnd
<1>5. CASE Raise(q) \/ LogFails(q)
  <2>1. Kept("failed", proc[q].step, "off")
    BY <1>5 DEF Raise, LogFails, Typing, TypeOK
  <2> QED
    BY <1>0, <2>1 DEF Unfinished, AtEnd
<1>6. CASE Log(q)
  <2>1. Kept("running", proc[q].step + 1, "ready") /\ exec[q] = "committed"
    BY <1>6 DEF Log, Typing, TypeOK
  <2> QED
    BY <1>0, <2>1 DEF Unfinished, AtEnd
<1>7. CASE Done(q)
  BY <1>7 DEF Done, Unfinished
<1>8. CASE Crash(q)
  <2>1. Kept(proc[q].status, proc[q].step, "off")
    BY <1>8 DEF Crash, Typing, TypeOK
  <2> QED
    BY <1>0, <2>1 DEF Unfinished, AtEnd
<1>9. CASE Resume(q)
  <2>1. Kept("running", proc[q].step, "ready")
    BY <1>9 DEF Resume, Typing, TypeOK
  <2> QED
    BY <1>0, <2>1 DEF Unfinished, AtEnd
<1>10. CASE Abort(q)
  <2>1. Kept("aborted", proc[q].step, exec[q])
    BY <1>10 DEF Abort, Typing, TypeOK
  <2> QED
    BY <1>0, <2>1 DEF Unfinished, AtEnd
<1>11. CASE Commit(q) /\ StepOf(q) = "resync"
  <2>1. Kept(proc[q].status, proc[q].step, "committed")
    BY <1>11 DEF Commit, Typing, TypeOK
  <2> QED
    BY <1>11, <2>1
<1> QED
  BY <1>1, <1>2, <1>3, <1>4, <1>5, <1>6, <1>7, <1>8, <1>9, <1>10, <1>11, OwnSteps

-----------------------------------------------------------------------------
(* No lock is left behind *)

\* The inductive strengthening of NotLeftLocked: who keeps the subscription out of
\* sync has still to commit the step that unlocks it.
LockedBySomebody ==
  \A s \in Subscriptions : ~row[s].insync =>
    \E p \in Processes : proc[p].on = s /\ Unfinished(p)

\* A step that saves a model which is out of sync belongs to such a process.
LEMMA CommitLocks ==
  ASSUME Typing, NEW p \in Processes, Commit(p),
         ~row'[proc[p].on].insync, row[proc[p].on].insync
  PROVE  proc'[p].on = proc[p].on /\ Unfinished(p)'
<1>1. exec[p] = "loaded" /\ ~AtEnd(p)
  BY DEF Commit, Typing, Places
<1>2. PICK model \in Returned(p) : row' = [row EXCEPT ![proc[p].on] = model]
  BY CommitRow
<1>3. proc[p].on \in Subscriptions
  BY OfProcess DEF ProcessRecords
<1>4. row'[proc[p].on] = model
  BY <1>2, <1>3 DEF Typing, TypeOK
<1>5. StepOf(p) # "resync" /\ proc[p].target # "modify_note"
  BY <1>1, <1>4, ReturnedModel
<1>6. proc[p].step # Len(StepsOf(proc[p].target))
  BY <1>1, <1>5, StepAt
<1>7. /\ proc'[p].target = proc[p].target /\ proc'[p].on = proc[p].on
      /\ proc'[p].status = proc[p].status /\ proc'[p].step = proc[p].step
  BY DEF Commit, Typing, TypeOK
<1>8. proc[p].status \notin {"none", "completed"}
  BY <1>1, OfProcess
<1> QED
  BY <1>1, <1>5, <1>6, <1>7, <1>8 DEF Unfinished, AtEnd

\* The unlock step unlocks.
LEMMA ResyncUnlocks ==
  ASSUME Typing, NEW p \in Processes, Commit(p), StepOf(p) = "resync"
  PROVE  row'[proc[p].on].insync
<1>1. exec[p] = "loaded"
  BY DEF Commit
<1>2. PICK model \in Returned(p) : row' = [row EXCEPT ![proc[p].on] = model]
  BY CommitRow
<1>3. proc[p].on \in Subscriptions
  BY OfProcess DEF ProcessRecords
<1>4. row'[proc[p].on] = model
  BY <1>2, <1>3 DEF Typing, TypeOK
<1> QED
  BY <1>1, <1>4, ReturnedModel

\* So does the request to set a subscription in sync.
LEMMA InSyncIsSet ==
  ASSUME Typing, NEW s \in Subscriptions, CommitInSync(s)
  PROVE  row'[s].insync /\ row'[s].status = row[s].status
<1>1. row[s] \in Rows
  BY DEF Typing, TypeOK
<1>2. row' = [row EXCEPT ![s] = [row[s] EXCEPT !.insync = TRUE]]
  BY DEF CommitInSync
<1>3. row'[s] = [row[s] EXCEPT !.insync = TRUE]
  BY <1>2 DEF Typing, TypeOK
<1> QED
  BY <1>1, <1>3 DEF Rows

LEMMA LockedInit == Init => LockedBySomebody
BY DEF Init, LockedBySomebody

LEMMA LockedNext == Typing /\ LockedBySomebody /\ [Next]_vars => LockedBySomebody'
<1> SUFFICES ASSUME Typing, LockedBySomebody, [Next]_vars,
                    NEW s \in Subscriptions, ~row'[s].insync
             PROVE  \E p \in Processes : proc'[p].on = s /\ Unfinished(p)'
  BY DEF LockedBySomebody
<1>1. CASE ~row[s].insync
  <2>1. PICK p \in Processes : proc[p].on = s /\ Unfinished(p)
    BY <1>1 DEF LockedBySomebody
  <2>2. ~(Commit(p) /\ StepOf(p) = "resync")
    BY <2>1, ResyncUnlocks
  <2> QED
    BY <2>1, <2>2, UnfinishedStays
<1>2. CASE row[s].insync
  <2>1. ~CommitInSync(s)
    BY InSyncIsSet
  <2>2. PICK p \in Processes : Commit(p) /\ proc[p].on = s
    BY <1>2, <2>1, RowChanges
  <2> QED
    BY <1>2, <2>2, CommitLocks
<1> QED
  BY <1>1, <1>2

\* Completed workflows leave no lock behind: a subscription is only out of sync
\* because of a process that has not completed, whatever fails or crashes and however
\* many workflows interleave.
THEOREM NoLockLeft == Spec => []NotLeftLocked
<1>1. Spec => []LockedBySomebody
  <2>1. Init => LockedBySomebody
    BY LockedInit
  <2>2. Typing /\ LockedBySomebody /\ [Next]_vars => LockedBySomebody'
    BY LockedNext
  <2> QED
    BY <2>1, <2>2, TypingHolds, PTL DEF Spec
<1>2. LockedBySomebody => NotLeftLocked
  BY DEF LockedBySomebody, NotLeftLocked, Unfinished
<1> QED
  BY <1>1, <1>2, PTL
-----------------------------------------------------------------------------
(* Setting a subscription in sync by hand *)

\* The inductive strengthening of SetInSyncSafe: while the row is locked nobody gets
\* hold of it, because who could has read that it is out of sync.
Unlocking ==
  \A s \in unlocking :
    /\ ~row[s].insync
    /\ HoldersOf(s) \subseteq aborted
    /\ \A p \in Processes \ aborted :
         proc[p].on = s /\ exec[p] = "loaded" /\ StepOf(p) = "unsync" => ~copy[p].insync

LEMMA AbortedStay ==
  ASSUME [Next]_vars
  PROVE  aborted \subseteq aborted'
BY DEF Next, Execute, Start, Load, Commit, Raise, Log, Done, LogFails, Crash, Resume, Abort,
       SetInSync, CommitInSync, vars

\* Only the commit of the lock step makes a process a holder.
LEMMA NewHolder ==
  ASSUME Typing, [Next]_vars, NEW q \in holds', q \notin holds
  PROVE  q \in Processes /\ Commit(q) /\ StepOf(q) = "unsync"
<1>1. PICK p \in Processes : Commit(p) /\ holds' # holds
  BY DEF Next, Execute, Start, Load, Raise, Log, Done, LogFails, Crash, Resume, Abort,
         SetInSync, CommitInSync, vars
<1> QED
  BY <1>1, CommitHolds

\* A holder has held the subscription before, or takes it now; what it holds stays.
LEMMA HoldersAfter ==
  ASSUME Typing, [Next]_vars, NEW s, NEW q \in HoldersOf(s)'
  PROVE  \/ q \in HoldersOf(s)
         \/ Commit(q) /\ StepOf(q) = "unsync" /\ proc[q].on = s /\ q \in Processes
<1>1. q \in holds' /\ proc'[q].on = s
  BY DEF HoldersOf
<1>2. CASE q \in holds
  <2>1. q \in Processes /\ Unfinished(q)
    BY <1>2 DEF Typing, TypeOK, Places
  <2>2. proc'[q].on = proc[q].on
    BY <2>1, UnfinishedStays
  <2> QED
    BY <1>1, <1>2, <2>2 DEF HoldersOf
<1>3. CASE q \notin holds
  <2>1. q \in Processes /\ Commit(q) /\ StepOf(q) = "unsync"
    BY <1>1, <1>3, NewHolder
  <2>2. proc'[q].on = proc[q].on
    BY <2>1 DEF Commit, Typing, TypeOK
  <2> QED
    BY <1>1, <2>1, <2>2
<1> QED
  BY <1>2, <1>3

\* The lock step only succeeds on a copy that is in sync.
LEMMA UnsyncReadsInSync ==
  ASSUME NEW p \in Processes, Commit(p), StepOf(p) = "unsync"
  PROVE  exec[p] = "loaded" /\ copy[p].insync
BY DEF Commit, Raises

\* What set_in_sync asks before it locks the row.
LEMMA NoProcessInTheWay ==
  ASSUME Typing, NEW s \in Subscriptions, SetInSync(s), NEW q \in Processes,
         proc[q].on = s, proc[q].step >= 2, proc[q].target \in Checked,
         proc[q].status \notin {"none", "completed"}
  PROVE  q \in aborted
<1>1. proc[q].related
  BY DEF Typing, Places, Relates
<1>2. proc[q].target \notin Tasks
  BY DEF Checked, Tasks
<1>3. q \notin FailedProcesses(s)
  BY DEF SetInSync
<1>4. proc[q].status = "aborted"
  BY <1>1, <1>2, <1>3 DEF FailedProcesses
<1> QED
  BY <1>4 DEF Typing, Places

LEMMA UnlockingInit == Init => Unlocking
BY DEF Init, Unlocking

LEMMA UnlockingNext == Typing /\ Unlocking /\ [Next]_vars => Unlocking'
<1> SUFFICES ASSUME Typing, Unlocking, [Next]_vars, NEW s \in unlocking'
             PROVE  /\ ~row'[s].insync
                    /\ HoldersOf(s)' \subseteq aborted'
                    /\ \A q \in Processes \ aborted' :
                         proc'[q].on = s /\ exec'[q] = "loaded" /\ StepOf(q)' = "unsync" =>
                           ~copy'[q].insync
  BY DEF Unlocking
<1>0. s \in Subscriptions
  BY TypingNext DEF Typing, TypeOK
<1>1. CASE s \in unlocking
  <2>1. ~row'[s].insync
    <3>1. ~CommitInSync(s)
      BY DEF CommitInSync
    <3>2. ASSUME NEW p \in Processes, Commit(p), proc[p].on = s
          PROVE  row'[s] = row[s]
      BY <1>1, <3>2, CommitRow DEF Typing, TypeOK
    <3>3. row'[s] = row[s]
      BY <1>0, <3>1, <3>2, RowChanges
    <3> QED
      BY <1>1, <3>3 DEF Unlocking
  <2>2. ASSUME NEW q \in HoldersOf(s)'
        PROVE  q \in aborted'
    <3>1. CASE q \in HoldersOf(s)
      BY <1>1, <3>1, AbortedStay DEF Unlocking
    <3>2. CASE q \in Processes /\ Commit(q) /\ StepOf(q) = "unsync" /\ proc[q].on = s
      <4>1. exec[q] = "loaded" /\ copy[q].insync
        BY <3>2, UnsyncReadsInSync
      <4>2. q \in aborted
        BY <1>1, <3>2, <4>1 DEF Unlocking
      <4> QED
        BY <4>2, AbortedStay
    <3> QED
      BY <3>1, <3>2, HoldersAfter
  <2>3. ASSUME NEW q \in Processes \ aborted',
               proc'[q].on = s, exec'[q] = "loaded", StepOf(q)' = "unsync"
        PROVE  ~copy'[q].insync
    <3>1. CASE proc'[q] = proc[q] /\ exec'[q] = exec[q] /\ copy'[q] = copy[q]
      BY <1>1, <2>3, <3>1, AbortedStay DEF Unlocking, StepOf
    <3>2. CASE Load(q)
      <4>1. proc'[q] = proc[q] /\ copy'[q] = row[proc[q].on]
        BY <3>2 DEF Load, Typing, TypeOK
      <4>2. copy'[q] = row[s]
        BY <2>3, <4>1
      <4> QED
        BY <1>1, <4>2 DEF Unlocking
    <3>3. CASE \/ \E u \in Subscriptions, target \in Targets : Start(q, u, target)
               \/ Commit(q) \/ Raise(q) \/ Log(q) \/ Done(q)
               \/ LogFails(q) \/ Crash(q) \/ Resume(q)
      BY <2>3, <3>3 DEF Start, Commit, Raise, Log, Done, LogFails, Crash, Resume,
                        Typing, TypeOK
    <3>4. CASE Abort(q)
      BY <3>4 DEF Abort
    <3> QED
      BY <3>1, <3>2, <3>3, <3>4, OwnSteps
  <2> QED
    BY <2>1, <2>2, <2>3
<1>2. CASE s \notin unlocking
  <2>1. SetInSync(s)
    <3>1. ~CommitInSync(s)
      BY <1>2 DEF CommitInSync
    <3>2. \A p \in Processes : ~Commit(p)
      BY <1>2 DEF Commit
    <3> QED
      BY <1>0, <1>2, <3>1, <3>2, RowChanges
  <2>2. ~row[s].insync /\ UNCHANGED <<row, proc, exec, copy, holds, aborted>>
    BY <2>1 DEF SetInSync
  <2>3. ASSUME NEW q \in HoldersOf(s)
        PROVE  q \in aborted
    <3>1. q \in Processes /\ q \in holds /\ proc[q].on = s
      BY DEF HoldersOf, Typing, TypeOK
    <3>2. proc[q].step >= 2 /\ proc[q].target \in Checked
          /\ proc[q].status \notin {"none", "completed"}
      BY <3>1 DEF Typing, Places, Unfinished
    <3> QED
      BY <1>0, <2>1, <3>1, <3>2, NoProcessInTheWay
  <2>4. ASSUME NEW q \in Processes \ aborted, proc[q].on = s, exec[q] = "loaded",
               StepOf(q) = "unsync"
        PROVE  FALSE
    <3>1. ~AtEnd(q) /\ proc[q].status \notin {"none", "completed"}
      BY <2>4 DEF Typing, Places
    <3>2. proc[q].step = 2 /\ proc[q].target \in Checked
      BY <2>4, <3>1, StepAt
    <3>3. proc[q].step >= 2
      BY <3>2
    <3> QED
      BY <1>0, <2>1, <2>4, <3>1, <3>2, <3>3, NoProcessInTheWay
  <2> QED
    BY <2>2, <2>3, <2>4 DEF HoldersOf, StepOf
<1> QED
  BY <1>1, <1>2

LEMMA UnlockingHolds == Spec => []Unlocking
BY UnlockingInit, UnlockingNext, TypingHolds, PTL DEF Spec

\* Setting a subscription in sync by hand never takes the lock of a process that was not
\* aborted, be it running, failed or crashed.
THEOREM SetInSyncIsSafe == Spec => SetInSyncSafe
<1>1. Unlocking => \A s \in Subscriptions :
        s \in unlocking /\ s \notin unlocking' => HoldersOf(s) \subseteq aborted
  BY DEF Unlocking
<1> QED
  BY <1>1, UnlockingHolds, PTL DEF SetInSyncSafe
-----------------------------------------------------------------------------
(* One workflow at a time *)

\* Those who hold the subscription and have not been aborted.
Live(s) == HoldersOf(s) \ aborted

\* The inductive strengthening of Exclusive: what somebody holds is out of sync.
Exclusion ==
  \A s \in Subscriptions \ (stale \cup forced) :
    \A p \in Live(s) : ~row[s].insync /\ \A q \in Live(s) : q = p

LEMMA HistoryGrows ==
  ASSUME Typing, [Next]_vars
  PROVE  stale \subseteq stale' /\ forced \subseteq forced'
<1>1. CASE \E p \in Processes : Commit(p)
  BY <1>1, CommitRow DEF Commit
<1>2. CASE UNCHANGED <<stale, forced>>
  BY <1>2
<1> QED
  BY <1>1, <1>2 DEF Next, Execute, Start, Load, Raise, Log, Done, LogFails, Crash, Resume,
                    Abort, SetInSync, CommitInSync, vars

LEMMA ExclusionInit == Init => Exclusion
BY DEF Init, Exclusion, Live, HoldersOf

LEMMA ExclusionNext == Typing /\ Unlocking /\ Exclusion /\ [Next]_vars => Exclusion'
<1> SUFFICES ASSUME Typing, Unlocking, Exclusion, [Next]_vars,
                    NEW s \in Subscriptions, s \notin stale', s \notin forced',
                    NEW p \in Live(s)'
             PROVE  ~row'[s].insync /\ \A q \in Live(s)' : q = p
  BY DEF Exclusion
<1>1. \A q \in Live(s) : ~row[s].insync /\ \A r \in Live(s) : r = q
  BY HistoryGrows DEF Exclusion
<1>2. ASSUME NEW q \in Live(s)'
      PROVE  \/ q \in Live(s)
             \/ /\ Commit(q) /\ StepOf(q) = "unsync" /\ proc[q].on = s /\ q \in Processes
                /\ q \notin aborted
  BY AbortedStay, HoldersAfter DEF Live
<1>3. CASE CommitInSync(s)
  <2>1. Live(s) = {}
    BY <1>3 DEF CommitInSync, Unlocking, Live
  <2>2. Live(s)' = {}
    BY <1>3, <2>1 DEF CommitInSync, Live, HoldersOf
  <2> QED
    BY <2>2
<1>4. ASSUME NEW c \in Processes, Commit(c), proc[c].on = s
      PROVE  ~row'[s].insync /\ \A q \in Live(s)' : q = p
  <2>1. exec[c] = "loaded" /\ proc' = [proc EXCEPT ![c].related = @ \/ StepOf(c) = "store"]
        /\ aborted' = aborted
    BY <1>4 DEF Commit
  <2>2. \A q : q \in holds => proc'[q].on = proc[q].on
    BY <2>1 DEF Typing, TypeOK
  <2>3. CASE StepOf(c) = "unsync"
    <3>1. PICK model \in Returned(c) :
            /\ row' = [row EXCEPT ![proc[c].on] = model]
            /\ stale' = IF copy[c] = row[proc[c].on] THEN stale
                        ELSE stale \cup {proc[c].on}
      BY <1>4, <2>3, CommitRow
    <3>2. row'[s] = model /\ copy[c] = row[s]
      BY <1>4, <3>1 DEF Typing, TypeOK
    <3>3. row[s].insync
      BY <1>4, <2>3, <3>2, UnsyncReadsInSync
    <3>4. \A q \in Live(s)' : q = c
      <4> SUFFICES ASSUME NEW q \in Live(s)', q # c
                   PROVE  FALSE
        OBVIOUS
      <4>1. q \in holds
        BY <1>4, <2>3, CommitHolds DEF Live, HoldersOf
      <4>2. q \in Live(s)
        BY <2>1, <2>2, <4>1 DEF Live, HoldersOf
      <4> QED
        BY <1>1, <3>3, <4>2
    <3>5. ~model.insync
      BY <2>1, <2>3, ReturnedModel
    <3> QED
      BY <3>2, <3>4, <3>5
  <2>4. CASE StepOf(c) = "resync"
    <3>1. c \in holds /\ c \notin aborted
      BY <1>4, <2>4 DEF Commit
    <3>2. c \in Live(s)
      BY <1>4, <3>1 DEF Live, HoldersOf
    <3>3. holds' = holds \ {c}
      BY <1>4, <2>4, CommitHolds
    <3>4. p \in Live(s) /\ p # c
      BY <2>1, <2>2, <3>3 DEF Live, HoldersOf
    <3> QED
      BY <1>1, <3>2, <3>4
  <2>5. CASE StepOf(c) \notin {"unsync", "resync"}
    <3>1. holds' = holds
      BY <1>4, <2>5, CommitHolds
    <3>2. Live(s)' \subseteq Live(s)
      BY <2>1, <2>2, <3>1 DEF Live, HoldersOf
    <3>3. CASE row' = row
      BY <1>1, <3>2, <3>3
    <3>4. ASSUME NEW model \in Returned(c),
                 row' = [row EXCEPT ![proc[c].on] = model],
                 stale' = IF copy[c] = row[proc[c].on] THEN stale
                          ELSE stale \cup {proc[c].on}
          PROVE  ~row'[s].insync
      <4>1. row'[s] = model /\ copy[c] = row[s]
        BY <1>4, <3>4 DEF Typing, TypeOK
      <4>2. CASE StepOf(c) = "unsync_unchecked"
        BY <2>1, <4>1, <4>2, ReturnedModel
      <4>3. CASE StepOf(c) \in {"work", "set_terminated"}
        <5>1. model.insync = row[s].insync
          BY <2>1, <4>1, <4>3, ReturnedModel
        <5> QED
          BY <1>1, <3>2, <4>1, <5>1
      <4> QED
        BY <2>1, <2>5, <4>2, <4>3, ReturnedModel
    <3> QED
      BY <1>1, <1>4, <3>2, <3>3, <3>4, CommitRow
  <2> QED
    BY <2>3, <2>4, <2>5
<1>5. CASE row'[s] = row[s] /\ ~(\E c \in Processes : Commit(c) /\ proc[c].on = s)
  <2>1. Live(s)' \subseteq Live(s)
    BY <1>2, <1>5
  <2> QED
    BY <1>1, <1>5, <2>1
<1> QED
  BY <1>3, <1>4, <1>5, RowChanges

\* Whatever fails, crashes or is set in sync by hand, two workflows that were not aborted
\* hold one subscription only after a step saved a copy that was out of date, or one
\* unlocked it whose process did not hold it.
THEOREM OneHolder == Spec => []Exclusive
<1>1. Spec => []Exclusion
  <2>1. Typing /\ Unlocking /\ Exclusion /\ [Next]_vars => Exclusion'
    BY ExclusionNext
  <2> QED
    BY <2>1, ExclusionInit, TypingHolds, UnlockingHolds, PTL DEF Spec
<1>2. Exclusion => Exclusive
  <2> SUFFICES ASSUME Exclusion, NEW s \in Subscriptions \ (stale \cup forced)
               PROVE  Cardinality(Live(s)) <= 1
    BY DEF Exclusive, Live
  <2>1. CASE Live(s) = {}
    BY <2>1, FS_EmptySet
  <2>2. ASSUME NEW p \in Live(s)
        PROVE  Cardinality(Live(s)) <= 1
    <3>1. \A q \in Live(s) : q = p
      BY DEF Exclusion
    <3>2. Live(s) = {p}
      BY <2>2, <3>1
    <3>3. Cardinality({p}) = 1
      BY FS_Singleton, Zenon
    <3>4. Cardinality(Live(s)) = 1
      BY <3>2, <3>3, Zenon
    <3> QED
      BY <3>4
  <2> QED
    BY <2>1, <2>2
<1> QED
  BY <1>1, <1>2, PTL

-----------------------------------------------------------------------------
(* Subscriptions that others use *)

\* Without lost updates a terminated subscription stays so.
LEMMA TerminatedStays ==
  ASSUME Typing, [Next]_vars, stale' = {}, NEW u \in Subscriptions,
         row[u].status = "terminated"
  PROVE  row'[u].status = "terminated"
<1>1. CASE CommitInSync(u)
  BY <1>1, InSyncIsSet
<1>2. ASSUME NEW p \in Processes, Commit(p), proc[p].on = u
      PROVE  row'[u].status = "terminated"
  <2>1. CASE row' = row
    BY <2>1
  <2>2. ASSUME NEW model \in Returned(p),
               row' = [row EXCEPT ![proc[p].on] = model],
               stale' = IF copy[p] = row[proc[p].on] THEN stale
                        ELSE stale \cup {proc[p].on}
        PROVE  row'[u].status = "terminated"
    <3>1. row'[u] = model /\ copy[p] = row[u]
      BY <1>2, <2>2 DEF Typing, TypeOK
    <3>2. exec[p] = "loaded"
      BY <1>2 DEF Commit
    <3> QED
      BY <3>1, <3>2, ReturnedModel
  <2> QED
    BY <1>2, <2>1, <2>2, CommitRow
<1> QED
  BY <1>1, <1>2, RowChanges

\* Who terminates a subscription has seen that all its users are terminated.
LEMMA TerminatesUnused ==
  ASSUME Typing, [Next]_vars, stale' = {}, NEW s \in Subscriptions,
         row[s].status # "terminated", row'[s].status = "terminated",
         NEW u \in Subscriptions \ {s}, <<u, s>> \in Related
  PROVE  row[u].status = "terminated"
<1>1. ~CommitInSync(s)
  BY InSyncIsSet
<1>2. PICK p \in Processes : Commit(p) /\ proc[p].on = s
  BY <1>1, RowChanges
<1>3. PICK model \in Returned(p) :
        /\ row' = [row EXCEPT ![proc[p].on] = model]
        /\ stale' = IF copy[p] = row[proc[p].on] THEN stale
                    ELSE stale \cup {proc[p].on}
  BY <1>2, CommitRow
<1>4. row'[s] = model /\ copy[p] = row[s]
  BY <1>2, <1>3 DEF Typing, TypeOK
<1>5. exec[p] = "loaded" /\ ~Raises(p)
  BY <1>2 DEF Commit
<1>6. StepOf(p) = "set_terminated"
  BY <1>4, <1>5, ReturnedModel
<1> QED
  BY <1>2, <1>5, <1>6 DEF Raises, InUseBy

\* A terminated subscription is used by terminated ones only, unless an update was lost.
THEOREM NoUserOfTerminated == Spec => []TerminatedUnused
<1>1. Init => TerminatedUnused
  BY DEF Init, TerminatedUnused
<1>2. Typing /\ TerminatedUnused /\ [Next]_vars => TerminatedUnused'
  <2> SUFFICES ASSUME Typing, TerminatedUnused, [Next]_vars,
                      NEW s \in Subscriptions, row'[s].status = "terminated", stale' = {},
                      NEW u \in Subscriptions \ {s}, <<u, s>> \in Related
               PROVE  row'[u].status = "terminated"
    BY DEF TerminatedUnused
  <2>1. stale = {}
    BY HistoryGrows
  <2>2. row[u].status = "terminated"
    BY <2>1, TerminatesUnused DEF TerminatedUnused
  <2> QED
    BY <2>2, TerminatedStays
<1> QED
  BY <1>1, <1>2, TypingHolds, PTL DEF Spec
=============================================================================
