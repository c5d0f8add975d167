----------------------------- MODULE Transactions -----------------------------
(* Sessions and transactions (db/database.py). A script is what one thread calls: it      *)
(* writes, commits, rolls back, enters and leaves blocks of transactional() and scopes of *)
(* database_scope(), and lifts the ban on commits for a while, as the tasks do that       *)
(* resume processes. Sessions are folded over a script as the code keeps them, and what   *)
(* is stored is compared with what the nesting of the script says. The last part is the   *)
(* choice of the fields with which a row is written as JSON.                              *)
EXTENDS Integers, Sequences, SequencesExt, FiniteSets

MaxScript == 6      \* calls of a script

(* ------------------------------- The scripts -------------------------------- *)
Opening == [begin |-> "begin", open |-> "open", enable |-> "enable"]
Closing == [end |-> "begin", fail |-> "begin", close |-> "open", disable |-> "enable"]

\* The calls that can come next when this is open: what was opened last is closed first,
\* and the ban is only lifted inside a block. Two writes in a row are one, and a commit or
\* rollback with nothing before it does nothing.
Possible(calls, open) ==
  LET last == IF calls = <<>> THEN "rollback" ELSE Last(calls) IN
  {"begin", "open"}
    \cup (IF last = "write" THEN {} ELSE {"write"})
    \cup (IF last \in {"commit", "rollback"} THEN {} ELSE {"commit", "rollback"})
    \cup (IF open # <<>> /\ Last(open) = "begin" THEN {"enable"} ELSE {})
    \cup {c \in DOMAIN Closing : open # <<>> /\ Last(open) = Closing[c]}

OpenAfter(open, c) ==
  IF c \in DOMAIN Opening THEN Append(open, c)
  ELSE IF c \in DOMAIN Closing THEN Front(open) ELSE open

Scripts ==
  LET longer(S) == UNION {{[calls |-> Append(s.calls, c), open |-> OpenAfter(s.open, c)] :
                             c \in Possible(s.calls, s.open)} : s \in S}
      grow[n \in 0..MaxScript] ==
        IF n = 0 THEN {[calls |-> <<>>, open |-> <<>>]} ELSE longer(grow[n - 1])
  IN  {s.calls : s \in UNION {grow[n] : n \in 0..MaxScript}}

(* ------------------------- Sessions as the code has them --------------------- *)
\* A session: may it not commit, and what it has written since its last commit.
NewSession == [disabled |-> FALSE, pending |-> {}]

\* stored: the writes in the database; sessions: those of the open scopes, the current one
\* last; owners: for every open block, does it own its transaction.
Start == [stored |-> {}, sessions |-> <<NewSession>>, owners |-> <<>>]

Current(w) == Last(w.sessions)
WithCurrent(w, s) == [w EXCEPT !.sessions = Append(Front(@), s)]

Disabled(w, flag) == WithCurrent(w, [Current(w) EXCEPT !.disabled = flag])

RolledBack(w) == WithCurrent(w, [Current(w) EXCEPT !.pending = {}])

\* WrappedSession.commit: a commit that is disabled is only logged.
Committed(w) ==
  IF Current(w).disabled THEN w
  ELSE [RolledBack(w) EXCEPT !.stored = @ \cup Current(w).pending]

\* transactional and disable_commit: the outermost block disables commits and owns the
\* transaction, one inside it does nothing.
Begun(w) ==
  [Disabled(w, TRUE) EXCEPT !.owners = Append(@, ~Current(w).disabled)]

\* A block ends by itself or with an exception.
Left(w, failed) ==
  LET rest == [w EXCEPT !.owners = Front(@)] IN
  IF ~Last(w.owners) THEN rest
  ELSE IF failed THEN RolledBack(Disabled(rest, FALSE)) ELSE Committed(Disabled(rest, FALSE))

\* database_scope: a session of its own, closed at the end whatever happens.
Opened(w) == [w EXCEPT !.sessions = Append(@, NewSession)]
Closed(w) == [w EXCEPT !.sessions = Front(@)]

Called(w, c, i) ==
  CASE c = "write" -> WithCurrent(w, [Current(w) EXCEPT !.pending = @ \cup {i}])
    [] c = "commit" -> Committed(w)
    [] c = "rollback" -> RolledBack(w)
    [] c = "begin" -> Begun(w)
    [] c \in {"end", "fail"} -> Left(w, c = "fail")
    [] c = "open" -> Opened(w)
    [] c = "close" -> Closed(w)
    [] c = "enable" -> Disabled(w, FALSE)
    [] c = "disable" -> Disabled(w, TRUE)

Stored(script) ==
  LET after[n \in 0..Len(script)] ==
        IF n = 0 THEN Start ELSE Called(after[n - 1], script[n], n)
  IN  after[Len(script)].stored

(* ------------------------- What the nesting says ----------------------------- *)
\* The number of scopes open before call i.
Depth(s, i) ==
  Cardinality({j \in 1..(i - 1) : s[j] = "open"}) - Cardinality({j \in 1..(i - 1) : s[j] = "close"})

\* i < j are calls of the same session.
Same(s, i, j) ==
  /\ Depth(s, i) = Depth(s, j)
  /\ \A k \in i..j : Depth(s, k) >= Depth(s, i)

\* The call that opens what call j closes.
Opener(s, j) ==
  LET level(k) == Cardinality({i \in 1..k : s[i] \in DOMAIN Opening})
                    - Cardinality({i \in 1..k : s[i] \in DOMAIN Closing})
  IN  CHOOSE i \in 1..(j - 1) :
        /\ s[i] \in DOMAIN Opening /\ level(i) = level(j) + 1
        /\ \A k \in i..(j - 1) : level(k) >= level(i)

\* Block or lifted ban i is open at call j.
OpenAt(s, i, j) == \A k \in i..(j - 1) : s[k] \in DOMAIN Closing => Opener(s, k) # i

\* Call j is made inside a block of its own session and no lift lies between them.
Inside(s, j) ==
  \E i \in 1..(j - 1) :
    /\ s[i] = "begin" /\ Same(s, i, j) /\ OpenAt(s, i, j)
    /\ ~\E k \in (i + 1)..(j - 1) : s[k] = "enable" /\ OpenAt(s, k, j) /\ Same(s, k, j)

Commits(s, j) ==
  \/ s[j] = "commit" /\ ~Inside(s, j)
  \/ s[j] = "end" /\ ~Inside(s, Opener(s, j))

Discards(s, i, j) ==
  \/ s[j] = "rollback" /\ Same(s, i, j)
  \/ s[j] = "fail" /\ Same(s, i, j) /\ ~Inside(s, Opener(s, j))
  \/ s[j] = "close" /\ Same(s, i, j)

Kept(s) ==
  {i \in 1..Len(s) :
     /\ s[i] = "write"
     /\ \E j \in (i + 1)..Len(s) :
          /\ Commits(s, j) /\ Same(s, i, j)
          /\ \A k \in (i + 1)..j : ~Discards(s, i, k)}

\* A write is stored exactly when, before anything discards it, its session commits
\* outside of every block or leaves its outermost block well: what fails takes everything
\* along that the session has not committed, also from before the block, and a scope that
\* is opened inside a block commits on its own.
StoredIsExact(scripts) == \A s \in scripts : Stored(s) = Kept(s)

(* ------------------------ A row written as JSON ------------------------------ *)
Columns == {"id", "note"}
Relations == {"steps", "owner"}
Keys == Columns \cup Relations

\* What the ORM knows of a row: the attributes not loaded, those expired by a commit (they
\* are not loaded either), and the keys that its class always and never writes.
RowStates ==
  {r \in [state : {"transient", "persistent", "deleted", "detached"},
          unloaded : SUBSET Keys, expired : SUBSET Keys,
          include : SUBSET Relations, exclude : SUBSET Keys] :
     /\ r.expired \subseteq r.unloaded
     /\ r.state = "transient" => r.expired = {}}

\* __json__, in its five steps.
JsonKeys(r) ==
  LET loaded == IF r.state = "transient" THEN Keys ELSE Keys \ r.unloaded
      wanted == loaded \cup r.expired \cup r.include
      readable == IF r.state \in {"deleted", "detached"} THEN wanted \ (Relations \cup r.unloaded)
                  ELSE wanted
  IN  readable \ r.exclude

\* Writing a row reads nothing from the database that it cannot read any more, leaves out
\* no loaded column, and loads what has expired or is asked for and nothing else.
JsonIsReadable ==
  \A r \in RowStates :
    /\ r.state \in {"deleted", "detached"} => JsonKeys(r) \cap r.unloaded = {}
    /\ Columns \ (r.unloaded \cup r.exclude) \subseteq JsonKeys(r)
    /\ r.state = "persistent" =>
         JsonKeys(r) \cap r.unloaded = (r.expired \cup (r.include \cap r.unloaded)) \ r.exclude

TransactionsExact(scripts) == StoredIsExact(scripts) /\ JsonIsReadable
=============================================================================
