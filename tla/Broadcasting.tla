----------------------------- MODULE Broadcasting -----------------------------
(***************************************************************************)
(* How the screens of users learn that a process has changed.  Whoever     *)
(* writes the process gives notice of it: to the queue of the broadcast    *)
(* thread (services/process_broadcast_thread.py) or by sending the update  *)
(* itself; the update is a few messages that invalidate caches             *)
(* (websocket/__init__.py), sent to every client (websocket/managers).  A  *)
(* client reads again what was invalidated.                                *)
(*                                                                         *)
(* A row of the log is announced in the transaction that writes it, so a   *)
(* client may read before the commit.  What matters is what the clients    *)
(* show in the end.                                                        *)
(***************************************************************************)
EXTENDS Integers, Sequences, SequencesExt

Clients == 1..3

\* What a client shows: lists of processes, the process, its subscription.
Keys == {"list", "process", "subscription"}

Never == 0

-----------------------------------------------------------------------------
(* Those who write a process *)

\* _run_process_async: every row is announced (_db_log_step) before it is committed; when
\* the workflow has stopped, what it came to is announced once more.
Row == <<"notice", "commit">>

RunProcess(rows) == FlattenSeq([i \in 1..rows |-> Row]) \o <<"notice">>

\* _db_log_process_ex: the workflow raised, its failure is committed.
RunRaises(rows) == FlattenSeq([i \in 1..rows |-> Row]) \o <<"commit">>

\* abort_process_endpoint
AbortProcess == Row

\* update_awaiting_process_progress, and the endpoint that deletes a task
CommitFirst == <<"commit", "notice">>

Writers == {RunProcess(n) : n \in 1..2} \cup {RunRaises(n) : n \in 1..2} \cup {AbortProcess, CommitFirst}

\* Progress and a deletion are sent at once and end nothing; an abort and a failure end the
\* process.
Possible(program, func, ends) ==
  /\ program = CommitFirst => func = "send" /\ ~ends
  /\ program # CommitFirst /\ (Last(program) = "commit") => ends

-----------------------------------------------------------------------------
(* The state *)

\* api_broadcast_process_data and graphql_broadcast_process_data: what a notice does.
BroadcastFunc(thread, enabled) == IF thread THEN "queue" ELSE IF enabled THEN "send" ELSE "nop"

\* A writer with this program, and clients that are connected in the order of their numbers.
\* func is what a notice does; a send to a client may raise ("runtime" is a RuntimeError,
\* "gone" a WebSocketDisconnect); leaver is a client that closes its socket at some time;
\* ends tells whether the last row has a status of _TERMINAL_PROCESS_STATUSES.
\* version counts what is committed, views what the clients have read of it; sending are
\* the messages of the update in progress, of which the first served clients have the first.
World(program, func, backend, raises, leaver, ends) ==
  [program |-> program, func |-> func, backend |-> backend, raises |-> raises, leaver |-> leaver,
   ends |-> ends, version |-> 0, queue |-> 0, alive |-> TRUE, sending |-> <<>>, served |-> 0,
   connections |-> [c \in Clients |-> c], views |-> [c \in Clients |-> [k \in Keys |-> Never]]]

Versions(program) == Len(SelectSeq(program, LAMBDA x : x = "commit"))

\* What is left of the program is what is to come after this version.
LastVersion(w) == w.version + Versions(w.program)

Idle(w) == w.sending = <<>> /\ w.queue = 0

-----------------------------------------------------------------------------
(* The steps *)

\* The writer: a notice with _broadcast_ws_fn lasts until the update is sent.
Write(w) ==
  IF w.program = <<>> \/ (w.func = "send" /\ ~Idle(w)) THEN {}
  ELSE IF Head(w.program) = "commit"
  THEN {[w EXCEPT !.program = Tail(@), !.version = @ + 1]}
  ELSE {[w EXCEPT !.program = Tail(@), !.queue = IF w.func = "nop" THEN @ ELSE @ + 1]}

\* ProcessDataBroadcastThread.run takes the next notice.
Take(w) ==
  IF w.queue = 0 \/ ~w.alive \/ w.sending # <<>> THEN {}
  ELSE {[w EXCEPT !.queue = @ - 1, !.sending = <<"list", "process", "read">>]}

\* broadcast_process_update_to_websocket_async: in the session of the thread, or in that of
\* the writer, which sees its own row.
StatusSeen(w) == w.version + (IF w.func = "send" /\ w.program # <<>> THEN 1 ELSE 0)

ReadStatus(w) ==
  [w EXCEPT !.sending = IF w.ends /\ StatusSeen(w) >= LastVersion(w) THEN <<"subscription">> ELSE <<>>]

\* The client reads again what the message invalidates.
Invalidated(w, client) == [w EXCEPT !.views[client][Head(w.sending)] = w.version]

Sent(w) == [w EXCEPT !.sending = Tail(@), !.served = 0]

\* The exception ends the thread; _broadcast_ws_fn logs it.
Raised(w) == [w EXCEPT !.sending = <<>>, !.served = 0, !.alive = (w.func = "send")]

\* Faulty: no error of a client is caught.
SendInMemory_Uncaught(w) ==
  IF w.served >= Len(w.connections) THEN Sent(w)
  ELSE LET client == w.connections[w.served + 1]
       IN  IF w.raises[client] = "no" THEN [Invalidated(w, client) EXCEPT !.served = @ + 1] ELSE Raised(w)

\* MemoryWebsocketManager.broadcast_data: one client after the other, by position; a
\* RuntimeError ends the message, another error the update.
SendInMemory(w) ==
  IF w.served >= Len(w.connections) THEN Sent(w)
  ELSE LET client == w.connections[w.served + 1]
       IN  CASE w.raises[client] = "no"      -> [Invalidated(w, client) EXCEPT !.served = @ + 1]
             [] w.raises[client] = "runtime" -> Sent(w)
             [] w.raises[client] = "gone"    -> Raised(w)

\* BroadcastWebsocketManager: Redis hands the message to the sender of every client; the one
\* that raises ends the loop of its client.
Healthy(w, client) == w.raises[client] = "no"

SendByRedis(w) ==
  LET reached == FoldLeft(Invalidated, w, SelectSeq(w.connections, LAMBDA c : Healthy(w, c)))
  IN  Sent([reached EXCEPT !.connections = SelectSeq(@, LAMBDA c : Healthy(w, c))])

Send(w) ==
  IF w.sending = <<>> THEN {}
  ELSE IF Head(w.sending) = "read" THEN {ReadStatus(w)}
  ELSE IF w.backend = "memory" THEN {SendInMemory(w)} ELSE {SendByRedis(w)}

\* remove_ws, remove_ws_from_connected_list: the receiver of a client that left; whoever
\* goes through the list keeps its position.
Leave(w) ==
  IF w.leaver \notin ToSet(w.connections) THEN {}
  ELSE {[w EXCEPT !.connections = SelectSeq(@, LAMBDA c : c # w.leaver)]}

Successors(w) == Write(w) \cup Take(w) \cup Send(w) \cup Leave(w)

RECURSIVE Reachable(_, _)
More(seen, found) == IF found = {} THEN seen ELSE Reachable(seen \cup found, found)
Reachable(seen, frontier) == More(seen, UNION {Successors(w) : w \in frontier} \ seen)

\* How it may end.
Ends(w) == {e \in Reachable({w}, {w}) : Successors(e) = {}}

-----------------------------------------------------------------------------
(* Closing *)

\* for websocket in connections: remove_ws(websocket)
RECURSIVE RemoveEach(_, _)
RemoveEach(list, position) ==
  IF position > Len(list) THEN list ELSE RemoveEach(RemoveAt(list, position), position + 1)

\* MemoryWebsocketManager.disconnect_all, of channels in the order of the dictionary: a channel
\* whose last client is removed is deleted, and then the loop raises.
DisconnectAll(channels) ==
  LET left == [i \in DOMAIN channels |-> RemoveEach(channels[i], 1)]
      emptied == SelectInSeq(left, LAMBDA list : list = <<>>)
  IN  [i \in DOMAIN channels |-> IF emptied # 0 /\ i > emptied THEN channels[i] ELSE left[i]]

-----------------------------------------------------------------------------
(* What the clients may rely on *)

NoneRaises == [c \in Clients |-> "no"]

NoLeaver == 0

Shows(w, client, key) == w.views[client][key] = w.version

\* The process as it is, and its subscription if the process has ended.
UpToDate(w, client) ==
  /\ \A key \in {"list", "process"} : Shows(w, client, key)
  /\ w.ends => Shows(w, client, "subscription")

Backends == {"memory", "redis"}

Funcs == {BroadcastFunc(thread, TRUE) : thread \in BOOLEAN}

\* In every order of the steps all clients end up with the process as it is exactly if its
\* writer gives notice after its last commit.  Aborting a process and giving up on one do
\* not: a client that reads before the commit is never told again.
FreshExact(writers) ==
  \A program \in writers, func \in Funcs, backend \in Backends, ends \in BOOLEAN :
    Possible(program, func, ends) =>
    LET last == Ends(World(program, func, backend, NoneRaises, NoLeaver, ends))
    IN  /\ (\A w \in last, client \in Clients : UpToDate(w, client)) <=> (Last(program) = "notice")
        /\ \A w \in last : w.alive /\ w.program = <<>> /\ w.queue = 0

\* A client whose socket is closed disturbs neither the writer nor the clients that were
\* connected before it, nor any client when Redis hands out the messages; the broadcast
\* thread survives it.
ClosedExact(clients) ==
  \A func \in Funcs, backend \in Backends, closed \in clients, how \in {"runtime", "leaves"} :
    LET raises == IF how = "leaves" THEN NoneRaises ELSE [NoneRaises EXCEPT ![closed] = "runtime"]
        leaver == IF how = "leaves" THEN closed ELSE NoLeaver
    IN  \A w \in Ends(World(RunProcess(2), func, backend, raises, leaver, TRUE)) :
          /\ w.alive /\ w.program = <<>> /\ w.queue = 0
          /\ \A client \in clients \ {closed} :
               client < closed \/ backend = "redis" => UpToDate(w, client)

\* A send that loses the connection ends the broadcast thread, and with it all updates, if the
\* clients are kept in memory; it never keeps the process from ending.
LostExact(clients) ==
  \A func \in Funcs, backend \in Backends, lost \in clients :
    \A w \in Ends(World(RunProcess(2), func, backend, [NoneRaises EXCEPT ![lost] = "gone"], NoLeaver, TRUE)) :
      /\ w.program = <<>>
      /\ w.alive <=> (func = "send" \/ backend = "redis")
      /\ backend = "redis" => \A client \in clients \ {lost} : UpToDate(w, client)

\* Closing all connections skips every second client, and the channels after one that had a
\* single client.
CloseExact(lists) ==
  \A first, second \in lists :
    LET Kept(list) == [i \in 1..(Len(list) \div 2) |-> list[2 * i]]
    IN  DisconnectAll(<<first, second>>) =
          <<Kept(first), IF Len(first) = 1 THEN second ELSE Kept(second)>>

\* Channels in the dictionary have clients.
Lists == {[i \in 1..n |-> i] : n \in 1..4}
=============================================================================
