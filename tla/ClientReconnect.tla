----------------------------- MODULE ClientReconnect -----------------------------
(***************************************************************************)
(* How a FastTcpAPI client keeps its connection                            *)
(* (src/fasttcpapi/_client_core.py and client.py).                         *)
(*                                                                         *)
(* Everything but the user's thread runs on one event loop, the submit     *)
(* loop, so a step below is the code between two suspensions of a task.    *)
(* The reconnect loop and every call are tasks that may open a connection  *)
(* (under connection_lock); each connection, numbered in the order they    *)
(* are opened, has a reader task.  They share, across awaits:              *)
(*   current          _reader and _writer, always set and cleared together *)
(*   connected, disconnected   _connected_event and _disconnected_event    *)
(*   stop_reconnect   also written by the user's thread                    *)
(* The user's thread reaches the loop by run_coroutine_threadsafe only;    *)
(* "submitted" is the queue of what it (and a call's own connect()) sent.  *)
(* CancelledError is a BaseException, as in every Python since 3.8.        *)
(***************************************************************************)
EXTENDS Naturals, Sequences, FiniteSets

CONSTANTS
    Calls,          \* calls submitted by any thread
    ReconnectTask,  \* the task of _reconnect_loop
    MaxConnections, \* bound: connections opened
    Limit,          \* bounds on lost connections, refused connections, connect()
                    \* and disconnect() calls, and connect()s that fail at the schema
    AsyncCallbacks, \* are the callbacks coroutines that suspend?
    Resets          \* may the peer reset, or only send EOF?

Connections == 1..MaxConnections
Openers == Calls \union {ReconnectTask}
Budgets == {"loss", "refusal", "connect", "disconnect", "schema"}

ASSUME ReconnectTaskAssumption ==
    ReconnectTask \notin Calls /\ Calls \intersect {"start", "close"} = {}
ASSUME ClientBoundsAssumption == MaxConnections \in Nat /\ Limit \in [Budgets -> Nat]
ASSUME ClientSwitchesAssumption == AsyncCallbacks \in BOOLEAN /\ Resets \in BOOLEAN

VARIABLES
    stop_reconnect,
    started,         \* do the two events exist?
    connected, disconnected,
    current,         \* connection of _reader and _writer, 0 for None
    opened,          \* connections opened so far; the newest is _reader_task's
    link,            \* "eof": the peer has closed, is_closing() is still false
    readerPc, readerCancelled,
    pc,              \* where each call and the reconnect loop are
    sentOn,          \* connection a pending request was written to
    connection_lock, \* asyncio.Lock: its holder, then its waiters in order
    schema,          \* is _schema set?
    submitted,       \* coroutines handed to the submit loop, not started yet
    user,            \* where the thread that calls connect and disconnect is
    frozen,          \* a task spins without ever suspending
    spent            \* how much of each bound is used up

events == <<started, connected, disconnected>>
connection == <<current, opened, link>>
readers == <<readerPc, readerCancelled>>
tasks == <<pc, sentOn, connection_lock, schema>>
thread == <<stop_reconnect, submitted, user>>
vars == <<events, connection, readers, tasks, thread, frozen, spent>>

\* "self._writer is not None and not self._writer.is_closing()"
Writable == current # 0 /\ link[current] # "closing"
Pending(o) == pc[o] \in {"pending", "schemaWait"}
Ended(c) == pc[c] \in {"answered", "failed"}
Spend(b) == spent[b] < Limit[b] /\ spent' = [spent EXCEPT ![b] = @ + 1]

\* Two steps of one call run without a suspension between them; only the user's
\* thread can come between.
LoopFree == ~frozen /\ \A c \in Calls : pc[c] \notin {"checked", "connecting"}

Init ==
    /\ stop_reconnect = FALSE
    /\ started = FALSE /\ connected = FALSE /\ disconnected = FALSE
    /\ current = 0 /\ opened = 0
    /\ link = [g \in Connections |-> "unused"]
    /\ readerPc = [g \in Connections |-> "none"]
    /\ readerCancelled = {}
    /\ pc = [o \in Openers |-> IF o = ReconnectTask THEN "none" ELSE "idle"]
    /\ sentOn = [o \in Openers |-> 0]
    /\ connection_lock = <<>>
    /\ schema = FALSE
    /\ submitted = <<>>
    /\ user = "idle"
    /\ frozen = FALSE
    /\ spent = [b \in Budgets |-> 0]

-----------------------------------------------------------------------------
(* What several steps do to the waiters.                                   *)

Goto(o, to) == pc' = [pc EXCEPT ![o] = to]

\* Mutant: the exception is not put in the pending queues.
FailPendingForgotten == UNCHANGED <<pc, sentOn>>

\* Mutant: the reconnect loop does not catch the exception.
FailPendingUncaught ==
    /\ pc' = [o \in Openers |-> IF Pending(o) THEN "failed" ELSE pc[o]]
    /\ sentOn' = [o \in Openers |-> 0]

\* The exception put in every pending queue: calls raise it, the reconnect loop
\* goes to its "except" branch.
FailPending ==
    /\ pc' = [o \in Openers |-> IF ~Pending(o) THEN pc[o]
                                ELSE IF o = ReconnectTask THEN "asleep" ELSE "failed"]
    /\ sentOn' = [o \in Openers |-> 0]

\* connected_event.set() wakes every call that waits on it; it stays awake even
\* if the event is cleared before it runs.
SetConnected ==
    /\ connected' = TRUE /\ disconnected' = FALSE
    /\ pc' = [o \in Openers |-> IF o = ReconnectTask THEN "asleep"
                                ELSE IF pc[o] = "waiting" THEN "woken" ELSE pc[o]]
    /\ UNCHANGED started

\* disconnected_event.set() wakes disconnect(wait=True).
SetDisconnected ==
    /\ disconnected' = TRUE /\ connected' = FALSE
    /\ user' = IF user = "waiting" THEN "idle" ELSE user
    /\ UNCHANGED started

\* _start_reconnect_loop, when there is no loop: new event objects.  Nobody sets
\* the old ones any more, so whoever waits on them is stranded.
NewLoop ==
    /\ started' = TRUE /\ connected' = FALSE /\ disconnected' = TRUE
    /\ user' = IF user = "waiting" THEN "stranded" ELSE user
NeedsLoop == ~started \/ pc[ReconnectTask] = "done"
NewLoopPc ==
    [o \in Openers |-> IF o = ReconnectTask THEN "asleep"
                       ELSE IF pc[o] = "waiting" THEN "stranded" ELSE pc[o]]

-----------------------------------------------------------------------------
(* _ensure_connection, for a call or for the reconnect loop.               *)

\* It returned: the request is written, or the reconnect loop reports success
\* without looking at the connection again.
Proceed(o) ==
    \/ /\ o = ReconnectTask /\ schema
       /\ SetConnected
       /\ UNCHANGED sentOn
    \/ /\ o = ReconnectTask => ~schema
       /\ IF Writable'
          THEN /\ Goto(o, IF o = ReconnectTask THEN "schemaWait" ELSE "pending")
               /\ sentOn' = [sentOn EXCEPT ![o] = current']
               /\ UNCHANGED events
          ELSE /\ Goto(o, IF o = ReconnectTask THEN "asleep" ELSE "failed")
               /\ connected' = (connected /\ o # ReconnectTask)
               /\ UNCHANGED <<started, disconnected, sentOn>>

\* Mutant: a connection is opened without looking whether there is one.
CheckedBlindly(o, queue) ==
    /\ connection_lock' = <<o>> \o queue
    /\ Goto(o, "opening")
    /\ UNCHANGED <<events, sentOn>>

\* "async with self._connection_lock" is entered, with queue waiting behind.
Checked(o, queue) ==
    \/ /\ Writable
       /\ connection_lock' = queue
       /\ Proceed(o)
    \/ /\ ~Writable
       /\ connection_lock' = <<o>> \o queue
       /\ Goto(o, "opening")
       /\ UNCHANGED <<events, sentOn>>

\* Mutant: without connection_lock.
EnsureUnlocked(o) == Checked(o, connection_lock)

Ensure(o) ==
    \/ /\ connection_lock = <<>>
       /\ Checked(o, <<>>)
    \/ /\ connection_lock # <<>>
       /\ connection_lock' = Append(connection_lock, o)
       /\ Goto(o, "ensuring")
       /\ UNCHANGED <<events, sentOn>>

LockGranted(o) ==
    /\ LoopFree
    /\ pc[o] = "ensuring" /\ connection_lock # <<>> /\ Head(connection_lock) = o
    /\ UNCHANGED <<connection, readers, schema, thread, frozen, spent>>
    /\ Checked(o, Tail(connection_lock))

\* A reader, or another task, that the event loop runs on its next turns.
ReaderReady(g) ==
    \/ readerPc[g] = "created" \/ g \in readerCancelled
    \/ readerPc[g] = "reading" /\ link[g] # "up"
TaskReady(o) == pc[o] \in {"woken", "schemaReady"}

\* open_connection returns, which takes more turns of the event loop than a task
\* that is ready has to wait.
OpenSucceeds(o) ==
    /\ LoopFree
    /\ pc[o] = "opening" /\ opened < MaxConnections
    /\ ~\E g \in Connections : ReaderReady(g)
    /\ ~\E t \in Openers : TaskReady(t)
    /\ opened' = opened + 1
    /\ current' = opened + 1
    /\ link' = [link EXCEPT ![opened + 1] = "up"]
    /\ readerPc' = [readerPc EXCEPT ![opened + 1] = "created"]
    /\ IF AsyncCallbacks
       THEN Goto(o, "announcing") /\ UNCHANGED <<events, sentOn, connection_lock>>
       ELSE connection_lock' = Tail(connection_lock) /\ Proceed(o)
    /\ UNCHANGED <<readerCancelled, schema, thread, frozen, spent>>

\* Mutant: the lock is released on success only, not by "async with".
OpenFailsLocked(o) ==
    /\ LoopFree
    /\ pc[o] = "opening"
    /\ Spend("refusal")
    /\ Goto(o, IF o = ReconnectTask THEN "asleep" ELSE "failed")
    /\ connected' = (connected /\ o # ReconnectTask)
    /\ UNCHANGED <<started, disconnected, connection, readers, sentOn, connection_lock, schema,
                   thread, frozen>>

OpenFails(o) ==
    /\ LoopFree
    /\ pc[o] = "opening"
    /\ Spend("refusal")
    /\ Goto(o, IF o = ReconnectTask THEN "asleep" ELSE "failed")
    /\ connected' = (connected /\ o # ReconnectTask)
    /\ connection_lock' = Tail(connection_lock)
    /\ UNCHANGED <<started, disconnected, connection, readers, sentOn, schema, thread, frozen>>

\* The on_connected callbacks have run, under the lock.
Announced(o) ==
    /\ LoopFree
    /\ pc[o] = "announcing"
    /\ connection_lock' = Tail(connection_lock)
    /\ UNCHANGED <<connection, readers, schema, thread, frozen, spent>>
    /\ Proceed(o)

-----------------------------------------------------------------------------
(* _reconnect_loop.  "asleep" is before its first step and in both sleeps,   *)
(* which are longer than a call it has woken needs to run.                  *)

LoopChecks ==
    /\ LoopFree
    /\ pc[ReconnectTask] = "asleep" /\ ~\E c \in Calls : TaskReady(c)
    /\ UNCHANGED <<connection, readers, schema, thread, frozen, spent>>
    /\ \/ /\ stop_reconnect
          /\ Goto(ReconnectTask, "done")
          /\ UNCHANGED <<events, sentOn, connection_lock>>
       \/ /\ ~stop_reconnect /\ ~Writable
          /\ IF AsyncCallbacks
             THEN Goto(ReconnectTask, "retrying") /\ UNCHANGED <<events, sentOn, connection_lock>>
             ELSE Ensure(ReconnectTask)

\* The on_retry_connect callbacks have run.
LoopRetries ==
    /\ LoopFree
    /\ pc[ReconnectTask] = "retrying"
    /\ UNCHANGED <<connection, readers, schema, thread, frozen, spent>>
    /\ Ensure(ReconnectTask)

\* Mutant: the event is only set when the schema was already known.
LoopLearnsSilently ==
    /\ LoopFree
    /\ pc[ReconnectTask] = "schemaReady"
    /\ schema' = TRUE
    /\ Goto(ReconnectTask, "asleep")
    /\ UNCHANGED <<events, connection, readers, sentOn, connection_lock, thread, frozen, spent>>

\* The loop takes the schema from its queue, whatever has happened to the
\* connection since, and reports success.
LoopLearns ==
    /\ LoopFree
    /\ pc[ReconnectTask] = "schemaReady"
    /\ schema' = TRUE
    /\ SetConnected
    /\ UNCHANGED <<connection, readers, sentOn, connection_lock, thread, frozen, spent>>

\* The schema request times out, or the server answers with an error, or the stub
\* cannot be written once _schema is set.
SchemaFails ==
    /\ LoopFree
    /\ Spend("schema")
    /\ \/ pc[ReconnectTask] = "schemaWait" /\ UNCHANGED schema
       \/ pc[ReconnectTask] = "schemaReady" /\ schema' = TRUE
    /\ Goto(ReconnectTask, "asleep")
    /\ sentOn' = [sentOn EXCEPT ![ReconnectTask] = 0]
    /\ connected' = FALSE
    /\ UNCHANGED <<started, disconnected, connection, readers, connection_lock, thread, frozen>>

-----------------------------------------------------------------------------
(* call: _connect_for_call and _request.                                    *)

Submit(c) ==
    /\ pc[c] = "idle"
    /\ Goto(c, "submitted")
    /\ submitted' = Append(submitted, c)
    /\ UNCHANGED <<events, connection, readers, sentOn, connection_lock, schema,
                   stop_reconnect, user, frozen, spent>>

CallBegins(c) ==
    /\ LoopFree
    /\ submitted # <<>> /\ Head(submitted) = c
    /\ submitted' = Tail(submitted)
    /\ Goto(c, IF stop_reconnect THEN "failed" ELSE "checked")
    /\ UNCHANGED <<events, connection, readers, sentOn, connection_lock, schema,
                   stop_reconnect, user, frozen, spent>>

\* self.connect(), which takes back a disconnect() of this very moment.
CallConnects(c) ==
    /\ pc[c] = "checked"
    /\ Goto(c, "connecting")
    /\ stop_reconnect' = FALSE
    /\ submitted' = Append(submitted, "start")
    /\ UNCHANGED <<events, connection, readers, sentOn, connection_lock, schema, user,
                   frozen, spent>>

\* wait_for_connected() on the submit loop itself.
CallWaits(c) ==
    /\ pc[c] = "connecting"
    /\ UNCHANGED <<connection, readers, schema, stop_reconnect, submitted, frozen, spent>>
    /\ \/ /\ stop_reconnect
          /\ Goto(c, "failed")
          /\ UNCHANGED <<events, sentOn, connection_lock, user>>
       \/ /\ ~stop_reconnect /\ ~started
          /\ NewLoop
          /\ pc' = [NewLoopPc EXCEPT ![c] = "waiting"]
          /\ UNCHANGED <<sentOn, connection_lock>>
       \/ /\ ~stop_reconnect /\ started /\ ~connected
          /\ Goto(c, "waiting")
          /\ UNCHANGED <<events, sentOn, connection_lock, user>>
       \/ /\ ~stop_reconnect /\ started /\ connected
          /\ Ensure(c)
          /\ UNCHANGED user

CallWakes(c) ==
    /\ LoopFree
    /\ pc[c] = "woken"
    /\ UNCHANGED <<connection, readers, schema, thread, frozen, spent>>
    /\ Ensure(c)

CallTimesOut(c) ==
    /\ LoopFree
    /\ pc[c] = "pending"
    /\ Goto(c, "failed")
    /\ sentOn' = [sentOn EXCEPT ![c] = 0]
    /\ UNCHANGED <<events, connection, readers, connection_lock, schema, thread, frozen, spent>>

-----------------------------------------------------------------------------
(* _reader_loop.                                                            *)

\* queue.put: the response of a pending request on this connection.
Respond(g) ==
    \E o \in Openers :
        /\ Pending(o) /\ sentOn[o] = g
        /\ Goto(o, IF o = ReconnectTask THEN "schemaReady" ELSE "answered")
        /\ sentOn' = [sentOn EXCEPT ![o] = 0]

\* Mutant: reader and writer are not cleared.
ReaderFinallyKeeps(g) ==
    /\ readerPc' = [readerPc EXCEPT ![g] = "done"]
    /\ SetDisconnected
    /\ UNCHANGED current

\* The "finally" of the loop, whichever connection is current by now.
ReaderFinally(g) ==
    /\ readerPc' = [readerPc EXCEPT ![g] = "done"]
    /\ SetDisconnected
    /\ current' = 0

\* The exception goes to every pending request, then on_disconnected runs.
ReaderEnd(g) ==
    /\ FailPending
    /\ readerCancelled' = readerCancelled \ {g}
    /\ IF AsyncCallbacks
       THEN readerPc' = [readerPc EXCEPT ![g] = "ending"] /\ UNCHANGED <<events, current, user>>
       ELSE ReaderFinally(g)
    /\ UNCHANGED <<opened, link, connection_lock, schema, stop_reconnect, submitted,
                   frozen, spent>>

\* The first step: nothing runs if the task was cancelled before it; the assertion
\* fails if the connection is already gone.
ReaderStarts(g) ==
    /\ LoopFree
    /\ readerPc[g] = "created"
    /\ \/ /\ g \in readerCancelled
          /\ readerPc' = [readerPc EXCEPT ![g] = "done"]
          /\ readerCancelled' = readerCancelled \ {g}
          /\ UNCHANGED <<events, connection, tasks, thread, frozen, spent>>
       \/ /\ g \notin readerCancelled /\ current # 0
          /\ readerPc' = [readerPc EXCEPT ![g] = "reading"]
          /\ UNCHANGED <<events, connection, readerCancelled, tasks, thread, frozen, spent>>
       \/ /\ g \notin readerCancelled /\ current = 0
          /\ ReaderEnd(g)

\* A response frame and callbacks that do not suspend.
FrameHandled(g) ==
    /\ LoopFree /\ ~AsyncCallbacks
    /\ readerPc[g] = "reading" /\ link[g] = "up" /\ g \notin readerCancelled
    /\ Respond(g)
    /\ UNCHANGED <<events, connection, readers, connection_lock, schema, thread, frozen, spent>>

\* A frame whose on_response or on_push callbacks suspend the reader.
FrameArrives(g) ==
    /\ LoopFree /\ AsyncCallbacks
    /\ readerPc[g] = "reading" /\ link[g] = "up" /\ g \notin readerCancelled
    /\ readerPc' = [readerPc EXCEPT ![g] = "dispatching"]
    /\ UNCHANGED <<events, connection, readerCancelled, tasks, thread, frozen, spent>>

\* The own reader of the current connection does not wait on its stream: it has not
\* started, or its callbacks are running.
Unattended == current # 0 /\ readerPc[current] \in {"created", "dispatching"}

\* The callbacks have run; the next frame is read from the connection that is now
\* current.  Reading from None, or from a stream another reader waits on, raises
\* at once, is taken for corrupt data and is tried again for ever; reading from a
\* stream that has ended ends this reader too.
FrameDispatched(g) ==
    /\ LoopFree
    /\ readerPc[g] = "dispatching" /\ g \notin readerCancelled
    /\ \/ Respond(g)
       \/ UNCHANGED <<pc, sentOn>>
    /\ \/ /\ current = g
          /\ readerPc' = [readerPc EXCEPT ![g] = "reading"]
          /\ UNCHANGED frozen
       \/ /\ current \notin {0, g}
          /\ readerPc[current] = "ending" \/ (Unattended /\ link[current] # "up")
          /\ readerPc' = [readerPc EXCEPT ![g] = "adrift"]
          /\ UNCHANGED frozen
       \/ /\ current # g /\ (current # 0 => readerPc[current] # "ending") /\ ~Unattended
          /\ frozen' = TRUE
          /\ UNCHANGED readerPc
    /\ UNCHANGED <<events, connection, readerCancelled, connection_lock, schema, thread, spent>>

\* A late reader reads the frames of a newer connection while nobody else waits on its
\* stream; the two clash (FrameDispatched) when the newer reader gets there.
LateRead(g) ==
    /\ LoopFree
    /\ readerPc[g] = "dispatching" /\ g \notin readerCancelled
    /\ current # g /\ Unattended /\ link[current] = "up"
    /\ Respond(g) \/ Respond(current)
    /\ UNCHANGED <<events, connection, readers, connection_lock, schema, thread, frozen, spent>>

\* The stream ends, or the cancellation arrives at the suspended reader.
ReaderEnds(g) ==
    /\ LoopFree
    /\ \/ readerPc[g] = "reading" /\ (link[g] # "up" \/ g \in readerCancelled)
       \/ readerPc[g] = "dispatching" /\ g \in readerCancelled
       \/ readerPc[g] = "adrift"
    /\ ReaderEnd(g)

\* The on_disconnected callbacks have run, or were cancelled and the rest of
\* "finally" with them.
ReaderEnded(g) ==
    /\ LoopFree
    /\ readerPc[g] = "ending"
    /\ readerCancelled' = readerCancelled \ {g}
    /\ IF g \in readerCancelled
       THEN readerPc' = [readerPc EXCEPT ![g] = "done"] /\ UNCHANGED <<events, current, user>>
       ELSE ReaderFinally(g)
    /\ UNCHANGED <<opened, link, tasks, stop_reconnect, submitted, frozen, spent>>

-----------------------------------------------------------------------------
(* What is handed to the submit loop, and the user's thread.               *)

StartRuns ==
    /\ LoopFree
    /\ submitted # <<>> /\ Head(submitted) = "start"
    /\ submitted' = Tail(submitted)
    /\ IF NeedsLoop
       THEN NewLoop /\ pc' = NewLoopPc
       ELSE UNCHANGED <<events, pc, user>>
    /\ UNCHANGED <<connection, readers, sentOn, connection_lock, schema, stop_reconnect,
                   frozen, spent>>

\* Mutant: the writer is forgotten without being closed.
CloseRunsUnclosed ==
    /\ LoopFree
    /\ submitted # <<>> /\ Head(submitted) = "close"
    /\ submitted' = Tail(submitted)
    /\ readerCancelled' = readerCancelled
           \union {g \in {opened} \ {0} : readerPc[g] # "done"}
    /\ FailPending
    /\ current' = 0
    /\ user' = IF user = "closing" THEN "closed" ELSE user
    /\ UNCHANGED <<events, opened, link, readerPc, connection_lock, schema, stop_reconnect,
                   frozen, spent>>

\* close(): without a suspension from its first statement to its last.
CloseRuns ==
    /\ LoopFree
    /\ submitted # <<>> /\ Head(submitted) = "close"
    /\ submitted' = Tail(submitted)
    /\ readerCancelled' = readerCancelled
           \union {g \in {opened} \ {0} : readerPc[g] # "done"}
    /\ link' = [g \in Connections |-> IF g = current THEN "closing" ELSE link[g]]
    /\ FailPending
    /\ current' = 0
    /\ user' = IF user = "closing" THEN "closed" ELSE user
    /\ UNCHANGED <<events, opened, readerPc, connection_lock, schema, stop_reconnect,
                   frozen, spent>>

UserConnects ==
    \/ /\ user = "idle"
       /\ Spend("connect")
       /\ stop_reconnect' = FALSE
       /\ user' = "connecting"
       /\ UNCHANGED <<events, connection, readers, tasks, submitted, frozen>>
    \/ /\ user = "connecting"
       /\ user' = "idle"
       /\ submitted' = Append(submitted, "start")
       /\ UNCHANGED <<events, connection, readers, tasks, stop_reconnect, frozen, spent>>

\* disconnect(): the flag first, then close() is submitted; with wait=True the
\* thread waits for it and then for disconnected_event.
UserDisconnects ==
    \/ /\ user = "idle"
       /\ Spend("disconnect")
       /\ stop_reconnect' = TRUE
       /\ user' = "disconnecting"
       /\ UNCHANGED <<events, connection, readers, tasks, submitted, frozen>>
    \/ /\ user = "disconnecting"
       /\ submitted' = Append(submitted, "close")
       /\ \E wait \in BOOLEAN : user' = IF wait THEN "closing" ELSE "idle"
       /\ UNCHANGED <<events, connection, readers, tasks, stop_reconnect, frozen, spent>>
    \/ /\ user = "closed" /\ LoopFree
       /\ user' = IF started /\ ~disconnected THEN "waiting" ELSE "idle"
       /\ UNCHANGED <<events, connection, readers, tasks, stop_reconnect, submitted,
                      frozen, spent>>

\* The network: FIN or reset.
LinkLost(g) ==
    /\ link[g] = "up"
    /\ Spend("loss")
    /\ \E how \in {"eof"} \union (IF Resets THEN {"closing"} ELSE {}) :
           link' = [link EXCEPT ![g] = how]
    /\ UNCHANGED <<events, current, opened, readers, tasks, thread, frozen>>

-----------------------------------------------------------------------------
OpenerStep(o) == LockGranted(o) \/ OpenSucceeds(o) \/ OpenFails(o) \/ Announced(o)
LoopStep == LoopChecks \/ LoopRetries \/ LoopLearns
CallStep(c) == CallBegins(c) \/ CallConnects(c) \/ CallWaits(c) \/ CallWakes(c)
ReaderStep(g) ==
    \/ ReaderStarts(g) \/ ReaderEnds(g) \/ ReaderEnded(g)
    \/ FrameHandled(g) \/ FrameDispatched(g) \/ LateRead(g)
UserFinishes == user # "idle" /\ (UserConnects \/ UserDisconnects)

Next ==
    \/ \E o \in Openers : OpenerStep(o)
    \/ LoopStep \/ SchemaFails
    \/ \E c \in Calls : Submit(c) \/ CallStep(c) \/ CallTimesOut(c)
    \/ \E g \in Connections : ReaderStep(g) \/ FrameArrives(g) \/ LinkLost(g)
    \/ StartRuns \/ CloseRuns
    \/ UserConnects \/ UserDisconnects

Spec == Init /\ [][Next]_vars

(***************************************************************************)
(* The event loop runs every task that can run, sleeps and timeouts end,   *)
(* an attempt to connect succeeds or fails, a server that is connected     *)
(* answers the schema request or fails to (at most Limit["schema"] times), *)
(* and a thread inside connect or disconnect goes on.  Nobody has to call, *)
(* to connect or to disconnect, and no connection has to be lost.          *)
(***************************************************************************)
Fairness ==
    /\ \A o \in Openers : WF_vars(OpenerStep(o))
    /\ WF_vars(LoopStep)
    /\ \A c \in Calls : WF_vars(CallStep(c)) /\ WF_vars(CallTimesOut(c))
    /\ \A g \in Connections : WF_vars(ReaderStep(g))
    /\ WF_vars(StartRuns \/ CloseRuns)
    /\ WF_vars(UserFinishes)

FairSpec == Spec /\ Fairness

-----------------------------------------------------------------------------
(* Properties.                                                             *)

OpeningStates == {"ensuring", "opening", "announcing"}
LoopStates == OpeningStates
    \union {"none", "asleep", "retrying", "schemaWait", "schemaReady", "done"}
CallStates == OpeningStates
    \union {"idle", "submitted", "checked", "connecting", "waiting", "stranded", "woken",
            "pending", "answered", "failed"}

\* The type invariant of the client's connection state.
TypeOK ==
    /\ stop_reconnect \in BOOLEAN /\ started \in BOOLEAN
    /\ connected \in BOOLEAN /\ disconnected \in BOOLEAN
    /\ opened \in 0..MaxConnections /\ current \in 0..opened
    /\ link \in [Connections -> {"unused", "up", "eof", "closing"}]
    /\ readerPc \in [Connections -> {"none", "created", "reading", "dispatching", "adrift",
                                     "ending", "done"}]
    /\ readerCancelled \subseteq Connections
    /\ pc \in [Openers -> CallStates \union LoopStates]
    /\ pc[ReconnectTask] \in LoopStates /\ \A c \in Calls : pc[c] \in CallStates
    /\ sentOn \in [Openers -> 0..MaxConnections]
    /\ connection_lock \in Seq(Openers)
    /\ schema \in BOOLEAN /\ frozen \in BOOLEAN
    /\ submitted \in Seq(Calls \union {"start", "close"})
    /\ user \in {"idle", "connecting", "disconnecting", "closing", "closed", "waiting", "stranded"}
    /\ spent \in [Budgets -> Nat]

\* A call that waits for a response waits on a connection whose reader is still
\* there to deliver it or to fail the call: no call sits out its whole timeout on a
\* connection that has already ended.
PendingHasReader ==
    \A c \in Calls : pc[c] = "pending" => readerPc[sentOn[c]] \in {"created", "reading"}

\* The client never has two live connections to its server.
OneConnection == Cardinality({g \in Connections : link[g] = "up"}) <= 1

\* Calls and the reconnect loop race to open a connection: a connection that works
\* is never replaced by another.
NeverReplacesWorking == [][current' \notin {0, current} => ~Writable]_vars

\* connection_lock: exactly the openers inside "async with" are in it, in order,
\* and only its holder opens a connection.
ConnectionLockDiscipline ==
    /\ \A o \in Openers :
           Cardinality({i \in 1..Len(connection_lock) : connection_lock[i] = o})
               = IF pc[o] \in OpeningStates THEN 1 ELSE 0
    /\ \A i \in 2..Len(connection_lock) : pc[connection_lock[i]] = "ensuring"

\* Working connections the client has lost track of.
Dropped == {g \in Connections : link[g] = "up" /\ g # current}

\* What callbacks that suspend can do to a connection, and no more.  Only the late
\* "finally" of a reader takes a working connection away from the client, one for each
\* reader that has ended; and a client whose connection was neither lost nor closed
\* opens one, keeps it, never spins, and every call that waits has its reader.
HarmBounded ==
    /\ Cardinality(Dropped) <= Cardinality({g \in Connections : readerPc[g] = "done"})
    /\ spent["loss"] + spent["disconnect"] = 0 =>
           /\ opened <= 1 /\ current = opened /\ ~frozen
           /\ \A c \in Calls : pc[c] = "pending" =>
                  readerPc[sentOn[c]] \in {"created", "reading", "dispatching"}

\* "Start background connection/reconnection" (connect): when connections are lost and
\* attempts to connect refused, a client that was not told to stop is connected again.
Reconnects ==
    LET Up == current # 0 /\ link[current] = "up"
    IN  started /\ ~Up ~> Up \/ stop_reconnect

\* "A missing response raises TimeoutError; remote errors are raised": every call
\* ends, with a result or an exception.
CallsEnd == \A c \in Calls : pc[c] = "submitted" ~> Ended(c)

\* The same for a client whose connection is neither lost nor closed and that learns the
\* schema at the first attempt, also when attempts to connect are refused: a call is
\* refused itself, or waits for the loop, which tries again after 3 s.  As a call ends
\* once and for good, all end if again and again none is under way.
CallsEndUndisturbed ==
    LET disturbed == spent["loss"] + spent["schema"] + spent["disconnect"] > 0
    IN  []<>(disturbed \/ \A c \in Calls : pc[c] = "idle" \/ Ended(c))

\* "Close the persistent TCP connection": when the last thing asked of the client
\* was to disconnect and nothing is on its way any more, it has no connection.
ClosedHasNoConnection ==
    /\ stop_reconnect /\ submitted = <<>> /\ user = "idle"
    /\ pc[ReconnectTask] = "done" /\ connection_lock = <<>>
    /\ ~\E g \in Connections : ReaderReady(g)
    => current = 0
=============================================================================
