----------------------------- MODULE ServerLifecycle -----------------------------
(***************************************************************************)
(* Starting and closing a FastTcpAPI server                                *)
(* (src/fasttcpapi/server.py 208-267, 380-421).                            *)
(*                                                                         *)
(* Calls of start(), serve() and close() and the handlers of the           *)
(* connections are tasks of one event loop; each action is the code        *)
(* between two awaits.  A listener is named after the call that opened it. *)
(* What the tasks of one connection do is in ServerConnection.             *)
(***************************************************************************)
EXTENDS Naturals, FiniteSets

CONSTANTS
    Calls,          \* calls of start() and serve()
    Serves,         \* those of serve() or exec()
    Handlers,       \* connections, each with a handler task
    MaxCloses,      \* bound: calls of Server.close
    None

ASSUME LifecycleAssumption ==
    Serves \subseteq Calls /\ None \notin Calls \union Handlers /\ MaxCloses \in Nat

VARIABLES
    overlapping,    \* may start() be called while another one opens its listener?
    server,         \* _server, and _address with it
    listener,       \* each call's listener: an asyncio.Server
    pc,             \* where each call is
    handle,         \* the listener each call got from start()
    closes,         \* calls of close() so far
    handler,        \* where each handler is
    served,         \* handlers that have received a request
    client_tasks, writers, clients,    \* the registries, as sets of handlers
    transport,
    cancelling,     \* handlers with a cancellation to be delivered
    missed          \* handlers that had not run yet at some close()

callVars == <<server, listener, pc, handle>>
registries == <<client_tasks, writers, clients>>
handlerVars == <<handler, served, registries, transport, cancelling>>
vars == <<overlapping, callVars, closes, handlerVars, missed>>

Goto(c, to) == pc' = [pc EXCEPT ![c] = to]
Listening == {c \in Calls : listener[c] = "open"}

Init ==
    /\ overlapping \in BOOLEAN
    /\ server = None /\ closes = 0 /\ missed = {}
    /\ listener = [c \in Calls |-> "none"]
    /\ pc = [c \in Calls |-> "idle"]
    /\ handle = [c \in Calls |-> None]
    /\ handler = [h \in Handlers |-> "none"]
    /\ served = {} /\ cancelling = {}
    /\ client_tasks = {} /\ writers = {} /\ clients = {}
    /\ transport = [h \in Handlers |-> "none"]

-----------------------------------------------------------------------------
(* start() and serve().                                                    *)

\* Is "serve_forever" refused: somebody serves this listener, or it is closed?
Refused(l) == listener[l] = "closed" \/ \E d \in Calls : pc[d] = "serving" /\ handle[d] = l

\* start() returns l.  serve() goes on to serve it; a refusal and "async with None"
\* raise, and "async with" closes the listener of others when it is left.
Return(c, l) ==
    /\ handle' = [handle EXCEPT ![c] = l]
    /\ \/ /\ c \notin Serves
          /\ Goto(c, "returned")
          /\ UNCHANGED listener
       \/ /\ c \in Serves /\ l = None
          /\ Goto(c, "failed")
          /\ UNCHANGED listener
       \/ /\ c \in Serves /\ l # None
          /\ ~Refused(l)
          /\ Goto(c, "serving")
          /\ UNCHANGED listener
       \/ /\ c \in Serves /\ l # None
          /\ Refused(l)
          /\ Goto(c, "left")
          /\ listener' = [listener EXCEPT ![l] = "closed"]

Opening == {c \in Calls : pc[c] \in {"opening", "bound"}}

\* Mutant: _server is not looked at.
StartUnchecked(c) ==
    /\ pc[c] = "idle" /\ (overlapping \/ Opening = {})
    /\ Goto(c, "opening")
    /\ UNCHANGED <<overlapping, server, listener, handle, closes, handlerVars, missed>>

Start(c) ==
    /\ pc[c] = "idle" /\ (overlapping \/ Opening = {})
    /\ IF server = None
       THEN Goto(c, "opening") /\ UNCHANGED <<listener, handle>>
       ELSE Return(c, server)
    /\ UNCHANGED <<overlapping, server, closes, handlerVars, missed>>

\* asyncio.start_server binds the socket and yields once more, or fails.
Bind(c) ==
    /\ pc[c] = "opening"
    /\ \/ Goto(c, "bound") /\ listener' = [listener EXCEPT ![c] = "open"]
       \/ Goto(c, "failed") /\ UNCHANGED listener
    /\ UNCHANGED <<overlapping, server, handle, closes, handlerVars, missed>>

\* "self._server = await ...": whatever _server is by now; the on_start callbacks run.
Opened(c) ==
    /\ pc[c] = "bound"
    /\ server' = c
    /\ Goto(c, "callbacks")
    /\ UNCHANGED <<overlapping, listener, handle, closes, handlerVars, missed>>

\* "return self._server" reads it again.
StartReturns(c) ==
    /\ pc[c] = "callbacks"
    /\ Return(c, server)
    /\ UNCHANGED <<overlapping, server, closes, handlerVars, missed>>

\* Closing its listener ends serve_forever, and serve() is left: "async with" may still
\* wait for the listener's open connections (Python 3.12.1 and later), which end with
\* their handlers.
ServeEnds(c) ==
    /\ pc[c] = "serving" /\ listener[handle[c]] = "closed"
    /\ Goto(c, "left")
    /\ UNCHANGED <<overlapping, server, listener, handle, closes, handlerVars, missed>>

\* The task of the call is cancelled.  serve() then closes its listener, and
\* _server still names it; a listener that was not stored yet is lost.
Cancel(c) ==
    /\ \/ /\ pc[c] \in {"opening", "callbacks"}
          /\ Goto(c, "failed")
          /\ UNCHANGED listener
       \/ /\ pc[c] = "bound"
          /\ Goto(c, "lost")
          /\ UNCHANGED listener
       \/ /\ pc[c] = "serving"
          /\ Goto(c, "left")
          /\ listener' = [listener EXCEPT ![handle[c]] = "closed"]
    /\ UNCHANGED <<overlapping, server, handle, closes, handlerVars, missed>>

\* The caller of start() closes the asyncio.Server it was given.
CloseHandle(c) ==
    /\ pc[c] = "returned" /\ handle[c] # None
    /\ Goto(c, "left")
    /\ listener' = [listener EXCEPT ![handle[c]] = "closed"]
    /\ UNCHANGED <<overlapping, server, handle, closes, handlerVars, missed>>

-----------------------------------------------------------------------------
(* close(), called by a callback of handler "caller" or from elsewhere.     *)

Ended(h) == handler[h] \in {"none", "ended", "cut"}

\* Mutant: the listener is closed and _server still names it.
CloseListenerKept ==
    /\ listener' = IF server = None THEN listener
                   ELSE [listener EXCEPT ![server] = "closed"]
    /\ UNCHANGED server

CloseListener ==
    /\ listener' = IF server = None THEN listener
                   ELSE [listener EXCEPT ![server] = "closed"]
    /\ server' = None

CancelTasks(caller) ==
    cancelling' = cancelling \union {h \in client_tasks \ {caller} : ~Ended(h)}

\* Mutant: the writers are forgotten and not closed.
ForgetWriters == writers' = {} /\ UNCHANGED transport

AbortWriters ==
    /\ writers' = {}
    /\ transport' = [h \in Handlers |-> IF h \in writers THEN "closed" ELSE transport[h]]

Close(caller) ==
    /\ closes < MaxCloses
    /\ closes' = closes + 1
    /\ CloseListener
    /\ CancelTasks(caller)
    /\ AbortWriters
    /\ missed' = missed \union {h \in Handlers : handler[h] = "accepted"}
    /\ UNCHANGED <<overlapping, pc, handle, handler, served, client_tasks, clients>>

\* on_client_connected, on_request and on_client_disconnected callbacks run in the handler.
Callers == {None} \union
           {h \in Handlers \ cancelling : handler[h] \in {"connecting", "requesting", "leaving"}}

-----------------------------------------------------------------------------
(* The handlers of the connections.                                        *)

Advance(h, from, to) ==
    /\ handler[h] = from /\ h \notin cancelling
    /\ handler' = [handler EXCEPT ![h] = to]

\* A listener accepts a connection: its handler task is created and will run.
Accept(h) ==
    /\ Listening # {}
    /\ Advance(h, "none", "accepted")
    /\ transport' = [transport EXCEPT ![h] = "up"]
    /\ UNCHANGED <<overlapping, callVars, closes, served, registries, cancelling, missed>>

\* The handler registers itself; the on_client_connected callbacks run.
Register(h) ==
    /\ Advance(h, "accepted", "connecting")
    /\ client_tasks' = client_tasks \union {h}
    /\ writers' = writers \union {h}
    /\ clients' = clients \union {h}
    /\ UNCHANGED <<overlapping, callVars, closes, served, transport, cancelling, missed>>

Connected(h) ==
    /\ Advance(h, "connecting", "reading")
    /\ UNCHANGED <<overlapping, callVars, closes, served, registries, transport,
                   cancelling, missed>>

\* A frame is decoded; the on_request callbacks run.  The frames left in the buffer of a
\* connection that ended are left out.
Decode(h) ==
    /\ Advance(h, "reading", "requesting")
    /\ transport[h] = "up"
    /\ UNCHANGED <<overlapping, callVars, closes, served, registries, transport, cancelling,
                   missed>>

\* "task" becomes the request's task.  A callback that raises drops the request, and the
\* connection too if the exception is an OSError or the reader is at its end.
Receive(h) ==
    /\ \/ Advance(h, "requesting", "reading") /\ served' = served \union {h}
       \/ Advance(h, "requesting", "reading") /\ UNCHANGED served
       \/ Advance(h, "requesting", "leaving") /\ UNCHANGED served
    /\ UNCHANGED <<overlapping, callVars, closes, registries, transport, cancelling, missed>>

\* The peer closes or resets the connection.
Disconnects(h) ==
    /\ transport[h] = "up" /\ transport' = [transport EXCEPT ![h] = "lost"]
    /\ UNCHANGED <<overlapping, callVars, closes, handler, served, registries, cancelling,
                   missed>>

\* The read loop ends; the on_client_disconnected callbacks run.
ReadFails(h) ==
    /\ Advance(h, "reading", "leaving")
    /\ transport[h] # "up"
    /\ UNCHANGED <<overlapping, callVars, closes, served, registries, transport,
                   cancelling, missed>>

\* Mutant: the client is not discarded.
CleanUpKeepsClient(h) ==
    /\ Advance(h, "leaving", "gathering")
    /\ client_tasks' = IF h \in served THEN client_tasks ELSE client_tasks \ {h}
    /\ writers' = writers \ {h}
    /\ UNCHANGED <<overlapping, callVars, closes, served, clients, transport, cancelling, missed>>

\* "task" is the handler's own only if it never received a request.
CleanUp(h) ==
    /\ Advance(h, "leaving", "gathering")
    /\ client_tasks' = IF h \in served THEN client_tasks ELSE client_tasks \ {h}
    /\ writers' = writers \ {h}
    /\ clients' = clients \ {h}
    /\ UNCHANGED <<overlapping, callVars, closes, served, transport, cancelling, missed>>

\* The tasks of the connection have ended (ServerConnection); the writer is closed.
Finish(h) ==
    /\ Advance(h, "gathering", "ended")
    /\ transport' = [transport EXCEPT ![h] = "closed"]
    /\ UNCHANGED <<overlapping, callVars, closes, served, registries, cancelling, missed>>

\* CancelledError starts the cleanup if it comes in the read loop.  Anywhere else it ends the
\* handler: before "try", or with the rest of its "finally" left undone.
CancelDelivered(h) ==
    /\ h \in cancelling
    /\ cancelling' = cancelling \ {h}
    /\ handler' = [handler EXCEPT ![h] = IF @ \in {"reading", "requesting"}
                                         THEN "leaving" ELSE "cut"]
    /\ UNCHANGED <<overlapping, callVars, closes, served, registries, transport, missed>>

HandlerStep(h) ==
    \/ Register(h) \/ Connected(h) \/ Receive(h) \/ ReadFails(h) \/ CleanUp(h) \/ Finish(h)
    \/ CancelDelivered(h)

Next ==
    \/ \E c \in Calls : \/ Start(c) \/ Bind(c) \/ Opened(c) \/ StartReturns(c)
                        \/ ServeEnds(c) \/ Cancel(c) \/ CloseHandle(c)
    \/ \E caller \in Callers : Close(caller)
    \/ \E h \in Handlers : Accept(h) \/ Decode(h) \/ Disconnects(h) \/ HandlerStep(h)

\* The event loop runs the tasks that are ready, and callbacks return.
Fairness ==
    /\ \A h \in Handlers : WF_vars(HandlerStep(h))
    /\ \A c \in Calls : WF_vars(ServeEnds(c))

Spec == Init /\ [][Next]_vars
FairSpec == Spec /\ Fairness

-----------------------------------------------------------------------------
TypeOK ==
    /\ overlapping \in BOOLEAN
    /\ server \in Calls \union {None}
    /\ listener \in [Calls -> {"none", "open", "closed"}]
    /\ pc \in [Calls -> {"idle", "opening", "bound", "callbacks", "returned", "serving",
                         "left", "lost", "failed"}]
    /\ handle \in [Calls -> Calls \union {None}]
    /\ closes \in 0..MaxCloses
    /\ handler \in [Handlers -> {"none", "accepted", "connecting", "reading", "requesting",
                                 "leaving", "gathering", "ended", "cut"}]
    /\ transport \in [Handlers -> {"none", "up", "lost", "closed"}]
    /\ served \subseteq Handlers /\ cancelling \subseteq Handlers /\ missed \subseteq Handlers
    /\ client_tasks \subseteq Handlers /\ writers \subseteq Handlers
    /\ clients \subseteq Handlers

\* If start() is called by one task at a time, close() can reach every open listener:
\* it is the one _server names, or about to be stored there, or its start() was
\* cancelled at that moment.  Overlapping calls lose a listener for good.
OneListener ==
    ~overlapping => \A c \in Listening : server = c \/ pc[c] \in {"bound", "lost"}

\* start() hands out a closed listener only if some call has left that listener before: a
\* serve() that ended or was refused, or a caller of start() that closed its handle behind
\* the server's back.  close() makes the server startable again.
StaleOnlyWhenLeft ==
    server # None /\ server \notin Listening =>
        \E c \in Calls : pc[c] = "left" /\ handle[c] = server

\* A handler that ran to its end has closed its writer and left the registries, except
\* that _client_tasks keeps it if it ever received a request.  One that close() cut off
\* is in no set of writers; it leaves an open transport only if it was cut off while it
\* waited for the tasks of its requests.
Forgets ==
    \A h \in Handlers :
        /\ handler[h] = "ended" =>
               /\ transport[h] = "closed" /\ h \notin writers \union clients
               /\ h \in client_tasks => h \in served
        /\ handler[h] = "cut" =>
               /\ h \notin writers
               /\ transport[h] = "closed" \/ (h \notin clients /\ h \in served)

\* close() has taken the server down and no listener is left.
Down == ~overlapping /\ closes > 0 /\ server = None /\ Listening = {}

\* Without overlapping starts, a server that was closed ends every connection, the one
\* whose callback called close() included, and every serve_forever; only handlers that
\* had not run yet when it was closed are missed and go on serving.
CloseEndsAll ==
    Down ~> \/ ~Down
            \/ /\ \A h \in Handlers \ missed : Ended(h)
               /\ \A c \in Calls : pc[c] # "serving"
=============================================================================
