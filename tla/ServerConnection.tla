---------------------------- MODULE ServerConnection ----------------------------
(***************************************************************************)
(* One TCP connection of a FastTcpAPI server (src/fasttcpapi/server.py).   *)
(*                                                                         *)
(* The connection handler (_handle_client) reads request frames and starts *)
(* one task per request (_handle_request); at connection time it starts    *)
(* one task per push route (_run_push).  All of them write to one socket:  *)
(* responses without a session id are chained by futures ("previous",      *)
(* "complete"), and every frame but the schema response is written under   *)
(* writer_lock.  The tasks interleave at awaits; the whole connection can  *)
(* be cancelled, lost or closed by Server.close at any of them.            *)
(*                                                                         *)
(* Requests are numbered in the order they are received.  Future 0 is a    *)
(* future that was created already resolved; future r, r > 0, is the       *)
(* response_tail created when the sessionless request r arrived.           *)
(***************************************************************************)
EXTENDS Naturals, Sequences, FiniteSets, SequencesExt

CONSTANTS
    MaxRequests,    \* bound: requests one client sends
    Commands,       \* registered commands
    ResponseFrames, \* their declared response_frames
    SchemaCommand,  \* "__fasttcpapi__.schema"
    UnknownCommand, \* any command without a route
    PushRoutes,     \* registered push routes
    MaxPushes,      \* bound: frames one push handler produces
    Traffic,        \* the requests a client may send
    SilentErrors,   \* tasks whose exception the codec may fail to represent, or,
                    \* a request's, encode to no bytes
    MaxCloses,      \* bound: calls of Server.close
    Hanging         \* requests whose handler may never produce anything

Requests == 1..MaxRequests
Tasks == Requests \union PushRoutes
Header == [sessioned: BOOLEAN, command: Commands \union {SchemaCommand, UnknownCommand}]

ASSUME BoundsAssumption == MaxRequests \in Nat /\ MaxPushes \in Nat /\ MaxCloses \in Nat
ASSUME RoutesAssumption ==
    /\ ResponseFrames \in [Commands -> Nat \ {0}]
    /\ SchemaCommand \notin Commands
    /\ UnknownCommand \notin Commands \union {SchemaCommand}
ASSUME TasksAssumption == PushRoutes \intersect Nat = {}
ASSUME TrafficAssumption ==
    Traffic \subseteq Header /\ SilentErrors \subseteq Tasks /\ Hanging \subseteq Requests

VARIABLES
    conn,            \* where _handle_client is
    link,            \* the transport
    registry,        \* this connection's entries in _client_tasks, _writers, _clients
    closes,          \* calls of Server.close so far
    received,        \* requests received
    header,          \* what each request asks for
    response_tail,   \* future of the last sessionless request
    previous,        \* future each request waits for
    complete,        \* future each request resolves when it ends
    resolved,        \* futures that are done
    pc,              \* where each task is
    staged,          \* the frame a task is about to write
    sent,            \* result frames a task has written
    writer_lock,     \* asyncio.Lock: its holder, then its waiters in order
    cancelRequested, \* tasks with a cancellation to be delivered
    wire             \* frames the transport accepted, in order

connVars == <<conn, link, registry, closes>>
chainVars == <<received, header, response_tail, previous, complete>>
taskVars == <<pc, staged, sent>>
vars == <<connVars, chainVars, taskVars, resolved, writer_lock, cancelRequested, wire>>

Ended(t) == pc[t] \in {"absent", "done", "cancelled"}
Declared(r) == ResponseFrames[header[r].command]
Schema(r) == header[r].command = SchemaCommand
WriteQueued(t) == pc[t] \in {"locking", "draining"} /\ staged[t] # "schema"

(***************************************************************************)
(* Initially the handler runs the on_client_connected callbacks: it has    *)
(* registered itself, the writer and the client.                           *)
(***************************************************************************)
Init ==
    /\ conn = "connecting" /\ link = "up" /\ closes = 0
    /\ registry = {"task", "writer", "client"}
    /\ received = 0
    /\ header = [r \in Requests |-> [sessioned |-> TRUE, command |-> UnknownCommand]]
    /\ response_tail = 0
    /\ previous = [r \in Requests |-> 0]
    /\ complete = [r \in Requests |-> 0]
    /\ resolved = {0}
    /\ pc = [t \in Tasks |-> "absent"]
    /\ staged = [t \in Tasks |-> "none"]
    /\ sent = [t \in Tasks |-> 0]
    /\ writer_lock = <<>>
    /\ cancelRequested = {}
    /\ wire = <<>>

-----------------------------------------------------------------------------
(* The connection handler, reading.                                        *)

\* The push tasks are created and the read loop is entered.
Connected ==
    /\ conn = "connecting"
    /\ conn' = "reading"
    /\ pc' = [t \in Tasks |-> IF t \in PushRoutes THEN "created" ELSE pc[t]]
    /\ UNCHANGED <<link, registry, closes, chainVars, staged, sent, resolved,
                   writer_lock, cancelRequested, wire>>

\* Mutant: a session id does not exempt a request from waiting for the tail.
ReceiveChained(h) ==
    LET r == received + 1
        tail == IF h.sessioned THEN response_tail ELSE r
    IN  /\ conn = "reading" /\ r \in Requests
        /\ received' = r
        /\ header' = [header EXCEPT ![r] = h]
        /\ previous' = [previous EXCEPT ![r] = response_tail]
        /\ complete' = [complete EXCEPT ![r] = tail]
        /\ response_tail' = tail
        /\ pc' = [pc EXCEPT ![r] = "created"]
        /\ UNCHANGED <<connVars, staged, sent, resolved, writer_lock, cancelRequested, wire>>

\* Mutant: the future handed out is the next request's.
ReceiveOffByOne(h) ==
    LET r == received + 1
    IN  /\ conn = "reading" /\ r \in Requests
        /\ received' = r
        /\ header' = [header EXCEPT ![r] = h]
        /\ previous' = [previous EXCEPT ![r] = IF h.sessioned THEN 0 ELSE response_tail]
        /\ complete' = [complete EXCEPT ![r] = r + 1]
        /\ response_tail' = r
        /\ pc' = [pc EXCEPT ![r] = "created"]
        /\ UNCHANGED <<connVars, staged, sent, resolved, writer_lock, cancelRequested, wire>>

\* A request frame is decoded: a sessionless one becomes the new tail of the
\* response chain, a sessioned one gets a resolved predecessor; both are given
\* the current tail to complete.
Receive(h) ==
    LET r == received + 1
        tail == IF h.sessioned THEN response_tail ELSE r
    IN  /\ conn = "reading"
        /\ r \in Requests
        /\ received' = r
        /\ header' = [header EXCEPT ![r] = h]
        /\ previous' = [previous EXCEPT ![r] = IF h.sessioned THEN 0 ELSE response_tail]
        /\ complete' = [complete EXCEPT ![r] = tail]
        /\ response_tail' = tail
        /\ pc' = [pc EXCEPT ![r] = "created"]
        /\ UNCHANGED <<connVars, staged, sent, resolved, writer_lock, cancelRequested, wire>>

-----------------------------------------------------------------------------
(* Request and push tasks.  A task with a cancellation to be delivered takes *)
(* no step but CancelDelivered.                                              *)

Live(t, at) == t \notin cancelRequested /\ pc[t] = at

Goto(t, to) == pc' = [pc EXCEPT ![t] = to]

\* Mutant: the "finally" that resolves "complete" is missing.
ReleasedNothing(t) == {}

\* The "finally" of _handle_request: the next sessionless request may go on.
Released(t) == IF t \in Requests THEN {complete[t]} ELSE {}

Finish(t) ==
    /\ Goto(t, "done")
    /\ resolved' = resolved \union Released(t)
    /\ staged' = [staged EXCEPT ![t] = "none"]

\* Mutant: the next request goes on before the exception is answered.
FailReleases(t) ==
    /\ Goto(t, IF t \in Requests THEN "waiting" ELSE "staged")
    /\ staged' = [staged EXCEPT ![t] = "error"]
    /\ resolved' = resolved \union Released(t)

\* The "except Exception" handler: the exception is to be answered; a request
\* waits for its predecessor first.
Fail(t) ==
    /\ Goto(t, IF t \in Requests THEN "waiting" ELSE "staged")
    /\ staged' = [staged EXCEPT ![t] = "error"]
    /\ UNCHANGED resolved

\* The schema is built and staged, or building it raises (_schema_type of a route
\* whose handler cannot be described); an unknown command raises as well.
StartRequest(r) ==
    /\ Live(r, "created")
    /\ \/ /\ Schema(r)
          /\ Goto(r, "staged")
          /\ staged' = [staged EXCEPT ![r] = "schema"]
       \/ /\ Schema(r) \/ header[r].command = UnknownCommand
          /\ Goto(r, "waiting")
          /\ staged' = [staged EXCEPT ![r] = "error"]
       \/ /\ header[r].command \in Commands
          /\ Goto(r, "waiting")
          /\ UNCHANGED staged
    /\ UNCHANGED <<connVars, chainVars, sent, resolved, writer_lock, cancelRequested, wire>>

StartPush(p) ==
    /\ Live(p, "created")
    /\ Goto(p, "running")
    /\ UNCHANGED <<connVars, chainVars, staged, sent, resolved, writer_lock,
                   cancelRequested, wire>>

\* Mutant: "await previous" is missing.
PreviousIgnored(r) ==
    /\ Live(r, "waiting")
    /\ Goto(r, IF staged[r] = "error" THEN "staged" ELSE "running")
    /\ UNCHANGED <<connVars, chainVars, staged, sent, resolved, writer_lock,
                   cancelRequested, wire>>

\* "await previous" returns, before the first frame or before the error frame.
PreviousDone(r) ==
    /\ Live(r, "waiting")
    /\ previous[r] \in resolved
    /\ Goto(r, IF staged[r] = "error" THEN "staged" ELSE "running")
    /\ UNCHANGED <<connVars, chainVars, staged, sent, resolved, writer_lock,
                   cancelRequested, wire>>

\* The handler produces a result; a request that has its declared number of
\* frames breaks out of the loop and drops it.
HandlerYields(t) ==
    /\ Live(t, "running")
    /\ \/ /\ IF t \in Requests THEN sent[t] < Declared(t) ELSE sent[t] < MaxPushes
          /\ Goto(t, "staged")
          /\ staged' = [staged EXCEPT ![t] = "value"]
          /\ UNCHANGED resolved
       \/ /\ t \in Requests /\ sent[t] = Declared(t)
          /\ Finish(t)
    /\ UNCHANGED <<connVars, chainVars, sent, writer_lock, cancelRequested, wire>>

\* Mutant: the number of frames is not checked.
HandlerReturnsUnchecked(t) ==
    /\ Live(t, "running")
    /\ Finish(t)
    /\ UNCHANGED <<connVars, chainVars, sent, writer_lock, cancelRequested, wire>>

\* The handler ends; too few frames are an error.
HandlerReturns(t) ==
    /\ Live(t, "running")
    /\ IF t \in Requests /\ sent[t] # Declared(t) THEN Fail(t) ELSE Finish(t)
    /\ UNCHANGED <<connVars, chainVars, sent, writer_lock, cancelRequested, wire>>

\* The arguments do not bind, the handler raises, or its result is refused by the
\* frame (set_result, validate).
HandlerRaises(t) ==
    /\ Live(t, "running")
    /\ Fail(t)
    /\ UNCHANGED <<connVars, chainVars, sent, writer_lock, cancelRequested, wire>>

\* The callbacks have run: the task queues for writer_lock, or ends without a frame
\* because its exception cannot be represented (set_exception, validate and, of a
\* request, encode raise inside the handler of the exception) or encodes to nothing.
AwaitLock(t) ==
    /\ Live(t, "staged") /\ staged[t] # "schema"
    /\ \/ /\ Goto(t, "locking")
          /\ writer_lock' = Append(writer_lock, t)
          /\ UNCHANGED <<staged, resolved>>
       \/ /\ t \in SilentErrors /\ staged[t] = "error"
          /\ Finish(t)
          /\ UNCHANGED writer_lock
    /\ UNCHANGED <<connVars, chainVars, sent, cancelRequested, wire>>

\* writer.write: the bytes of a whole frame reach the transport unless it is gone.
Send(t) ==
    wire' = IF link = "up"
            THEN Append(wire, [task |-> t, kind |-> staged[t], seq |-> sent[t] + 1])
            ELSE wire

Write(t) ==
    /\ Live(t, "locking") /\ Head(writer_lock) = t
    /\ Goto(t, "draining")
    /\ Send(t)
    /\ UNCHANGED <<connVars, chainVars, staged, sent, resolved, writer_lock, cancelRequested>>

\* _send_default_result writes the schema response without the lock.
WriteSchema(r) ==
    /\ Live(r, "staged") /\ staged[r] = "schema"
    /\ Goto(r, "draining")
    /\ Send(r)
    /\ UNCHANGED <<connVars, chainVars, staged, sent, resolved, writer_lock, cancelRequested>>

\* The schema cannot be encoded (a default the codec cannot represent): an error
\* frame is to be written instead.
SchemaFails(r) ==
    /\ Live(r, "staged") /\ staged[r] = "schema"
    /\ Fail(r)
    /\ UNCHANGED <<connVars, chainVars, sent, writer_lock, cancelRequested, wire>>

\* Mutant: the lock is released on success only, not by "async with".
ReleaseLockUncancelled(t) ==
    writer_lock' = IF WriteQueued(t) /\ t \notin cancelRequested
                   THEN RemoveFirst(writer_lock, t) ELSE writer_lock

ReleaseLock(t) ==
    writer_lock' = IF WriteQueued(t) THEN RemoveFirst(writer_lock, t) ELSE writer_lock

\* frame.encode() raises under the lock: a result the codec cannot represent is
\* answered by an exception; a push handler encodes that one here too.
EncodeFails(t) ==
    /\ Live(t, "locking") /\ Head(writer_lock) = t
    /\ \/ staged[t] = "value" /\ Fail(t)
       \/ staged[t] = "error" /\ t \in PushRoutes \intersect SilentErrors /\ Finish(t)
    /\ ReleaseLock(t)
    /\ UNCHANGED <<connVars, chainVars, sent, cancelRequested, wire>>

\* Mutant: a frame that was drained is written again.
DrainedRetries(t) ==
    /\ Live(t, "draining")
    /\ \/ WriteQueued(t) /\ Goto(t, "locking") /\ UNCHANGED <<staged, sent, resolved, writer_lock>>
       \/ Finish(t) /\ ReleaseLock(t) /\ UNCHANGED sent
    /\ UNCHANGED <<connVars, chainVars, cancelRequested, wire>>

\* drain() returns: the lock is released and the handler is resumed, or the
\* last frame of the task is out.
Drained(t) ==
    /\ Live(t, "draining")
    /\ ReleaseLock(t)
    /\ \/ /\ staged[t] = "value"
          /\ Goto(t, "running")
          /\ staged' = [staged EXCEPT ![t] = "none"]
          /\ sent' = [sent EXCEPT ![t] = @ + 1]
          /\ UNCHANGED resolved
       \/ /\ staged[t] # "value"
          /\ Finish(t)
          /\ UNCHANGED sent
    /\ UNCHANGED <<connVars, chainVars, cancelRequested, wire>>

\* drain() raises because the connection is gone.
DrainFails(t) ==
    /\ Live(t, "draining") /\ link # "up"
    /\ ReleaseLock(t)
    /\ IF staged[t] = "error" THEN Finish(t) ELSE Fail(t)
    /\ UNCHANGED <<connVars, chainVars, sent, cancelRequested, wire>>

\* CancelledError: no frame is written.  A request that was started resolves
\* its future in "finally"; the cancellation has already cancelled the future it
\* waited for.
CancelDelivered(t) ==
    /\ t \in cancelRequested
    /\ cancelRequested' = cancelRequested \ {t}
    /\ Goto(t, "cancelled")
    /\ ReleaseLock(t)
    /\ resolved' = resolved
           \union (IF pc[t] = "created" THEN {} ELSE Released(t))
           \union (IF pc[t] = "waiting" THEN {previous[t]} ELSE {})
    /\ staged' = [staged EXCEPT ![t] = "none"]
    /\ UNCHANGED <<connVars, chainVars, sent, wire>>

StartStep(t) ==
    \/ t \in Requests /\ (StartRequest(t) \/ PreviousDone(t) \/ WriteSchema(t) \/ SchemaFails(t))
    \/ t \in PushRoutes /\ StartPush(t)
HandlerStep(t) == HandlerYields(t) \/ HandlerReturns(t) \/ HandlerRaises(t)
FrameStep(t) ==
    AwaitLock(t) \/ Write(t) \/ EncodeFails(t) \/ Drained(t) \/ DrainFails(t)
TaskStep(t) == StartStep(t) \/ HandlerStep(t) \/ FrameStep(t) \/ CancelDelivered(t)

-----------------------------------------------------------------------------
(* The end of the connection.                                              *)

\* EOF or a connection error ends the read loop: the on_client_disconnected
\* callbacks run.
ReadFails ==
    /\ conn = "reading"
    /\ conn' = "closing"
    /\ UNCHANGED <<link, registry, closes, chainVars, taskVars, resolved, writer_lock,
                   cancelRequested, wire>>

LinkLost ==
    /\ link = "up"
    /\ link' = "lost"
    /\ UNCHANGED <<conn, registry, closes, chainVars, taskVars, resolved, writer_lock,
                   cancelRequested, wire>>

\* Server.close aborts the transport of a registered writer and cancels a
\* registered handler: in the read loop that starts the cleanup, anywhere else
\* it skips what is left of the handler.
ServerClose ==
    /\ closes < MaxCloses
    /\ closes' = closes + 1
    /\ registry' = registry \ {"writer"}
    /\ link' = IF "writer" \in registry /\ link = "up" THEN "lost" ELSE link
    /\ conn' = IF "task" \notin registry \/ conn \in {"closed", "aborted"} THEN conn
               ELSE IF conn = "reading" THEN "closing" ELSE "aborted"
    /\ UNCHANGED <<chainVars, taskVars, resolved, writer_lock, cancelRequested, wire>>

\* Mutant: the requests are gathered without being cancelled.
BeginCleanupGentle ==
    /\ conn = "closing"
    /\ conn' = "gatherRequests"
    /\ registry' = registry \ ({"writer", "client"} \union (IF received = 0 THEN {"task"} ELSE {}))
    /\ UNCHANGED <<link, closes, chainVars, taskVars, resolved, writer_lock,
                   cancelRequested, wire>>

\* The callbacks have run; the handler unregisters and cancels the requests.
\* "task" names the last request's task by now, so the handler's own entry is
\* only discarded when no request was ever received.
BeginCleanup ==
    /\ conn = "closing"
    /\ conn' = "gatherRequests"
    /\ registry' = registry \ ({"writer", "client"} \union (IF received = 0 THEN {"task"} ELSE {}))
    /\ cancelRequested' = cancelRequested \union {r \in Requests : ~Ended(r)}
    /\ UNCHANGED <<link, closes, chainVars, taskVars, resolved, writer_lock, wire>>

RequestsGathered ==
    /\ conn = "gatherRequests"
    /\ \A r \in Requests : Ended(r)
    /\ conn' = "gatherPushes"
    /\ cancelRequested' = cancelRequested \union {p \in PushRoutes : ~Ended(p)}
    /\ UNCHANGED <<link, registry, closes, chainVars, taskVars, resolved, writer_lock, wire>>

\* Mutant: the writer is closed without waiting for the push tasks.
PushesAbandoned ==
    /\ conn = "gatherPushes"
    /\ conn' = "closed"
    /\ link' = "closed"
    /\ UNCHANGED <<registry, closes, chainVars, taskVars, resolved, writer_lock,
                   cancelRequested, wire>>

\* Every task has ended: the writer is closed and the handler returns.
PushesGathered ==
    /\ conn = "gatherPushes"
    /\ \A p \in PushRoutes : Ended(p)
    /\ conn' = "closed"
    /\ link' = "closed"
    /\ UNCHANGED <<registry, closes, chainVars, taskVars, resolved, writer_lock,
                   cancelRequested, wire>>

Cleanup == BeginCleanup \/ RequestsGathered \/ PushesGathered

Next ==
    \/ Connected
    \/ \E h \in Traffic : Receive(h)
    \/ \E t \in Tasks : TaskStep(t)
    \/ ReadFails \/ LinkLost \/ ServerClose
    \/ Cleanup

Spec == Init /\ [][Next]_vars

(***************************************************************************)
(* The event loop runs every task that is ready, callbacks return, and a   *)
(* peer that stops reading is lost in the end (drain returns or raises).   *)
(* Handlers outside Hanging go on producing results until they end.        *)
(* Nothing makes a client send, disconnect, or anyone call Server.close.   *)
(***************************************************************************)
Fairness ==
    /\ WF_vars(Connected)
    /\ WF_vars(Cleanup)
    /\ \A t \in Tasks : WF_vars(StartStep(t) \/ FrameStep(t) \/ CancelDelivered(t))
    /\ \A t \in Tasks \ Hanging : WF_vars(HandlerStep(t))

FairSpec == Spec /\ Fairness

-----------------------------------------------------------------------------
(* Properties.                                                             *)

\* The type invariant of the connection's state.
TypeOK ==
    /\ conn \in {"connecting", "reading", "closing", "gatherRequests", "gatherPushes",
                 "closed", "aborted"}
    /\ link \in {"up", "lost", "closed"}
    /\ registry \subseteq {"task", "writer", "client"}
    /\ closes \in 0..MaxCloses
    /\ received \in 0..MaxRequests
    /\ header \in [Requests -> Header]
    /\ response_tail \in 0..received
    /\ previous \in [Requests -> 0..MaxRequests]
    /\ complete \in [Requests -> 0..MaxRequests]
    /\ resolved \subseteq 0..MaxRequests
    /\ pc \in [Tasks -> {"absent", "created", "waiting", "running", "staged", "locking",
                        "draining", "done", "cancelled"}]
    /\ staged \in [Tasks -> {"none", "value", "error", "schema"}]
    /\ sent \in [Tasks -> Nat]
    /\ writer_lock \in Seq(Tasks)
    /\ cancelRequested \subseteq Tasks
    /\ wire \in Seq([task : Tasks, kind : {"value", "error", "schema"}, seq : Nat])

Sessionless(t) == t \in Requests /\ ~header[t].sessioned

\* "a request without a session id still cannot overtake an earlier one on the
\* same connection" (comment in _handle_request): response frames of sessionless
\* requests are written in the order the requests were received.
SessionlessFIFO ==
    \A i, j \in 1..Len(wire) :
        /\ i < j
        /\ Sessionless(wire[i].task) /\ Sessionless(wire[j].task)
        => wire[i].task <= wire[j].task

\* The request has written all it will ever write.
Quiet(r) == pc[r] \in {"done", "cancelled"} \/ r \in cancelRequested

\* The frames of a request on the wire, and whether its last one is an exception
\* that is still being drained.
Written(r) == {i \in 1..Len(wire) : wire[i].task = r}
Refused(r) == pc[r] = "draining" /\ staged[r] = "error"

\* What the connection does is what ResponseStream promises a client without session
\* ids: no frame of a request before all earlier requests have written their last, no
\* more than it declares, none after an exception, numbered without a gap, and none is
\* given up while requests can still arrive.
Responses == INSTANCE ResponseStream WITH
    Counts <- {0} \union {ResponseFrames[c] : c \in Commands},
    open <- conn \in {"connecting", "reading"},
    declared <- [r \in 1..received |-> IF header[r].command \in Commands THEN Declared(r) ELSE 0],
    sent <- [r \in 1..received |-> Cardinality(Written(r))],
    served <- {r \in 1..received : Quiet(r) \/ Refused(r)},
    out <- [i \in 1..Len(wire) |-> IF wire[i].task \in Requests THEN wire[i]
                                   ELSE [task |-> wire[i].task, kind |-> "push", seq |-> 0]]
AnswersInTurn == Responses!Spec

\* The frames of one request or push handler reach the wire in the order it
\* produced them, none twice, and nothing follows an error or schema frame,
\* whatever the other tasks of the connection do.
FramesInOrder ==
    \A i, j \in 1..Len(wire) :
        /\ i < j
        /\ wire[i].task = wire[j].task
        => wire[i].kind = "value" /\ wire[i].seq < wire[j].seq

\* A request that ended by itself on a connection that is still up was answered in
\* full: by the schema or an error frame alone if it asked for the schema, otherwise
\* by exactly its declared number of results or with an error frame.  Only an
\* exception the codec fails to represent goes unanswered.
CompleteResponse ==
    \A r \in Requests \ SilentErrors :
        pc[r] = "done" /\ link = "up" =>
            LET kinds == {wire[i].kind : i \in {j \in 1..Len(wire) : wire[j].task = r}}
                values == {wire[i].seq : i \in {j \in 1..Len(wire) :
                                                  wire[j].task = r /\ wire[j].kind = "value"}}
            IN  IF Schema(r) THEN kinds \in {{"schema"}, {"error"}}
                ELSE "error" \in kinds \/ values = 1..Declared(r)

\* writer_lock is held and queued for by exactly the tasks inside "async with
\* writer_lock": no cancelled or failed task keeps it, none queues twice, and only
\* its holder is between writing a frame and the end of drain().
LockDiscipline ==
    /\ ToSet(writer_lock) = {t \in Tasks : WriteQueued(t)}
    /\ IsInjective(writer_lock)
    /\ \A i \in 2..Len(writer_lock) : pc[writer_lock[i]] = "locking"

\* When the handler has closed the writer nothing of the connection is left: no
\* task can run on the closed transport and the registries of writers and clients
\* have forgotten it.
ClosedIsQuiet ==
    conn = "closed" =>
        /\ \A t \in Tasks : Ended(t)
        /\ registry \subseteq {"task"}
        /\ writer_lock = <<>>

\* Every request that is received ends, however the connection fails: neither the
\* response chain nor the lock leaves a request waiting for ever.
RequestsEnd == \A r \in Requests : pc[r] = "created" ~> Ended(r)

\* "Requests that carry a session_id do not wait for the previous request on the
\* same connection": one ends even when the handlers of others hang.
SessionedNotBlocked ==
    \A r \in Requests \ Hanging :
        pc[r] = "created" /\ header[r].sessioned ~> Ended(r)

\* Once the read loop is left the handler reaches its last statement, unless
\* Server.close cancels it on the way.
CleanupCompletes == conn = "closing" ~> conn \in {"closed", "aborted"}
=============================================================================
