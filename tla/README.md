# A TLA+ model of FastTcpAPI

FastTcpAPI is a small asyncio RPC library: a `Server` routes command frames to handlers
and pushes unsolicited frames, a `Client` keeps one connection, matches responses to calls
and reconnects by itself. Nearly all of its difficulty is in the interleaving of tasks on
an event loop: state that is read before an `await` and used after it, futures handed from
task to task, connections that die while something waits on them. This directory holds the
TLA+ modules that model it, the TLC configurations that check them, and the theorems TLAPS
proves. Line numbers refer to `src/fasttcpapi/`.

## 1. Inventory

| component | source | state | operations | hard behaviour |
|---|---|---|---|---|
| Server connection | `server.py` 208-378, 404-421, 474-483 | the read loop's place, `response_tail` and the futures chained from it, request and push tasks, `writer_lock`, registry entries | receive, dispatch, write under the lock, error path, cancellation, cleanup | tasks interleave at every await; the connection may drop or be closed at any of them |
| Server lifecycle | `server.py` 380-421 | `_server`, `_client_tasks`, `_writers`, `_clients` | `start`, `serve`, `close` | check-then-await in `start`, `close` racing `start` and a handler's cleanup |
| Client requests | `_client_core.py` 239-292, 321-384 | `_pending`, `_none_pending`, `_none_pending_remaining`, one queue per call | `call`, `_request`, the reader's dispatch | late responses, timeouts, more or fewer frames than declared |
| Client connection | `_client_core.py` 183-237, 274-292, 306-319; `client.py` 104-182 | `_reader`, `_writer`, `_reader_task`, `_auto_task`, the two events, `_stop_reconnect`, `_connection_lock` | `connect`, `disconnect`, waiters, `_reconnect_loop`, `_ensure_connection`, the reader's end | the old reader's end, the reconnect loop, `close` and calls all write the same fields across awaits |
| Client push queue | `_client_core.py` 148-165, 242-273, 294-304 | `_pushes`, `_early_frames`, `_schema` | `_put_push`, `next_push`, replay | eviction at the bound, replay racing new frames, callers in other threads |
| Submit loop | `client.py` 65-146 | `_submit_loop`, `_submit_thread`, `_submit_ready` | `_ensure_submit_loop`, submitting a call, the wait inside it | two threads at once |
| Routing | `server.py` 61-72, 126-206, 487-523; `router.py` | `_routes`, `_push_routes`, the client's `_schema` | `command`, `push`, `include_router`, the schema | partial registration, names shared by commands and pushes, a snapshot that ages |
| JSON codec | `json_frame.py` | position in the byte stream | `decode`, `encode`, `result` | resynchronising after a rejected frame |
| Argument binding | `server.py` 423-472, `_client_core.py` 415-448, `binary.py` | none | `_validate_call`, `_params_for`, `_coerce_bound_arguments`, `decode_typed_arguments` | strict and converting modes on two sides, the last bytes of a payload |
| Loggers, exceptions, frame interface, connection record, stub text | `loggers.py`, `exceptions.py`, `frame.py`, `client_connection.py`, `_client_core.py` 386-413 | none | output | not modelled: no state the properties speak of |

How they interact: the client's call writes a request frame; the server connection turns
it into a task and writes response frames; the client's reader hands each frame to the
pending call, to the push queue or to the early-frame list. A connection's end is seen by
the server's read loop (which cancels its tasks) and by the client's reader loop (which
fails the pending calls and clears the connection for the reconnect loop).
`PROJECT.json` lists every hazard found in the code with its line.

## 2. Plan

In the order of how much depends on them:

| module | what it is |
|---|---|
| `ServerConnection` | the server's side of one connection |
| `ResponseStream` | the abstract promise to a client without session ids; `ServerConnection` implements it, and it is the server `ClientRequests` assumes |
| `ClientReconnect` | how a client opens, loses, reopens and closes its connection, and what that does to its calls |
| `ClientRequests` | which response answers which call on a connection that stays up; without session ids its server is `ResponseStream` |
| `PushQueue` | how unsolicited frames reach `next_push` |
| `ServerLifecycle` | starting and closing a server, and the life of its connection handlers |
| `SubmitLoop` | the background event loop of a client and its first users |
| `Commands` | routes, the schema a client takes of them, arguments checked on both sides |
| `JsonFraming` | frames cut out of a byte stream by a length prefix |
| `BinaryArguments` | the arguments of a binary frame cut out of its payload |

`MCServerConnection`, `MCClientReconnect` and `MCClientRequests` hold bounds; `MCFrames` and
`MCComponents` put modules that do not share state side by side. The theorems are in
`ServerConnectionProofs` (with the refinement), `ServerWriteProofs`, `ClientReconnectProofs`,
`ClientRequestsProofs`, `PushQueueProofs`, `ComponentsProofs` (for what `MCComponents` composes:
`ServerLifecycle`, `Commands`, `SubmitLoop`) and `FramesProofs` (for `JsonFraming`,
`BinaryArguments` and the composition `MCFrames`), with lemmas about sequences and queues of
locks in `QueueLemmas`.

What could follow:

1. Composition: `ClientRequests` over `ServerConnection` itself also for requests with session
   ids, where no abstract server stands between them; `PushQueue` over a connection that is
   lost and opened again.
2. The default executor, shared by the blocking handlers of all connections (`server.py` 193),
   and a server that is restarted with other routes while clients keep their schema.

## 3. Reading the modules

`ServerConnection`, `ClientReconnect`, `ClientRequests`, `PushQueue` and `ServerLifecycle`
describe tasks of an event loop. A step is the code between two places where the task can be
suspended; every `await` that may really suspend is a place where the other tasks' steps come
in between. Threads appear in `ClientReconnect` (the user's), `PushQueue` (the callers of
`next_push`) and `SubmitLoop`: there a step goes up to the next point at which another thread
can see or change an attribute. In `Commands`, `JsonFraming` and `BinaryArguments` the
difficulty is in the data, and a step is one registration, check or read.

The variables have the names of the attributes and locals they stand for (`response_tail`,
`writer_lock`, `_pending` as `pending`, ...); `pc`, `place`, `handler`, `user` and the like say
where a task or thread is. An `asyncio.Lock` is a sequence: its holder, then its waiters in
order. Definitions whose comment begins with "Mutant" are broken variants of the definition
that follows them; no specification uses them. They are there so that each property can be
seen to fail when the code it is about is changed.

`MC` modules hold the bounds and sets the `.cfg` files choose among. `MCFrames` and
`MCComponents` explore several modules in one run: a variable says which of them a behaviour
is about, and the others keep their initial state, so the state spaces add and do not
multiply. Run, for example, `tlc -config ServerShared.cfg MCServerConnection.tla` and
`tlapm ServerConnectionProofs.tla`.

## 4. ServerConnection

| action | code (`server.py`) |
|---|---|
| `Connected`, `Receive` | 215-239: push tasks are created, a frame is decoded, `previous` and `complete` are chosen, the request task is created |
| `StartRequest`, `PreviousDone` | 272-287, 308: the schema request (the schema, or an error if it cannot be built), the unknown command, `await previous` (also before an error frame) |
| `HandlerYields`, `HandlerReturns`, `HandlerRaises` | 289-305: a result, the break after the declared number, too few results, an exception |
| `AwaitLock`, `Write`, `EncodeFails`, `Drained`, `DrainFails`, `WriteSchema`, `SchemaFails` | 292-299, 309-317, 358-375, 474-483: callbacks, `async with writer_lock`, write, drain |
| `CancelDelivered` | 305, 318-320: `CancelledError`, the lock given back, `complete` resolved if the task had started, the awaited future cancelled with it |
| `ReadFails`, `LinkLost`, `ServerClose` | 240-250, 404-421: the ways a connection ends |
| `BeginCleanup`, `RequestsGathered`, `PushesGathered` | 248-267: cancel and gather requests, then pushes, then close the writer |

What a frame contains is abstracted to a value, an error or the schema, with its number
within the request. Handlers are free: any number of results, exceptions at any point. A
schema request may fail before it writes, where the schema is built, set or encoded, and then
goes the way of every exception: it awaits its predecessor and writes an error frame under the
lock. The tasks in `SilentErrors` are those whose exceptions the codec cannot represent
(`set_exception`, `validate` or `encode` raise again, 309-311 and 349-355) or encodes to
nothing: they end without a frame.

**Properties.** `SessionlessFIFO`, `FramesInOrder`, `CompleteResponse`, `LockDiscipline`,
`ClosedIsQuiet` (safety; an answer is complete when it is the declared results, ends with an
error, or for the schema is the schema or an error alone); `RequestsEnd`, `SessionedNotBlocked`, `CleanupCompletes`
(liveness); and `AnswersInTurn`: for a client without session ids the connection implements
`ResponseStream`, in which the oldest unserved request alone may write, no more frames than
its command declares unless the last is an exception, numbered without a gap and none after
an exception; a request is served once and for good, and requests are given up only when no
more can arrive. The mapping takes a request to be served when its task has ended, has a
cancellation to be delivered, or is draining its exception; the frames sent for it are those
of its task on `wire`.

**Fairness.** The event loop runs every ready task, callbacks return, and a peer that stops
reading is lost in the end, so `drain` returns or raises. Handlers that are not in `Hanging`
go on until they end. Nothing makes a client send or disconnect or anyone call `close`.

## 5. ClientReconnect

| action | code |
|---|---|
| `OpenSucceeds`, `OpenFails`, `Announced`, `LockGranted` (in `Checked`, `Ensure`) | `_core` 183-193: the lock, the check for a working writer, `open_connection`, `on_connected` |
| `LoopChecks`, `LoopRetries`, `LoopLearns`, `SchemaFails` | `_core` 148-181, 202-220: one pass of `_reconnect_loop`, the schema request and its failures (a schema or a stub file that cannot be used) |
| `Submit`, `CallBegins`, `CallConnects`, `CallWaits`, `CallWakes`, `CallTimesOut`, `Respond` | `client.py` 59-89, `_core` 222-233, 321-374 |
| `ReaderStarts`, `FrameArrives`, `FrameHandled`, `FrameDispatched`, `LateRead`, `ReaderEnds`, `ReaderEnded` | `_core` 239-292: the life of one connection's reader task, its `except` and its `finally` |
| `UserConnects`, `UserDisconnects`, `UserFinishes`, `StartRuns`, `CloseRuns` | `client.py` 104-182, `_core` 195-200, 306-319: the user's thread, and what it hands to the loop |
| `LinkLost` | the peer's EOF or reset |

(`_core` is `_client_core.py`.) Connections are numbered; `current` is the one in `_reader`
and `_writer`. `AsyncCallbacks` chooses between callbacks that return at once and callbacks
that suspend; `Resets` lets the peer reset besides sending EOF, which `is_closing()` does
not show. Two things are decided by how long they take: opening a connection takes more
turns of the event loop than a ready task waits, and the reconnect loop's sleep outlasts
calls that were woken. A reader whose callback was suspended while its connection was replaced
looks at `_reader` again: it reads the new stream while nobody waits on that (`LateRead`), gets
asyncio's `RuntimeError` once the new reader does, and otherwise spins (`frozen`). It does not
keep which newer stream it waits on. `CancelledError` is a `BaseException`, as since Python 3.8.

**Properties.** `PendingHasReader` and `OneConnection` (for callbacks that do not suspend:
with others a reader's late `finally` clears a newer connection, and a second one is
opened). For any callbacks: `ConnectionLockDiscipline`, the action property
`NeverReplacesWorking`, and `HarmBounded`, which says how far the damage goes: only the late
`finally` of a reader makes the client lose track of a working connection, one per reader that
ended, and a client whose connection was neither lost nor closed opens one, keeps it, never
spins, and its pending calls have their reader. Liveness: `Reconnects`, whatever is lost or
refused, and `CallsEndUndisturbed`, for a client that loses and closes nothing but may be
refused before it is connected.

**Fairness.** Ready tasks run, `open_connection` returns or raises, timeouts of calls that
have sent a request expire, the submit loop runs what it was handed, and a thread inside
`disconnect` goes on. Nobody has to call or connect; the server need not answer.

## 6. ClientRequests

| action | code |
|---|---|
| `Register`, `Write`, `Drained`, `EncodeFails` | `_core` 337-356, 376-378: the queue is registered, the call queues for `_write_lock`, `on_request`, encode, write, drain |
| `Take`, `TimesOut`, `Unregister` | `_core` 357-374: one turn of the loop over the declared frames; the `finally` |
| `ReadFrame`, `QueueFor`, `Deliver`, `CountDown` | `_core` 242-270: the queue is looked up, `on_response` runs, only then the frame is put and counted |
| `Send`, `Answer` | `server.py` 287-317; without session ids the steps `ResponseStream` has |

The module is about one connection that stays up and a client that knows the schema; what
the end of a connection does to a pending call is in `ClientReconnect`. All calls have a
session id or none (`FrameTypes`). A timeout may expire even with a frame in the queue. The
server may answer in any order with session ids, in request order without, may send an
exception at any point (also after the last declared result, which the code does when the
handler raises there) and may end without a frame (a codec may encode an exception to no
bytes). The frame records carry the call they were sent for; only the properties look at it
when there are no session ids.

**Properties.** `OwnResponses`: with session ids whatever happens, and without as long as
every call takes exactly its declared frames, the frames a call takes or finds in its queue
are those sent for it, from the first on. `PendingInRequestOrder`: matching by position is
right because the registrations are in the order in which requests are written; a call that
has not written yet is behind all that have.
`ServedAsPromised` (action property): without session ids the requests, the frames sent and
those on the way, each call under the number of its request, change only as `ResponseStream`
says, so the client is explored with no other server than `ServerConnection` is proved to be.
`CallsEnd`: a registered call ends if timeouts expire and ready tasks run; the server need
not answer.

## 7. PushQueue

| action | code (`_client_core.py`) |
|---|---|
| `ReadUnsolicited`, `Remember` | 242-273: a frame that answers no call is put if its command is a declared push, and remembered while there is no schema |
| `SchemaArrives`, `Define`, `ReplayNext` | 148-165: `connect()` takes the schema and puts the early frames |
| `PutPush`, `CallbacksDone`, `Evict`, `Put` | 294-299: the `on_push` callbacks, `full()`, `get_nowait()`, `put_nowait()` |
| `NextPush`, `Check`, `AwaitPush`, `TakePush`, `FallAsleep`, `Resume`, `GiveUp` | 301-304, and `asyncio.Queue.get` (Python 3.10 and later) as the callers' loops run it |

The reader and `connect()` are tasks of the submit loop and share it. `next_push` awaits the
same `asyncio.Queue` on the caller's loop, in another thread, so its steps come in between any
two of the queue's operations: `full()` and `get_nowait()` are two steps. Resolving a
future of a loop that sleeps in its selector does not wake it; `Busy` callers are those whose
loop something else wakes.

**Properties.** `NeverOverfull`: the queue stays within its bound and `QueueFull` is never
raised. `NothingTwice`: no frame is duplicated by replay, eviction or two callers.
`OvertakenOnlyInReplay`: frames keep their order but for a replay whose callback suspends.
`LossBounded` tells two losses apart. The bound loses frames one for one with those read beyond
it. A failure strands frames that were never queued: the early ones, if `connect()` fails with
the schema in place (a stub file that cannot be written, `QueueEmpty` in the replay), and the
one in the hand of the task that failed; at most `push_queue_size + 1`. `NextPushReturns`
(liveness) is finding 4.

**Fairness.** The submit loop and the callers' threads run, and callbacks return. No caller has
to call, no frame has to come.

## 8. ServerLifecycle

| action | code (`server.py`) |
|---|---|
| `Start`, `Bind`, `Opened`, `StartReturns` | 380-393: `_server` is looked at, `asyncio.start_server`, `_server` and `_address` are set, the callbacks, `return self._server` |
| `Return`, `ServeEnds`, `Cancel`, `CloseHandle` | 395-402 and what a caller may do: `async with`, `serve_forever`, cancelling the task, closing the returned listener |
| `Close` (`CloseListener`, `CancelTasks`, `AbortWriters`) | 404-421 |
| `Accept`, `Register`, `Connected`, `Decode`, `Receive`, `Disconnects`, `ReadFails`, `CleanUp`, `Finish`, `CancelDelivered` | 208-267: the handler of a connection as the registries see it |

`start()` looks at `_server` before an await and sets it after. `overlapping` chooses whether
the application calls it again meanwhile. Nothing in the code prevents that; `OneListener`
says what holds if it does not happen. `close()` may be called from anywhere, also from the
`on_connected`, `on_request` and `on_disconnected` callbacks of a handler, which it then cancels
where it stands. A call has "left" when `serve_forever` is over and its listener closed.

**Properties.** `OneListener`: without overlap `close()` can reach every open listener.
`StaleOnlyWhenLeft`: `start()` returns a closed listener only if a call left that listener
before: a `serve()` that ended or was refused, or the caller of a `start()` that closed what it
got. `Forgets`: what a handler that has ended, or that `close()` cut off in its
`finally`, leaves behind. `CloseEndsAll` (liveness): a server that was closed ends every
`serve()` and every handler, except handlers that had not run yet at that moment.

**Fairness.** The event loop runs the handlers, callbacks return, and `serve_forever` of a
closed listener ends. Nobody has to call, connect or send.

## 9. Commands, SubmitLoop, JsonFraming, BinaryArguments

| module | action | code |
|---|---|---|
| `Commands` | `Command`, `Push`, `IncludeRouter` | `server.py` 61-72, 126-169, `router.py`: registration on servers and routers, with what a conflict leaves behind |
| | `TakeSchema`, `CommandSchema` | `server.py` 487-523, `_client_core.py` 148-181 |
| | `Call`, `RawCall` | `_client_core.py` 321-333, 415-448; any other client |
| | `Serve`, `HandlerArguments` | `server.py` 171-206, 423-472 |
| `SubmitLoop` | `EnsureLoop`, `CreateThread`, `StartThread`, `LoopReady`, `StoreLoop`, `SetReady` | `client.py` 91-102 |
| | `Submit`, `RunCall`, `WaitEnds` | `client.py` 65-89, 131-146 |
| `JsonFraming` | `ReadLength`, `ReadFirst`, `ReadRest`, `Reject`, `Incomplete` | `json_frame.py` 26-56 and the loops around it, `server.py` 223-247, `_client_core.py` 242-252 |
| | `SendFrame`, `PeerCloses` | the peer: any kind of corrupt frame, the end of the stream anywhere |
| `BinaryArguments` | `DecodeArguments`, `DecodeOne`, `End` | `binary.py` 9-77 |

*Commands.* Values are told apart by their types. `Unsupported` handlers, with `*args` or with a
`bytes` parameter that is not the last, can be registered, but every call of theirs is refused and
the schema cannot be built; the run has one of the second kind. The schema is a set of definitions; the first
one with a name, which a call looks up, is a command's if there is one, since commands are
listed before pushes. The two sides check different sets of
classes and each may be strict or convert; a tuple arrives as a list. `SnapshotServed`: what a
client was told stays true whatever is registered later. `CheckedCallsAccepted`: a call the
client let through is refused by the server only for a class the client does not know.
`HandlerTypes`: a handler gets arguments of the types it declares, whoever calls it.

*SubmitLoop.* `OneLoop`: if the first use of a client does not overlap with another, all calls
run on the loop in the thread that `_submit_thread` names, and none blocks it;
`SubmittedCallsEndAlone` (liveness) that every submitted call then ends. Fairness: threads and loops that are not
blocked run. Without the condition a call may block its loop: finding 5.

*JsonFraming.* The unit is a word as long as the prefix, which can be read as a length and as
the start of a payload, so a reader that is out of step takes one for the other; a payload of
one word stands for one of a single byte, which leaves nothing unread when it is rejected. `StaysInStep`:
until a frame was rejected with part of it unread, every `decode()` starts at a prefix and
exactly the valid frames were accepted. `EofEnds` (liveness, if the reading task runs): a
closed stream ends the loop whatever came before.

*BinaryArguments.* `DecodesTheReading` compares the decoder with a declarative definition: the
ways to cut a payload into encodings of values of the given types. What is decoded is such a
way, the only one if `bytes` comes last, and found whenever there is one. `DefaultsOmittable`
is finding 6.

## 10. Runs

| run | question | bounds | result |
|---|---|---|---|
| `server_sessionless` | order, the frames of a task, progress and `ResponseStream` without session ids | 3 requests (1 or 2 frames, unknown commands), 1 `close`, failures anywhere | holds, 353 k states |
| `server_shared` | complete answers, lock, cleanup and progress when tasks share the socket and a handler may hang | 2 requests with or without session id or for the schema, which may fail, the first may hang, 1 push, exceptions of all but the second request that cannot be represented | holds, 1,034 k |
| `server_mixed_sessions` | the order when only some requests have session ids | 3 requests | violated: finding 1 |
| `client_sync` | calls, losses, refusals and disconnects with callbacks that return at once; does every call end when nothing is lost? | 2 calls, 3 connections, 1 loss, 1 refusal, 1 `connect`, 1 `disconnect`, 1 failed schema request | holds, 902 k |
| `client_async` | the connection lock, and what becomes of working connections, with callbacks that suspend | 2 calls, 3 connections, 2 losses, 1 refusal, 1 failed schema request | holds, 753 k |
| `client_lost_connection` | does every call end when a connection is lost? | 2 calls, 1 loss | violated: finding 2 |
| `client_disconnect_survives` | is a disconnected client without connection? | 1 `connect`, 1 `disconnect` | violated: finding 3 |
| `frames` | what happens to a frame (`ClientRequests`, `PushQueue`, `JsonFraming`, `BinaryArguments`) | 2 calls of 2 frames, a timeout for each, with and without ids; 2 callers of `next_push`, a queue of 2, 4 frames, 2 suspended callbacks; 2 sent frames of up to 2 words, and too long ones; up to 2 parameters and 5 bytes out of {0, 1, 255} | holds, 752 k |
| `next_push_hangs` | does `next_push` return when there is a frame? | 1 caller, 2 frames | violated: finding 4 |
| `components` | `ServerLifecycle`, `Commands`, `SubmitLoop` | 3 calls of `start` or `serve`, 1 `close`, 1 connection; 4 routes on a server and a router, 1 call; 2 threads | holds, 1,226 k |
| `sync_call_blocks_loop` | does a synchronous call end when two threads use the client first? | 2 threads | violated: finding 5 |
| `binary_defaults` | may a parameter with a default be left out of a binary payload? | up to 2 parameters, 4 bytes | violated: finding 6 |

**Why the bounds are enough.** Chains of futures and queues of locks behave differently at
lengths one, two and three (nothing, a neighbour, a neighbour's neighbour): three requests
let one overtake two, and a request, a second one and a push make the lock queue three long.
Two declared frames are the least number for which "the next frame", "the last" and "one too
many" differ. In the client two calls and the reconnect loop are three openers for one lock;
two losses end a connection while the previous one's reader is still in its `finally`; a
refusal fails a call, or the reconnect loop while calls wait for it.
`MaxTimeouts` is the number of calls, so it excludes nothing. A push queue of two tells the
oldest frame from the newest; four frames fill it and evict from it twice, and two callers
are one that waits and one that is faster. Of three calls of `start` and `serve` two can
overlap while a third comes later. Four routes allow a router with two, one of which
conflicts with the server's own. In `JsonFraming` a payload of two words holds a brace and
something that looks like a length; the second frame shows whether the reader is in step. A
payload of five bytes holds a fixed field of four and what may follow or be missing.
Deadlock is not checked: a closed connection, a client nobody uses, calls that have all
ended and a decoder that is done rightly take no further step.

## 11. Findings

1. **A response overtakes an earlier one** when only some requests have session ids.
   A sessioned request gets the current `response_tail` as its `complete` (235-237) and
   resolves it at its end although the sessionless request it belongs to is still running.
   The comment at 283-284 says that cannot happen. It is not true of a schema request without
   session id either, which is answered at once (275-277), before earlier requests: with
   `Traffic <- MCSessionlessSchema` in `ServerMixedSessions.cfg` `SessionlessFIFO` fails that way.
2. **A call waits for ever on a connected client.** If a call reopens a lost connection
   itself, after the old reader cleared `connected_event`, the reconnect loop finds a working
   writer and never sets the event again; the next call waits in `_wait_connected_internal`,
   which has no timeout. `README.md` 130-132 promises `TimeoutError` or the remote error.
3. **A connection survives `disconnect()`** that runs while `open_connection` is awaited:
   `_ensure_connection` stores the new writer without looking at `_stop_reconnect`.
4. **`next_push` sleeps although there is a frame.** `put_nowait` runs in the submit loop's
   thread and resolves a future of the caller's loop (`_core` 299-304). That schedules the
   caller without waking its selector, so a loop that has nothing else to do, as in the
   example at `README.md` 114, sleeps on.
5. **A synchronous call blocks the loop it waits for.** Two threads that use a client for the
   first time at once each start a loop (`client.py` 91-102); `_submit_loop` can end up as one
   runner's loop and `_submit_thread` as the other's thread. `wait_for_connected` (132-146)
   then takes the loop's own thread for a foreign one and blocks it in `pending.result()`.
   `README.md` 162: "One `Client` instance can be used from multiple threads and event loops."
6. **A default is not a default in a binary frame.** The docstring of `decode_typed_arguments`
   (`binary.py` 19-20) lets trailing parameters with defaults be omitted; the loop (29-31)
   decodes all of them and raises `ValueError`.

Seen in the models, without a statement in the documentation they would contradict, and so
without a run:

- Client requests: without session ids an exception after the last declared result is one
  frame more than the client counts, and the next call raises it; a response that comes after
  its call has timed out answers the next call.
- Client connection: `disconnect(wait=True)` may wait for ever when the reconnect loop clears
  `disconnected_event` after the connection's end (`_core` 212-215); a schema request that
  failed after connecting leaves `connected_event` clear, with the effect of finding 2; `close`
  does not wake calls that wait for `connected_event`; a reader whose callback was suspended
  while its connection was replaced reads the new one's stream, or `None`, in a loop that
  never suspends.
- Push queue: a caller that empties the queue between `full()` and `get_nowait()` makes
  `QueueEmpty` end the reader (297-298), and in the replay it ends `connect()`, which does not
  come back to the early frames; a second loop's `next_push` raises `RuntimeError` when it has
  to wait.
- Server lifecycle: overlapping `start()` calls lose a listener (380-388); `serve()` that is
  left keeps its closed listener in `_server`, and the next `start()` returns it; `close()`
  misses a handler that has not run yet (410); `task` at 252 names the last request, so
  `_client_tasks` keeps the handler of every connection that sent one; a handler cancelled in
  its `finally` leaves its transport open.
- Routing: a failed `include_router` leaves the routes before the conflict registered; one
  name can be a command and a push; one handler with `*args`, or with a `bytes`
  parameter that is not the last, makes `command_schema` raise (493), and no `JsonFrame` client gets a schema.
- Codecs and arguments: after a frame that is too long or not an object the reader is out of
  step (the comment at `server.py` 243 says "resynchronise"); in strict mode a parameter
  annotated `tuple` cannot be satisfied over JSON.

## 12. Theorems

For every number of requests, calls, connections, handlers, frames and losses, under the named
assumptions on the constants (bounds are naturals, commands declare at least one frame, a
queue has room for one, names of different kinds differ):

| theorem | module | says |
|---|---|---|
| `TypeCorrect` | `ServerConnectionProofs` | `Spec => []TypeOK` |
| `SessionlessOrder` | `ServerConnectionProofs` | `Spec => []SessionlessFIFO` if no request has a session id or asks for the schema |
| `ImplementsResponseStream` | `ServerConnectionProofs` | `Spec => AnswersInTurn` under the same condition: order, number of frames, nothing after an exception |
| `LockNeverLeaks` | `ServerWriteProofs` | `Spec => []LockDiscipline` |
| `NothingAfterClose` | `ServerWriteProofs` | `Spec => []ClosedIsQuiet` |
| `FramesOfATaskInOrder` | `ServerWriteProofs` | `Spec => []FramesInOrder` |
| `AnswersComplete` | `ServerWriteProofs` | `Spec => []CompleteResponse` |
| `ClientTypeCorrect` | `ClientReconnectProofs` | `Spec => []TypeOK` |
| `WorkingConnectionKept` | `ClientReconnectProofs` | `Spec => NeverReplacesWorking`, whatever the callbacks do |
| `ConnectionLockCorrect` | `ClientReconnectProofs` | `Spec => []ConnectionLockDiscipline`, whatever the callbacks do |
| `OneConnectionCorrect` | `ClientReconnectProofs` | `Spec => []OneConnection` if callbacks do not suspend |
| `PendingHasReaderCorrect` | `ClientReconnectProofs` | `Spec => []PendingHasReader` if callbacks do not suspend |
| `HarmBoundedCorrect` | `ClientReconnectProofs` | `Spec => []HarmBounded`, whatever the callbacks do |
| `RequestTypeCorrect` | `ClientRequestsProofs` | `Spec => []TypeOK` |
| `RequestOrderCorrect` | `ClientRequestsProofs` | `Spec => []PendingInRequestOrder` |
| `OwnResponsesCorrect` | `ClientRequestsProofs` | `Spec => []OwnResponses`, with and without session ids |
| `ServedAsPromisedCorrect` | `ClientRequestsProofs` | `Spec => ServedAsPromised` |
| `AnswersAreTheStreams` | `ClientRequestsProofs` | in steps of the server, `Answer` of a call is `Value`, `Error` or `Serve` of its request, and the reverse |
| `LifecycleTypeCorrect` | `ComponentsProofs` | `Spec => []TypeOK` |
| `ListenerReachable` | `ComponentsProofs` | `Spec => []OneListener` |
| `StaleListenersWereLeft` | `ComponentsProofs` | `Spec => []StaleOnlyWhenLeft` |
| `HandlersForgotten` | `ComponentsProofs` | `Spec => []Forgets` |
| `PushTypeCorrect` | `PushQueueProofs` | `PushSpec => []PushTypeOK` |
| `QueueNeverOverfull` | `PushQueueProofs` | `PushSpec => []NeverOverfull` |
| `NothingTwiceCorrect` | `PushQueueProofs` | `PushSpec => []NothingTwice` |
| `OvertakenCorrect` | `PushQueueProofs` | `PushSpec => []OvertakenOnlyInReplay` |
| `LossBoundedCorrect` | `PushQueueProofs` | `PushSpec => []LossBounded` |
| `SubmitTypeCorrect` | `ComponentsProofs` | `SubmitSpec => []SubmitTypeOK` |
| `OneLoopCorrect` | `ComponentsProofs` | `SubmitSpec => []OneLoop` |
| `CommandsTypeCorrect` | `ComponentsProofs` | `CommandsSpec => []CommandsTypeOK` |
| `SnapshotServedCorrect` | `ComponentsProofs` | `CommandsSpec => []SnapshotServed` |
| `CheckedCallsCorrect` | `ComponentsProofs` | `CommandsSpec => []CheckedCallsAccepted` |
| `HandlerTypesCorrect` | `ComponentsProofs` | `CommandsSpec => []HandlerTypes` |
| `ComponentsComposed` | `ComponentsProofs` | `ComponentsSpec => Spec /\ Fairness /\ CommandsSpec /\ SubmitSpec /\ SubmitFairness` |
| `ComponentsExplored` | `ComponentsProofs` | one component's behaviours, the others at rest, are behaviours of the run |
| `ComponentsTypeCorrect` | `ComponentsProofs` | `ComponentsSpec => []ComponentsTypeOK` |
| `BinaryTypeCorrect` | `FramesProofs` | `BinarySpec => []BinaryTypeOK` |
| `ReadingDecoded` | `FramesProofs` | `BinarySpec => []DecodesTheReading` |
| `FramingTypeCorrect` | `FramesProofs` | `FramingSpec => []FramingTypeOK` |
| `StaysInStepCorrect` | `FramesProofs` | `FramingSpec => []StaysInStep` |
| `FramesComposed` | `FramesProofs` | `FramesSpec => FairSpec /\ PushFairSpec /\ FramingSpec /\ FramingFairness /\ BinarySpec` |
| `FramesExplored` | `FramesProofs` | one module's behaviours, the others at rest, are behaviours of the run |
| `FramesTypeCorrect` | `FramesProofs` | `FramesSpec => []FramesTypeOK` |

*Types.* `TypeInv` adds `Staging` to `TypeOK`: a task on its way to the wire has a frame
staged, and a push handler never waits for a predecessor. Without it the frame put on the
wire could be "none".

*Order.* `FifoInv` says why a sessionless response cannot overtake: request `r` waits for
future `r - 1` and completes `r` (`Chained`); a resolved future belongs to a request that
has written its last frame, or is about to be cancelled (`ResolvedIsQuiet`); hence a request
past its `await` has only quiet predecessors (`ActiveAfterQuiet`). Cancellation resolves
futures out of order, which is harmless because all requests are cancelled in one step, when
no more can arrive (`CancelledTogether`). `WrittenAfterQuiet` carries this over to the frames
on the wire. With one session id in the traffic `Chained` fails, which is finding 1.

*The stream.* The refinement needs beside this order how many frames of a request are on
the wire at each place of its task (`CountOf`, in `CountInv`): none before its handler
runs, those resumed while it is between two frames, one more while it drains. A step of a
task is then `Value`, `Error`, `Serve` or `Push` of `ResponseStream`, in its turn, or no step
of it; `BeginCleanup` is `Abandon`, leaving the read loop is `Close`.

*Lock and end.* `LockInv` writes the lock's discipline as what a queue is (`Queue`: each task
inside exactly once, all but the head waiting), which joining, leaving from anywhere and a
head that goes from waiting to draining keep (`QueueJoin`, `QueueLeave`, `QueueStays`). It
adds that the schema is written without the lock, that only live tasks are to be cancelled,
that a task not created does not run (`NotYet`), and that each phase of the cleanup finds
ended what the one before waited for (`Gathered`). Both theorems follow, for traffic with and
without session ids.

*Frames.* `Past` says how far a task is when a frame of its is on the wire: its `n`th result
leaves it with `n` results resumed after, or draining the `n`th; an error or the schema leaves
it draining or ended. Hence what a task writes next is later than all it wrote; once the link
is down it writes nothing. `OnItsWay` is
the converse, for a link that is up: what a request at each of its places has written, so that
one that ends has written all it declared, an error or the schema.

*Connection.* `OpenInv` adds to the types that only the head of `connection_lock` is between
its check and the stored connection (`HolderOpens`), and that the writer it found missing is
missing still (`OpensNeeded`): nothing but the holder sets a writer. `LockInv` describes the
lock's queue as the server's is described (`Queue`). It needs that a submitted call begins once
(`SubmittedOnce`), and that `start` makes a reconnect loop only where there is none or an ended
one (`LoopNeedsStart`): a loop replaced inside the lock would leave its place in the queue
behind. `SyncInv`, for callbacks that return at once, is the picture the
code has in mind: the newest connection is the only one with a link or a living reader,
`current` names it or nothing, and whoever waits for a response has written on it. With
callbacks that suspend it fails, because a reader is then still in its `finally` while the
next connection is opened. What is left is `DropInv` (`current` is the newest connection or
nothing; an opener found no working one, so opening drops none; each reader has one `finally`, and
that drops one) and `Undisturbed` while nothing was lost or closed: no reader has a reason
to end, nobody asked to close, and whoever waits has written on the only connection.

*Responses.* `FramesInv` follows a call's frames through their four places: taken, queued, with
the reader's callbacks, on the way. While the call has not ended each frame sent is in exactly
one of them and in order (`InQueue`, `WithCallbacks`, `Increasing`, `OnTheWay`, `NotAhead`,
`NoneMissing`). With session ids the reader finds no registration after the call has ended
(`Registered`), and what is left is dropped. Without them `LineInv` says that `_none_pending`
holds the calls that expect frames, once each and in the order of their requests (`Expecting`,
`InOrder`), whose registration and writing are tied together by the queue of `_write_lock`
(`LockQueue`); and `Serial` that as long as every call takes its declared frames the responses
are on their way in the order of the requests (`InTurn`, `AnsweredFirst`), so that the first
of `_none_pending` is the call the next frame was sent for (`Counted`, `EndsComplete`).

*The assumed server.* `StreamInv` says that calls which have not written have no frames and
no answer; `LineInv` that each has written once. So numbers of requests stand for calls both
ways (`NumberIs`, `NumberedOnce`), and so does what `ResponseStream` and `ClientRequests`
change. `ServedAsPromisedCorrect` says that the assumed server goes no further than the
stream, `AnswersAreTheStreams` also that it does all the stream may do: theorems about the
client hold for whatever server keeps the promise.

*Lifecycle.* `OneListener` is not inductive alone: `OneOpens` adds that without overlap
at most one call is between its check of `_server` and the assignment, and that `_server` is
still empty then. `StaleOnlyWhenLeft` needs that nobody but its own call knows a listener
before it is stored, and that it is open until then (`UnknownIsOpen`). `Forgets` needs what a
handler has registered on its way (`InRegistries`) and where a cancellation may find it
(`CutCleanly`): its writer is closed already, or it waits for the tasks of its requests.

*Push queue.* `OverfullInv` adds to `NeverOverfull` that at most one of the reader and
`connect()` is between two awaits (`OneRuns`). Hence nobody else puts between a task's eviction
and its put, and callers in other threads only take: the room that eviction made is still
there. `OrderInv` is about `taken \o pushes`, the frames in the order they were queued: what
each task has in its hand and how far the replay is (`Phases`), early frames not yet put are
later than all that were replayed and are not queued (`Early`), and the reader's frames come
between them only if a callback has suspended (`Between`). `LostInv` says that, once a
frame is lost to the bound, as many are not lost as the queue has room for (`Covered`): a task
evicts only when taken and queued frames reach the bound (`Settled`). What a failure strands is counted
apart (`StrandedBounded`). The types need `OverfullInv` and `OrderInv`, since the frame that a task
puts must be one it has.

*Submit loop.* `FirstUse`: if the first use does not overlap with another, only the user that
found `_submit_thread` empty starts a thread, `_submit_loop` is empty or that thread's loop, and
every call is given to that loop; hence no call takes its loop for a foreign one and waits in it.

*Commands.* Registries only grow, and have each command once (`Grown`, `Unique`), so what a
definition in the client's schema says of a command stays true. `SentChecked` keeps that
for calls that are checked and not yet served: their command is there, they have the number
of arguments it takes, and arguments of a class the client checks are of that class, which
JSON preserves.

*Binary arguments.* `CutSoFar` says that the decoder has cut the payload up to its offset, one
piece for each parameter it has passed; `ForcedSoFar` that, when `bytes` comes last, every
reading of the whole payload begins with these pieces. So it ends with the reading, or
with the proof that there is none.

*JSON framing.* `FramingInv` says that as long as no frame was rejected with part of it unread
there are lengths of the frames sent and a frame the reader is in (`InStep`): the stream is
the rest of it and of those that follow, word for word (`Chained`), cut off if the peer has
closed, and the accepted payloads are the valid frames before it (`AcceptedBefore`).

*Composition.* `MCFrames` and `MCComponents` run modules side by side. `FramesComposed` and
`ComponentsComposed` say that a behaviour of a run is, for each module, a fair behaviour of it:
a property that fails in the run fails of the module, and a theorem about the module holds in
the run (the type theorems of the runs use that). `FramesExplored` and `ComponentsExplored` are
the converse, without fairness: no behaviour of a module is lost by putting it beside the others.

`QueueLemmas` has what the proofs need of `RemoveFirst`, from its definition, and of a lock's
queue. `PendingInRequestOrder`, `StaysInStep` and the schema of `Commands` are stated with
quantifiers and sets where a filter on sequences would be shorter: the library's filter is
recursive, and what it returns can be computed but not proved.

## 13. Only model-checked, and not modelled

Only model-checked: everything about fairness (`RequestsEnd`, `SessionedNotBlocked`,
`CleanupCompletes`, `Reconnects`, `CallsEndUndisturbed`, `CallsEnd`, `EofEnds`,
`CloseEndsAll`, `SubmittedCallsEndAlone`), which is out of the proof system's reach. Every
safety property, every action property and each refinement that a run shows are theorems.

Abstracted: in `ServerLifecycle` `async with` a server ends with its listener, where Python 3.12.1
and later also wait for the open connections (`wait_closed`), and frames already in the buffer of
a connection that has ended are not handled; in `ClientReconnect` a late reader does not keep
which newer stream it waits on; `PushQueue` has the `asyncio.Queue` of Python 3.10 and later, which takes its loop
when it first waits; `SubmitLoop` leaves out the `RuntimeError` of a lock that another loop is
waiting on; `Commands` has positional arguments of one parameter; `BinaryArguments` has the default
encoding, UTF-8 (with UTF-16 the first zero byte, which ends a text, is part of a character).

Not modelled: the fields of `set_result` and `set_exception` and the exception `result()`
builds, which no property tells apart; loggers, exception classes, the frame interface, the
connection record and the text of stub files, which keep no state a property could speak of;
the default executor's number of threads (a blocking handler is one that hangs); a server that
is restarted with other routes; `next_push` of a synchronous client (it awaits what `connect()` returns, which is no awaitable,
and raises before it comes to the queue); asyncio itself and the network, which appear as what they may
do to the code.
