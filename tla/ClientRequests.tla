----------------------------- MODULE ClientRequests -----------------------------
(***************************************************************************)
(* How a FastTcpAPI client gives responses to calls                        *)
(* (_request and _reader_loop of src/fasttcpapi/_client_core.py), on one   *)
(* connection that stays up and with the service definition known.         *)
(*                                                                         *)
(* Each call has a queue.  The reader puts a response with a session id in *)
(* the queue registered for that id (_pending), and one without in the     *)
(* queue of the oldest registered call (_none_pending), of which it counts *)
(* the frames still to come (_none_pending_remaining).  A call takes what  *)
(* is in its queue later, when its task runs; meanwhile the reader goes on *)
(* with the next frame.                                                    *)
(*                                                                         *)
(* The server is as ServerConnection shows it to be for a client whose     *)
(* requests all have session ids, or none: frames of one request in order, *)
(* an exception last, even after the declared number of results, and       *)
(* requests without session ids answered one after another.                *)
(***************************************************************************)
EXTENDS Naturals, Sequences, SequencesExt

CONSTANTS
    Calls,          \* calls of one client
    ResponseFrames, \* the response_frames of the command of each call
    FrameTypes,     \* does the client's frame type assign session ids?
    MaxTimeouts     \* bound: calls that time out

ASSUME RequestBoundsAssumption ==
    ResponseFrames \in [Calls -> Nat \ {0}] /\ MaxTimeouts \in Nat
ASSUME FrameTypesAssumption == FrameTypes \subseteq BOOLEAN
\* <<>> stands for "no call" (see Nobody).
ASSUME CallsAssumption == <<>> \notin Calls

Frame == [call : Calls, kind : {"value", "error"}, seq : Nat]

VARIABLES
    sessioned,    \* this client's frame type
    pc,           \* where each call is
    write_lock,   \* asyncio.Lock: its holder, then its waiters in order
    pending,      \* calls in _pending
    none_pending, \* _none_pending
    remaining,    \* _none_pending_remaining, 0 for a missing key
    queue,        \* response frames put in each call's queue
    results,      \* frames each call has taken
    requests,     \* request frames on their way to the server or there, in order
    sent,         \* response frames the server has sent for each request
    answered,     \* requests the server has finished with
    incoming,     \* frames on their way to the client
    target,       \* the queue and frame the on_response callbacks run for
    timeouts      \* calls timed out so far

registry == <<pending, none_pending, remaining>>
calls == <<pc, write_lock, results>>
server == <<requests, sent, answered>>
vars == <<sessioned, calls, registry, queue, server, incoming, target, timeouts>>

Nobody == <<>>
Ended(c) == pc[c] \in {"returned", "failed"}
Goto(c, to) == pc' = [pc EXCEPT ![c] = to]

Init ==
    /\ sessioned \in FrameTypes
    /\ pc = [c \in Calls |-> "idle"]
    /\ write_lock = <<>>
    /\ pending = {} /\ none_pending = <<>>
    /\ remaining = [c \in Calls |-> 0]
    /\ queue = [c \in Calls |-> <<>>]
    /\ results = [c \in Calls |-> <<>>]
    /\ requests = <<>>
    /\ sent = [c \in Calls |-> 0]
    /\ answered = {}
    /\ incoming = <<>>
    /\ target = Nobody
    /\ timeouts = 0

-----------------------------------------------------------------------------
(* _request.                                                                *)

\* The queue is registered and the call queues for the lock.
Register(c) ==
    /\ pc[c] = "idle"
    /\ Goto(c, "locking")
    /\ write_lock' = Append(write_lock, c)
    /\ IF sessioned
       THEN pending' = pending \union {c} /\ UNCHANGED <<none_pending, remaining>>
       ELSE /\ none_pending' = Append(none_pending, c)
            /\ remaining' = [remaining EXCEPT ![c] = ResponseFrames[c]]
            /\ UNCHANGED pending
    /\ UNCHANGED <<sessioned, results, queue, server, incoming, target, timeouts>>

\* Mutant: the lock is not waited for.
WriteUnlocked(c) ==
    /\ pc[c] = "locking"
    /\ Goto(c, "draining")
    /\ requests' = Append(requests, c)
    /\ UNCHANGED <<sessioned, write_lock, results, registry, queue, sent, answered,
                   incoming, target, timeouts>>

\* Under the lock, after the on_request callbacks.
Write(c) ==
    /\ pc[c] = "locking" /\ Head(write_lock) = c
    /\ Goto(c, "draining")
    /\ requests' = Append(requests, c)
    /\ UNCHANGED <<sessioned, write_lock, results, registry, queue, sent, answered,
                   incoming, target, timeouts>>

Drained(c) ==
    /\ pc[c] = "draining"
    /\ Goto(c, "waiting")
    /\ write_lock' = RemoveFirst(write_lock, c)
    /\ UNCHANGED <<sessioned, results, registry, queue, server, incoming, target, timeouts>>

\* The "finally" of _request.
Unregister(c) ==
    /\ pending' = pending \ {c}
    /\ none_pending' = RemoveFirst(none_pending, c)
    /\ remaining' = [remaining EXCEPT ![c] = 0]

\* Mutant: the lock is kept when nothing was written.
EncodeFailsLocked(c) ==
    /\ pc[c] = "locking" /\ Head(write_lock) = c
    /\ Goto(c, "failed")
    /\ Unregister(c)
    /\ UNCHANGED <<sessioned, write_lock, results, queue, server, incoming, target, timeouts>>

\* frame.encode() raises: nothing is written.
EncodeFails(c) ==
    /\ pc[c] = "locking" /\ Head(write_lock) = c
    /\ Goto(c, "failed")
    /\ write_lock' = RemoveFirst(write_lock, c)
    /\ Unregister(c)
    /\ UNCHANGED <<sessioned, results, queue, server, incoming, target, timeouts>>

\* queue.get() returns and response.result() returns or raises; after the last
\* frame the call returns.
Take(c) ==
    /\ pc[c] = "waiting" /\ queue[c] # <<>>
    /\ queue' = [queue EXCEPT ![c] = Tail(@)]
    /\ results' = [results EXCEPT ![c] = Append(@, Head(queue[c]))]
    /\ IF Head(queue[c]).kind = "error"
       THEN Goto(c, "failed") /\ Unregister(c)
       ELSE IF Len(results[c]) + 1 = ResponseFrames[c]
            THEN Goto(c, "returned") /\ Unregister(c)
            ELSE UNCHANGED <<pc, registry>>
    /\ UNCHANGED <<sessioned, write_lock, server, incoming, target, timeouts>>

\* The time of the next frame is over, whether or not it is in the queue.
TimesOut(c) ==
    /\ pc[c] = "waiting" /\ timeouts < MaxTimeouts
    /\ timeouts' = timeouts + 1
    /\ Goto(c, "failed")
    /\ Unregister(c)
    /\ UNCHANGED <<sessioned, write_lock, results, queue, server, incoming, target>>

-----------------------------------------------------------------------------
(* The server (_handle_request of server.py).                              *)

Send(c, kind) ==
    /\ sent' = [sent EXCEPT ![c] = @ + 1]
    /\ incoming' = Append(incoming, [call |-> c, kind |-> kind, seq |-> sent[c] + 1])

\* Mutant: the server does not wait for the request before.
AnswerAtOnce(c) ==
    /\ c \in ToSet(requests) \ answered
    /\ \/ sent[c] < ResponseFrames[c] /\ Send(c, "value") /\ UNCHANGED answered
       \/ Send(c, "error") /\ answered' = answered \union {c}
       \/ answered' = answered \union {c} /\ UNCHANGED <<sent, incoming>>
    /\ UNCHANGED <<sessioned, calls, registry, queue, requests, target, timeouts>>

\* The next result, the exception that ends the response, or the end without one:
\* the handler is done, or the frame type encodes its exception to nothing.
Answer(c) ==
    /\ c \in ToSet(requests) \ answered
    /\ sessioned \/ \A i \in 1..Len(requests) :
                        requests[i] = c => \A j \in 1..(i - 1) : requests[j] \in answered
    /\ \/ sent[c] < ResponseFrames[c] /\ Send(c, "value") /\ UNCHANGED answered
       \/ Send(c, "error") /\ answered' = answered \union {c}
       \/ answered' = answered \union {c} /\ UNCHANGED <<sent, incoming>>
    /\ UNCHANGED <<sessioned, calls, registry, queue, requests, target, timeouts>>

-----------------------------------------------------------------------------
(* _reader_loop.                                                            *)

\* The call whose queue gets the frame: the frame itself says only its session id.
QueueFor(frame) ==
    IF sessioned THEN (IF frame.call \in pending THEN frame.call ELSE Nobody)
    ELSE IF none_pending # <<>> THEN Head(none_pending) ELSE Nobody

\* A frame is read and its queue looked up; the on_response callbacks start.
ReadFrame ==
    /\ target = Nobody /\ incoming # <<>>
    /\ incoming' = Tail(incoming)
    /\ LET c == QueueFor(Head(incoming))
       IN  target' = IF c = Nobody THEN Nobody ELSE <<c, Head(incoming)>>
    /\ UNCHANGED <<sessioned, calls, registry, queue, server, timeouts>>

\* Mutant: the frames still to come are not counted.
CountDownNever(c) == UNCHANGED registry

\* The last declared frame takes the queue out of _none_pending.
CountDown(c) ==
    /\ remaining' = [remaining EXCEPT ![c] = IF @ = 0 THEN 0 ELSE @ - 1]
    /\ none_pending' = IF remaining[c] = 1 THEN RemoveFirst(none_pending, c) ELSE none_pending
    /\ UNCHANGED pending

\* The callbacks have run: queue.put.  Nobody reads the queue of a call that has
\* ended.
Deliver ==
    /\ target # Nobody
    /\ LET c == target[1]
       IN  /\ queue' = [queue EXCEPT ![c] = IF Ended(c) THEN @ ELSE Append(@, target[2])]
           /\ IF sessioned THEN UNCHANGED registry ELSE CountDown(c)
    /\ target' = Nobody
    /\ UNCHANGED <<sessioned, calls, server, incoming, timeouts>>

-----------------------------------------------------------------------------
CallStep(c) == Write(c) \/ EncodeFails(c) \/ Drained(c) \/ Take(c)

Next ==
    \/ \E c \in Calls : Register(c) \/ CallStep(c) \/ TimesOut(c) \/ Answer(c)
    \/ ReadFrame \/ Deliver

Spec == Init /\ [][Next]_vars

(***************************************************************************)
(* The event loop runs every task that is ready, callbacks return and      *)
(* timeouts end.  The server need not answer.                              *)
(***************************************************************************)
Fairness ==
    /\ \A c \in Calls : WF_vars(CallStep(c)) /\ WF_vars(TimesOut(c))
    /\ WF_vars(ReadFrame \/ Deliver)

FairSpec == Spec /\ Fairness

-----------------------------------------------------------------------------
(* Properties.                                                             *)

\* The type invariant of the client's requests.
TypeOK ==
    /\ sessioned \in BOOLEAN
    /\ pc \in [Calls -> {"idle", "locking", "draining", "waiting", "returned", "failed"}]
    /\ write_lock \in Seq(Calls)
    /\ pending \subseteq Calls /\ none_pending \in Seq(Calls)
    /\ remaining \in [Calls -> Nat]
    /\ queue \in [Calls -> Seq(Frame)] /\ results \in [Calls -> Seq(Frame)]
    /\ requests \in Seq(Calls) /\ sent \in [Calls -> Nat] /\ answered \subseteq Calls
    /\ incoming \in Seq(Frame)
    /\ target = Nobody \/ target \in Calls \X Frame
    /\ timeouts \in Nat

\* Calls with session ids, and calls without as long as every one of them takes
\* exactly the frames its command declares.
Orderly ==
    sessioned \/ (timeouts = 0 /\ \A c \in answered : sent[c] = ResponseFrames[c])

\* The frames a call takes, and those in its queue, are those the server sent for
\* its own request, in order and from the first on, whoever times out.
OwnFrames ==
    \A c \in Calls :
        LET taken == results[c] \o queue[c]
        IN  \A i \in 1..Len(taken) : taken[i].call = c /\ taken[i].seq = i
OwnResponses == Orderly => OwnFrames

WrittenBefore(c, d) ==
    \/ \E i, j \in 1..Len(requests) : i < j /\ requests[i] = c /\ requests[j] = d
    \/ c \in ToSet(requests) /\ pc[d] = "locking"
    \/ /\ pc[c] = "locking" /\ pc[d] = "locking"
       /\ \E i, j \in 1..Len(write_lock) : i < j /\ write_lock[i] = c /\ write_lock[j] = d

\* Responses without session ids are matched by position, so the calls that still
\* expect frames are in _none_pending, in the order in which their requests were or
\* will be written.
PendingInRequestOrder ==
    /\ ToSet(none_pending) = {c \in Calls : remaining[c] > 0}
    /\ \A i, j \in 1..Len(none_pending) :
           i < j => WrittenBefore(none_pending[i], none_pending[j])

\* The place of a call's request among those the server has got.
Number(c) == CHOOSE i \in 1..Len(requests) : requests[i] = c

\* What this module takes the server to do without session ids is what ResponseStream
\* promises, and ServerConnection keeps, on a connection that stays up: requests are
\* answered in the order they were written, with no more frames than declared before an
\* exception, and none is given up.
Stream == INSTANCE ResponseStream WITH
    Counts <- {ResponseFrames[c] : c \in Calls},
    PushRoutes <- {},
    open <- TRUE,
    declared <- [i \in 1..Len(requests) |-> ResponseFrames[requests[i]]],
    sent <- [i \in 1..Len(requests) |-> sent[requests[i]]],
    served <- {i \in 1..Len(requests) : requests[i] \in answered},
    out <- [i \in 1..Len(incoming) |-> [task |-> Number(incoming[i].call),
                                        kind |-> incoming[i].kind, seq |-> incoming[i].seq]]
ServedAsPromised == [][~sessioned => Stream!Next]_<<server, incoming>>

\* "A missing response raises TimeoutError": a call that has registered ends, in
\* whatever order the answers come and if none comes.
CallsEnd == \A c \in Calls : pc[c] = "locking" ~> Ended(c)
=============================================================================
