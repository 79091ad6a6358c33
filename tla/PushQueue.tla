-------------------------------- MODULE PushQueue --------------------------------
(***************************************************************************)
(* How unsolicited frames reach next_push                                  *)
(* (src/fasttcpapi/_client_core.py 148-165, 239-304).                      *)
(*                                                                         *)
(* The reader task and connect(), which replays the frames that came       *)
(* before the schema, are tasks of the submit loop.  Callers of next_push  *)
(* await the same asyncio.Queue on event loops of their own, in other      *)
(* threads: their steps come in between any two of the queue's operations, *)
(* and setting the future of one of them does not wake a loop that is      *)
(* blocked in its selector.  Frames are numbered in the order they are     *)
(* read.                                                                   *)
(***************************************************************************)
EXTENDS Naturals, Sequences, FiniteSets, SequencesExt

CONSTANTS
    Consumers,      \* callers of next_push, each on its own event loop
    Busy,           \* those whose loop has timers or other work that wakes it
    PushQueueSize,  \* push_queue_size
    MaxFrames,      \* bound: frames read besides the schema
    MaxSuspends,    \* bound: on_push callbacks that suspend
    NoLoop          \* the queue is not bound to a loop yet

ASSUME PushSizeAssumption == PushQueueSize \in Nat \ {0}
ASSUME PushBoundsAssumption == MaxFrames \in Nat /\ MaxSuspends \in Nat
ASSUME ConsumersAssumption == Busy \subseteq Consumers /\ NoLoop \notin Consumers

Tasks == {"reader", "connector"}
Frames == 1..MaxFrames

VARIABLES
    kinds,          \* what was read: a declared push command or another frame
    schema,         \* are _schema and _push_commands set?
    early_frames,
    pushes,
    place,             \* where the reader and connect() are
    hand,           \* the frame each of them is putting, 0 for none
    replay,         \* position of connect() in early_frames
    suspends,       \* callbacks that have suspended so far
    consumer,       \* where each caller of next_push is
    getters,        \* the futures in Queue._getters, by caller
    woken,          \* callers whose future is resolved
    boundLoop,      \* Queue._loop: the loop of the first caller that had to wait
    taken,          \* frames next_push returned, in order
    replayed        \* frames connect() has put

frames == <<kinds, schema, early_frames>>
tasks == <<place, hand, replay, suspends>>
callers == <<consumer, getters, woken, boundLoop>>
outcome == <<taken, replayed>>
pushVars == <<frames, pushes, tasks, callers, outcome>>

\* Mutant: the reader and connect() run in different threads.
LoopUnguarded == TRUE

\* Between two awaits a task has the submit loop to itself.
LoopFree == \A t \in Tasks : place[t] \notin {"replaying", "evicting", "putting"}

\* Mutant: the queue counts as full one frame too early.
FullEarly == Len(pushes) + 1 >= PushQueueSize

Full == Len(pushes) = PushQueueSize

\* The schema is unknown, or was supplied before connecting.
PushInit ==
    /\ kinds = <<>> /\ early_frames = <<>> /\ pushes = <<>>
    /\ schema \in BOOLEAN
    /\ place = [t \in Tasks |-> IF t = "reader" THEN "reading"
                             ELSE IF schema THEN "done" ELSE "requested"]
    /\ hand = [t \in Tasks |-> 0] /\ replay = 1 /\ suspends = 0
    /\ consumer = [c \in Consumers |-> "idle"]
    /\ getters = <<>> /\ woken = {} /\ boundLoop = NoLoop
    /\ taken = <<>> /\ replayed = {}

-----------------------------------------------------------------------------
(* _put_push, called by the reader and by connect().                       *)

AfterCallbacks(t) == place' = [place EXCEPT ![t] = IF Full THEN "evicting" ELSE "putting"]

\* The callbacks run; coroutines may suspend, others go on at once.
PutPush(t, n) ==
    /\ hand' = [hand EXCEPT ![t] = n]
    /\ \/ /\ suspends < MaxSuspends
          /\ suspends' = suspends + 1
          /\ place' = [place EXCEPT ![t] = "callbacks"]
       \/ /\ AfterCallbacks(t)
          /\ UNCHANGED suspends

CallbacksDone(t) ==
    /\ LoopFree /\ place[t] = "callbacks"
    /\ AfterCallbacks(t)
    /\ UNCHANGED <<frames, pushes, hand, replay, suspends, callers, outcome>>

\* An exception of the queue ends the reader; it ends connect() for the reconnect
\* loop, which has a schema now and does not come back to the replay.
Raises(t) == place' = [place EXCEPT ![t] = IF t = "reader" THEN "dead" ELSE "failed"]

\* "if self._pushes.full(): self._pushes.get_nowait()": callers may have emptied
\* the queue since full() was asked.
Evict(t) ==
    /\ place[t] = "evicting"
    /\ IF pushes = <<>>
       THEN Raises(t) /\ UNCHANGED pushes
       ELSE /\ pushes' = Tail(pushes)
            /\ place' = [place EXCEPT ![t] = "putting"]
    /\ UNCHANGED <<frames, hand, replay, suspends, callers, outcome>>

\* put_nowait, and the future of the caller that waits longest.
Put(t) ==
    /\ place[t] = "putting"
    /\ IF Full
       THEN Raises(t) /\ UNCHANGED <<pushes, hand, replay, getters, woken, replayed>>
       ELSE /\ pushes' = Append(pushes, hand[t])
            /\ hand' = [hand EXCEPT ![t] = 0]
            /\ IF getters = <<>>
               THEN UNCHANGED <<getters, woken>>
               ELSE getters' = Tail(getters) /\ woken' = woken \union {Head(getters)}
            /\ IF t = "reader"
               THEN /\ place' = [place EXCEPT ![t] = "reading"]
                    /\ UNCHANGED <<replay, replayed>>
               ELSE /\ place' = [place EXCEPT ![t] = "replaying"]
                    /\ replay' = replay + 1
                    /\ replayed' = replayed \union {hand[t]}
    /\ UNCHANGED <<frames, suspends, consumer, boundLoop, taken>>

-----------------------------------------------------------------------------
(* _reader_loop: a frame that is not a response to a pending call.          *)

\* Mutant: the bound of the early frames is off by one.
RememberOneMore(n) ==
    early_frames' = Append(IF Len(early_frames) > PushQueueSize
                           THEN Tail(early_frames) ELSE early_frames, n)

Remember(n) ==
    early_frames' = Append(IF Len(early_frames) = PushQueueSize
                           THEN Tail(early_frames) ELSE early_frames, n)

ReadUnsolicited ==
    /\ LoopFree /\ place["reader"] = "reading"
    /\ Len(kinds) < MaxFrames
    /\ \E kind \in {"push", "other"} :
           LET n == Len(kinds) + 1
           IN  /\ kinds' = Append(kinds, kind)
               /\ IF schema
                  THEN /\ IF kind = "push" THEN PutPush("reader", n)
                                           ELSE UNCHANGED <<place, hand, suspends>>
                       /\ UNCHANGED early_frames
                  ELSE Remember(n) /\ UNCHANGED <<place, hand, suspends>>
    /\ UNCHANGED <<schema, pushes, replay, callers, outcome>>

-----------------------------------------------------------------------------
(* connect(): the schema, then the replay of what came before it.          *)

\* The reader hands the response to connect(), which is not yet running.
SchemaArrives ==
    /\ LoopFree /\ place["reader"] = "reading" /\ place["connector"] = "requested"
    /\ place' = [place EXCEPT !["connector"] = "defining"]
    /\ UNCHANGED <<frames, pushes, hand, replay, suspends, callers, outcome>>

\* An unusable schema is asked for again; one whose stub file cannot be written is
\* kept, but nothing is replayed.
Define ==
    /\ LoopFree /\ place["connector"] = "defining"
    /\ \/ /\ place' = [place EXCEPT !["connector"] = "requested"]
          /\ UNCHANGED schema
       \/ \E next \in {"replaying", "failed"} :
              /\ place' = [place EXCEPT !["connector"] = next]
              /\ schema' = TRUE
    /\ UNCHANGED <<kinds, early_frames, pushes, hand, replay, suspends, callers, outcome>>

\* The next early frame: put it if its command is a declared push; forget all of
\* them after the last.
ReplayNext ==
    /\ place["connector"] = "replaying"
    /\ IF replay > Len(early_frames)
       THEN /\ early_frames' = <<>>
            /\ place' = [place EXCEPT !["connector"] = "done"]
            /\ UNCHANGED <<hand, replay, suspends>>
       ELSE /\ IF kinds[early_frames[replay]] = "push"
               THEN PutPush("connector", early_frames[replay]) /\ UNCHANGED replay
               ELSE replay' = replay + 1 /\ UNCHANGED <<place, hand, suspends>>
            /\ UNCHANGED early_frames
    /\ UNCHANGED <<kinds, schema, pushes, callers, outcome>>

-----------------------------------------------------------------------------
(* next_push and Queue.get, on a caller's own loop.                        *)

Step(c, to) == consumer' = [consumer EXCEPT ![c] = to]

\* "await self.connect()" has found the schema.  Of a SyncClient (sync=True) connect()
\* returns no awaitable and next_push raises before it comes to the queue: no step.
NextPush(c) ==
    /\ consumer[c] = "idle"
    /\ Step(c, "checking")
    /\ UNCHANGED <<frames, pushes, tasks, getters, woken, boundLoop, outcome>>

\* "while self.empty()": the answer may be stale at the next step.
Check(c) ==
    /\ consumer[c] = "checking"
    /\ Step(c, IF pushes = <<>> THEN "registering" ELSE "taking")
    /\ UNCHANGED <<frames, pushes, tasks, getters, woken, boundLoop, outcome>>

\* A queue that another loop has waited on raises RuntimeError.
AwaitPush(c) ==
    /\ consumer[c] = "registering"
    /\ IF boundLoop \in {NoLoop, c}
       THEN boundLoop' = c /\ getters' = Append(getters, c) /\ Step(c, "waiting")
       ELSE Step(c, "idle") /\ UNCHANGED <<boundLoop, getters>>
    /\ UNCHANGED <<frames, pushes, tasks, woken, outcome>>

\* Mutant: the frame is returned but stays in the queue.
TakePeeks(c) ==
    /\ consumer[c] = "taking"
    /\ taken' = IF pushes = <<>> THEN taken ELSE Append(taken, Head(pushes))
    /\ Step(c, "idle")
    /\ UNCHANGED <<frames, pushes, tasks, getters, woken, boundLoop, replayed>>

\* get_nowait raises QueueEmpty if an eviction or another caller was faster.
TakePush(c) ==
    /\ consumer[c] = "taking"
    /\ IF pushes = <<>>
       THEN UNCHANGED <<pushes, taken>>
       ELSE taken' = Append(taken, Head(pushes)) /\ pushes' = Tail(pushes)
    /\ Step(c, "idle")
    /\ UNCHANGED <<frames, tasks, getters, woken, boundLoop, replayed>>

\* The loop has nothing to do and blocks in its selector.
FallAsleep(c) ==
    /\ consumer[c] = "waiting" /\ c \notin woken
    /\ Step(c, "asleep")
    /\ UNCHANGED <<frames, pushes, tasks, getters, woken, boundLoop, outcome>>

\* The loop finds the future resolved: at once if it is not blocked, otherwise when
\* something else wakes it.
Resume(c) ==
    /\ c \in woken
    /\ consumer[c] = "waiting" \/ (consumer[c] = "asleep" /\ c \in Busy)
    /\ Step(c, "checking")
    /\ woken' = woken \ {c}
    /\ UNCHANGED <<frames, pushes, tasks, getters, boundLoop, outcome>>

\* The caller's timeout cancels next_push.
GiveUp(c) ==
    /\ consumer[c] \in {"waiting", "asleep"} /\ c \in Busy
    /\ Step(c, "idle")
    /\ getters' = RemoveFirst(getters, c)
    /\ woken' = woken \ {c}
    /\ UNCHANGED <<frames, pushes, tasks, boundLoop, outcome>>

-----------------------------------------------------------------------------
TaskStep(t) == CallbacksDone(t) \/ Evict(t) \/ Put(t)
CallerStep(c) == Check(c) \/ AwaitPush(c) \/ TakePush(c) \/ Resume(c)
PushNext ==
    \/ \E t \in Tasks : TaskStep(t)
    \/ ReadUnsolicited \/ SchemaArrives \/ Define \/ ReplayNext
    \/ \E c \in Consumers : NextPush(c) \/ CallerStep(c) \/ FallAsleep(c) \/ GiveUp(c)

PushSpec == PushInit /\ [][PushNext]_pushVars
\* The submit loop and the callers' threads run, and callbacks return.
PushFairness ==
    /\ \A t \in Tasks : WF_pushVars(TaskStep(t))
    /\ WF_pushVars(ReplayNext)
    /\ \A c \in Consumers : WF_pushVars(CallerStep(c))
PushFairSpec == PushSpec /\ PushFairness

-----------------------------------------------------------------------------
PushTypeOK ==
    /\ kinds \in Seq({"push", "other"}) /\ Len(kinds) <= MaxFrames
    /\ schema \in BOOLEAN
    /\ early_frames \in Seq(Frames) /\ pushes \in Seq(Frames)
    /\ place["reader"] \in {"reading", "callbacks", "evicting", "putting", "dead"}
    /\ place["connector"] \in {"requested", "defining", "replaying", "callbacks", "evicting",
                            "putting", "done", "failed"}
    /\ hand \in [Tasks -> 0..MaxFrames] /\ replay \in Nat /\ suspends \in 0..MaxSuspends
    /\ consumer \in [Consumers -> {"idle", "checking", "registering", "taking", "waiting",
                                   "asleep"}]
    /\ getters \in Seq(Consumers) /\ woken \subseteq Consumers
    /\ boundLoop \in Consumers \union {NoLoop}
    /\ taken \in Seq(Frames) /\ replayed \subseteq Frames

\* "bounded queue" (push_queue_size): both lists stay within the bound, and the put
\* after an eviction finds room although two tasks put and other threads take, so the
\* reader never dies of QueueFull.
NeverOverfull ==
    /\ Len(early_frames) <= PushQueueSize /\ Len(pushes) <= PushQueueSize
    /\ \A t \in Tasks : place[t] = "putting" => ~Full

\* A frame that is put, taken or about to be put is so once: neither the replay nor
\* an eviction that races with a caller duplicates a frame.
NothingTwice ==
    LET inHand == {hand[t] : t \in Tasks} \ {0}
    IN  /\ IsInjective(taken \o pushes)
        /\ inHand \intersect ToSet(taken \o pushes) = {}
        /\ hand["reader"] # hand["connector"] \/ hand["reader"] = 0

\* Frames are queued in the order they arrived, with one exception: a frame read
\* after the schema overtakes early frames while a callback of the replay suspends.
OvertakenOnlyInReplay ==
    LET order == taken \o pushes
    IN  \A i, j \in 1..Len(order) :
            i < j /\ order[i] > order[j] =>
                order[j] \in replayed /\ order[i] \notin replayed /\ suspends > 0

\* Early frames the replay has not come to.
Unreplayed == {early_frames[i] : i \in replay..Len(early_frames)}

\* What a failure leaves behind for good: the frame in the hand of a reader or connect()
\* that an empty queue has ended, and the early frames that nobody replays once
\* connect() has failed with a schema in place.
Failed(t) == place[t] \in {"dead", "failed"}
Stranded ==
    ({hand[t] : t \in {u \in Tasks : Failed(u)}} \ {0})
        \union (IF Failed("connector") THEN Unreplayed ELSE {})

\* A declared push is lost, in that nobody will take it or put it, to one of two things.
\* The bound loses frames one for one with those read beyond it: none as long as no more
\* than push_queue_size frames have been read.  A failure strands frames, at most the
\* early ones and the one in the reader's hand, and loses nothing that was in the queue.
LossBounded ==
    LET kept == ToSet(taken \o pushes)
            \union {hand[t] : t \in {u \in Tasks : ~Failed(u)}}
            \union (IF Failed("connector") THEN {} ELSE Unreplayed)
        lost == {n \in 1..Len(kinds) : kinds[n] = "push" /\ n \notin kept}
        overflowed == lost \ Stranded
    IN  /\ overflowed # {} => Cardinality(overflowed) + PushQueueSize <= Len(kinds)
        /\ Cardinality(Stranded) <= PushQueueSize + 1

\* "Wait for the next unsolicited server push frame" (next_push): a caller does not
\* wait for ever while there is a frame in the queue.
NextPushReturns ==
    \A c \in Consumers :
        consumer[c] = "asleep" /\ pushes # <<>> ~> consumer[c] # "asleep" \/ pushes = <<>>
=============================================================================
