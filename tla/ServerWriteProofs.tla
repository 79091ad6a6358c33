---------------------------- MODULE ServerWriteProofs ----------------------------
(***************************************************************************)
(* The lock, the end of a connection and the frames on its wire: theorems  *)
(* about ServerConnection for any traffic, with and without session ids,   *)
(* and any push handlers.                                                  *)
(***************************************************************************)
EXTENDS ServerConnectionProofs

-----------------------------------------------------------------------------
(* The lock.                                                               *)

Inside == {t \in Tasks : WriteQueued(t)}
Waiting == {t \in Tasks : pc[t] = "locking"}
LockQueue == Queue(writer_lock, Inside, Waiting)

\* The schema response is written without the lock.
SchemaUnlocked == \A t \in Tasks : pc[t] = "locking" => staged[t] # "schema"

\* Only tasks that have not ended are to be cancelled.
CancelledLive == \A t \in cancelRequested : ~Ended(t)

\* Tasks that were not created yet do not run.
NotYet ==
    /\ \A r \in Requests : r > received => pc[r] = "absent"
    /\ conn = "connecting" => \A p \in PushRoutes : pc[p] = "absent"

\* The cleanup goes on only when the tasks it waits for have ended.
Gathered ==
    /\ conn \in {"gatherPushes", "closed"} => \A r \in Requests : Ended(r)
    /\ conn = "closed" => \A p \in PushRoutes : Ended(p)
    /\ conn \in {"gatherRequests", "gatherPushes", "closed"} => registry \subseteq {"task"}

LockInv == LockQueue /\ SchemaUnlocked /\ CancelledLive /\ NotYet /\ Gathered

LEMMA LockInit == Init => LockInv
BY DEF Init, LockInv, LockQueue, Queue, Inside, Waiting, WriteQueued, SchemaUnlocked,
       CancelledLive, NotYet, Gathered, Tasks

\* What a step of task t does to its place and its frame.
Moves(t, to, frame) ==
    /\ pc' = [pc EXCEPT ![t] = to]
    /\ staged' = [staged EXCEPT ![t] = frame]
    /\ UNCHANGED <<connVars, received>>

LEMMA MovesSets ==
    ASSUME TypeInv, NEW t \in Tasks, NEW to, NEW frame, Moves(t, to, frame)
    PROVE  /\ \A u \in Tasks \ {t} : pc'[u] = pc[u] /\ staged'[u] = staged[u]
           /\ pc'[t] = to /\ staged'[t] = frame
           /\ Waiting \ {t} \subseteq Waiting'
           /\ Inside' = IF to \in {"locking", "draining"} /\ frame # "schema"
                        THEN Inside \union {t} ELSE Inside \ {t}
<1>1. pc \in [Tasks -> {"absent", "created", "waiting", "running", "staged", "locking",
                       "draining", "done", "cancelled"}]
      /\ staged \in [Tasks -> {"none", "value", "error", "schema"}]
  BY DEF TypeInv, TypeOK
<1>2. /\ \A u \in Tasks \ {t} : pc'[u] = pc[u] /\ staged'[u] = staged[u]
      /\ pc'[t] = to /\ staged'[t] = frame
  BY <1>1 DEF Moves
<1>3. Waiting \ {t} \subseteq Waiting'
  BY <1>2 DEF Waiting
<1>4. \A u \in Tasks \ {t} : u \in Inside' <=> u \in Inside
  BY <1>2 DEF Inside, WriteQueued
<1>5. t \in Inside' <=> (to \in {"locking", "draining"} /\ frame # "schema")
  BY <1>2 DEF Inside, WriteQueued
<1>6. Inside \subseteq Tasks /\ Inside' \subseteq Tasks
  BY DEF Inside
<1> QED BY <1>2, <1>3, <1>4, <1>5, <1>6

\* The parts of the invariant that only look at the task that moves.
LEMMA MovesRest ==
    ASSUME TypeInv, LockInv, NEW t \in Tasks, NEW to, NEW frame, Moves(t, to, frame),
           ~Ended(t), to # "absent", to = "locking" => frame # "schema",
           \/ cancelRequested' = cancelRequested /\ t \notin cancelRequested
           \/ cancelRequested' = cancelRequested \ {t}
    PROVE  SchemaUnlocked' /\ CancelledLive' /\ NotYet' /\ Gathered'
<1>1. /\ \A u \in Tasks \ {t} : pc'[u] = pc[u] /\ staged'[u] = staged[u]
      /\ pc'[t] = to /\ staged'[t] = frame
  BY MovesSets
<1>2. SchemaUnlocked'
  BY <1>1 DEF LockInv, SchemaUnlocked
<1>3. CancelledLive'
  BY <1>1 DEF LockInv, CancelledLive, Ended, TypeInv, TypeOK
<1>4. UNCHANGED <<conn, registry, received>> /\ Requests \subseteq Tasks /\ PushRoutes \subseteq Tasks
  BY DEF Moves, connVars, Tasks
<1>5. NotYet'
  BY <1>1, <1>4 DEF LockInv, NotYet, Ended
<1>6. Gathered'
  BY <1>1, <1>4 DEF LockInv, Gathered, Ended
<1> QED BY <1>2, <1>3, <1>5, <1>6

\* A task outside the lock moves and stays outside.
LEMMA OutsideKeeps ==
    ASSUME TypeInv, LockInv, NEW t \in Tasks, NEW to, NEW frame, Moves(t, to, frame),
           ~Ended(t), ~WriteQueued(t), to # "absent", to # "locking",
           to = "draining" => frame = "schema",
           UNCHANGED writer_lock,
           \/ cancelRequested' = cancelRequested /\ t \notin cancelRequested
           \/ cancelRequested' = cancelRequested \ {t}
    PROVE  LockInv'
<1>1. t \notin Inside /\ Inside' = Inside /\ Waiting \ {t} \subseteq Waiting'
  BY MovesSets DEF Inside
<1>2. writer_lock \in Seq(Tasks)
  BY DEF TypeInv, TypeOK
<1>3. Queue(writer_lock, Inside, Waiting')
  BY <1>1, <1>2, QueueStays DEF LockInv, LockQueue
<1> QED BY <1>1, <1>3, MovesRest DEF LockInv, LockQueue

\* A task leaves the lock if it is in it.
LEMMA LeaveKeeps ==
    ASSUME TypeInv, LockInv, NEW t \in Tasks, NEW to, NEW frame, Moves(t, to, frame),
           ~Ended(t), to \notin {"absent", "locking", "draining"}, ReleaseLock(t),
           \/ cancelRequested' = cancelRequested /\ t \notin cancelRequested
           \/ cancelRequested' = cancelRequested \ {t}
    PROVE  LockInv'
<1>1. CASE ~WriteQueued(t)
  BY <1>1, OutsideKeeps DEF ReleaseLock
<1>2. CASE WriteQueued(t)
  <2>1. t \in Inside /\ Inside' = Inside \ {t} /\ Waiting \ {t} \subseteq Waiting'
    BY <1>2, MovesSets DEF Inside
  <2>2. writer_lock \in Seq(Tasks) /\ writer_lock' = RemoveFirst(writer_lock, t)
    BY <1>2 DEF TypeInv, TypeOK, ReleaseLock
  <2>3. Queue(writer_lock', Inside', Waiting')
    BY <2>1, <2>2, QueueLeave DEF LockInv, LockQueue
  <2> QED BY <2>3, MovesRest DEF LockInv, LockQueue
<1> QED BY <1>1, <1>2

LEMMA AwaitLockKeeps ==
    ASSUME TypeInv, LockInv, NEW t \in Tasks, AwaitLock(t)
    PROVE  LockInv'
<1>1. ~Ended(t) /\ ~WriteQueued(t) /\ t \notin cancelRequested /\ cancelRequested' = cancelRequested
  BY DEF AwaitLock, Live, Ended, WriteQueued
<1>2. CASE Goto(t, "locking") /\ writer_lock' = Append(writer_lock, t) /\ UNCHANGED staged
  <2>1. Moves(t, "locking", staged[t]) /\ staged[t] # "schema"
    BY <1>2, SameFrame DEF AwaitLock, Moves, Goto, chainVars
  <2>2. t \notin Inside /\ Inside' = Inside \union {t} /\ Waiting \ {t} \subseteq Waiting'
        /\ t \in Waiting'
    BY <1>1, <2>1, MovesSets DEF Inside, Waiting
  <2>3. writer_lock \in Seq(Tasks)
    BY DEF TypeInv, TypeOK
  <2>4. Queue(writer_lock', Inside', Waiting')
    BY <1>2, <2>2, <2>3, QueueJoin DEF LockInv, LockQueue
  <2> QED BY <1>1, <2>1, <2>4, MovesRest DEF LockInv, LockQueue
<1>3. CASE Finish(t) /\ UNCHANGED writer_lock
  <2>1. Moves(t, "done", "none")
    BY <1>3 DEF AwaitLock, Moves, Finish, Goto, chainVars
  <2> QED BY <1>1, <1>3, <2>1, OutsideKeeps
<1> QED BY <1>2, <1>3 DEF AwaitLock

LEMMA WriteKeeps ==
    ASSUME TypeInv, LockInv, NEW t \in Tasks, Write(t)
    PROVE  LockInv'
<1>1. pc[t] = "locking" /\ staged[t] # "schema" /\ Head(writer_lock) = t /\ UNCHANGED writer_lock
      /\ t \notin cancelRequested /\ cancelRequested' = cancelRequested
  BY DEF Write, Live, LockInv, SchemaUnlocked
<1>2. Moves(t, "draining", staged[t]) /\ ~Ended(t)
  BY <1>1, SameFrame DEF Write, Moves, Goto, chainVars, Ended
<1>3. t \in Inside /\ Inside' = Inside /\ Waiting \ {t} \subseteq Waiting'
  BY <1>1, <1>2, MovesSets DEF Inside, WriteQueued
<1>4. writer_lock \in Seq(Tasks)
  BY DEF TypeInv, TypeOK
<1>5. Queue(writer_lock', Inside', Waiting')
  BY <1>1, <1>3, <1>4, QueueStays DEF LockInv, LockQueue
<1> QED BY <1>1, <1>2, <1>5, MovesRest DEF LockInv, LockQueue

LEMMA StartMoves ==
    ASSUME TypeInv, NEW t \in Tasks, StartStep(t) \/ HandlerStep(t), ~ WriteSchema(t)
    PROVE  /\ pc' = [pc EXCEPT ![t] = pc'[t]] /\ staged' = [staged EXCEPT ![t] = staged'[t]]
           /\ pc'[t] \in {"waiting", "running", "staged", "done"}
<1>1. pc \in [Tasks -> {"absent", "created", "waiting", "running", "staged", "locking",
                       "draining", "done", "cancelled"}]
      /\ staged \in [Tasks -> {"none", "value", "error", "schema"}]
  BY DEF TypeInv, TypeOK
<1>2. CASE t \in Requests /\ StartRequest(t)
  BY <1>1, <1>2, SameFrame DEF StartRequest, Goto
<1>3. CASE t \in Requests /\ PreviousDone(t)
  BY <1>1, <1>3, SameFrame DEF PreviousDone, Goto
<1>4. CASE t \in PushRoutes /\ StartPush(t)
  BY <1>1, <1>4, SameFrame DEF StartPush, Goto
<1>5. CASE Finish(t) \/ Fail(t)
  BY <1>1, <1>5 DEF Finish, Fail, Goto
<1>6. CASE Goto(t, "staged") /\ staged' = [staged EXCEPT ![t] = "value"]
  BY <1>1, <1>6 DEF Goto
<1> QED BY <1>2, <1>3, <1>4, <1>5, <1>6
        DEF StartStep, SchemaFails, HandlerStep, HandlerYields, HandlerReturns, HandlerRaises

LEMMA StartKeeps ==
    ASSUME TypeInv, LockInv, NEW t \in Tasks, StartStep(t) \/ HandlerStep(t)
    PROVE  LockInv'
<1>1. /\ ~Ended(t) /\ ~WriteQueued(t) /\ t \notin cancelRequested
      /\ cancelRequested' = cancelRequested /\ UNCHANGED writer_lock
  BY DEF StartStep, StartRequest, PreviousDone, WriteSchema, SchemaFails, StartPush, HandlerStep,
         HandlerYields, HandlerReturns, HandlerRaises, Live, Ended, WriteQueued
<1>2. UNCHANGED <<connVars, received>>
  BY DEF StartStep, StartRequest, PreviousDone, WriteSchema, SchemaFails, StartPush, HandlerStep,
         HandlerYields, HandlerReturns, HandlerRaises, chainVars
<1>3. CASE t \in Requests /\ WriteSchema(t)
  <2>1. Moves(t, "draining", "schema")
    BY <1>2, <1>3, SameFrame DEF WriteSchema, Moves, Goto, Live
  <2> QED BY <1>1, <2>1, OutsideKeeps
<1>4. CASE ~ WriteSchema(t)
  <2>1. Moves(t, pc'[t], staged'[t]) /\ pc'[t] \in {"waiting", "running", "staged", "done"}
    BY <1>2, <1>4, StartMoves DEF Moves
  <2> QED BY <1>1, <2>1, OutsideKeeps
<1>5. WriteSchema(t) => t \in Requests
  BY TaskSets DEF StartStep, StartPush, HandlerStep, HandlerYields, HandlerReturns,
                  HandlerRaises, WriteSchema, Live
<1> QED BY <1>3, <1>4, <1>5

\* A frame is out or has failed, or the task is cancelled: the lock is given back.
LEMMA ReleaseKeeps ==
    ASSUME TypeInv, LockInv, NEW t \in Tasks,
           EncodeFails(t) \/ Drained(t) \/ DrainFails(t) \/ CancelDelivered(t)
    PROVE  LockInv'
<1>1. ~Ended(t) /\ ReleaseLock(t)
  BY DEF EncodeFails, Drained, DrainFails, CancelDelivered, Live, Ended, LockInv, CancelledLive
<1>2. \/ cancelRequested' = cancelRequested /\ t \notin cancelRequested
      \/ cancelRequested' = cancelRequested \ {t}
  BY DEF EncodeFails, Drained, DrainFails, CancelDelivered, Live
<1>3. UNCHANGED <<connVars, received>>
  BY DEF EncodeFails, Drained, DrainFails, CancelDelivered, chainVars
<1>4. PICK to \in {"waiting", "running", "staged", "done", "cancelled"},
             frame \in {"none", staged[t], "error"} :
          pc' = [pc EXCEPT ![t] = to] /\ staged' = [staged EXCEPT ![t] = frame]
  <2>1. CASE Finish(t) \/ Fail(t)
    BY <2>1 DEF Finish, Fail, Goto
  <2>2. CASE Goto(t, "running") /\ staged' = [staged EXCEPT ![t] = "none"]
    BY <2>2 DEF Goto
  <2>3. CASE CancelDelivered(t)
    BY <2>3 DEF CancelDelivered, Goto
  <2> QED BY <2>1, <2>2, <2>3 DEF EncodeFails, Drained, DrainFails
<1>5. Moves(t, to, frame)
  BY <1>3, <1>4 DEF Moves
<1> QED BY <1>1, <1>2, <1>5, LeaveKeeps

-----------------------------------------------------------------------------
(* The connection.                                                         *)

LEMMA ReceiveKeeps ==
    ASSUME TypeInv, LockInv, NEW h \in Traffic, Receive(h)
    PROVE  LockInv'
<1>1. PICK r \in Requests : r = received + 1 /\ received' = r /\ pc' = [pc EXCEPT ![r] = "created"]
  BY DEF Receive
<1>2. UNCHANGED <<conn, registry, staged, writer_lock, cancelRequested>> /\ conn = "reading"
  BY DEF Receive, connVars
<1>3. r \in Tasks /\ received \in Nat /\ Requests \subseteq Nat /\ Requests \subseteq Tasks
      /\ PushRoutes \subseteq Tasks
  BY TaskSets DEF TypeInv, TypeOK
<1>4. \A u \in Tasks : pc'[u] = IF u = r THEN "created" ELSE pc[u]
  BY <1>1, <1>3 DEF TypeInv, TypeOK
<1>5. pc[r] = "absent"
  BY <1>1, <1>3 DEF LockInv, NotYet
<1>6. Inside' = Inside /\ Waiting' = Waiting
  BY <1>2, <1>4, <1>5 DEF Inside, Waiting, WriteQueued
<1>7. LockQueue'
  BY <1>2, <1>6 DEF LockInv, LockQueue
<1>8. SchemaUnlocked'
  BY <1>2, <1>4 DEF LockInv, SchemaUnlocked
<1>9. CancelledLive'
  BY <1>2, <1>4, <1>5 DEF LockInv, CancelledLive, Ended, TypeInv, TypeOK
<1>10. \A q \in Requests : q > r => q > received /\ q # r
  BY <1>1, <1>3
<1>11. NotYet'
  BY <1>1, <1>2, <1>3, <1>4, <1>10 DEF LockInv, NotYet
<1>12. Gathered'
  BY <1>2 DEF LockInv, Gathered
<1> QED BY <1>7, <1>8, <1>9, <1>11, <1>12 DEF LockInv

LEMMA ConnectedKeeps ==
    ASSUME TypeInv, LockInv, Connected
    PROVE  LockInv'
<1>1. UNCHANGED <<registry, received, staged, writer_lock, cancelRequested>>
      /\ conn = "connecting" /\ conn' = "reading"
      /\ pc' = [t \in Tasks |-> IF t \in PushRoutes THEN "created" ELSE pc[t]]
  BY DEF Connected, chainVars
<1>2. \A p \in PushRoutes : pc[p] = "absent" /\ p \in Tasks /\ p \notin Requests
  BY <1>1, TaskSets DEF LockInv, NotYet
<1>3. \A u \in Tasks : pc'[u] = IF u \in PushRoutes THEN "created" ELSE pc[u]
  BY <1>1
<1>4. Inside' = Inside /\ Waiting' = Waiting
  BY <1>1, <1>2, <1>3 DEF Inside, Waiting, WriteQueued
<1>5. LockQueue'
  BY <1>1, <1>4 DEF LockInv, LockQueue
<1>6. SchemaUnlocked'
  BY <1>1, <1>3 DEF LockInv, SchemaUnlocked
<1>7. CancelledLive'
  BY <1>1, <1>3 DEF LockInv, CancelledLive, Ended, TypeInv, TypeOK
<1>8. NotYet' /\ Gathered'
  BY <1>1, <1>2, <1>3, TaskSets DEF LockInv, NotYet, Gathered
<1> QED BY <1>5, <1>6, <1>7, <1>8 DEF LockInv

\* The connection ends; no task moves.
LEMMA EndKeeps ==
    ASSUME TypeInv, LockInv, ReadFails \/ LinkLost \/ ServerClose \/ Cleanup
    PROVE  LockInv'
<1>1. UNCHANGED <<received, pc, staged, writer_lock>>
  BY DEF ReadFails, LinkLost, ServerClose, Cleanup, BeginCleanup, RequestsGathered,
         PushesGathered, chainVars, taskVars
<1>2. LockQueue' /\ SchemaUnlocked'
  BY <1>1 DEF LockInv, LockQueue, Inside, Waiting, WriteQueued, SchemaUnlocked
<1>3. CancelledLive'
  BY <1>1 DEF LockInv, CancelledLive, Ended, ReadFails, LinkLost, ServerClose, Cleanup,
              BeginCleanup, RequestsGathered, PushesGathered
<1>4. NotYet'
  BY <1>1 DEF LockInv, NotYet, ReadFails, LinkLost, ServerClose, Cleanup, BeginCleanup,
              RequestsGathered, PushesGathered
<1>5. Gathered'
  <2>1. CASE ReadFails \/ LinkLost
    BY <1>1, <2>1 DEF LockInv, Gathered, Ended, ReadFails, LinkLost
  <2>2. CASE ServerClose
    BY <1>1, <2>2 DEF LockInv, Gathered, Ended, ServerClose
  <2>3. CASE BeginCleanup
    BY <1>1, <2>3 DEF LockInv, Gathered, Ended, BeginCleanup, TypeInv, TypeOK
  <2>4. CASE RequestsGathered \/ PushesGathered
    BY <1>1, <2>4 DEF LockInv, Gathered, Ended, RequestsGathered, PushesGathered
  <2> QED BY <2>1, <2>2, <2>3, <2>4 DEF Cleanup
<1> QED BY <1>2, <1>3, <1>4, <1>5 DEF LockInv

LEMMA LockNext == TypeInv /\ LockInv /\ [Next]_vars => LockInv'
<1> SUFFICES ASSUME TypeInv, LockInv, [Next]_vars PROVE LockInv'
  OBVIOUS
<1>1. CASE \E h \in Traffic : Receive(h)
  BY <1>1, ReceiveKeeps
<1>2. ASSUME NEW t \in Tasks, TaskStep(t) PROVE LockInv'
  BY <1>2, StartKeeps, AwaitLockKeeps, WriteKeeps, ReleaseKeeps DEF TaskStep, FrameStep
<1>3. CASE Connected
  BY <1>3, ConnectedKeeps
<1>4. CASE ReadFails \/ LinkLost \/ ServerClose \/ Cleanup
  BY <1>4, EndKeeps
<1>5. CASE UNCHANGED vars
  BY <1>5 DEF vars, connVars, chainVars, taskVars, LockInv, LockQueue, Inside, Waiting,
              WriteQueued, SchemaUnlocked, CancelledLive, Ended, NotYet, Gathered
<1> QED BY <1>1, <1>2, <1>3, <1>4, <1>5 DEF Next

-----------------------------------------------------------------------------
LEMMA LockInvDiscipline == TypeInv /\ LockInv => LockDiscipline
<1> SUFFICES ASSUME TypeInv, LockInv PROVE LockDiscipline
  OBVIOUS
<1>1. writer_lock \in Seq(Tasks) /\ DOMAIN writer_lock = 1..Len(writer_lock)
  BY DEF TypeInv, TypeOK
<1>2. ToSet(writer_lock) = {t \in Tasks : WriteQueued(t)}
  BY <1>1 DEF ToSet, LockInv, LockQueue, Queue, Inside
<1>3. IsInjective(writer_lock)
  BY <1>1 DEF IsInjective, LockInv, LockQueue, Queue
<1>4. \A i \in 2..Len(writer_lock) : pc[writer_lock[i]] = "locking"
  BY DEF LockInv, LockQueue, Queue, Waiting
<1> QED BY <1>2, <1>3, <1>4 DEF LockDiscipline

LEMMA LockInvQuiet == TypeInv /\ LockInv => ClosedIsQuiet
<1> SUFFICES ASSUME TypeInv, LockInv, conn = "closed"
             PROVE  /\ \A t \in Tasks : Ended(t)
                    /\ registry \subseteq {"task"}
                    /\ writer_lock = <<>>
  BY DEF ClosedIsQuiet
<1>1. (\A t \in Tasks : Ended(t)) /\ registry \subseteq {"task"}
  BY DEF LockInv, Gathered, Tasks
<1>2. Inside = {}
  BY <1>1 DEF Inside, WriteQueued, Ended
<1>3. writer_lock = <<>>
  BY <1>2 DEF LockInv, LockQueue, Queue, TypeInv, TypeOK
<1> QED BY <1>1, <1>3

\* writer_lock is never leaked and never held by two: whatever handlers, codecs, the peer
\* and Server.close do to the tasks that are inside "async with writer_lock".
THEOREM LockNeverLeaks == Spec => []LockDiscipline
<1>1. Init => TypeInv /\ LockInv
  BY TypeInit, LockInit
<1>2. TypeInv /\ LockInv /\ [Next]_vars => (TypeInv /\ LockInv)'
  BY TypeNext, LockNext
<1>3. TypeInv /\ LockInv => LockDiscipline
  BY LockInvDiscipline
<1> QED BY <1>1, <1>2, <1>3, PTL DEF Spec

\* When the handler of a connection has closed its writer, no task of the connection is
\* left, nobody holds the lock, and the registries of writers and clients have forgotten it.
THEOREM NothingAfterClose == Spec => []ClosedIsQuiet
<1>1. Init => TypeInv /\ LockInv
  BY TypeInit, LockInit
<1>2. TypeInv /\ LockInv /\ [Next]_vars => (TypeInv /\ LockInv)'
  BY TypeNext, LockNext
<1>3. TypeInv /\ LockInv => ClosedIsQuiet
  BY LockInvQuiet
<1> QED BY <1>1, <1>2, <1>3, PTL DEF Spec

-----------------------------------------------------------------------------
(* The frames of one task.                                                 *)

\* On a connection that is up, a frame of a task is a result the handler was resumed
\* after, or the one being drained, or the task has ended.
Past(f) ==
    \/ f.kind = "value" /\ f.seq <= sent[f.task]
    \/ pc[f.task] \in {"done", "cancelled"}
    \/ pc[f.task] = "draining" /\ f.kind = staged[f.task] /\ f.seq = sent[f.task] + 1

AllPast == link = "up" => \A i \in 1..Len(wire) : Past(wire[i])

FrameInv == TypeInv /\ LockInv /\ AllPast /\ FramesInOrder

Frame == [task : Tasks, kind : {"value", "error", "schema"}, seq : Nat]

LEMMA WireType == TypeInv => wire \in Seq(Frame) /\ \A i \in 1..Len(wire) : wire[i] \in Frame
<1> SUFFICES ASSUME TypeInv PROVE wire \in Seq(Frame) /\ \A i \in 1..Len(wire) : wire[i] \in Frame
  OBVIOUS
<1>1. wire \in Seq(Frame)
  BY DEF TypeInv, TypeOK, Frame
<1> QED BY <1>1

\* A step that writes nothing disturbs the frames of the task that moves at most.
LEMMA QuietMove ==
    ASSUME FrameInv, NEW t \in Tasks, UNCHANGED <<link, wire>>,
           \A u \in Tasks \ {t} : pc'[u] = pc[u] /\ staged'[u] = staged[u] /\ sent'[u] = sent[u],
           link = "up" => \A f \in Frame : f.task = t /\ Past(f) => Past(f)'
    PROVE  AllPast' /\ FramesInOrder'
<1>1. FramesInOrder'
  BY DEF FrameInv, FramesInOrder
<1>2. ASSUME link = "up", NEW f \in Frame, Past(f) PROVE Past(f)'
  <2>1. CASE f.task = t
    BY <1>2, <2>1
  <2>2. CASE f.task # t
    <3>1. f.task \in Tasks \ {t}
      BY <2>2 DEF Frame
    <3> QED BY <1>2, <3>1 DEF Past
  <2> QED BY <2>1, <2>2
<1>3. AllPast'
  BY <1>2, WireType DEF FrameInv, AllPast
<1> QED BY <1>1, <1>3

\* A frame is written by a task whose earlier frames are results it was resumed after.
LEMMA SendKeeps ==
    ASSUME FrameInv, NEW t \in Tasks, Send(t), pc[t] \in {"staged", "locking"},
           pc' = [pc EXCEPT ![t] = "draining"], UNCHANGED <<link, staged, sent>>
    PROVE  AllPast' /\ FramesInOrder'
<1>1. CASE link # "up"
  BY <1>1 DEF Send, FrameInv, AllPast, FramesInOrder
<1>2. CASE link = "up"
  <2> DEFINE n == Len(wire)
  <2>1. staged[t] \in {"value", "error", "schema"} /\ sent[t] + 1 \in Nat
    BY DEF FrameInv, TypeInv, TypeOK, Staging
  <2>2. PICK new \in Frame : /\ new = [task |-> t, kind |-> staged[t], seq |-> sent[t] + 1]
                             /\ wire' = Append(wire, new)
    BY <1>2, <2>1 DEF Send, Frame
  <2>3. new.task = t /\ new.kind = staged[t] /\ new.seq = sent[t] + 1
    BY <2>2
  <2>4. /\ n \in Nat /\ Len(wire') = n + 1 /\ wire'[n + 1] = new
        /\ \A i \in 1..n : wire'[i] = wire[i] /\ wire[i] \in Frame
    BY <2>2, WireType DEF FrameInv
  <2>5. pc'[t] = "draining" /\ \A u \in Tasks \ {t} : pc'[u] = pc[u]
    BY DEF FrameInv, TypeInv, TypeOK
  <2>6. \A i \in 1..n : /\ Past(wire[i])
                        /\ wire[i].task = t => wire[i].kind = "value" /\ wire[i].seq <= sent[t]
    BY <1>2 DEF FrameInv, AllPast, Past
  <2> HIDE DEF n
  <2>11. Past(new)'
    BY <2>3, <2>5 DEF Past
  <2>12. ASSUME NEW f \in Frame, Past(f), f.task = t => f.kind = "value" /\ f.seq <= sent[t]
        PROVE  Past(f)'
    <3>1. CASE f.task = t
      BY <2>12, <3>1 DEF Past
    <3>2. CASE f.task # t
      <4>1. f.task \in Tasks \ {t}
        BY <3>2 DEF Frame
      <4> QED BY <2>12, <2>5, <4>1 DEF Past
    <3> QED BY <3>1, <3>2
  <2>7. \A i \in 1..Len(wire') : i \in 1..n \/ i = n + 1
    BY <2>4
  <2>8. AllPast'
    <3> SUFFICES ASSUME NEW i \in 1..Len(wire') PROVE Past(wire[i])'
      BY DEF AllPast
    <3>1. PICK f \in Frame : f = wire'[i] /\ Past(f)'
      BY <2>4, <2>6, <2>7, <2>11, <2>12
    <3> QED BY <3>1 DEF Past
  <2>9. FramesInOrder'
    <3> SUFFICES ASSUME NEW i \in 1..Len(wire'), NEW j \in 1..Len(wire'),
                        i < j, wire'[i].task = wire'[j].task
                 PROVE  wire'[i].kind = "value" /\ wire'[i].seq < wire'[j].seq
      BY DEF FramesInOrder
    <3>1. i \in 1..n
      BY <2>4, <2>7
    <3>2. CASE j \in 1..n
      BY <2>4, <3>1, <3>2 DEF FrameInv, FramesInOrder, n
    <3>3. CASE j = n + 1
      <4>1. wire[i].kind = "value" /\ wire[i].seq <= sent[t] /\ wire[i].seq \in Nat
        BY <2>3, <2>4, <2>6, <3>1, <3>3 DEF Frame
      <4>2. sent[t] \in Nat
        BY DEF FrameInv, TypeInv, TypeOK
      <4> QED BY <2>3, <2>4, <3>1, <3>3, <4>1, <4>2
    <3> QED BY <2>7, <3>2, <3>3
  <2> QED BY <2>8, <2>9
<1> QED BY <1>1, <1>2

LEMMA TaskFrames ==
    ASSUME FrameInv, NEW t \in Tasks, TaskStep(t)
    PROVE  AllPast' /\ FramesInOrder'
<1> USE DEF FrameInv, TypeInv, TypeOK
<1>1. CASE StartStep(t) /\ ~ WriteSchema(t)
  BY <1>1, QuietMove DEF StartStep, StartRequest, PreviousDone, SchemaFails, StartPush, Fail, Goto,
                         Live, Past, connVars
<1>2. CASE WriteSchema(t)
  BY <1>2, SendKeeps DEF WriteSchema, Goto, Live, connVars
<1>3. CASE HandlerStep(t)
  BY <1>3, QuietMove DEF HandlerStep, HandlerYields, HandlerReturns, HandlerRaises, Finish,
                         Fail, Goto, Live, Past, connVars
<1>4. CASE AwaitLock(t)
  BY <1>4, QuietMove DEF AwaitLock, Finish, Goto, Live, Past, connVars
<1>5. CASE Write(t)
  BY <1>5, SendKeeps DEF Write, Goto, Live, connVars
<1>6. CASE EncodeFails(t)
  BY <1>6, QuietMove DEF EncodeFails, Finish, Fail, Goto, Live, Past, connVars
<1>7. CASE Drained(t)
  <2>1. CASE staged[t] = "value"
    <3>1. sent'[t] = sent[t] + 1 /\ \A u \in Tasks \ {t} : sent'[u] = sent[u]
      BY <1>7, <2>1 DEF Drained
    <3>2. \A f \in Frame : f.task = t /\ Past(f) => Past(f)'
      <4> SUFFICES ASSUME NEW f \in Frame, f.task = t, Past(f) PROVE Past(f)'
        OBVIOUS
      <4>1. f.kind = "value" /\ f.seq <= sent[t] + 1
        BY <1>7, <2>1 DEF Past, Drained, Live, Frame
      <4> QED BY <3>1, <4>1 DEF Past
    <3> QED BY <1>7, <2>1, <3>1, <3>2, QuietMove DEF Drained, Goto, connVars
  <2>2. CASE staged[t] # "value"
    <3>1. /\ UNCHANGED <<link, wire, sent>> /\ pc' = [pc EXCEPT ![t] = "done"]
          /\ staged' = [staged EXCEPT ![t] = "none"]
      BY <1>7, <2>2 DEF Drained, Finish, Goto, connVars
    <3>2. \A f \in Frame : f.task = t => Past(f)'
      BY <3>1 DEF Past
    <3> QED BY <3>1, <3>2, QuietMove
  <2> QED BY <2>1, <2>2
<1>8. CASE DrainFails(t)
  BY <1>8, QuietMove DEF DrainFails, Finish, Fail, Goto, connVars
<1>9. CASE CancelDelivered(t)
  BY <1>9, QuietMove DEF CancelDelivered, Goto, Past, connVars
<1> QED BY <1>1, <1>2, <1>3, <1>4, <1>5, <1>6, <1>7, <1>8, <1>9 DEF TaskStep, StartStep, FrameStep

LEMMA FrameNext == FrameInv /\ [Next]_vars => FrameInv'
<1> SUFFICES ASSUME FrameInv, [Next]_vars PROVE AllPast' /\ FramesInOrder'
  BY TypeNext, LockNext DEF FrameInv
<1>1. ASSUME NEW h \in Traffic, Receive(h) PROVE AllPast' /\ FramesInOrder'
  <2>1. PICK r \in Requests : r = received + 1 /\ pc' = [pc EXCEPT ![r] = "created"]
    BY <1>1 DEF Receive
  <2>2. r \in Tasks /\ pc[r] = "absent" /\ UNCHANGED <<link, wire, staged, sent>>
    BY <1>1, <2>1, TaskSets DEF Receive, connVars, FrameInv, LockInv, NotYet, TypeInv, TypeOK
  <2>3. \A u \in Tasks \ {r} : pc'[u] = pc[u]
    BY <2>1 DEF FrameInv, TypeInv, TypeOK
  <2>4. \A f \in Frame : f.task = r /\ Past(f) => Past(f)'
    BY <2>2 DEF Past
  <2> QED BY <2>2, <2>3, <2>4, QuietMove
<1>2. ASSUME NEW t \in Tasks, TaskStep(t) PROVE AllPast' /\ FramesInOrder'
  BY <1>2, TaskFrames
<1>3. CASE Connected
  <2>1. UNCHANGED <<link, wire, staged, sent>>
    BY <1>3 DEF Connected
  <2>2. \A u \in Tasks : pc'[u] = pc[u] \/ pc[u] = "absent"
    BY <1>3, TaskSets DEF Connected, FrameInv, LockInv, NotYet
  <2>3. \A f \in Frame : Past(f) => Past(f)'
    BY <2>1, <2>2 DEF Past, Frame
  <2> QED BY <2>1, <2>3, WireType DEF FrameInv, AllPast, FramesInOrder
<1>4. CASE ReadFails \/ LinkLost \/ ServerClose \/ Cleanup
  BY <1>4 DEF ReadFails, LinkLost, ServerClose, Cleanup, BeginCleanup, RequestsGathered,
              PushesGathered, taskVars, FrameInv, AllPast, Past, FramesInOrder
<1>5. CASE UNCHANGED vars
  BY <1>5 DEF vars, connVars, taskVars, FrameInv, AllPast, Past, FramesInOrder
<1> QED BY <1>1, <1>2, <1>3, <1>4, <1>5 DEF Next

\* The frames of one request or push handler reach the wire in order, none twice, and
\* nothing follows an error or the schema, whatever the other tasks do and wherever the
\* connection or a handler fails.
THEOREM FramesOfATaskInOrder == Spec => []FramesInOrder
<1>1. Init => FrameInv
  BY TypeInit, LockInit DEF Init, FrameInv, AllPast, FramesInOrder
<1>2. FrameInv => FramesInOrder
  BY DEF FrameInv
<1> QED BY <1>1, <1>2, FrameNext, PTL DEF Spec

-----------------------------------------------------------------------------
(* The whole answer to a request.                                          *)

\* What a task has on the wire: kinds and numbers of its frames.
Out(t) == {<<wire[i].kind, wire[i].seq>> : i \in {j \in 1..Len(wire) : wire[j].task = t}}

\* The schema or an error alone, or otherwise an error or exactly the declared results.
Whole(command, out) ==
    IF command = SchemaCommand
    THEN \E kind \in {"schema", "error"} : out # {} /\ \A o \in out : o[1] = kind
    ELSE \/ \E o \in out : o[1] = "error"
         \/ \A n \in Nat : <<"value", n>> \in out <=> n \in 1..ResponseFrames[command]

\* On the way to its answer a request for this command is at this place, with a frame
\* staged, n results resumed after and these frames on the wire.
OnItsWay(command, at, frame, n, out) ==
    /\ at \in {"absent", "created"} => frame = "none" /\ n = 0 /\ out = {}
    /\ at = "running" => frame = "none" /\ command \in Commands /\ n <= ResponseFrames[command]
    /\ at = "waiting" => \/ frame = "error"
                         \/ frame = "none" /\ n = 0 /\ command \in Commands
    /\ command = SchemaCommand /\ at \in {"waiting", "staged", "locking"} => out = {}
    /\ command = SchemaCommand /\ at = "draining" => out = {<<frame, n + 1>>}
    /\ frame = "value" => command \in Commands /\ n < ResponseFrames[command]
    /\ frame = "schema" => command = SchemaCommand
    /\ at = "draining" => <<frame, n + 1>> \in out
    /\ \A m \in 1..n : <<"value", m>> \in out
    /\ command # SchemaCommand =>
          \A o \in out : /\ o[1] \in {"value", "error"}
                         /\ o[1] = "value" => command \in Commands /\ o[2] \in 1..ResponseFrames[command]
    /\ at = "done" => Whole(command, out)

Answering(r) == OnItsWay(header[r].command, pc[r], staged[r], sent[r], Out(r))
AllAnswering == link = "up" => \A r \in Requests \ SilentErrors : Answering(r)

AnswerInv == TypeInv /\ LockInv /\ AllAnswering

LEMMA OutUnchanged ==
    ASSUME NEW t, UNCHANGED wire PROVE Out(t)' = Out(t)
BY DEF Out

LEMMA OutSent ==
    ASSUME TypeInv, NEW t \in Tasks, staged[t] # "none", Send(t), link = "up", NEW u \in Tasks
    PROVE  Out(u)' = IF u = t THEN Out(u) \union {<<staged[t], sent[t] + 1>>} ELSE Out(u)
<1>0. staged[t] \in {"value", "error", "schema"} /\ sent[t] + 1 \in Nat
  BY DEF TypeInv, TypeOK
<1>1. PICK new \in Frame : /\ new = [task |-> t, kind |-> staged[t], seq |-> sent[t] + 1]
                           /\ wire' = Append(wire, new)
  BY <1>0 DEF Send, Frame
<1>2. new.task = t /\ new.kind = staged[t] /\ new.seq = sent[t] + 1
  BY <1>1
<1>3. /\ Len(wire) \in Nat /\ Len(wire') = Len(wire) + 1 /\ wire'[Len(wire) + 1] = new
      /\ \A i \in 1..Len(wire) : wire'[i] = wire[i]
  BY <1>1, WireType
<1>4. 1..Len(wire') = 1..Len(wire) \union {Len(wire) + 1}
  BY <1>3
<1>5. CASE u = t
  BY <1>2, <1>3, <1>4, <1>5 DEF Out
<1>6. CASE u # t
  BY <1>2, <1>3, <1>4, <1>6 DEF Out
<1> QED BY <1>5, <1>6

\* The steps of a task leave the other requests as they are.
LEMMA OthersAnswer ==
    ASSUME AnswerInv, NEW t \in Tasks, UNCHANGED <<link, header>>,
           \A u \in Tasks \ {t} : /\ pc'[u] = pc[u] /\ staged'[u] = staged[u] /\ sent'[u] = sent[u]
                                  /\ Out(u)' = Out(u),
           link = "up" /\ t \in Requests \ SilentErrors => Answering(t)'
    PROVE  AllAnswering'
<1> SUFFICES ASSUME link = "up", NEW r \in Requests \ SilentErrors PROVE Answering(r)'
  BY DEF AllAnswering
<1>1. CASE r = t
  BY <1>1
<1>2. CASE r # t
  <2>1. r \in Tasks \ {t} /\ Answering(r)
    BY <1>2, TaskSets DEF AnswerInv, AllAnswering
  <2> QED BY <2>1 DEF Answering
<1> QED BY <1>1, <1>2

\* A task steps and writes nothing.
LEMMA AnswerMove ==
    ASSUME AnswerInv, NEW t \in Tasks, NEW to, NEW frame, NEW n,
           UNCHANGED <<link, header, wire>>,
           pc' = [pc EXCEPT ![t] = to], staged' = [staged EXCEPT ![t] = frame],
           sent' = [sent EXCEPT ![t] = n],
           link = "up" /\ t \in Requests \ SilentErrors
               => OnItsWay(header[t].command, to, frame, n, Out(t))
    PROVE  AllAnswering'
<1>1. /\ pc'[t] = to /\ staged'[t] = frame /\ sent'[t] = n
      /\ \A u \in Tasks \ {t} : pc'[u] = pc[u] /\ staged'[u] = staged[u] /\ sent'[u] = sent[u]
  BY DEF AnswerInv, TypeInv, TypeOK
<1>2. \A u : Out(u)' = Out(u)
  BY OutUnchanged
<1>3. link = "up" /\ t \in Requests \ SilentErrors => Answering(t)'
  BY <1>1, <1>2 DEF Answering
<1> QED BY <1>1, <1>2, <1>3, OthersAnswer

\* A task writes its frame.
LEMMA AnswerSend ==
    ASSUME AnswerInv, NEW t \in Tasks, Send(t), pc[t] \in {"staged", "locking"},
           pc' = [pc EXCEPT ![t] = "draining"], UNCHANGED <<link, header, staged, sent>>
    PROVE  AllAnswering'
<1>1. CASE link # "up"
  BY <1>1 DEF AllAnswering
<1>2. CASE link = "up"
  <2>1. pc'[t] = "draining" /\ \A u \in Tasks \ {t} : pc'[u] = pc[u]
    BY DEF AnswerInv, TypeInv, TypeOK
  <2>2. staged[t] \in {"value", "error", "schema"} /\ sent[t] \in Nat
    BY DEF AnswerInv, TypeInv, TypeOK, Staging
  <2>3. Out(t)' = Out(t) \union {<<staged[t], sent[t] + 1>>}
        /\ \A u \in Tasks \ {t} : Out(u)' = Out(u)
    BY <1>2, <2>2, OutSent DEF AnswerInv
  <2>4. ASSUME t \in Requests \ SilentErrors PROVE Answering(t)'
    <3> DEFINE c == header[t].command
               new == <<staged[t], sent[t] + 1>>
    <3>1. OnItsWay(c, pc[t], staged[t], sent[t], Out(t))
      BY <1>2, <2>4 DEF AnswerInv, AllAnswering, Answering
    <3>2. new[1] = staged[t] /\ new[2] = sent[t] + 1
      OBVIOUS
    <3>3. staged[t] = "value" => new[2] \in 1..ResponseFrames[c]
      BY <2>2, <3>1, RoutesAssumption DEF OnItsWay
    <3> HIDE DEF c, new
    <3>4. OnItsWay(c, "draining", staged[t], sent[t], Out(t) \union {new})
      <4>1. new = <<staged[t], sent[t] + 1>>
        BY DEF new
      <4>2. /\ staged[t] = "value" => c \in Commands /\ sent[t] < ResponseFrames[c]
            /\ staged[t] = "schema" => c = SchemaCommand
            /\ c = SchemaCommand => Out(t) = {}
            /\ \A m \in 1..sent[t] : <<"value", m>> \in Out(t)
        BY <3>1 DEF OnItsWay
      <4>3. c # SchemaCommand =>
                \A o \in Out(t) : /\ o[1] \in {"value", "error"}
                                  /\ o[1] = "value" => c \in Commands /\ o[2] \in 1..ResponseFrames[c]
        BY <3>1 DEF OnItsWay
      <4>4. c # SchemaCommand => /\ new[1] \in {"value", "error"}
                                 /\ new[1] = "value" => c \in Commands /\ new[2] \in 1..ResponseFrames[c]
        BY <2>2, <3>2, <3>3, <4>2, RoutesAssumption
      <4>5. c = SchemaCommand => Out(t) \union {new} = {new}
        BY <4>2
      <4> QED BY <4>1, <4>2, <4>3, <4>4, <4>5, Zenon DEF OnItsWay
    <3> QED BY <2>1, <2>3, <3>4 DEF Answering, c, new
  <2> QED BY <2>1, <2>3, <2>4, OthersAnswer
<1> QED BY <1>1, <1>2

LEMMA SameSent ==
    ASSUME TypeInv, NEW t \in Tasks, UNCHANGED sent
    PROVE  sent' = [sent EXCEPT ![t] = sent[t]]
BY DEF TypeInv, TypeOK

LEMMA AnswerTask ==
    ASSUME AnswerInv, NEW t \in Tasks, TaskStep(t)
    PROVE  AllAnswering'
<1> DEFINE c == header[t].command
           Way(to, frame, n) == link = "up" /\ t \in Requests \ SilentErrors
                                  => OnItsWay(c, to, frame, n, Out(t))
<1>0. /\ TypeInv /\ sent[t] \in Nat
      /\ c \in Commands => ResponseFrames[c] \in Nat
      /\ Way(pc[t], staged[t], sent[t])
  BY RoutesAssumption DEF AnswerInv, AllAnswering, Answering, TypeInv, TypeOK
<1> HIDE DEF c
<1>1. CASE t \in Requests /\ StartRequest(t)
  <2>1. pc[t] = "created" /\ UNCHANGED <<link, header, wire, sent>>
    BY <1>1 DEF StartRequest, Live, connVars, chainVars
  <2>2. CASE Schema(t) /\ Goto(t, "staged") /\ staged' = [staged EXCEPT ![t] = "schema"]
    <3>1. Way("staged", "schema", sent[t])
      BY <1>0, <2>1, <2>2 DEF OnItsWay, Schema, c
    <3> QED BY <1>0, <2>1, <2>2, <3>1, AnswerMove, SameSent DEF Goto, c
  <2>3. CASE Goto(t, "waiting") /\ staged' = [staged EXCEPT ![t] = "error"]
    <3>1. Way("waiting", "error", sent[t])
      BY <1>0, <2>1, <2>3, RoutesAssumption DEF OnItsWay
    <3> QED BY <1>0, <2>1, <2>3, <3>1, AnswerMove, SameSent DEF Goto, c
  <2>4. CASE c \in Commands /\ Goto(t, "waiting") /\ UNCHANGED staged
    <3>1. Way("waiting", staged[t], sent[t])
      BY <1>0, <2>1, <2>4, RoutesAssumption DEF OnItsWay
    <3>2. sent' = [sent EXCEPT ![t] = sent[t]] /\ staged' = [staged EXCEPT ![t] = staged[t]]
      BY <1>0, <2>1, <2>4, SameSent, SameFrame
    <3>3. pc' = [pc EXCEPT ![t] = "waiting"]
      BY <2>4 DEF Goto
    <3>4. link = "up" /\ t \in Requests \ SilentErrors
              => OnItsWay(header[t].command, "waiting", staged[t], sent[t], Out(t))
      BY <3>1 DEF c
    <3> QED BY <2>1, <3>2, <3>3, <3>4, AnswerMove, ZenonT(30)
  <2> QED BY <1>1, <2>2, <2>3, <2>4 DEF StartRequest, c
<1>2. CASE t \in Requests /\ PreviousDone(t)
  <2>1. pc[t] = "waiting" /\ UNCHANGED <<link, header, wire, sent, staged>>
    BY <1>2 DEF PreviousDone, Live, connVars, chainVars
  <2>2. CASE staged[t] = "error" /\ Goto(t, "staged")
    <3>1. Way("staged", "error", sent[t])
      BY <1>0, <2>1, <2>2 DEF OnItsWay
    <3>2. staged' = [staged EXCEPT ![t] = "error"]
      BY <1>0, <2>1, <2>2, SameFrame
    <3> QED BY <1>0, <2>1, <2>2, <3>1, <3>2, AnswerMove, SameSent DEF Goto, c
  <2>3. CASE staged[t] # "error" /\ Goto(t, "running")
    <3>1. Way("running", staged[t], sent[t])
      BY <1>0, <2>1, <2>3 DEF OnItsWay
    <3>2. sent' = [sent EXCEPT ![t] = sent[t]] /\ staged' = [staged EXCEPT ![t] = staged[t]]
      BY <1>0, <2>1, <2>3, SameSent, SameFrame
    <3>3. pc' = [pc EXCEPT ![t] = "running"]
      BY <2>3 DEF Goto
    <3>4. link = "up" /\ t \in Requests \ SilentErrors
              => OnItsWay(header[t].command, "running", staged[t], sent[t], Out(t))
      BY <3>1 DEF c
    <3> QED BY <2>1, <3>2, <3>3, <3>4, AnswerMove, ZenonT(30)
  <2> QED BY <1>2, <2>2, <2>3 DEF PreviousDone
<1>3. CASE t \in PushRoutes /\ StartPush(t)
  <2>1. UNCHANGED <<link, header, wire, sent, staged>> /\ Goto(t, "running") /\ t \notin Requests
    BY <1>3, TaskSets DEF StartPush, connVars, chainVars
  <2> QED BY <1>0, <2>1, AnswerMove, SameSent, SameFrame DEF Goto
<1>4. CASE WriteSchema(t) \/ Write(t)
  <2>1. UNCHANGED <<link, header, staged, sent>>
    BY <1>4 DEF WriteSchema, Write, connVars, chainVars
  <2> QED BY <1>4, <2>1, AnswerSend DEF WriteSchema, Write, Goto, Live
<1>5. CASE HandlerStep(t)
  <2>1. pc[t] = "running" /\ UNCHANGED <<link, header, wire, sent>>
    BY <1>5 DEF HandlerStep, HandlerYields, HandlerReturns, HandlerRaises, Live, connVars, chainVars
  <2>2. CASE Fail(t)
    <3>1. t \in Requests => Way("waiting", "error", sent[t])
      BY <1>0, <2>1, RoutesAssumption DEF OnItsWay
    <3> QED BY <1>0, <2>1, <2>2, <3>1, AnswerMove, SameSent DEF Fail, Goto, c
  <2>3. CASE Finish(t) /\ (t \in Requests => sent[t] = Declared(t))
    <3>1. Way("done", "none", sent[t])
      BY <1>0, <2>1, <2>3, RoutesAssumption DEF OnItsWay, Whole, Declared, c
    <3> QED BY <1>0, <2>1, <2>3, <3>1, AnswerMove, SameSent DEF Finish, Goto, c
  <2>4. CASE /\ t \in Requests => sent[t] < Declared(t)
             /\ Goto(t, "staged") /\ staged' = [staged EXCEPT ![t] = "value"]
    <3>1. Way("staged", "value", sent[t])
      BY <1>0, <2>1, <2>4, RoutesAssumption DEF OnItsWay, Declared, c
    <3> QED BY <1>0, <2>1, <2>4, <3>1, AnswerMove, SameSent DEF Goto, c
  <2> QED BY <1>5, <2>2, <2>3, <2>4 DEF HandlerStep, HandlerYields, HandlerReturns, HandlerRaises
<1>6. CASE AwaitLock(t)
  <2>1. pc[t] = "staged" /\ UNCHANGED <<link, header, wire, sent>>
    BY <1>6 DEF AwaitLock, Live, connVars, chainVars
  <2>2. CASE Goto(t, "locking") /\ UNCHANGED staged
    <3>1. Way("locking", staged[t], sent[t])
      BY <1>0, <2>1 DEF OnItsWay
    <3>2. sent' = [sent EXCEPT ![t] = sent[t]] /\ staged' = [staged EXCEPT ![t] = staged[t]]
      BY <1>0, <2>1, <2>2, SameSent, SameFrame
    <3>3. pc' = [pc EXCEPT ![t] = "locking"]
      BY <2>2 DEF Goto
    <3>4. link = "up" /\ t \in Requests \ SilentErrors
              => OnItsWay(header[t].command, "locking", staged[t], sent[t], Out(t))
      BY <3>1 DEF c
    <3> QED BY <2>1, <3>2, <3>3, <3>4, AnswerMove, ZenonT(30)
  <2>3. CASE t \in SilentErrors /\ Finish(t)
    BY <1>0, <2>1, <2>3, AnswerMove, SameSent DEF Finish, Goto
  <2> QED BY <1>6, <2>2, <2>3 DEF AwaitLock
<1>7. CASE EncodeFails(t)
  <2>1. UNCHANGED <<link, header, wire, sent>>
    BY <1>7 DEF EncodeFails, connVars, chainVars
  <2>2. CASE staged[t] = "value" /\ Fail(t)
    <3>1. t \in Requests => Way("waiting", "error", sent[t])
      BY <1>0, <2>1, <2>2, RoutesAssumption DEF OnItsWay
    <3> QED BY <1>0, <2>1, <2>2, <3>1, AnswerMove, SameSent DEF Fail, Goto, c
  <2>3. CASE t \in PushRoutes /\ Finish(t)
    BY <1>0, <2>1, <2>3, TaskSets, AnswerMove, SameSent DEF Finish, Goto
  <2> QED BY <1>7, <2>2, <2>3 DEF EncodeFails
<1>8. CASE Drained(t)
  <2>1. pc[t] = "draining" /\ UNCHANGED <<link, header, wire>> /\ staged[t] # "none"
    BY <1>0, <1>8 DEF Drained, Live, connVars, chainVars, TypeInv, Staging
  <2>2. CASE /\ staged[t] = "value" /\ Goto(t, "running") /\ staged' = [staged EXCEPT ![t] = "none"]
             /\ sent' = [sent EXCEPT ![t] = @ + 1]
    <3>1. Way("running", "none", sent[t] + 1)
      <4> SUFFICES ASSUME link = "up", t \in Requests \ SilentErrors
                   PROVE  OnItsWay(c, "running", "none", sent[t] + 1, Out(t))
        OBVIOUS
      <4>1. c \in Commands /\ sent[t] < ResponseFrames[c] /\ <<"value", sent[t] + 1>> \in Out(t)
        BY <1>0, <2>1, <2>2 DEF OnItsWay
      <4>2. \A m \in 1..sent[t] + 1 : m \in 1..sent[t] \/ m = sent[t] + 1
        BY <1>0
      <4>3. \A m \in 1..sent[t] + 1 : <<"value", m>> \in Out(t)
        BY <1>0, <4>1, <4>2 DEF OnItsWay
      <4>4. sent[t] + 1 <= ResponseFrames[c]
        BY <1>0, <4>1
      <4> QED BY <1>0, <4>1, <4>3, <4>4 DEF OnItsWay
    <3> QED BY <2>1, <2>2, <3>1, AnswerMove DEF Goto, c
  <2>3. CASE staged[t] # "value" /\ Finish(t) /\ UNCHANGED sent
    <3>1. Way("done", "none", sent[t])
      <4> SUFFICES ASSUME link = "up", t \in Requests \ SilentErrors
                   PROVE  OnItsWay(c, "done", "none", sent[t], Out(t))
        OBVIOUS
      <4>1. <<staged[t], sent[t] + 1>> \in Out(t) /\ staged[t] \in {"error", "schema"}
        BY <1>0, <2>1, <2>3 DEF OnItsWay, TypeInv, TypeOK
      <4>2. <<staged[t], sent[t] + 1>>[1] = staged[t]
        OBVIOUS
      <4>3. CASE c = SchemaCommand
        <5>1. Out(t) = {<<staged[t], sent[t] + 1>>}
          BY <1>0, <2>1, <4>3 DEF OnItsWay
        <5>2. Out(t) # {} /\ \A o \in Out(t) : o[1] = staged[t]
          BY <4>2, <5>1
        <5>3. Whole(c, Out(t))
          BY <4>1, <4>3, <5>2 DEF Whole
        <5> QED BY <1>0, <5>3 DEF OnItsWay
      <4>4. CASE c # SchemaCommand
        <5>1. staged[t] = "error"
          BY <1>0, <4>1, <4>4 DEF OnItsWay
        <5>2. Whole(c, Out(t))
          BY <4>1, <4>2, <4>4, <5>1 DEF Whole
        <5> QED BY <1>0, <5>2 DEF OnItsWay
      <4> QED BY <4>3, <4>4
    <3> QED BY <1>0, <2>1, <2>3, <3>1, AnswerMove, SameSent DEF Finish, Goto, c
  <2> QED BY <1>8, <2>2, <2>3 DEF Drained
<1>9. CASE DrainFails(t)
  BY <1>9 DEF DrainFails, connVars, AllAnswering
<1>11. CASE t \in Requests /\ SchemaFails(t)
  <2>1. pc[t] = "staged" /\ Fail(t) /\ UNCHANGED <<link, header, wire, sent>>
    BY <1>11 DEF SchemaFails, Live, connVars, chainVars
  <2>2. Way("waiting", "error", sent[t])
    BY <1>0, <2>1 DEF OnItsWay
  <2> QED BY <1>0, <1>11, <2>1, <2>2, AnswerMove, SameSent DEF Fail, Goto, c
<1>10. CASE CancelDelivered(t)
  <2>1. UNCHANGED <<link, header, wire, sent>>
    BY <1>10 DEF CancelDelivered, connVars, chainVars
  <2>2. Way("cancelled", "none", sent[t])
    BY <1>0 DEF OnItsWay
  <2> QED BY <1>0, <1>10, <2>1, <2>2, AnswerMove, SameSent DEF CancelDelivered, Goto, c
<1> QED BY <1>1, <1>2, <1>3, <1>4, <1>5, <1>6, <1>7, <1>8, <1>9, <1>10, <1>11
        DEF TaskStep, StartStep, FrameStep

LEMMA AnswerNext == AnswerInv /\ [Next]_vars => AnswerInv'
<1> SUFFICES ASSUME AnswerInv, [Next]_vars PROVE AllAnswering'
  BY TypeNext, LockNext DEF AnswerInv
<1>1. ASSUME NEW h \in Traffic, Receive(h) PROVE AllAnswering'
  <2>1. PICK r \in Requests : /\ r = received + 1 /\ pc' = [pc EXCEPT ![r] = "created"]
                              /\ header' = [header EXCEPT ![r] = h]
    BY <1>1 DEF Receive
  <2>2. r \in Tasks /\ pc[r] = "absent" /\ UNCHANGED <<link, wire, staged, sent>>
    BY <1>1, <2>1, TaskSets DEF Receive, connVars, AnswerInv, LockInv, NotYet, TypeInv, TypeOK
  <2>3. /\ pc'[r] = "created" /\ \A u \in Tasks \ {r} : pc'[u] = pc[u]
        /\ \A u \in Requests \ {r} : header'[u] = header[u]
    BY <2>1, <2>2 DEF AnswerInv, TypeInv, TypeOK
  <2>4. \A u : Out(u)' = Out(u)
    BY <2>2, OutUnchanged
  <2> SUFFICES ASSUME link = "up", NEW q \in Requests \ SilentErrors PROVE Answering(q)'
    BY <2>2 DEF AllAnswering
  <2>5. Answering(q) /\ q \in Tasks
    BY TaskSets DEF AnswerInv, AllAnswering
  <2>6. CASE q = r
    <3>1. staged[r] = "none" /\ sent[r] = 0 /\ Out(r) = {}
      BY <2>2, <2>5, <2>6 DEF Answering, OnItsWay
    <3> QED BY <2>2, <2>3, <2>4, <2>6, <3>1 DEF Answering, OnItsWay
  <2>7. CASE q # r
    BY <2>2, <2>3, <2>4, <2>5, <2>7 DEF Answering
  <2> QED BY <2>6, <2>7
<1>2. ASSUME NEW t \in Tasks, TaskStep(t) PROVE AllAnswering'
  BY <1>2, AnswerTask
<1>3. CASE Connected
  <2>1. UNCHANGED <<link, header, wire, staged, sent>> /\ \A r \in Requests : pc'[r] = pc[r]
    BY <1>3, TaskSets DEF Connected, chainVars
  <2>2. \A u : Out(u)' = Out(u)
    BY <2>1, OutUnchanged
  <2> QED BY <2>1, <2>2 DEF AnswerInv, AllAnswering, Answering
<1>4. CASE ReadFails \/ LinkLost \/ ServerClose \/ Cleanup \/ UNCHANGED vars
  <2>1. UNCHANGED <<header, wire, pc, staged, sent>> /\ (link' = "up" => link = "up")
    BY <1>4 DEF ReadFails, LinkLost, ServerClose, Cleanup, BeginCleanup, RequestsGathered,
                PushesGathered, taskVars, chainVars, connVars, vars
  <2>2. \A u : Out(u)' = Out(u)
    BY <2>1, OutUnchanged
  <2> QED BY <2>1, <2>2 DEF AnswerInv, AllAnswering, Answering
<1> QED BY <1>1, <1>2, <1>3, <1>4 DEF Next

LEMMA AnswerInit == Init => AnswerInv
<1> SUFFICES ASSUME Init PROVE AllAnswering
  BY TypeInit, LockInit DEF AnswerInv
<1>1. \A t : Out(t) = {}
  BY DEF Init, Out
<1>2. \A r \in Requests : r \in Tasks /\ pc[r] = "absent" /\ staged[r] = "none" /\ sent[r] = 0
  BY TaskSets DEF Init
<1> QED BY <1>1, <1>2 DEF AllAnswering, Answering, OnItsWay

LEMMA AnswerComplete == AnswerInv => CompleteResponse
<1> SUFFICES ASSUME AnswerInv, NEW r \in Requests \ SilentErrors, pc[r] = "done", link = "up"
             PROVE  LET kinds == {wire[i].kind : i \in {j \in 1..Len(wire) : wire[j].task = r}}
                        values == {wire[i].seq : i \in {j \in 1..Len(wire) :
                                                  wire[j].task = r /\ wire[j].kind = "value"}}
                    IN  IF Schema(r) THEN kinds \in {{"schema"}, {"error"}}
                        ELSE "error" \in kinds \/ values = 1..Declared(r)
  BY DEF CompleteResponse
<1> DEFINE kinds == {wire[i].kind : i \in {j \in 1..Len(wire) : wire[j].task = r}}
           values == {wire[i].seq : i \in {j \in 1..Len(wire) :
                                                  wire[j].task = r /\ wire[j].kind = "value"}}
<1>1. Whole(header[r].command, Out(r))
  BY DEF AnswerInv, AllAnswering, Answering, OnItsWay
<1>2. \A i \in 1..Len(wire) : wire[i].task = r => <<wire[i].kind, wire[i].seq>> \in Out(r)
  BY DEF Out
<1>3. \A o \in Out(r) : \E i \in 1..Len(wire) :
          wire[i].task = r /\ o = <<wire[i].kind, wire[i].seq>>
  BY DEF Out
<1>4. \A i \in 1..Len(wire) : wire[i].seq \in Nat
  BY WireType DEF AnswerInv, Frame
<1>5. CASE Schema(r)
  <2>1. PICK kind \in {"schema", "error"} : Out(r) # {} /\ \A o \in Out(r) : o[1] = kind
    BY <1>1, <1>5 DEF Whole, Schema
  <2>2. \A k \in kinds : k = kind
    BY <1>2, <2>1
  <2>3. kinds # {}
    BY <1>3, <2>1
  <2>4. kinds = {kind}
    BY <2>2, <2>3
  <2> QED BY <1>5, <2>4
<1>6. CASE ~Schema(r)
  <2>1. CASE \E o \in Out(r) : o[1] = "error"
    <3>1. "error" \in kinds
      BY <1>3, <2>1
    <3> QED BY <1>6, <3>1
  <2>2. CASE \A n \in Nat : <<"value", n>> \in Out(r) <=> n \in 1..Declared(r)
    <3>1. \A n \in values : n \in 1..Declared(r)
      BY <1>2, <1>4, <2>2
    <3>2. \A n \in 1..Declared(r) : n \in values
      <4> TAKE n \in 1..Declared(r)
      <4>1. <<"value", n>> \in Out(r)
        BY <2>2
      <4>2. PICK i \in 1..Len(wire) : wire[i].task = r /\ <<"value", n>> = <<wire[i].kind, wire[i].seq>>
        BY <1>3, <4>1
      <4> QED BY <4>2
    <3> QED BY <1>6, <3>1, <3>2
  <2> QED BY <1>1, <1>6, <2>1, <2>2 DEF Whole, Schema, Declared
<1> QED BY <1>5, <1>6

\* A request that ended by itself on a connection that is up was answered in full: by the
\* schema or one exception if it asked for the schema, otherwise by an exception or exactly
\* its declared results; for any commands and numbers of frames and whatever the handlers
\* do, unless the codec may fail to represent this request's exception.
THEOREM AnswersComplete == Spec => []CompleteResponse
BY AnswerInit, AnswerNext, AnswerComplete, PTL DEF Spec
=============================================================================
