------------------------- MODULE ServerConnectionProofs -------------------------
(* Theorems about ServerConnection, for every value of its constants.         *)
EXTENDS ServerConnection, QueueLemmas, FiniteSetTheorems

-----------------------------------------------------------------------------
(* Type correctness.                                                       *)

\* What TypeOK needs to be inductive: a task about to write has a frame, and only
\* requests wait for a predecessor.
Staging ==
    /\ \A t \in Tasks : pc[t] \in {"staged", "locking", "draining"} => staged[t] # "none"
    /\ \A p \in PushRoutes : pc[p] # "waiting"

TypeInv == TypeOK /\ Staging

\* Requests are tasks, and numbers; push routes are not numbers.
LEMMA TaskSets ==
    /\ Requests \subseteq Tasks /\ PushRoutes \subseteq Tasks
    /\ Requests \subseteq Nat /\ 0..MaxRequests \subseteq Nat
    /\ \A p \in PushRoutes : p \notin Requests
    /\ \A r \in Requests : r \in 0..MaxRequests /\ r # 0 /\ r - 1 \in 0..MaxRequests
BY BoundsAssumption, TasksAssumption DEF Requests, Tasks

LEMMA TypeInit == Init => TypeInv
BY BoundsAssumption, TaskSets DEF Init, TypeInv, TypeOK, Staging, Header

\* Removing any task keeps the queue a sequence of tasks.
LEMMA QueueType ==
    ASSUME TypeOK, NEW t
    PROVE  RemoveFirst(writer_lock, t) \in Seq(Tasks)
BY RemoveFirstType DEF TypeOK

LEMMA TypeReceive ==
    ASSUME TypeInv, NEW h \in Traffic, Receive(h)
    PROVE  TypeInv'
<1> DEFINE r == received + 1
           tail == IF h.sessioned THEN response_tail ELSE r
           PC == {"absent", "created", "waiting", "running", "staged", "locking",
                  "draining", "done", "cancelled"}
<1>1. r \in Requests /\ r \in Tasks /\ r \in 0..MaxRequests /\ r \notin PushRoutes
  BY TaskSets DEF Receive
<1>2. /\ header' = [header EXCEPT ![r] = h]
      /\ previous' = [previous EXCEPT ![r] = IF h.sessioned THEN 0 ELSE response_tail]
      /\ complete' = [complete EXCEPT ![r] = tail]
      /\ pc' = [pc EXCEPT ![r] = "created"]
      /\ received' = r /\ response_tail' = tail
  BY DEF Receive
<1>3. response_tail \in 0..received /\ received \in 0..MaxRequests
  BY DEF TypeInv, TypeOK
<1>4. received' \in 0..MaxRequests /\ tail \in 0..r /\ response_tail \in 0..MaxRequests
      /\ tail \in 0..MaxRequests /\ 0 \in 0..MaxRequests
  BY <1>1, <1>2, <1>3, BoundsAssumption
<1>5. header' \in [Requests -> Header]
  BY <1>1, <1>2, TrafficAssumption DEF TypeInv, TypeOK
<1>6. previous' \in [Requests -> 0..MaxRequests] /\ complete' \in [Requests -> 0..MaxRequests]
  <2> HIDE DEF r, tail
  <2>1. QED
    BY <1>1, <1>2, <1>4 DEF TypeInv, TypeOK
<1>7. pc \in [Tasks -> PC]
  BY DEF TypeInv, TypeOK
<1>8. pc' \in [Tasks -> PC] /\ \A t \in Tasks : pc'[t] = IF t = r THEN "created" ELSE pc[t]
  <2> HIDE DEF r
  <2>1. QED
    BY <1>1, <1>2, <1>7
<1>9. Staging'
  <2> HIDE DEF r
  <2>1. UNCHANGED staged
    BY DEF Receive
  <2>2. QED
    BY <1>1, <1>8, <2>1, TaskSets DEF TypeInv, Staging
<1>10. TypeOK'
  BY <1>2, <1>4, <1>5, <1>6, <1>8 DEF TypeInv, TypeOK, Receive, connVars
<1>11. QED
  BY <1>9, <1>10 DEF TypeInv

\* A task moves from one place to another with a frame that fits.
LEMMA TypeMove ==
    ASSUME TypeInv, NEW t \in Tasks,
           NEW to \in {"waiting", "running", "staged", "locking", "draining", "done", "cancelled"},
           NEW frame \in {"none", "value", "error", "schema"},
           to \in {"staged", "locking", "draining"} => frame # "none",
           to = "waiting" => t \in Requests,
           pc' = [pc EXCEPT ![t] = to],
           staged' = [staged EXCEPT ![t] = frame]
    PROVE  Staging' /\ pc' \in [Tasks -> {"absent", "created", "waiting", "running", "staged",
                                          "locking", "draining", "done", "cancelled"}]
                    /\ staged' \in [Tasks -> {"none", "value", "error", "schema"}]
<1>1. pc \in [Tasks -> {"absent", "created", "waiting", "running", "staged", "locking",
                       "draining", "done", "cancelled"}]
      /\ staged \in [Tasks -> {"none", "value", "error", "schema"}]
  BY DEF TypeInv, TypeOK
<1>2. \A u \in Tasks : pc'[u] = (IF u = t THEN to ELSE pc[u])
                     /\ staged'[u] = (IF u = t THEN frame ELSE staged[u])
  BY <1>1, Zenon
<1>3. \A u \in Tasks : pc'[u] \in {"staged", "locking", "draining"} => staged'[u] # "none"
  BY <1>2 DEF TypeInv, Staging
<1>4. \A p \in PushRoutes : p \in Tasks /\ p \notin Requests
  BY TaskSets
<1>5. \A p \in PushRoutes : pc'[p] # "waiting"
  BY <1>2, <1>4 DEF TypeInv, Staging
<1>6. Staging'
  BY <1>3, <1>5, Zenon DEF Staging
<1>7. QED
  BY <1>1, <1>6, Zenon

\* A step that leaves the frame alone stages the frame it had.
LEMMA SameFrame ==
    ASSUME TypeInv, NEW t \in Tasks, UNCHANGED staged
    PROVE  staged' = [staged EXCEPT ![t] = staged[t]] /\ staged[t] \in {"none", "value", "error", "schema"}
BY DEF TypeInv, TypeOK

LEMMA TypeFinish ==
    ASSUME TypeInv, NEW t \in Tasks, Finish(t)
    PROVE  Staging' /\ pc' \in [Tasks -> {"absent", "created", "waiting", "running", "staged",
                                          "locking", "draining", "done", "cancelled"}]
                    /\ staged' \in [Tasks -> {"none", "value", "error", "schema"}]
                    /\ resolved' \subseteq 0..MaxRequests
<1>1. resolved' \subseteq 0..MaxRequests
  BY DEF Finish, Released, TypeInv, TypeOK
<1>2. QED
  BY <1>1, TypeMove DEF Finish, Goto

LEMMA TypeFail ==
    ASSUME TypeInv, NEW t \in Tasks, Fail(t)
    PROVE  Staging' /\ pc' \in [Tasks -> {"absent", "created", "waiting", "running", "staged",
                                          "locking", "draining", "done", "cancelled"}]
                    /\ staged' \in [Tasks -> {"none", "value", "error", "schema"}]
                    /\ resolved' \subseteq 0..MaxRequests
<1>1. resolved' \subseteq 0..MaxRequests
  BY DEF Fail, TypeInv, TypeOK
<1>2. CASE t \in Requests
  BY <1>1, <1>2, TypeMove DEF Fail, Goto
<1>3. CASE t \notin Requests
  BY <1>1, <1>3, TypeMove DEF Fail, Goto
<1>4. QED
  BY <1>2, <1>3

\* The types of what a task step may change besides its place and its frame.
TaskEffects ==
    /\ UNCHANGED <<connVars, chainVars>>
    /\ resolved' \subseteq 0..MaxRequests
    /\ sent' \in [Tasks -> Nat]
    /\ writer_lock' \in Seq(Tasks)
    /\ cancelRequested' \subseteq Tasks
    /\ wire' \in Seq([task : Tasks, kind : {"value", "error", "schema"}, seq : Nat])

LEMMA TypeTask ==
    ASSUME TypeInv, TaskEffects, Staging',
           pc' \in [Tasks -> {"absent", "created", "waiting", "running", "staged",
                              "locking", "draining", "done", "cancelled"}],
           staged' \in [Tasks -> {"none", "value", "error", "schema"}]
    PROVE  TypeInv'
BY DEF TypeInv, TypeOK, TaskEffects, connVars, chainVars

\* A frame that is written is a frame with a kind.
LEMMA TypeSend ==
    ASSUME TypeInv, NEW t \in Tasks, staged[t] # "none", Send(t)
    PROVE  wire' \in Seq([task : Tasks, kind : {"value", "error", "schema"}, seq : Nat])
<1> DEFINE frame == [task |-> t, kind |-> staged[t], seq |-> sent[t] + 1]
           Frames == [task : Tasks, kind : {"value", "error", "schema"}, seq : Nat]
<1>1. staged[t] \in {"value", "error", "schema"} /\ sent[t] + 1 \in Nat
  BY DEF TypeInv, TypeOK
<1>2. frame \in Frames
  BY <1>1
<1>3. wire \in Seq(Frames)
  BY DEF TypeInv, TypeOK
<1>4. wire' = Append(wire, frame) \/ wire' = wire
  BY DEF Send
<1> HIDE DEF frame, Frames
<1>5. wire' \in Seq(Frames)
  BY <1>2, <1>3, <1>4
<1>6. QED
  BY <1>5 DEF Frames

LEMMA TypeStart ==
    ASSUME TypeInv, NEW t \in Tasks, StartStep(t)
    PROVE  TypeInv'
<1>1. CASE t \in Requests /\ StartRequest(t)
  <2>1. TaskEffects
    BY <1>1 DEF StartRequest, TaskEffects, TypeInv, TypeOK
  <2>2. CASE Goto(t, "staged") /\ staged' = [staged EXCEPT ![t] = "schema"]
    BY <2>1, <2>2, TypeMove, TypeTask DEF Goto
  <2>3. CASE Goto(t, "waiting") /\ staged' = [staged EXCEPT ![t] = "error"]
    BY <1>1, <2>1, <2>3, TypeMove, TypeTask DEF Goto
  <2>4. CASE Goto(t, "waiting") /\ UNCHANGED staged
    BY <1>1, <2>1, <2>4, SameFrame, TypeMove, TypeTask DEF Goto
  <2>5. QED
    BY <1>1, <2>2, <2>3, <2>4 DEF StartRequest
<1>2. CASE t \in Requests /\ PreviousDone(t)
  <2>1. TaskEffects
    BY <1>2 DEF PreviousDone, TaskEffects, TypeInv, TypeOK
  <2>2. CASE staged[t] = "error"
    BY <1>2, <2>1, <2>2, SameFrame, TypeMove, TypeTask DEF PreviousDone, Goto
  <2>3. CASE staged[t] # "error"
    BY <1>2, <2>1, <2>3, SameFrame, TypeMove, TypeTask DEF PreviousDone, Goto
  <2>4. QED
    BY <2>2, <2>3
<1>3. CASE t \in Requests /\ WriteSchema(t)
  <2>1. TaskEffects
    BY <1>3, TypeSend DEF WriteSchema, TaskEffects, TypeInv, TypeOK
  <2>2. QED
    BY <1>3, <2>1, SameFrame, TypeMove, TypeTask DEF WriteSchema, Goto
<1>4. CASE t \in PushRoutes /\ StartPush(t)
  <2>1. TaskEffects
    BY <1>4 DEF StartPush, TaskEffects, TypeInv, TypeOK
  <2>2. QED
    BY <1>4, <2>1, SameFrame, TypeMove, TypeTask DEF StartPush, Goto
<1>5. CASE SchemaFails(t)
  <2>1. TaskEffects
    BY <1>5, TypeFail DEF SchemaFails, TaskEffects, TypeInv, TypeOK
  <2>2. QED
    BY <1>5, <2>1, TypeFail, TypeTask DEF SchemaFails
<1>6. QED
  BY <1>1, <1>2, <1>3, <1>4, <1>5 DEF StartStep

LEMMA TypeHandler ==
    ASSUME TypeInv, NEW t \in Tasks, HandlerStep(t)
    PROVE  TypeInv'
<1>1. CASE Finish(t) \/ Fail(t)
  <2>1. TaskEffects
    BY <1>1, TypeFinish, TypeFail, TaskSets
       DEF HandlerStep, HandlerYields, HandlerReturns, HandlerRaises, TaskEffects, TypeInv, TypeOK
  <2>2. QED
    BY <1>1, <2>1, TypeFinish, TypeFail, TypeTask
<1>2. CASE Goto(t, "staged") /\ staged' = [staged EXCEPT ![t] = "value"] /\ UNCHANGED resolved
  <2>1. TaskEffects
    BY <1>2 DEF HandlerStep, HandlerYields, HandlerReturns, HandlerRaises, TaskEffects,
                TypeInv, TypeOK
  <2>2. QED
    BY <1>2, <2>1, TypeMove, TypeTask DEF Goto
<1>3. QED
  BY <1>1, <1>2 DEF HandlerStep, HandlerYields, HandlerReturns, HandlerRaises

LEMMA TypeFrame ==
    ASSUME TypeInv, NEW t \in Tasks, FrameStep(t)
    PROVE  TypeInv'
<1>1. ReleaseLock(t) => writer_lock' \in Seq(Tasks)
  BY QueueType DEF ReleaseLock, TypeInv, TypeOK
<1>2. CASE AwaitLock(t)
  <2>1. Append(writer_lock, t) \in Seq(Tasks)
    BY DEF TypeInv, TypeOK
  <2>. resolved' \subseteq 0..MaxRequests /\ writer_lock' \in Seq(Tasks)
    BY <1>2, <2>1, TypeFinish DEF AwaitLock, TypeInv, TypeOK
  <2>2. TaskEffects
    BY <1>2 DEF AwaitLock, TaskEffects, TypeInv, TypeOK
  <2>3. staged[t] # "none"
    BY <1>2 DEF AwaitLock, Live, TypeInv, Staging
  <2>4. QED
    BY <1>2, <2>2, <2>3, SameFrame, TypeMove, TypeFinish, TypeTask DEF AwaitLock, Goto
<1>3. CASE Write(t)
  <2>1. staged[t] # "none"
    BY <1>3 DEF Write, Live, TypeInv, Staging
  <2>2. TaskEffects
    BY <1>3, <2>1, TypeSend DEF Write, TaskEffects, TypeInv, TypeOK
  <2>3. QED
    BY <1>3, <2>1, <2>2, SameFrame, TypeMove, TypeTask DEF Write, Goto
<1>4. CASE EncodeFails(t)
  <2>1. Finish(t) \/ Fail(t)
    BY <1>4 DEF EncodeFails
  <2>2. TaskEffects
    BY <1>1, <1>4, <2>1, TypeFinish, TypeFail DEF EncodeFails, TaskEffects, TypeInv, TypeOK
  <2>3. QED
    BY <2>1, <2>2, TypeFinish, TypeFail, TypeTask
<1>5. CASE Drained(t)
  <2>1. CASE staged[t] = "value"
    <3>1. sent' \in [Tasks -> Nat]
      <4>1. sent \in [Tasks -> Nat]
        BY DEF TypeInv, TypeOK
      <4>2. sent' = [sent EXCEPT ![t] = sent[t] + 1]
        BY <1>5, <2>1 DEF Drained
      <4>3. QED
        BY <4>1, <4>2
    <3>2. resolved' \subseteq 0..MaxRequests /\ cancelRequested' \subseteq Tasks
      BY <1>5, <2>1 DEF Drained, TypeInv, TypeOK
    <3>3. TaskEffects
      <4>1. writer_lock' \in Seq(Tasks)
        BY <1>1, <1>5 DEF Drained
      <4>2. UNCHANGED <<connVars, chainVars, wire>>
        BY <1>5 DEF Drained
      <4>3. wire' \in Seq([task : Tasks, kind : {"value", "error", "schema"}, seq : Nat])
        BY <4>2 DEF TypeInv, TypeOK
      <4>4. QED
        BY <3>1, <3>2, <4>1, <4>2, <4>3 DEF TaskEffects
    <3>4. QED
      BY <1>5, <2>1, <3>3, TypeMove, TypeTask DEF Drained, Goto
  <2>2. CASE staged[t] # "value"
    <3>1. TaskEffects
      BY <1>1, <1>5, <2>2, TypeFinish DEF Drained, TaskEffects, TypeInv, TypeOK
    <3>2. QED
      BY <1>5, <2>2, <3>1, TypeFinish, TypeTask DEF Drained
  <2>3. QED
    BY <2>1, <2>2
<1>6. CASE DrainFails(t)
  <2>1. Finish(t) \/ Fail(t)
    BY <1>6 DEF DrainFails
  <2>2. TaskEffects
    BY <1>1, <1>6, <2>1, TypeFinish, TypeFail DEF DrainFails, TaskEffects, TypeInv, TypeOK
  <2>3. QED
    BY <2>1, <2>2, TypeFinish, TypeFail, TypeTask
<1>7. QED
  BY <1>2, <1>3, <1>4, <1>5, <1>6 DEF FrameStep

LEMMA TypeCancel ==
    ASSUME TypeInv, NEW t \in Tasks, CancelDelivered(t)
    PROVE  TypeInv'
<1>1. writer_lock' \in Seq(Tasks)
  BY QueueType DEF CancelDelivered, ReleaseLock, TypeInv, TypeOK
<1>2. resolved' \subseteq 0..MaxRequests
  <2>1. Released(t) \subseteq 0..MaxRequests
    BY DEF Released, TypeInv, TypeOK
  <2>2. pc[t] = "waiting" => previous[t] \in 0..MaxRequests
    BY DEF TypeInv, TypeOK, Staging, Tasks
  <2>3. QED
    BY <2>1, <2>2 DEF CancelDelivered, TypeInv, TypeOK
<1>3. TaskEffects
  BY <1>1, <1>2 DEF CancelDelivered, TaskEffects, TypeInv, TypeOK
<1>4. QED
  BY <1>3, TypeMove, TypeTask DEF CancelDelivered, Goto

LEMMA TypeConnection ==
    ASSUME TypeInv, Connected \/ ReadFails \/ LinkLost \/ ServerClose \/ Cleanup
    PROVE  TypeInv'
<1> USE DEF TypeInv, TypeOK, Staging, connVars, chainVars, taskVars
<1>1. CASE Connected
  <2>1. Staging'
    BY <1>1, TaskSets DEF Connected
  <2>2. QED
    BY <1>1, <2>1 DEF Connected
<1>2. CASE ReadFails
  BY <1>2 DEF ReadFails
<1>3. CASE LinkLost
  BY <1>3 DEF LinkLost
<1>4. CASE ServerClose
  <2>1. closes' \in 0..MaxCloses
    BY <1>4, BoundsAssumption DEF ServerClose
  <2>2. QED
    BY <1>4, <2>1 DEF ServerClose
<1>5. CASE Cleanup
  BY <1>5, TaskSets DEF Cleanup, BeginCleanup, RequestsGathered, PushesGathered
<1>6. QED
  BY <1>1, <1>2, <1>3, <1>4, <1>5

LEMMA TypeNext == TypeInv /\ [Next]_vars => TypeInv'
<1> SUFFICES ASSUME TypeInv, [Next]_vars PROVE TypeInv'
  OBVIOUS
<1>1. CASE \E h \in Traffic : Receive(h)
  BY <1>1, TypeReceive
<1>2. CASE \E t \in Tasks : TaskStep(t)
  BY <1>2, TypeStart, TypeHandler, TypeFrame, TypeCancel DEF TaskStep
<1>3. CASE Connected \/ ReadFails \/ LinkLost \/ ServerClose \/ Cleanup
  BY <1>3, TypeConnection
<1>4. CASE UNCHANGED vars
  BY <1>4 DEF TypeInv, TypeOK, Staging, vars, connVars, chainVars, taskVars
<1>5. QED
  BY <1>1, <1>2, <1>3, <1>4 DEF Next

\* Every reachable state of a connection is well typed.
THEOREM TypeCorrect == Spec => []TypeOK
<1>1. TypeInv => TypeOK
  BY DEF TypeInv
<1>2. QED
  BY <1>1, TypeInit, TypeNext, PTL DEF Spec

-----------------------------------------------------------------------------
(* Sessionless traffic is answered first come, first served.               *)

\* No client uses session ids or the built-in schema command.
SessionlessTraffic == \A h \in Traffic : ~h.sessioned /\ h.command # SchemaCommand

\* Places of a task whose predecessor has been awaited.
Active == {"running", "staged", "locking", "draining", "done"}

\* Each request waits for the one before it and completes its own future.
Chained ==
    /\ response_tail = received
    /\ \A r \in Requests :
          IF r <= received
          THEN /\ pc[r] # "absent" /\ ~header[r].sessioned /\ header[r].command # SchemaCommand
               /\ previous[r] = r - 1 /\ complete[r] = r
          ELSE pc[r] = "absent"

ResolvedIsQuiet == \A r \in Requests : r \in resolved => Quiet(r)

ActiveAfterQuiet == \A r \in Requests : pc[r] \in Active => \A q \in 1..(r-1) : Quiet(q)

\* Requests are cancelled all at once, when no more can arrive.
CancelledTogether ==
    \A r \in Requests : r \in cancelRequested \/ pc[r] = "cancelled" =>
        /\ r <= received
        /\ conn \notin {"connecting", "reading"}
        /\ \A q \in 1..received : Quiet(q)

WrittenAfterQuiet ==
    \A i \in 1..Len(wire) :
        wire[i].task \in Requests => \A q \in 1..(wire[i].task - 1) : Quiet(q)

Ordered ==
    \A i, j \in 1..Len(wire) :
        i < j /\ wire[i].task \in Requests /\ wire[j].task \in Requests
        => wire[i].task <= wire[j].task

FifoInv ==
    /\ Chained /\ ResolvedIsQuiet /\ ActiveAfterQuiet /\ CancelledTogether
    /\ WrittenAfterQuiet /\ Ordered

LEMMA FifoInit == Init => FifoInv
BY TaskSets DEF Init, FifoInv, Chained, ResolvedIsQuiet, ActiveAfterQuiet, CancelledTogether,
                WrittenAfterQuiet, Ordered, Active

\* What a task's own steps, cancellation apart, have in common.
TaskShape(t) ==
    /\ t \notin cancelRequested
    /\ pc[t] \in ({"created", "waiting"} \union Active) \ {"done"}
    /\ \E to \in {"waiting"} \union Active : pc' = [pc EXCEPT ![t] = to]
    /\ UNCHANGED <<connVars, chainVars, cancelRequested>>
    /\ resolved' = resolved \union (IF pc'[t] = "done" THEN Released(t) ELSE {})
    /\ t \in Requests /\ pc'[t] \in Active /\ pc[t] \notin Active =>
          pc[t] = "waiting" /\ previous[t] \in resolved
    /\ \/ UNCHANGED wire
       \/ pc[t] \in Active /\ pc'[t] # "done" /\ \E f : f.task = t /\ wire' = Append(wire, f)

LEMMA ShapeOfTask ==
    ASSUME TypeInv, FifoInv, NEW t \in Tasks, StartStep(t) \/ HandlerStep(t) \/ FrameStep(t)
    PROVE  TaskShape(t)
<1>1. pc \in [Tasks -> {"absent", "created", "waiting", "running", "staged", "locking",
                        "draining", "done", "cancelled"}]
  BY DEF TypeInv, TypeOK
<1>2. t \in Requests /\ t <= received => header[t].command # SchemaCommand
  BY DEF FifoInv, Chained
<1>3. t \in Requests /\ pc[t] # "absent" => t <= received
  BY DEF FifoInv, Chained
<1> USE DEF Live, Goto, Active, TaskShape
<1>4. CASE t \in Requests /\ StartRequest(t)
  BY <1>1, <1>2, <1>3, <1>4 DEF StartRequest, Schema
<1>5. CASE t \in Requests /\ PreviousDone(t)
  BY <1>1, <1>5 DEF PreviousDone
<1>6. CASE t \in Requests /\ WriteSchema(t)
  BY <1>1, <1>6 DEF WriteSchema, Send
<1>7. CASE t \in PushRoutes /\ StartPush(t)
  BY <1>1, <1>7, TaskSets DEF StartPush
<1>8. CASE HandlerYields(t)
  BY <1>1, <1>8 DEF HandlerYields, Finish
<1>9. CASE HandlerReturns(t)
  BY <1>1, <1>9 DEF HandlerReturns, Finish, Fail
<1>10. CASE HandlerRaises(t)
  BY <1>1, <1>10 DEF HandlerRaises, Fail
<1>11. CASE AwaitLock(t)
  BY <1>1, <1>11 DEF AwaitLock, Finish
<1>12. CASE Write(t)
  BY <1>1, <1>12 DEF Write, Send
<1>13. CASE EncodeFails(t)
  BY <1>1, <1>13 DEF EncodeFails, Finish, Fail
<1>14. CASE Drained(t)
  BY <1>1, <1>14 DEF Drained, Finish
<1>15. CASE DrainFails(t)
  BY <1>1, <1>15 DEF DrainFails, Finish, Fail
<1>16. CASE SchemaFails(t)
  BY <1>1, <1>16 DEF SchemaFails, Fail
<1>17. QED
  BY <1>4, <1>5, <1>6, <1>7, <1>8, <1>9, <1>10, <1>11, <1>12, <1>13, <1>14, <1>15, <1>16
     DEF StartStep, HandlerStep, FrameStep

\* When a request gets past its predecessor every earlier request is quiet.
LEMMA PreviousQuiet ==
    ASSUME TypeInv, FifoInv, NEW r \in Requests, r <= received, previous[r] \in resolved
    PROVE  \A q \in 1..(r-1) : Quiet(q)
<1>1. previous[r] = r - 1
  BY DEF FifoInv, Chained
<1>2. SUFFICES ASSUME r - 1 # 0 PROVE \A q \in 1..(r-1) : Quiet(q)
  BY TaskSets
<1>3. r - 1 \in Requests /\ r - 1 <= received
  BY <1>2, BoundsAssumption DEF Requests, TypeInv, TypeOK
<1>4. Quiet(r - 1)
  BY <1>1, <1>3 DEF FifoInv, ResolvedIsQuiet
<1>5. CASE pc[r-1] = "done"
  <2>1. \A q \in 1..(r-1-1) : Quiet(q)
    BY <1>3, <1>5 DEF FifoInv, ActiveAfterQuiet, Active
  <2>2. QED
    BY <1>4, <2>1 DEF Requests
<1>6. CASE pc[r-1] = "cancelled" \/ r - 1 \in cancelRequested
  <2>1. \A q \in 1..received : Quiet(q)
    BY <1>3, <1>6 DEF FifoInv, CancelledTogether
  <2>2. QED
    BY <2>1 DEF Requests, TypeInv, TypeOK
<1>7. QED
  BY <1>4, <1>5, <1>6 DEF Quiet

LEMMA FifoTask ==
    ASSUME TypeInv, FifoInv, NEW t \in Tasks, TaskShape(t)
    PROVE  FifoInv'
<1>1. PICK to \in {"waiting"} \union Active : pc' = [pc EXCEPT ![t] = to]
  BY DEF TaskShape
<1>2. \A u \in Tasks : pc'[u] = IF u = t THEN to ELSE pc[u]
  BY <1>1 DEF TypeInv, TypeOK
<1>3. \A q \in Requests : Quiet(q) => Quiet(q)'
  BY <1>2, TaskSets DEF Quiet, TaskShape, Active
<1>4. UNCHANGED <<conn, received, header, response_tail, previous, complete, cancelRequested>>
  BY DEF TaskShape, connVars, chainVars
<1>5. \A r \in Requests : r \in Tasks
  BY TaskSets
<1>6. t \in Requests => t <= received
  BY DEF TaskShape, FifoInv, Chained, Active
<1>7. received \in Nat /\ \A r \in Requests : \A q \in 1..(r-1) : q \in Requests
  BY BoundsAssumption DEF TypeInv, TypeOK, Requests
<1>8. Chained'
  BY <1>2, <1>4, <1>5, <1>6 DEF FifoInv, Chained, Active
<1>9. ResolvedIsQuiet'
  <2> SUFFICES ASSUME NEW r \in Requests, r \in resolved' PROVE Quiet(r)'
    BY DEF ResolvedIsQuiet
  <2>1. CASE r \in resolved
    BY <2>1, <1>3 DEF FifoInv, ResolvedIsQuiet
  <2>2. CASE r \notin resolved
    <3>1. pc'[t] = "done" /\ r \in Released(t)
      BY <2>2 DEF TaskShape
    <3>2. t \in Requests /\ r = complete[t] /\ complete[t] = t
      BY <3>1, <1>6 DEF Released, FifoInv, Chained
    <3>3. QED
      BY <3>1, <3>2 DEF Quiet
  <2>3. QED
    BY <2>1, <2>2
<1>10. ActiveAfterQuiet'
  <2> SUFFICES ASSUME NEW r \in Requests, pc'[r] \in Active, NEW q \in 1..(r-1) PROVE Quiet(q)'
    BY DEF ActiveAfterQuiet
  <2>1. CASE pc[r] \in Active
    BY <2>1, <1>3, <1>7 DEF FifoInv, ActiveAfterQuiet
  <2>2. CASE pc[r] \notin Active
    <3>1. r = t /\ previous[r] \in resolved
      BY <2>2, <1>2, <1>5 DEF TaskShape
    <3>2. Quiet(q)
      BY <3>1, <1>6, PreviousQuiet
    <3>3. QED
      BY <3>2, <1>3, <1>7
  <2>3. QED
    BY <2>1, <2>2
<1>11. CancelledTogether'
  <2> SUFFICES ASSUME NEW r \in Requests, (r \in cancelRequested \/ pc[r] = "cancelled")'
               PROVE  (/\ r <= received /\ conn \notin {"connecting", "reading"}
                       /\ \A q \in 1..received : Quiet(q))'
    BY DEF CancelledTogether
  <2>1. r \in cancelRequested \/ pc[r] = "cancelled"
    BY <1>2, <1>4, <1>5 DEF Active
  <2>2. /\ r <= received /\ conn \notin {"connecting", "reading"}
        /\ \A q \in 1..received : Quiet(q)
    BY <2>1 DEF FifoInv, CancelledTogether
  <2>3. \A q \in 1..received : q \in Requests
    BY BoundsAssumption DEF TypeInv, TypeOK, Requests
  <2>4. QED
    BY <2>2, <2>3, <1>3, <1>4
<1>12. CASE UNCHANGED wire
  <2>1. WrittenAfterQuiet'
    BY <1>12, <1>3, <1>7 DEF FifoInv, WrittenAfterQuiet
  <2>2. Ordered'
    BY <1>12 DEF FifoInv, Ordered
  <2>3. QED
    BY <1>8, <1>9, <1>10, <1>11, <2>1, <2>2 DEF FifoInv
<1>13. CASE pc[t] \in Active /\ \E f : f.task = t /\ wire' = Append(wire, f)
  <2>1. PICK f : f.task = t /\ wire' = Append(wire, f)
    BY <1>13
  <2>2. /\ Len(wire) \in Nat /\ Len(wire') = Len(wire) + 1
        /\ \A i \in 1..Len(wire) : wire'[i] = wire[i]
        /\ wire'[Len(wire) + 1].task = t
    BY <2>1 DEF TypeInv, TypeOK
  <2>3. WrittenAfterQuiet'
    <3> SUFFICES ASSUME NEW i \in 1..Len(wire'), wire'[i].task \in Requests,
                        NEW q \in 1..(wire'[i].task - 1)
                 PROVE  Quiet(q)'
      BY DEF WrittenAfterQuiet
    <3>1. q \in Requests
      BY <1>7
    <3>2. CASE i \in 1..Len(wire)
      BY <3>1, <3>2, <2>2, <1>3 DEF FifoInv, WrittenAfterQuiet
    <3>3. CASE i = Len(wire) + 1
      BY <3>1, <3>3, <2>2, <1>3, <1>13 DEF FifoInv, ActiveAfterQuiet
    <3>4. QED
      BY <3>2, <3>3, <2>2
  <2>4. \A i \in 1..Len(wire) :
            wire[i].task \in Requests /\ t \in Requests => wire[i].task <= t
    <3> SUFFICES ASSUME NEW i \in 1..Len(wire), wire[i].task \in Requests, t \in Requests,
                        ~(wire[i].task <= t)
                 PROVE  FALSE
      OBVIOUS
    <3>1. t \in 1..(wire[i].task - 1)
      BY DEF Requests
    <3>2. Quiet(t)
      BY <3>1 DEF FifoInv, WrittenAfterQuiet
    <3>3. QED
      BY <3>2 DEF Quiet, TaskShape, Active
  <2>5. Ordered'
    <3> SUFFICES ASSUME NEW i \in 1..Len(wire'), NEW j \in 1..Len(wire'), i < j,
                        wire'[i].task \in Requests, wire'[j].task \in Requests
                 PROVE  wire'[i].task <= wire'[j].task
      BY DEF Ordered
    <3>1. i \in 1..Len(wire)
      BY <2>2
    <3>2. CASE j \in 1..Len(wire)
      BY <3>1, <3>2, <2>2 DEF FifoInv, Ordered
    <3>3. CASE j = Len(wire) + 1
      BY <3>1, <3>3, <2>2, <2>4
    <3>4. QED
      BY <3>2, <3>3, <2>2
  <2>6. QED
    BY <1>8, <1>9, <1>10, <1>11, <2>3, <2>5 DEF FifoInv
<1>14. QED
  BY <1>12, <1>13 DEF TaskShape

LEMMA FifoCancel ==
    ASSUME TypeInv, FifoInv, NEW t \in Tasks, CancelDelivered(t)
    PROVE  FifoInv'
<1>1. pc' = [pc EXCEPT ![t] = "cancelled"]
  BY DEF CancelDelivered, Goto
<1>2. \A u \in Tasks : pc'[u] = IF u = t THEN "cancelled" ELSE pc[u]
  BY <1>1 DEF TypeInv, TypeOK
<1>3. t \in cancelRequested /\ cancelRequested' = cancelRequested \ {t}
  BY DEF CancelDelivered
<1>4. \A q \in Requests : Quiet(q) => Quiet(q)'
  BY <1>2, <1>3, TaskSets DEF Quiet
<1>5. UNCHANGED <<conn, received, header, response_tail, previous, complete, wire>>
  BY DEF CancelDelivered, connVars, chainVars
<1>6. /\ \A r \in Requests : r \in Tasks
      /\ received \in Nat /\ \A q \in 1..received : q \in Requests
      /\ \A r \in Requests : \A q \in 1..(r-1) : q \in Requests
  BY TaskSets, BoundsAssumption DEF TypeInv, TypeOK, Requests
<1>7. t \in Requests => t <= received /\ \A q \in 1..received : Quiet(q)
  BY <1>3 DEF FifoInv, CancelledTogether
<1>8. ASSUME NEW r \in Requests, r \in resolved' PROVE Quiet(r)
  <2>1. CASE r \in resolved
    BY <2>1 DEF FifoInv, ResolvedIsQuiet
  <2>2. CASE r \in Released(t)
    BY <2>2, <1>6, <1>7 DEF Released, FifoInv, Chained, Requests
  <2>3. CASE pc[t] = "waiting" /\ r = previous[t]
    <3>1. t \in Requests
      BY <2>3 DEF TypeInv, Staging, Tasks
    <3>2. r = t - 1 /\ t <= received
      BY <2>3, <3>1, <1>7 DEF FifoInv, Chained
    <3>3. r \in 1..received
      BY <3>1, <3>2, <1>6 DEF Requests
    <3>4. QED
      BY <3>1, <3>3, <1>7
  <2>4. QED
    <3>1. resolved' = resolved
           \union (IF pc[t] = "created" THEN {} ELSE Released(t))
           \union (IF pc[t] = "waiting" THEN {previous[t]} ELSE {})
      BY DEF CancelDelivered
    <3>2. r \in resolved \/ r \in Released(t) \/ (pc[t] = "waiting" /\ r = previous[t])
      BY <1>8, <3>1
    <3>3. QED
      BY <2>1, <2>2, <2>3, <3>2
<1>9. Chained'
  BY <1>2, <1>5, <1>6, <1>7 DEF FifoInv, Chained
<1>10. ResolvedIsQuiet'
  BY <1>4, <1>8 DEF ResolvedIsQuiet
<1>11. ActiveAfterQuiet'
  BY <1>2, <1>4, <1>6 DEF FifoInv, ActiveAfterQuiet, Active
<1>12. CancelledTogether'
  <2> SUFFICES ASSUME NEW r \in Requests, (r \in cancelRequested \/ pc[r] = "cancelled")'
               PROVE  (/\ r <= received /\ conn \notin {"connecting", "reading"}
                       /\ \A q \in 1..received : Quiet(q))'
    BY DEF CancelledTogether
  <2>1. r \in cancelRequested \/ pc[r] = "cancelled"
    BY <1>2, <1>3, <1>6
  <2>2. /\ r <= received /\ conn \notin {"connecting", "reading"}
        /\ \A q \in 1..received : Quiet(q)
    BY <2>1 DEF FifoInv, CancelledTogether
  <2>3. QED
    BY <2>2, <1>4, <1>5, <1>6
<1>13. WrittenAfterQuiet'
  BY <1>4, <1>5, <1>6 DEF FifoInv, WrittenAfterQuiet
<1>14. Ordered'
  BY <1>5 DEF FifoInv, Ordered
<1>15. QED
  BY <1>9, <1>10, <1>11, <1>12, <1>13, <1>14 DEF FifoInv

LEMMA FifoReceive ==
    ASSUME SessionlessTraffic, TypeInv, FifoInv, NEW h \in Traffic, Receive(h)
    PROVE  FifoInv'
<1> DEFINE r == received + 1
<1>1. r \in Requests /\ r \in Tasks /\ received \in Nat /\ r # 0
  BY TaskSets DEF Receive, TypeInv, TypeOK
<1>2. ~h.sessioned /\ h.command # SchemaCommand
  BY DEF SessionlessTraffic
<1>3. /\ header' = [header EXCEPT ![r] = h]
      /\ previous' = [previous EXCEPT ![r] = received]
      /\ complete' = [complete EXCEPT ![r] = r]
      /\ pc' = [pc EXCEPT ![r] = "created"]
      /\ received' = r /\ response_tail' = r
      /\ conn = "reading"
      /\ UNCHANGED <<conn, resolved, cancelRequested, wire>>
  BY <1>2 DEF Receive, FifoInv, Chained, connVars
<1> HIDE DEF r
<1>4. /\ \A u \in Tasks : pc'[u] = IF u = r THEN "created" ELSE pc[u]
      /\ \A q \in Requests : /\ header'[q] = IF q = r THEN h ELSE header[q]
                             /\ previous'[q] = IF q = r THEN received ELSE previous[q]
                             /\ complete'[q] = IF q = r THEN r ELSE complete[q]
  BY <1>1, <1>3 DEF TypeInv, TypeOK
<1>5. \A q \in Requests : q \in Tasks /\ q \in Nat /\ \A p \in 1..(q-1) : p \in Requests
  BY TaskSets, BoundsAssumption DEF Requests
<1>6. \A q \in Requests : q \notin cancelRequested /\ pc[q] # "cancelled"
  BY <1>3 DEF FifoInv, CancelledTogether
<1>7. pc[r] = "absent"
  BY <1>1 DEF r, FifoInv, Chained
<1>8. \A q \in Requests : Quiet(q) => Quiet(q)'
  BY <1>4, <1>5, <1>6, <1>7 DEF Quiet
<1>9. Chained'
  <2>1. \A q \in Requests : q <= r <=> q <= received \/ q = r
    BY <1>1, <1>5 DEF r
  <2>2. r - 1 = received
    BY <1>1 DEF r
  <2>3. QED
    BY <1>2, <1>3, <1>4, <1>5, <2>1, <2>2 DEF FifoInv, Chained
<1>10. ResolvedIsQuiet'
  BY <1>3, <1>8 DEF FifoInv, ResolvedIsQuiet
<1>11. ActiveAfterQuiet'
  BY <1>4, <1>5, <1>8 DEF FifoInv, ActiveAfterQuiet, Active
<1>12. CancelledTogether'
  BY <1>3, <1>4, <1>5, <1>6 DEF CancelledTogether
<1>13. WrittenAfterQuiet'
  BY <1>3, <1>5, <1>8 DEF FifoInv, WrittenAfterQuiet
<1>14. Ordered'
  BY <1>3 DEF FifoInv, Ordered
<1>15. QED
  BY <1>9, <1>10, <1>11, <1>12, <1>13, <1>14 DEF FifoInv

\* Steps of the connection leave the requests where they are.
LEMMA FifoConnection ==
    ASSUME TypeInv, FifoInv,
           Connected \/ ReadFails \/ LinkLost \/ ServerClose \/ Cleanup \/ UNCHANGED vars
    PROVE  FifoInv'
<1>1. /\ UNCHANGED <<received, header, response_tail, previous, complete, resolved, wire>>
      /\ cancelRequested \subseteq cancelRequested'
  BY DEF Connected, ReadFails, LinkLost, ServerClose, Cleanup, BeginCleanup, RequestsGathered,
         PushesGathered, vars, chainVars
<1>2. \A r \in Requests : pc'[r] = pc[r]
  BY TaskSets DEF Connected, ReadFails, LinkLost, ServerClose, Cleanup, BeginCleanup,
         RequestsGathered, PushesGathered, vars, taskVars
<1>3. \A q \in Requests : Quiet(q) => Quiet(q)'
  BY <1>1, <1>2 DEF Quiet
<1>4. /\ received \in Nat /\ \A q \in 1..received : q \in Requests
      /\ \A r \in Requests : \A q \in 1..(r-1) : q \in Requests
  BY BoundsAssumption DEF TypeInv, TypeOK, Requests
<1>5. Chained'
  BY <1>1, <1>2 DEF FifoInv, Chained
<1>6. ResolvedIsQuiet'
  BY <1>1, <1>3 DEF FifoInv, ResolvedIsQuiet
<1>7. ActiveAfterQuiet'
  BY <1>2, <1>3, <1>4 DEF FifoInv, ActiveAfterQuiet
<1>8. WrittenAfterQuiet'
  BY <1>1, <1>3, <1>4 DEF FifoInv, WrittenAfterQuiet
<1>9. Ordered'
  BY <1>1 DEF FifoInv, Ordered
<1>10. CancelledTogether'
  <2>1. CASE BeginCleanup
    <3>1. conn' = "gatherRequests"
          /\ cancelRequested' = cancelRequested \union {r \in Requests : ~Ended(r)}
      BY <2>1 DEF BeginCleanup
    <3>2. \A q \in 1..received : Quiet(q)'
      BY <1>2, <1>4, <3>1 DEF Quiet, Ended, FifoInv, Chained
    <3>3. \A r \in Requests : ~Ended(r) => r <= received
      BY DEF Ended, FifoInv, Chained
    <3>4. QED
      BY <1>1, <1>2, <3>1, <3>2, <3>3 DEF FifoInv, CancelledTogether
  <2>2. CASE ~BeginCleanup
    <3>1. \A r \in Requests : r \in cancelRequested' => r \in cancelRequested
      BY <2>2, TaskSets DEF Connected, ReadFails, LinkLost, ServerClose, Cleanup,
             RequestsGathered, PushesGathered, vars
    <3>2. conn' \in {"connecting", "reading"} => conn \in {"connecting", "reading"}
      BY <2>2 DEF Connected, ReadFails, LinkLost, ServerClose, Cleanup,
             RequestsGathered, PushesGathered, vars, connVars
    <3>3. QED
      BY <1>1, <1>2, <1>3, <1>4, <3>1, <3>2 DEF FifoInv, CancelledTogether
  <2>3. QED
    BY <2>1, <2>2
<1>11. QED
  BY <1>5, <1>6, <1>7, <1>8, <1>9, <1>10 DEF FifoInv

LEMMA FifoNext ==
    ASSUME SessionlessTraffic
    PROVE  TypeInv /\ FifoInv /\ [Next]_vars => FifoInv'
<1> SUFFICES ASSUME TypeInv, FifoInv, [Next]_vars PROVE FifoInv'
  OBVIOUS
<1>1. CASE \E h \in Traffic : Receive(h)
  BY <1>1, FifoReceive
<1>2. CASE \E t \in Tasks : TaskStep(t)
  BY <1>2, ShapeOfTask, FifoTask, FifoCancel DEF TaskStep
<1>3. CASE Connected \/ ReadFails \/ LinkLost \/ ServerClose \/ Cleanup \/ UNCHANGED vars
  BY <1>3, FifoConnection
<1>4. QED
  BY <1>1, <1>2, <1>3 DEF Next

\* Requests without session ids are answered strictly in the order they arrived,
\* whatever their handlers do and wherever the connection fails, provided no request
\* on the connection uses a session id or the built-in schema command.
THEOREM SessionlessOrder ==
    ASSUME SessionlessTraffic
    PROVE  Spec => []SessionlessFIFO
<1>1. FifoInv => SessionlessFIFO
  BY DEF FifoInv, Ordered, SessionlessFIFO, Sessionless
<1>2. QED
  BY <1>1, FifoNext, TypeInit, TypeNext, FifoInit, PTL DEF Spec

-----------------------------------------------------------------------------
(* For a client without session ids, ServerConnection implements ResponseStream, *)
(* for any number of requests and push handlers.                                 *)

\* What is true of a request for command c that is at a place with a frame to write,
\* n of its results accounted for and w frames on the wire.
Counted(c, at, frame, n, w) ==
    /\ frame # "schema"
    /\ at = "absent" => n = 0 /\ w = 0
    /\ at = "running" => c \in Commands
    /\ at = "waiting" /\ frame # "error" => c \in Commands
    /\ at \in {"staged", "locking", "draining"} /\ frame = "value" =>
          c \in Commands /\ n < ResponseFrames[c]
    /\ link = "up" /\ at \notin {"done", "cancelled"} =>
          w = n + (IF at = "draining" THEN 1 ELSE 0)

CountOf(r) == Counted(header[r].command, pc[r], staged[r], sent[r], Cardinality(Written(r)))
CountInv == \A r \in Requests : CountOf(r)

LEMMA WrittenFinite ==
    ASSUME TypeOK, NEW r
    PROVE  IsFiniteSet(Written(r)) /\ Cardinality(Written(r)) \in Nat
<1>1. Len(wire) \in Nat
  BY DEF TypeOK
<1>2. IsFiniteSet(1..Len(wire)) /\ Written(r) \subseteq 1..Len(wire)
  BY <1>1, FS_Interval DEF Written
<1>3. IsFiniteSet(Written(r))
  BY <1>2, FS_Subset
<1>4. QED
  BY <1>3, FS_CardinalityType

\* A frame counts for its writer only.
LEMMA WrittenAppend ==
    ASSUME TypeOK, NEW f, wire' = Append(wire, f)
    PROVE  \A r : Cardinality(Written(r))' = Cardinality(Written(r)) + (IF f.task = r THEN 1 ELSE 0)
<1> TAKE r
<1>1. /\ Len(wire) \in Nat /\ Len(wire') = Len(wire) + 1
      /\ \A i \in 1..Len(wire) : wire'[i] = wire[i]
      /\ wire'[Len(wire) + 1] = f
  BY DEF TypeOK
<1>2. 1..Len(wire') = (1..Len(wire)) \union {Len(wire) + 1} /\ Len(wire) + 1 \notin 1..Len(wire)
  BY <1>1
<1>3. Written(r)' = IF f.task = r THEN Written(r) \union {Len(wire) + 1} ELSE Written(r)
  BY <1>1, <1>2 DEF Written
<1>4. Len(wire) + 1 \notin Written(r)
  BY <1>2 DEF Written
<1>5. IsFiniteSet(Written(r)) /\ Cardinality(Written(r)) \in Nat
  BY WrittenFinite
<1>6. Cardinality(Written(r) \union {Len(wire) + 1}) = Cardinality(Written(r)) + 1
  BY <1>4, <1>5, FS_AddElement
<1>7. QED
  BY <1>3, <1>5, <1>6

LEMMA CountInit == Init => CountInv
<1> SUFFICES ASSUME Init, NEW r \in Requests PROVE CountOf(r)
  BY DEF CountInv
<1>1. Written(r) = {} /\ pc[r] = "absent" /\ staged[r] = "none" /\ sent[r] = 0
  BY TaskSets DEF Init, Written
<1>2. QED
  BY <1>1, FS_EmptySet DEF CountOf, Counted

\* A task moves and writes nothing.
LEMMA CountMove ==
    ASSUME TypeInv, CountInv, NEW t \in Tasks, NEW to, NEW frame, NEW n,
           pc' = [pc EXCEPT ![t] = to], staged' = [staged EXCEPT ![t] = frame],
           sent' = [sent EXCEPT ![t] = n], UNCHANGED <<link, header, wire>>,
           t \in Requests => Counted(header[t].command, to, frame, n, Cardinality(Written(t)))
    PROVE  CountInv'
<1> SUFFICES ASSUME NEW r \in Requests PROVE CountOf(r)'
  BY DEF CountInv
<1>1. r \in Tasks
  BY TaskSets
<1>2. /\ pc'[r] = (IF r = t THEN to ELSE pc[r]) /\ staged'[r] = (IF r = t THEN frame ELSE staged[r])
      /\ sent'[r] = (IF r = t THEN n ELSE sent[r])
  BY <1>1 DEF TypeInv, TypeOK
<1>3. Written(r)' = Written(r)
  BY DEF Written
<1>4. CASE r = t
  BY <1>2, <1>3, <1>4 DEF CountOf, Counted
<1>5. CASE r # t
  BY <1>2, <1>3, <1>5 DEF CountInv, CountOf, Counted
<1>6. QED
  BY <1>4, <1>5

\* A task writes its frame.
Writes(t) ==
    /\ pc[t] = "locking" /\ pc' = [pc EXCEPT ![t] = "draining"]
    /\ UNCHANGED <<link, header, staged, sent>>
    /\ Send(t)

LEMMA CountWrite ==
    ASSUME TypeInv, CountInv, NEW t \in Tasks, Writes(t)
    PROVE  CountInv'
<1> SUFFICES ASSUME NEW r \in Requests PROVE CountOf(r)'
  BY DEF CountInv
<1>1. r \in Tasks /\ sent[r] \in Nat /\ pc'[r] = IF r = t THEN "draining" ELSE pc[r]
  BY TaskSets DEF Writes, TypeInv, TypeOK
<1>2. UNCHANGED <<link, header, staged, sent>> /\ pc[t] = "locking"
  BY DEF Writes
<1>3. CountOf(r)
  BY DEF CountInv
<1>4. CASE link = "up"
  <2>1. PICK f : f.task = t /\ wire' = Append(wire, f)
    BY <1>4 DEF Writes, Send
  <2>2. /\ Cardinality(Written(r))' = Cardinality(Written(r)) + (IF t = r THEN 1 ELSE 0)
        /\ Cardinality(Written(r)) \in Nat
    BY <2>1, WrittenAppend, WrittenFinite DEF TypeInv
  <2>3. QED
    BY <1>1, <1>2, <1>3, <2>2 DEF CountOf, Counted
<1>5. CASE link # "up"
  <2>1. Written(r)' = Written(r)
    BY <1>5 DEF Writes, Send, Written
  <2>2. QED
    BY <1>1, <1>2, <1>3, <1>5, <2>1 DEF CountOf, Counted
<1>6. QED
  BY <1>4, <1>5

\* A step of a task that writes nothing ends the task if an exception was drained.
Writeless(t) ==
    /\ UNCHANGED <<link, header, wire>>
    /\ \A q \in Tasks : q # t => staged'[q] = staged[q]
    /\ pc'[t] # "draining"
    /\ pc[t] = "draining" /\ staged[t] = "error" => pc'[t] = "done"

LEMMA ShapeOfCount ==
    ASSUME TypeInv, FifoInv, CountInv, NEW t \in Tasks,
           StartStep(t) \/ HandlerStep(t) \/ FrameStep(t)
    PROVE  Writes(t) \/ (Writeless(t) /\ CountInv')
<1> DEFINE c == header[t].command
           w == Cardinality(Written(t))
           Way(to, frame, n) == t \in Requests => Counted(c, to, frame, n, w)
<1>1. /\ pc \in [Tasks -> {"absent", "created", "waiting", "running", "staged", "locking",
                           "draining", "done", "cancelled"}]
      /\ staged \in [Tasks -> {"none", "value", "error", "schema"}]
      /\ sent[t] \in Nat /\ w \in Nat
      /\ c \in Commands => ResponseFrames[c] \in Nat
      /\ Way(pc[t], staged[t], sent[t])
  BY WrittenFinite, RoutesAssumption DEF CountInv, CountOf, TypeInv, TypeOK
<1>2. t \in Requests => Way(pc[t], staged[t], sent[t]) /\ staged[t] # "schema"
  BY <1>1 DEF Counted
<1>3. UNCHANGED sent => sent' = [sent EXCEPT ![t] = sent[t]]
  BY DEF TypeInv, TypeOK
<1>4. UNCHANGED staged => staged' = [staged EXCEPT ![t] = staged[t]]
  BY SameFrame
<1>5. ASSUME NEW to, NEW frame, NEW n,
             pc' = [pc EXCEPT ![t] = to], staged' = [staged EXCEPT ![t] = frame],
             sent' = [sent EXCEPT ![t] = n], UNCHANGED <<link, header, wire>>,
             to # "draining", pc[t] = "draining" /\ staged[t] = "error" => to = "done",
             Way(to, frame, n)
      PROVE  Writeless(t) /\ CountInv'
  <2>1. pc'[t] = to /\ \A q \in Tasks : q # t => staged'[q] = staged[q]
    BY <1>1, <1>5
  <2>2. CountInv'
    BY <1>5, CountMove
  <2>3. QED
    BY <1>5, <2>1, <2>2 DEF Writeless
<1> HIDE DEF c, w
<1>6. CASE t \in Requests /\ StartRequest(t)
  <2>1. pc[t] = "created" /\ UNCHANGED <<link, header, wire, sent>>
    BY <1>6 DEF StartRequest, Live, connVars, chainVars
  <2>2. ~ Schema(t)
    BY <1>6, <2>1 DEF FifoInv, Chained, Schema
  <2>3. CASE c = UnknownCommand /\ Goto(t, "waiting") /\ staged' = [staged EXCEPT ![t] = "error"]
    <3>1. Way("waiting", "error", sent[t])
      BY <1>1, <2>1 DEF Counted
    <3>2. QED
      BY <1>3, <1>5, <2>1, <2>3, <3>1 DEF Goto
  <2>4. CASE c \in Commands /\ Goto(t, "waiting") /\ UNCHANGED staged
    <3>1. Way("waiting", staged[t], sent[t])
      BY <1>1, <2>1, <2>4 DEF Counted
    <3>2. QED
      BY <1>3, <1>4, <1>5, <2>1, <2>4, <3>1 DEF Goto
  <2>5. QED
    BY <1>6, <2>2, <2>3, <2>4 DEF StartRequest, c
<1>7. CASE t \in Requests /\ PreviousDone(t)
  <2>1. pc[t] = "waiting" /\ UNCHANGED <<link, header, wire, sent, staged>>
    BY <1>7 DEF PreviousDone, Live, connVars, chainVars
  <2>2. CASE staged[t] = "error" /\ Goto(t, "staged")
    <3>1. Way("staged", staged[t], sent[t])
      BY <1>1, <2>1, <2>2 DEF Counted
    <3>2. QED
      BY <1>3, <1>4, <1>5, <2>1, <2>2, <3>1 DEF Goto
  <2>3. CASE staged[t] # "error" /\ Goto(t, "running")
    <3>1. Way("running", staged[t], sent[t])
      BY <1>1, <2>1, <2>3 DEF Counted
    <3>2. QED
      BY <1>3, <1>4, <1>5, <2>1, <2>3, <3>1 DEF Goto
  <2>4. QED
    BY <1>7, <2>2, <2>3 DEF PreviousDone
<1>8. CASE t \in PushRoutes /\ StartPush(t)
  <2>1. /\ UNCHANGED <<link, header, wire, sent, staged>> /\ Goto(t, "running") /\ t \notin Requests
        /\ pc[t] = "created"
    BY <1>8, TaskSets DEF StartPush, Live, connVars, chainVars
  <2>2. QED
    BY <1>3, <1>4, <1>5, <2>1 DEF Goto
<1>9. CASE HandlerStep(t)
  <2>1. pc[t] = "running" /\ UNCHANGED <<link, header, wire, sent>>
    BY <1>9 DEF HandlerStep, HandlerYields, HandlerReturns, HandlerRaises, Live, connVars, chainVars
  <2>2. CASE Finish(t)
    <3>1. Way("done", "none", sent[t])
      BY <1>1, <2>1 DEF Counted
    <3>2. QED
      BY <1>3, <1>5, <2>1, <2>2, <3>1 DEF Finish, Goto
  <2>3. CASE Fail(t)
    <3>1. t \in Requests => Way("waiting", "error", sent[t])
      BY <1>1, <2>1 DEF Counted
    <3>2. QED
      BY <1>3, <1>5, <2>1, <2>3, <3>1 DEF Fail, Goto
  <2>4. CASE /\ t \in Requests => sent[t] < Declared(t)
             /\ Goto(t, "staged") /\ staged' = [staged EXCEPT ![t] = "value"]
    <3>1. Way("staged", "value", sent[t])
      BY <1>1, <2>1, <2>4 DEF Counted, Declared, c
    <3>2. QED
      BY <1>3, <1>5, <2>1, <2>4, <3>1 DEF Goto
  <2>5. QED
    BY <1>9, <2>2, <2>3, <2>4 DEF HandlerStep, HandlerYields, HandlerReturns, HandlerRaises
<1>10. CASE AwaitLock(t)
  <2>1. pc[t] = "staged" /\ UNCHANGED <<link, header, wire, sent>>
    BY <1>10 DEF AwaitLock, Live, connVars, chainVars
  <2>2. CASE Goto(t, "locking") /\ UNCHANGED staged
    <3>1. Way("locking", staged[t], sent[t])
      BY <1>1, <2>1 DEF Counted
    <3>2. QED
      BY <1>3, <1>4, <1>5, <2>1, <2>2, <3>1 DEF Goto
  <2>3. CASE Finish(t)
    <3>1. Way("done", "none", sent[t])
      BY <1>1, <2>1 DEF Counted
    <3>2. QED
      BY <1>3, <1>5, <2>1, <2>3, <3>1 DEF Finish, Goto
  <2>4. QED
    BY <1>10, <2>2, <2>3 DEF AwaitLock
<1>11. CASE Write(t)
  BY <1>11 DEF Write, Writes, Live, Goto, connVars, chainVars
<1>12. ~(t \in Requests /\ (WriteSchema(t) \/ SchemaFails(t)))
  BY <1>2 DEF WriteSchema, SchemaFails
<1>13. CASE EncodeFails(t)
  <2>1. pc[t] = "locking" /\ UNCHANGED <<link, header, wire, sent>>
    BY <1>13 DEF EncodeFails, Live, connVars, chainVars
  <2>2. CASE Fail(t)
    <3>1. t \in Requests => Way("waiting", "error", sent[t])
      BY <1>1, <2>1 DEF Counted
    <3>2. QED
      BY <1>3, <1>5, <2>1, <2>2, <3>1 DEF Fail, Goto
  <2>3. CASE Finish(t)
    <3>1. Way("done", "none", sent[t])
      BY <1>1, <2>1 DEF Counted
    <3>2. QED
      BY <1>3, <1>5, <2>1, <2>3, <3>1 DEF Finish, Goto
  <2>4. QED
    BY <1>13, <2>2, <2>3 DEF EncodeFails
<1>14. CASE Drained(t)
  <2>1. pc[t] = "draining" /\ UNCHANGED <<link, header, wire>>
    BY <1>14 DEF Drained, Live, connVars, chainVars
  <2>2. CASE /\ staged[t] = "value" /\ Goto(t, "running")
             /\ staged' = [staged EXCEPT ![t] = "none"] /\ sent' = [sent EXCEPT ![t] = @ + 1]
    <3>1. Way("running", "none", sent[t] + 1)
      BY <1>1, <2>1, <2>2 DEF Counted
    <3>2. QED
      BY <1>5, <2>1, <2>2, <3>1 DEF Goto
  <2>3. CASE staged[t] # "value" /\ Finish(t) /\ UNCHANGED sent
    <3>1. Way("done", "none", sent[t])
      BY <1>1, <2>1 DEF Counted
    <3>2. QED
      BY <1>3, <1>5, <2>1, <2>3, <3>1 DEF Finish, Goto
  <2>4. QED
    BY <1>14, <2>2, <2>3 DEF Drained
<1>15. CASE DrainFails(t)
  <2>1. pc[t] = "draining" /\ link # "up" /\ UNCHANGED <<link, header, wire, sent>>
    BY <1>15 DEF DrainFails, Live, connVars, chainVars
  <2>2. CASE staged[t] = "error" /\ Finish(t)
    <3>1. Way("done", "none", sent[t])
      BY <1>1, <2>1 DEF Counted
    <3>2. QED
      BY <1>3, <1>5, <2>1, <2>2, <3>1 DEF Finish, Goto
  <2>3. CASE staged[t] # "error" /\ Fail(t)
    <3>1. t \in Requests => Way("waiting", "error", sent[t])
      BY <1>1, <2>1 DEF Counted
    <3>2. QED
      BY <1>3, <1>5, <2>1, <2>3, <3>1 DEF Fail, Goto
  <2>4. QED
    BY <1>15, <2>2, <2>3 DEF DrainFails
<1>16. QED
  BY <1>6, <1>7, <1>8, <1>9, <1>10, <1>11, <1>12, <1>13, <1>14, <1>15
     DEF StartStep, FrameStep

LEMMA CountCancel ==
    ASSUME TypeInv, CountInv, NEW t \in Tasks, CancelDelivered(t)
    PROVE  CountInv'
<1>1. /\ pc' = [pc EXCEPT ![t] = "cancelled"] /\ staged' = [staged EXCEPT ![t] = "none"]
      /\ sent' = [sent EXCEPT ![t] = sent[t]] /\ UNCHANGED <<link, header, wire>>
  BY DEF CancelDelivered, Goto, connVars, chainVars, TypeInv, TypeOK
<1>2. t \in Requests => Counted(header[t].command, "cancelled", "none", sent[t], Cardinality(Written(t)))
  BY DEF Counted
<1>3. QED
  BY <1>1, <1>2, CountMove

LEMMA CountReceive ==
    ASSUME TypeInv, FifoInv, CountInv, NEW h \in Traffic, Receive(h)
    PROVE  CountInv'
<1> SUFFICES ASSUME NEW r \in Requests PROVE CountOf(r)'
  BY DEF CountInv
<1> PICK new \in Requests : new = received + 1
  BY DEF Receive
<1>1. /\ pc' = [pc EXCEPT ![new] = "created"] /\ header' = [header EXCEPT ![new] = h]
      /\ UNCHANGED <<link, staged, sent, wire>>
  BY DEF Receive, connVars
<1>2. r \in Tasks /\ new \in Tasks
  BY TaskSets
<1>3. pc[new] = "absent"
  BY DEF FifoInv, Chained, TypeInv, TypeOK
<1>4. Written(r)' = Written(r)
  BY <1>1 DEF Written
<1>5. CountOf(r)
  BY DEF CountInv
<1>6. CASE r = new
  BY <1>1, <1>2, <1>3, <1>4, <1>5, <1>6 DEF CountOf, Counted, TypeInv, TypeOK
<1>7. CASE r # new
  <2>1. pc'[r] = pc[r] /\ header'[r] = header[r]
    BY <1>1, <1>2, <1>7 DEF TypeInv, TypeOK
  <2>2. QED
    BY <1>1, <1>4, <1>5, <2>1 DEF CountOf, Counted
<1>8. QED
  BY <1>6, <1>7

LEMMA CountConnection ==
    ASSUME CountInv,
           Connected \/ ReadFails \/ LinkLost \/ ServerClose \/ Cleanup \/ UNCHANGED vars
    PROVE  CountInv'
<1> SUFFICES ASSUME NEW r \in Requests PROVE CountOf(r)'
  BY DEF CountInv
<1>1. /\ UNCHANGED <<header, staged, sent, wire>> /\ (link' = "up" => link = "up")
      /\ pc'[r] = pc[r]
  BY TaskSets DEF Connected, ReadFails, LinkLost, ServerClose, Cleanup, BeginCleanup,
         RequestsGathered, PushesGathered, vars, connVars, chainVars, taskVars
<1>2. Written(r)' = Written(r)
  BY <1>1 DEF Written
<1>3. QED
  BY <1>1, <1>2 DEF CountInv, CountOf, Counted

LEMMA CountNext == TypeInv /\ FifoInv /\ CountInv /\ [Next]_vars => CountInv'
<1> SUFFICES ASSUME TypeInv, FifoInv, CountInv, [Next]_vars PROVE CountInv'
  OBVIOUS
<1>1. CASE \E h \in Traffic : Receive(h)
  BY <1>1, CountReceive
<1>2. CASE \E t \in Tasks : TaskStep(t)
  BY <1>2, ShapeOfCount, CountWrite, CountCancel DEF TaskStep
<1>3. CASE Connected \/ ReadFails \/ LinkLost \/ ServerClose \/ Cleanup \/ UNCHANGED vars
  BY <1>3, CountConnection
<1>4. QED
  BY <1>1, <1>2, <1>3 DEF Next

-----------------------------------------------------------------------------
(* The refinement.                                                         *)

\* The abstract state.
Open == conn \in {"connecting", "reading"}
Arrived == [r \in 1..received |-> IF header[r].command \in Commands THEN Declared(r) ELSE 0]
Sent == [r \in 1..received |-> Cardinality(Written(r))]
Served == {r \in 1..received : Quiet(r) \/ Refused(r)}
Shown(f) == IF f.task \in Requests THEN f ELSE [task |-> f.task, kind |-> "push", seq |-> 0]
Output == [i \in 1..Len(wire) |-> IF wire[i].task \in Requests THEN wire[i]
                                  ELSE [task |-> wire[i].task, kind |-> "push", seq |-> 0]]

\* The step of ResponseStream that a step of the connection is.
Step == [Responses!Next]_<<Open, Arrived, Sent, Served, Output>>

LEMMA Lengths ==
    ASSUME TypeInv
    PROVE  /\ received \in Nat /\ \A q \in 1..received : q \in Requests /\ q \in Tasks
           /\ Len(Arrived) = received /\ DOMAIN Arrived = 1..received
           /\ Len(Sent) = received /\ DOMAIN Sent = 1..received
<1>1. received \in Nat /\ \A q \in 1..received : q \in Requests /\ q \in Tasks
  BY TaskSets, BoundsAssumption DEF TypeInv, TypeOK, Requests
<1>2. QED
  BY <1>1 DEF Arrived, Sent

\* A frame is written: the abstract output grows by it.
LEMMA OutGrows ==
    ASSUME TypeOK, NEW f, wire' = Append(wire, f)
    PROVE  Output' = Append(Output, Shown(f))
<1>1. /\ Len(wire) \in Nat /\ Len(wire') = Len(wire) + 1
      /\ \A i \in 1..Len(wire) : wire'[i] = wire[i]
      /\ wire'[Len(wire) + 1] = f
  BY DEF TypeOK
<1>2. Output' = [i \in 1..(Len(wire) + 1) |-> Shown(wire'[i])]
  BY <1>1 DEF Output, Shown
<1>3. /\ Len(Output) = Len(wire) /\ DOMAIN Output = 1..Len(wire)
      /\ \A i \in 1..Len(wire) : Output[i] = Shown(wire[i])
  BY <1>1 DEF Output, Shown
<1>4. Append(Output, Shown(f)) = [i \in 1..(Len(wire) + 1) |->
                                  IF i = Len(wire) + 1 THEN Shown(f) ELSE Output[i]]
  <2> DEFINE S == {Shown(wire[i]) : i \in 1..Len(wire)} \union {Shown(f)}
  <2>1. Output \in Seq(S) /\ Shown(f) \in S
    BY <1>1 DEF Output, Shown
  <2> HIDE DEF S
  <2>2. QED
    BY <1>3, <2>1, AppendIsFunction
<1>5. QED
  BY <1>1, <1>2, <1>3, <1>4

\* And the number of frames of its writer by one.
LEMMA SentGrows ==
    ASSUME TypeInv, NEW f, wire' = Append(wire, f), UNCHANGED received
    PROVE  Sent' = IF f.task \in 1..received THEN [Sent EXCEPT ![f.task] = @ + 1] ELSE Sent
<1>1. \A r : Cardinality(Written(r))' = Cardinality(Written(r)) + (IF f.task = r THEN 1 ELSE 0)
  BY WrittenAppend DEF TypeInv
<1>2. \A r : Cardinality(Written(r)) \in Nat
  BY WrittenFinite DEF TypeInv
<1>3. Sent' = [r \in 1..received |-> Cardinality(Written(r)) + (IF f.task = r THEN 1 ELSE 0)]
  BY <1>1 DEF Sent
<1>4. CASE f.task \in 1..received
  <2>1. /\ Sent[f.task] = Cardinality(Written(f.task)) /\ DOMAIN Sent = 1..received
        /\ \A r \in 1..received : Sent[r] = Cardinality(Written(r))
    BY <1>4 DEF Sent
  <2>2. [Sent EXCEPT ![f.task] = @ + 1]
        = [r \in 1..received |-> IF r = f.task THEN Sent[r] + 1 ELSE Sent[r]]
    BY <1>4, <2>1
  <2>3. \A r \in 1..received : Cardinality(Written(r)) + (IF f.task = r THEN 1 ELSE 0)
                              = IF r = f.task THEN Sent[r] + 1 ELSE Sent[r]
    BY <1>2, <2>1
  <2>4. QED
    BY <1>3, <1>4, <2>2, <2>3
<1>5. CASE f.task \notin 1..received
  <2>1. \A r \in 1..received : Cardinality(Written(r)) + (IF f.task = r THEN 1 ELSE 0)
                              = Cardinality(Written(r))
    BY <1>2, <1>5
  <2>2. Sent' = [r \in 1..received |-> Cardinality(Written(r))]
    BY <1>3, <2>1
  <2>3. QED
    BY <1>5, <2>2 DEF Sent
<1>6. QED
  BY <1>4, <1>5

\* A request that is active, or becomes so, is the oldest one not served.
LEMMA ActiveTurn ==
    ASSUME TypeInv, FifoInv, NEW r \in Requests, pc[r] # "absent", ~Quiet(r), ~Refused(r),
           \A q \in 1..(r - 1) : Quiet(q)
    PROVE  r \in 1..received /\ Responses!Turn(r)
<1>1. r \in 1..received /\ received \in Nat
  BY BoundsAssumption DEF FifoInv, Chained, TypeInv, TypeOK, Requests
<1>2. 1..(r - 1) \subseteq Served
  BY <1>1 DEF Served
<1>3. r \notin Served
  BY DEF Served
<1>4. QED
  BY <1>1, <1>2, <1>3, Lengths DEF Responses!Turn, Served, Arrived

\* What a task's own step leaves alone in the abstract state.
LEMMA TaskFrame ==
    ASSUME TypeInv, NEW t \in Tasks, TaskShape(t)
    PROVE  /\ UNCHANGED <<conn, received, Open, Arrived>>
           /\ t \notin cancelRequested /\ ~Quiet(t) /\ pc[t] # "absent"
           /\ \A q \in 1..received : q # t =>
                 /\ Quiet(q)' <=> Quiet(q)
                 /\ pc'[q] = pc[q]
           /\ Quiet(t)' <=> pc'[t] = "done"
<1>1. PICK to \in {"waiting"} \union Active : pc' = [pc EXCEPT ![t] = to]
  BY DEF TaskShape
<1>2. \A u \in Tasks : pc'[u] = IF u = t THEN to ELSE pc[u]
  BY <1>1 DEF TypeInv, TypeOK
<1>3. /\ UNCHANGED <<conn, received, header, cancelRequested>> /\ UNCHANGED <<Open, Arrived>>
      /\ t \notin cancelRequested /\ pc[t] \notin {"absent", "done", "cancelled"}
  BY DEF TaskShape, connVars, chainVars, Open, Arrived, Declared, Active
<1>4. QED
  BY <1>2, <1>3, Lengths DEF Quiet, Active

\* A step that writes nothing is the end of the request whose turn it is, or nothing.
LEMMA StepOfQuiet ==
    ASSUME TypeInv, FifoInv, NEW t \in Tasks, TaskShape(t), Writeless(t)
    PROVE  Step
<1>1. UNCHANGED <<Open, Arrived, Sent, Output, received>>
  BY TaskFrame DEF Writeless, Sent, Output, Written
<1>2. \A q \in 1..received : q # t => (Quiet(q)' <=> Quiet(q)) /\ (Refused(q)' <=> Refused(q))
  BY TaskFrame, Lengths DEF Refused, Writeless
<1>3. (Quiet(t) \/ Refused(t))' <=> pc'[t] = "done"
  BY TaskFrame DEF Refused, Writeless
<1>4. ~Quiet(t) /\ pc[t] # "absent" /\ (Refused(t) => pc'[t] = "done")
  BY TaskFrame DEF Refused, Writeless
<1>5. CASE t \notin 1..received \/ pc'[t] # "done" \/ Refused(t)
  <2>1. \A q \in 1..received : (Quiet(q) \/ Refused(q))' <=> (Quiet(q) \/ Refused(q))
    BY <1>2, <1>3, <1>4, <1>5
  <2>2. UNCHANGED Served
    BY <1>1, <2>1 DEF Served
  <2>3. QED
    BY <1>1, <2>2 DEF Step
<1>6. CASE t \in 1..received /\ pc'[t] = "done" /\ ~Refused(t)
  <2>1. t \in Requests
    BY <1>6, Lengths
  <2>2. \A q \in 1..(t - 1) : Quiet(q)
    <3>1. \A q \in 1..(t - 1) : Quiet(q)'
      BY <1>6, <2>1, FifoTask DEF FifoInv, ActiveAfterQuiet, Active
    <3>2. \A q \in 1..(t - 1) : q \in 1..received /\ q # t
      BY <1>6, Lengths
    <3>3. QED
      BY <1>2, <3>1, <3>2
  <2>3. Responses!Turn(t)
    BY <1>4, <1>6, <2>1, <2>2, ActiveTurn
  <2>4. Served' = Served \union {t}
    BY <1>1, <1>2, <1>3, <1>6 DEF Served
  <2>5. Responses!Serve(t)
    BY <1>1, <2>3, <2>4 DEF Responses!Serve, Open, Arrived, Sent, Served, Output
  <2>6. t \in 1..Len(Arrived)
    BY <1>6, Lengths
  <2>7. QED
    BY <2>5, <2>6 DEF Step, Responses!Next, Arrived
<1>7. QED
  BY <1>5, <1>6

\* A step that writes a frame.
LEMMA StepOfWrite ==
    ASSUME TypeInv, FifoInv, CountInv, NEW t \in Tasks, TaskShape(t), Writes(t)
    PROVE  Step
<1> DEFINE f == [task |-> t, kind |-> staged[t], seq |-> sent[t] + 1]
<1>1. UNCHANGED <<Open, Arrived, received>> /\ ~Quiet(t) /\ pc[t] # "absent"
  BY TaskFrame
<1>2. /\ pc[t] = "locking" /\ pc'[t] = "draining" /\ UNCHANGED staged
      /\ IF link = "up" THEN wire' = Append(wire, f) ELSE UNCHANGED wire
  BY DEF Writes, Send, TypeInv, TypeOK
<1>3. \A q \in 1..received : q # t => (Quiet(q)' <=> Quiet(q)) /\ (Refused(q)' <=> Refused(q))
  BY <1>2, TaskFrame DEF Refused
<1>4. ~Quiet(t)' /\ ~Refused(t) /\ (Refused(t)' <=> staged[t] = "error")
  BY <1>2, TaskFrame DEF Refused
<1>5. Served' = IF t \in 1..received /\ staged[t] = "error" THEN Served \union {t} ELSE Served
  <2>1. \A q : q \in Served' <=> q \in 1..received /\ (q \in Served \/ (q = t /\ staged[t] = "error"))
    BY <1>1, <1>3, <1>4 DEF Served
  <2>2. Served \subseteq 1..received
    BY DEF Served
  <2>3. QED
    BY <2>1, <2>2
<1>6. CASE t \in PushRoutes
  <2>1. t \notin 1..received /\ t \notin Requests
    BY <1>6, Lengths, TaskSets
  <2>2. UNCHANGED Served
    BY <1>5, <2>1
  <2>3. CASE link = "up"
    <3>1. Output' = Append(Output, [task |-> t, kind |-> "push", seq |-> 0])
      BY <1>2, <2>1, <2>3, OutGrows DEF TypeInv, Shown
    <3>2. UNCHANGED Sent
      BY <1>1, <1>2, <2>1, <2>3, SentGrows
    <3>3. Responses!Push(t)
      BY <1>1, <2>2, <3>1, <3>2 DEF Responses!Push, Open, Arrived, Sent, Served, Output
    <3>4. QED
      BY <1>6, <3>3 DEF Step, Responses!Next
  <2>4. CASE link # "up"
    BY <1>1, <1>2, <2>2, <2>4 DEF Step, Sent, Output, Written
  <2>5. QED
    BY <2>3, <2>4
<1>7. CASE t \in Requests
  <2>1. t \in 1..received /\ Responses!Turn(t)
    BY <1>1, <1>2, <1>4, <1>7, ActiveTurn DEF FifoInv, ActiveAfterQuiet, Active
  <2>2. t \in 1..Len(Arrived)
    BY <2>1, Lengths
  <2>3. Counted(header[t].command, "locking", staged[t], sent[t], Cardinality(Written(t)))
    BY <1>2, <1>7 DEF CountInv, CountOf
  <2>4. staged[t] \in {"value", "error"}
    BY <1>2, <2>3 DEF Counted, TypeInv, TypeOK, Staging
  <2>5. CASE link = "up"
    <3>1. Sent[t] = sent[t] /\ (staged[t] = "value" => sent[t] < Arrived[t])
      BY <2>1, <2>3, <2>5 DEF Counted, Sent, Arrived, Declared, TypeInv, TypeOK
    <3>2. Sent' = [Sent EXCEPT ![t] = @ + 1]
      BY <1>1, <1>2, <2>1, <2>5, SentGrows
    <3>3. Output' = Append(Output, [task |-> t, kind |-> staged[t], seq |-> Sent[t] + 1])
      <4>1. f = [task |-> t, kind |-> staged[t], seq |-> Sent[t] + 1] /\ Shown(f) = f
        BY <1>7, <3>1 DEF Shown
      <4>2. wire' = Append(wire, f)
        BY <1>2, <2>5
      <4> HIDE DEF f
      <4>3. Output' = Append(Output, Shown(f))
        BY <4>2, OutGrows DEF TypeInv
      <4>4. QED
        BY <4>1, <4>3
    <3>4. CASE staged[t] = "value"
      <4>1. Sent[t] < Arrived[t] /\ UNCHANGED Served
        BY <1>5, <3>1, <3>4
      <4>2. Responses!Send(t, "value")
        BY <3>2, <3>3, <3>4 DEF Responses!Send, Sent, Output
      <4>3. Responses!Value(t)
        BY <1>1, <2>1, <4>1, <4>2 DEF Responses!Value, Open, Arrived, Sent, Served, Output
      <4>4. QED
        BY <2>2, <4>3 DEF Step, Responses!Next, Arrived
    <3>5. CASE staged[t] = "error"
      <4>1. Served' = Served \union {t}
        BY <1>5, <2>1, <3>5
      <4>2. Responses!Send(t, "error")
        BY <3>2, <3>3, <3>5 DEF Responses!Send, Sent, Output
      <4>3. Responses!Error(t)
        BY <1>1, <2>1, <4>1, <4>2 DEF Responses!Error, Open, Arrived, Sent, Served, Output
      <4>4. QED
        BY <2>2, <4>3 DEF Step, Responses!Next, Arrived
    <3>6. QED
      BY <2>4, <3>4, <3>5
  <2>6. CASE link # "up"
    <3>1. UNCHANGED <<Sent, Output>>
      BY <1>1, <1>2, <2>6 DEF Sent, Output, Written
    <3>2. CASE staged[t] = "value"
      BY <1>1, <1>5, <3>1, <3>2 DEF Step
    <3>3. CASE staged[t] = "error"
      <4>1. Served' = Served \union {t}
        BY <1>5, <2>1, <3>3
      <4>2. Responses!Serve(t)
        BY <1>1, <2>1, <3>1, <4>1 DEF Responses!Serve, Open, Arrived, Sent, Served, Output
      <4>3. QED
        BY <2>2, <4>2 DEF Step, Responses!Next, Arrived
    <3>4. QED
      BY <2>4, <3>2, <3>3
  <2>7. QED
    BY <2>5, <2>6
<1>8. QED
  BY <1>6, <1>7 DEF Tasks

\* Delivering a cancellation: the request is served already.
LEMMA StepOfCancel ==
    ASSUME TypeInv, FifoInv, NEW t \in Tasks, CancelDelivered(t)
    PROVE  Step
<1>1. /\ pc' = [pc EXCEPT ![t] = "cancelled"] /\ staged' = [staged EXCEPT ![t] = "none"]
      /\ t \in cancelRequested /\ cancelRequested' = cancelRequested \ {t}
      /\ UNCHANGED <<conn, received, header, wire>>
  BY DEF CancelDelivered, Goto, connVars, chainVars
<1>2. \A u \in Tasks : /\ pc'[u] = IF u = t THEN "cancelled" ELSE pc[u]
                       /\ staged'[u] = IF u = t THEN "none" ELSE staged[u]
  BY <1>1 DEF TypeInv, TypeOK
<1>3. \A q \in 1..received : (Quiet(q) \/ Refused(q))' <=> Quiet(q) \/ Refused(q)
  BY <1>1, <1>2, Lengths DEF Quiet, Refused
<1>4. UNCHANGED <<Open, Arrived, Sent, Served, Output>>
  BY <1>1, <1>3 DEF Open, Arrived, Declared, Sent, Served, Output, Written
<1>5. QED
  BY <1>4 DEF Step

\* A request arrives, not served yet.
LEMMA StepOfReceive ==
    ASSUME TypeInv, FifoInv, CountInv, NEW h \in Traffic, Receive(h)
    PROVE  Step
<1>0. received \in Nat
  BY DEF TypeInv, TypeOK
<1> PICK r \in Nat : r = received + 1
  BY <1>0
<1> DEFINE n == IF h.command \in Commands THEN ResponseFrames[h.command] ELSE 0
<1>1. /\ conn = "reading" /\ received' = r /\ r \in Requests /\ r \in Tasks /\ received \in Nat
      /\ pc' = [pc EXCEPT ![r] = "created"] /\ header' = [header EXCEPT ![r] = h]
      /\ UNCHANGED <<conn, wire, cancelRequested, staged>>
  BY TaskSets DEF Receive, connVars, TypeInv, TypeOK
<1>2. /\ \A u \in Tasks : pc'[u] = IF u = r THEN "created" ELSE pc[u]
      /\ \A q \in Requests : header'[q] = IF q = r THEN h ELSE header[q]
  BY <1>1 DEF TypeInv, TypeOK
<1>3. \A q \in 1..received : q # r /\ q \in Requests /\ q \in Tasks
  BY <1>1, Lengths
<1>4. \A q \in 1..received : (Quiet(q) \/ Refused(q))' <=> Quiet(q) \/ Refused(q)
  BY <1>1, <1>2, <1>3 DEF Quiet, Refused
<1>5. ~(Quiet(r) \/ Refused(r))'
  <2>1. r \notin cancelRequested
    BY <1>1 DEF FifoInv, CancelledTogether
  <2>2. pc'[r] = "created" /\ r \notin cancelRequested'
    BY <1>1, <1>2, <2>1
  <2>3. QED
    BY <2>2 DEF Quiet, Refused
<1>6. 1..received' = (1..received) \union {r}
  BY <1>1
<1>7. UNCHANGED Served
  BY <1>4, <1>5, <1>6, Zenon DEF Served
<1>8. UNCHANGED <<Open, Output>> /\ Open
  BY <1>1 DEF Open, Output
<1>9. Cardinality(Written(r))' = 0
  <2>1. pc[r] = "absent"
    BY <1>1 DEF FifoInv, Chained
  <2>2. Cardinality(Written(r)) = 0
    BY <1>1, <2>1 DEF CountInv, CountOf, Counted
  <2>3. QED
    BY <1>1, <2>2 DEF Written
<1>10. Arrived' = Append(Arrived, n)
  <2> DEFINE S == {Arrived[q] : q \in 1..received} \union {n}
             Count(q) == IF header[q].command \in Commands THEN Declared(q) ELSE 0
  <2>1. Arrived \in Seq(S) /\ n \in S /\ Len(Arrived) = received
    BY <1>1, Lengths DEF Arrived
  <2>2. Append(Arrived, n) = [q \in 1..r |-> IF q = r THEN n ELSE Arrived[q]]
    <3> HIDE DEF S, n
    <3>1. QED
      BY <2>1, AppendIsFunction
  <2>3. Arrived' = [q \in 1..r |-> Count(q)']
    BY <1>1 DEF Arrived, Declared
  <2>4. \A q \in 1..r : Count(q)' = IF q = r THEN n ELSE Arrived[q]
    <3>1. Count(r)' = n
      BY <1>1, <1>2 DEF Declared
    <3>2. \A q \in 1..received : Count(q)' = Arrived[q]
      BY <1>2, <1>3 DEF Arrived, Declared
    <3>3. QED
      BY <1>1, <1>3, <3>1, <3>2
  <2> HIDE DEF Count, n
  <2>5. QED
    BY <2>2, <2>3, <2>4
<1>11. Sent' = Append(Sent, 0)
  <2> DEFINE S == {Sent[q] : q \in 1..received} \union {0}
             Count(q) == Cardinality(Written(q))
  <2>1. Sent \in Seq(S) /\ 0 \in S /\ Len(Sent) = received
    BY <1>1, Lengths DEF Sent
  <2>2. Append(Sent, 0) = [q \in 1..r |-> IF q = r THEN 0 ELSE Sent[q]]
    <3> HIDE DEF S
    <3>1. QED
      BY <2>1, AppendIsFunction
  <2>3. Sent' = [q \in 1..r |-> Count(q)']
    BY <1>1 DEF Sent
  <2>4. \A q \in 1..r : Count(q)' = IF q = r THEN 0 ELSE Sent[q]
    <3>1. \A q \in 1..received : Count(q)' = Sent[q]
      BY <1>1 DEF Sent, Written
    <3>2. QED
      BY <1>1, <1>3, <1>9, <3>1
  <2> HIDE DEF Count
  <2>5. QED
    BY <2>2, <2>3, <2>4
<1>12. n \in {0} \union {ResponseFrames[c] : c \in Commands}
  OBVIOUS
<1> HIDE DEF n
<1>13. Responses!Arrive
  BY <1>7, <1>8, <1>10, <1>11, <1>12 DEF Responses!Arrive, Open, Arrived, Sent, Served, Output
<1>14. QED
  BY <1>13 DEF Step, Responses!Next

\* The connection's own steps: one that stops reading, one that gives up the requests
\* that are left, and others that the client cannot see.
LEMMA StepOfConnection ==
    ASSUME TypeInv, FifoInv,
           Connected \/ ReadFails \/ LinkLost \/ ServerClose \/ Cleanup \/ UNCHANGED vars
    PROVE  Step
<1>1. /\ UNCHANGED <<received, header, staged, wire>>
      /\ UNCHANGED <<Arrived, Sent, Output>>
  BY DEF Connected, ReadFails, LinkLost, ServerClose, Cleanup, BeginCleanup, RequestsGathered,
         PushesGathered, vars, chainVars, taskVars, Arrived, Declared, Sent, Output, Written
<1>2. \A q \in 1..received : q \in Requests
  BY Lengths
<1>3. \A r \in Requests : pc'[r] = pc[r]
  BY TaskSets DEF Connected, ReadFails, LinkLost, ServerClose, Cleanup, BeginCleanup,
         RequestsGathered, PushesGathered, vars, taskVars
<1>4. CASE BeginCleanup
  <2>1. ~Open /\ UNCHANGED Open
    BY <1>4 DEF BeginCleanup, Open
  <2>2. cancelRequested' = cancelRequested \union {r \in Requests : ~Ended(r)}
    BY <1>4 DEF BeginCleanup
  <2>3. \A q \in 1..received : Quiet(q)'
    BY <1>2, <1>3, <2>2 DEF Quiet, Ended, FifoInv, Chained
  <2>4. Served' = 1..Len(Arrived)
    BY <1>1, <2>3, Lengths DEF Served
  <2>5. Responses!Abandon
    BY <1>1, <2>1, <2>4 DEF Responses!Abandon, Open, Arrived, Sent, Served, Output
  <2>6. QED
    BY <2>5 DEF Step, Responses!Next
<1>5. CASE ~BeginCleanup
  <2>1. \A r \in Requests : r \in cancelRequested' <=> r \in cancelRequested
    BY <1>5, TaskSets DEF Connected, ReadFails, LinkLost, ServerClose, Cleanup,
           RequestsGathered, PushesGathered, vars
  <2>2. UNCHANGED Served
    BY <1>1, <1>2, <1>3, <2>1 DEF Served, Quiet, Refused
  <2>3. UNCHANGED Open \/ (Open = TRUE /\ Open' = FALSE)
    BY <1>5 DEF Connected, ReadFails, LinkLost, ServerClose, Cleanup,
           RequestsGathered, PushesGathered, vars, connVars, Open
  <2>4. CASE UNCHANGED Open
    BY <1>1, <2>2, <2>4 DEF Step
  <2>5. CASE Open = TRUE /\ Open' = FALSE
    <3>1. Responses!Close
      BY <1>1, <2>2, <2>5 DEF Responses!Close, Open, Arrived, Sent, Served, Output
    <3>2. QED
      BY <3>1 DEF Step, Responses!Next
  <2>6. QED
    BY <2>3, <2>4, <2>5
<1>6. QED
  BY <1>4, <1>5

LEMMA StepOfNext ==
    ASSUME SessionlessTraffic, TypeInv, FifoInv, CountInv, [Next]_vars
    PROVE  Step
<1>1. CASE \E h \in Traffic : Receive(h)
  BY <1>1, StepOfReceive
<1>2. CASE \E t \in Tasks : TaskStep(t)
  <2>1. PICK t \in Tasks : TaskStep(t)
    BY <1>2
  <2>2. CASE CancelDelivered(t)
    BY <2>2, StepOfCancel
  <2>3. CASE StartStep(t) \/ HandlerStep(t) \/ FrameStep(t)
    BY <2>3, ShapeOfTask, ShapeOfCount, StepOfWrite, StepOfQuiet
  <2>4. QED
    BY <2>1, <2>2, <2>3 DEF TaskStep
<1>3. CASE Connected \/ ReadFails \/ LinkLost \/ ServerClose \/ Cleanup \/ UNCHANGED vars
  BY <1>3, StepOfConnection
<1>4. QED
  BY <1>1, <1>2, <1>3 DEF Next

\* A new connection is a new ResponseStream.
LEMMA RefinesInit == Init => Responses!Init
<1> SUFFICES ASSUME Init PROVE Responses!Init
  OBVIOUS
<1>1. Open = TRUE /\ received = 0 /\ wire = <<>>
  BY DEF Init, Open
<1>2. Arrived = <<>> /\ Sent = <<>> /\ Served = {} /\ Output = <<>>
  BY <1>1 DEF Arrived, Sent, Served, Output
<1>3. QED
  BY <1>1, <1>2 DEF Responses!Init, Open, Arrived, Sent, Served, Output

\* A connection whose requests have no session ids serves them as ResponseStream says:
\* one at a time, in the order they arrived, each frame in its request's turn, numbered
\* without a gap, no more than declared and none after an exception.
THEOREM ImplementsResponseStream ==
    ASSUME SessionlessTraffic
    PROVE  Spec => AnswersInTurn
<1>1. TypeInv /\ FifoInv /\ CountInv /\ [Next]_vars => Step
  BY StepOfNext
<1>2. Step => [Responses!Next]_(Responses!vars)
  BY DEF Step, Open, Arrived, Sent, Served, Output, Responses!vars
<1>3. Spec => [](TypeInv /\ FifoInv /\ CountInv)
  BY FifoNext, CountNext, TypeInit, TypeNext, FifoInit, CountInit, PTL DEF Spec
<1>4. QED
  BY <1>1, <1>2, <1>3, RefinesInit, PTL DEF Spec, AnswersInTurn, Responses!Spec
=============================================================================
