----------------------------- MODULE ComponentsProofs -----------------------------
(***************************************************************************)
(* Theorems about three components that do not interact: the server's      *)
(* listeners and handlers (ServerLifecycle), the loop calls are submitted  *)
(* to (SubmitLoop), commands and their arguments (Commands); and their     *)
(* composition in MCComponents.                                            *)
(***************************************************************************)
EXTENDS MCComponents, QueueLemmas, TLAPS


-----------------------------------------------------------------------------
(* ServerLifecycle: types.                                                 *)

StartTypes ==
    /\ overlapping \in BOOLEAN
    /\ server \in Calls \union {None}
    /\ listener \in [Calls -> {"none", "open", "closed"}]
    /\ pc \in [Calls -> {"idle", "opening", "bound", "callbacks", "returned", "serving",
                         "left", "lost", "failed"}]
    /\ handle \in [Calls -> Calls \union {None}]

ConnectionTypes ==
    /\ closes \in 0..MaxCloses
    /\ handler \in [Handlers -> {"none", "accepted", "connecting", "reading", "requesting",
                                 "leaving", "gathering", "ended", "cut"}]
    /\ transport \in [Handlers -> {"none", "up", "lost", "closed"}]
    /\ served \subseteq Handlers /\ cancelling \subseteq Handlers /\ missed \subseteq Handlers
    /\ client_tasks \subseteq Handlers /\ writers \subseteq Handlers
    /\ clients \subseteq Handlers

LEMMA StartTypesInit == Init => StartTypes
BY LifecycleAssumption DEF Init, StartTypes

LEMMA StartTypesNext == StartTypes /\ [Next]_vars => StartTypes'
<1> SUFFICES ASSUME StartTypes, [Next]_vars PROVE StartTypes'
  OBVIOUS
<1> USE DEF StartTypes
<1>1. ASSUME NEW c \in Calls, Start(c) PROVE StartTypes'
  <2>1. CASE server = None
    BY <1>1, <2>1 DEF Start, Goto
  <2>2. CASE server # None
    BY <1>1, <2>2 DEF Start, Return, Goto
  <2> QED BY <2>1, <2>2
<1>2. ASSUME NEW c \in Calls, Bind(c) PROVE StartTypes'
  BY <1>2 DEF Bind, Goto
<1>3. ASSUME NEW c \in Calls, Opened(c) PROVE StartTypes'
  BY <1>3 DEF Opened, Goto
<1>4. ASSUME NEW c \in Calls, StartReturns(c) PROVE StartTypes'
  BY <1>4 DEF StartReturns, Return, Goto
<1>5. ASSUME NEW c \in Calls, ServeEnds(c) PROVE StartTypes'
  BY <1>5 DEF ServeEnds, Goto
<1>6. ASSUME NEW c \in Calls, Cancel(c) PROVE StartTypes'
  BY <1>6 DEF Cancel, Goto
<1>7. ASSUME NEW c \in Calls, CloseHandle(c) PROVE StartTypes'
  BY <1>7 DEF CloseHandle, Goto
<1>8. ASSUME NEW caller \in Callers, Close(caller) PROVE StartTypes'
  BY <1>8 DEF Close, CloseListener
<1>9. ASSUME NEW h \in Handlers, Accept(h) \/ Decode(h) \/ Disconnects(h) \/ HandlerStep(h)
      PROVE StartTypes'
  BY <1>9 DEF Accept, Decode, Disconnects, HandlerStep, Register, Connected, Receive, ReadFails,
              CleanUp, Finish, CancelDelivered, callVars
<1>10. CASE UNCHANGED vars
  BY <1>10 DEF vars, callVars
<1> QED BY <1>1, <1>2, <1>3, <1>4, <1>5, <1>6, <1>7, <1>8, <1>9, <1>10 DEF Next

\* The steps of the calls of start() and serve(), which leave the handlers alone.
CallStep(c) == Start(c) \/ Bind(c) \/ Opened(c) \/ StartReturns(c) \/ ServeEnds(c)
               \/ Cancel(c) \/ CloseHandle(c)

LEMMA CallsLeaveHandlers ==
    ASSUME NEW c \in Calls, CallStep(c)
    PROVE  UNCHANGED <<handlerVars, closes, missed>>
BY DEF CallStep, Start, Bind, Opened, StartReturns, ServeEnds, Cancel, CloseHandle

LEMMA HandlersLeaveCalls ==
    ASSUME NEW h \in Handlers, Accept(h) \/ Decode(h) \/ Disconnects(h) \/ HandlerStep(h)
    PROVE  UNCHANGED <<overlapping, callVars>>
BY DEF Accept, Decode, Disconnects, HandlerStep, Register, Connected, Receive, ReadFails,
       CleanUp, Finish, CancelDelivered

LEMMA ConnectionTypesInit == Init => ConnectionTypes
BY LifecycleAssumption DEF Init, ConnectionTypes

LEMMA ConnectionTypesNext == ConnectionTypes /\ [Next]_vars => ConnectionTypes'
<1> SUFFICES ASSUME ConnectionTypes, [Next]_vars PROVE ConnectionTypes'
  OBVIOUS
<1> USE DEF ConnectionTypes
<1>1. ASSUME NEW c \in Calls, CallStep(c) PROVE ConnectionTypes'
  BY <1>1, CallsLeaveHandlers DEF handlerVars, registries
<1>2. ASSUME NEW caller \in Callers, Close(caller) PROVE ConnectionTypes'
  BY <1>2, LifecycleAssumption DEF Close, CancelTasks, AbortWriters
<1>3. ASSUME NEW h \in Handlers, Accept(h) PROVE ConnectionTypes'
  BY <1>3 DEF Accept, Advance, registries
<1>4. ASSUME NEW h \in Handlers, Receive(h) PROVE ConnectionTypes'
  BY <1>4 DEF Receive, Advance, registries
<1>13. ASSUME NEW h \in Handlers, Decode(h) PROVE ConnectionTypes'
  BY <1>13 DEF Decode, Advance, registries
<1>5. ASSUME NEW h \in Handlers, Disconnects(h) PROVE ConnectionTypes'
  BY <1>5 DEF Disconnects, registries
<1>6. ASSUME NEW h \in Handlers, Register(h) PROVE ConnectionTypes'
  BY <1>6 DEF Register, Advance
<1>7. ASSUME NEW h \in Handlers, Connected(h) PROVE ConnectionTypes'
  BY <1>7 DEF Connected, Advance, registries
<1>8. ASSUME NEW h \in Handlers, ReadFails(h) PROVE ConnectionTypes'
  BY <1>8 DEF ReadFails, Advance, registries
<1>9. ASSUME NEW h \in Handlers, CleanUp(h) PROVE ConnectionTypes'
  BY <1>9 DEF CleanUp, Advance
<1>10. ASSUME NEW h \in Handlers, Finish(h) PROVE ConnectionTypes'
  BY <1>10 DEF Finish, Advance, registries
<1>11. ASSUME NEW h \in Handlers, CancelDelivered(h) PROVE ConnectionTypes'
  BY <1>11 DEF CancelDelivered, registries
<1>12. CASE UNCHANGED vars
  BY <1>12 DEF vars, handlerVars, registries
<1> QED
  BY <1>1, <1>2, <1>3, <1>4, <1>5, <1>6, <1>7, <1>8, <1>9, <1>10, <1>11, <1>12, <1>13
  DEF Next, CallStep, HandlerStep

\* The server's state is well typed: the names of the code's attributes, for any number of
\* calls, connections and closes.
THEOREM LifecycleTypeCorrect == Spec => []TypeOK
<1>1. Init => StartTypes /\ ConnectionTypes
  BY StartTypesInit, ConnectionTypesInit
<1>2. StartTypes /\ ConnectionTypes /\ [Next]_vars => StartTypes' /\ ConnectionTypes'
  BY StartTypesNext, ConnectionTypesNext
<1>3. StartTypes /\ ConnectionTypes => TypeOK
  BY DEF StartTypes, ConnectionTypes, TypeOK
<1> QED BY <1>1, <1>2, <1>3, PTL DEF Spec

-----------------------------------------------------------------------------
(* ServerLifecycle: listeners.                                             *)

\* If starts do not overlap, one call at most is between its check of _server and the
\* assignment, and _server is what it found.
OneOpens ==
    ~overlapping => /\ \A c, d \in Opening : c = d
                    /\ Opening # {} => server = None

LEMMA OneListenerNext ==
    StartTypes /\ OneOpens /\ OneListener /\ [Next]_vars => OneOpens' /\ OneListener'
<1> SUFFICES ASSUME StartTypes, OneOpens, OneListener, [Next]_vars
             PROVE  OneOpens' /\ OneListener'
  OBVIOUS
<1> USE DEF StartTypes, OneOpens, OneListener, Opening, Listening
<1>1. ASSUME NEW c \in Calls, Start(c) PROVE OneOpens' /\ OneListener'
  <2>1. CASE server = None
    BY <1>1, <2>1, LifecycleAssumption DEF Start, Goto
  <2>2. CASE server # None
    BY <1>1, <2>2 DEF Start, Return, Goto
  <2> QED BY <2>1, <2>2
<1>2. ASSUME NEW c \in Calls, Bind(c) PROVE OneOpens' /\ OneListener'
  BY <1>2 DEF Bind, Goto
<1>3. ASSUME NEW c \in Calls, Opened(c) PROVE OneOpens' /\ OneListener'
  BY <1>3, LifecycleAssumption DEF Opened, Goto
<1>4. ASSUME NEW c \in Calls, StartReturns(c) PROVE OneOpens' /\ OneListener'
  BY <1>4 DEF StartReturns, Return, Goto
<1>5. ASSUME NEW c \in Calls, ServeEnds(c) PROVE OneOpens' /\ OneListener'
  BY <1>5 DEF ServeEnds, Goto
<1>6. ASSUME NEW c \in Calls, Cancel(c) PROVE OneOpens' /\ OneListener'
  BY <1>6 DEF Cancel, Goto
<1>7. ASSUME NEW c \in Calls, CloseHandle(c) PROVE OneOpens' /\ OneListener'
  BY <1>7 DEF CloseHandle, Goto
<1>8. ASSUME NEW caller \in Callers, Close(caller) PROVE OneOpens' /\ OneListener'
  BY <1>8 DEF Close, CloseListener
<1>9. ASSUME NEW h \in Handlers, Accept(h) \/ Decode(h) \/ Disconnects(h) \/ HandlerStep(h)
      PROVE OneOpens' /\ OneListener'
  BY <1>9, HandlersLeaveCalls DEF callVars
<1>10. CASE UNCHANGED vars
  BY <1>10 DEF vars, callVars
<1> QED BY <1>1, <1>2, <1>3, <1>4, <1>5, <1>6, <1>7, <1>8, <1>9, <1>10 DEF Next

\* If start() is called by one task at a time, close() can reach every open listener, for
\* any number of calls, cancellations and closes.
THEOREM ListenerReachable == Spec => []OneListener
<1>1. Init => StartTypes /\ OneOpens /\ OneListener
  BY StartTypesInit DEF Init, OneOpens, OneListener, Opening, Listening
<1>2. StartTypes /\ OneOpens /\ OneListener /\ [Next]_vars => (StartTypes /\ OneOpens /\ OneListener)'
  BY StartTypesNext, OneListenerNext
<1> QED BY <1>1, <1>2, PTL DEF Spec

\* A listener nobody has seen is as its call left it: only _server and handles name one.
Held(c) == server = c \/ \E d \in Calls : handle[d] = c
UnknownIsOpen ==
    \A c \in Calls :
        /\ Held(c) => pc[c] \notin {"idle", "opening", "bound"}
        /\ pc[c] = "bound" => listener[c] = "open"

LEMMA UnknownIsOpenNext == StartTypes /\ UnknownIsOpen /\ [Next]_vars => UnknownIsOpen'
<1> SUFFICES ASSUME StartTypes, UnknownIsOpen, [Next]_vars PROVE UnknownIsOpen'
  OBVIOUS
<1> USE DEF StartTypes, UnknownIsOpen, Held
<1>1. ASSUME NEW c \in Calls, Start(c) PROVE UnknownIsOpen'
  <2>1. CASE server = None
    BY <1>1, <2>1, LifecycleAssumption DEF Start, Goto
  <2>2. CASE server # None
    BY <1>1, <2>2 DEF Start, Return, Goto
  <2> QED BY <2>1, <2>2
<1>2. ASSUME NEW c \in Calls, Bind(c) PROVE UnknownIsOpen'
  BY <1>2 DEF Bind, Goto
<1>3. ASSUME NEW c \in Calls, Opened(c) PROVE UnknownIsOpen'
  BY <1>3 DEF Opened, Goto
<1>4. ASSUME NEW c \in Calls, StartReturns(c) PROVE UnknownIsOpen'
  BY <1>4, LifecycleAssumption DEF StartReturns, Return, Goto
<1>5. ASSUME NEW c \in Calls, ServeEnds(c) PROVE UnknownIsOpen'
  BY <1>5 DEF ServeEnds, Goto
<1>6. ASSUME NEW c \in Calls, Cancel(c) PROVE UnknownIsOpen'
  BY <1>6 DEF Cancel, Goto
<1>7. ASSUME NEW c \in Calls, CloseHandle(c) PROVE UnknownIsOpen'
  BY <1>7 DEF CloseHandle, Goto
<1>8. ASSUME NEW caller \in Callers, Close(caller) PROVE UnknownIsOpen'
  BY <1>8, LifecycleAssumption DEF Close, CloseListener
<1>9. ASSUME NEW h \in Handlers, Accept(h) \/ Decode(h) \/ Disconnects(h) \/ HandlerStep(h)
      PROVE UnknownIsOpen'
  BY <1>9, HandlersLeaveCalls DEF callVars
<1>10. CASE UNCHANGED vars
  BY <1>10 DEF vars, callVars
<1> QED BY <1>1, <1>2, <1>3, <1>4, <1>5, <1>6, <1>7, <1>8, <1>9, <1>10 DEF Next

LEMMA StaleNext ==
    StartTypes /\ UnknownIsOpen /\ StaleOnlyWhenLeft /\ [Next]_vars => StaleOnlyWhenLeft'
<1> SUFFICES ASSUME StartTypes, UnknownIsOpen, StaleOnlyWhenLeft, [Next]_vars
             PROVE  StaleOnlyWhenLeft'
  OBVIOUS
<1> USE DEF StartTypes, StaleOnlyWhenLeft, Listening
<1>1. ASSUME NEW c \in Calls, Start(c) PROVE StaleOnlyWhenLeft'
  <2>1. CASE server = None
    BY <1>1, <2>1 DEF Start, Goto
  <2>2. CASE server # None
    BY <1>1, <2>2 DEF Start, Return, Goto
  <2> QED BY <2>1, <2>2
<1>2. ASSUME NEW c \in Calls, Bind(c) PROVE StaleOnlyWhenLeft'
  BY <1>2 DEF Bind, Goto
<1>3. ASSUME NEW c \in Calls, Opened(c) PROVE StaleOnlyWhenLeft'
  BY <1>3 DEF Opened, Goto, UnknownIsOpen
<1>4. ASSUME NEW c \in Calls, StartReturns(c) PROVE StaleOnlyWhenLeft'
  BY <1>4 DEF StartReturns, Return, Goto
<1>5. ASSUME NEW c \in Calls, ServeEnds(c) PROVE StaleOnlyWhenLeft'
  BY <1>5 DEF ServeEnds, Goto
<1>6. ASSUME NEW c \in Calls, Cancel(c) PROVE StaleOnlyWhenLeft'
  BY <1>6 DEF Cancel, Goto
<1>7. ASSUME NEW c \in Calls, CloseHandle(c) PROVE StaleOnlyWhenLeft'
  BY <1>7 DEF CloseHandle, Goto
<1>8. ASSUME NEW caller \in Callers, Close(caller) PROVE StaleOnlyWhenLeft'
  BY <1>8 DEF Close, CloseListener
<1>9. ASSUME NEW h \in Handlers, Accept(h) \/ Decode(h) \/ Disconnects(h) \/ HandlerStep(h)
      PROVE StaleOnlyWhenLeft'
  BY <1>9, HandlersLeaveCalls DEF callVars
<1>10. CASE UNCHANGED vars
  BY <1>10 DEF vars, callVars
<1> QED BY <1>1, <1>2, <1>3, <1>4, <1>5, <1>6, <1>7, <1>8, <1>9, <1>10 DEF Next

\* start() hands out a closed listener only if a serve() that ended or was refused, or a
\* caller of start() that closed its handle, has left that listener: also when starts
\* overlap, for any number of calls.
THEOREM StaleListenersWereLeft == Spec => []StaleOnlyWhenLeft
<1>1. Init => StartTypes /\ UnknownIsOpen /\ StaleOnlyWhenLeft
  BY StartTypesInit, LifecycleAssumption DEF Init, UnknownIsOpen, Held, StaleOnlyWhenLeft
<1>2. StartTypes /\ UnknownIsOpen /\ StaleOnlyWhenLeft /\ [Next]_vars
          => (StartTypes /\ UnknownIsOpen /\ StaleOnlyWhenLeft)'
  BY StartTypesNext, UnknownIsOpenNext, StaleNext
<1> QED BY <1>1, <1>2, PTL DEF Spec

-----------------------------------------------------------------------------
(* What handlers leave behind.                                             *)

\* A handler that has registered can be closed by close(): its writer is in _writers, or
\* closed already.  After its cleanup it is in no registry but _client_tasks.
InRegistries(h) ==
    /\ handler[h] = "none" => h \notin served
    /\ handler[h] \in {"none", "accepted"} => h \notin client_tasks \union writers \union clients
    /\ handler[h] \in {"connecting", "reading", "requesting", "leaving"} =>
           h \in writers \/ transport[h] = "closed"
    /\ handler[h] = "gathering" => /\ h \notin writers \union clients
                                   /\ h \in client_tasks => h \in served

\* A cancellation finds the writer closed, or the handler past its cleanup with tasks of
\* requests to wait for.
CutCleanly(h) ==
    h \in cancelling =>
        /\ handler[h] \in {"connecting", "reading", "requesting", "leaving", "gathering"}
        /\ h \notin writers
        /\ transport[h] = "closed" \/ (handler[h] = "gathering" /\ h \notin clients /\ h \in served)

LeavesNothing(h) ==
    /\ handler[h] = "ended" =>
           /\ transport[h] = "closed" /\ h \notin writers \union clients
           /\ h \in client_tasks => h \in served
    /\ handler[h] = "cut" =>
           /\ h \notin writers
           /\ transport[h] = "closed" \/ (h \notin clients /\ h \in served)

HandlerInv == \A h \in Handlers : InRegistries(h) /\ CutCleanly(h) /\ LeavesNothing(h)

LEMMA HandlerInvNext == ConnectionTypes /\ HandlerInv /\ [Next]_vars => HandlerInv'
<1> SUFFICES ASSUME ConnectionTypes, HandlerInv, [Next]_vars, NEW h \in Handlers
             PROVE  (InRegistries(h) /\ CutCleanly(h) /\ LeavesNothing(h))'
  BY DEF HandlerInv
<1>0. InRegistries(h) /\ CutCleanly(h) /\ LeavesNothing(h)
  BY DEF HandlerInv
<1> DEFINE Goal == (InRegistries(h) /\ CutCleanly(h) /\ LeavesNothing(h))'
<1> USE <1>0 DEF ConnectionTypes, InRegistries, CutCleanly, LeavesNothing
<1>1. ASSUME NEW c \in Calls, CallStep(c) PROVE Goal
  BY <1>1, CallsLeaveHandlers DEF handlerVars, registries
<1>2. ASSUME NEW caller \in Callers, Close(caller) PROVE Goal
  BY <1>2 DEF Close, CancelTasks, AbortWriters, Ended
<1>3. ASSUME NEW g \in Handlers, Accept(g) PROVE Goal
  BY <1>3 DEF Accept, Advance, registries
<1>4. ASSUME NEW g \in Handlers, Receive(g) PROVE Goal
  BY <1>4 DEF Receive, Advance, registries
<1>13. ASSUME NEW g \in Handlers, Decode(g) PROVE Goal
  BY <1>13 DEF Decode, Advance, registries
<1>5. ASSUME NEW g \in Handlers, Disconnects(g) PROVE Goal
  BY <1>5 DEF Disconnects, registries
<1>6. ASSUME NEW g \in Handlers, Register(g) PROVE Goal
  BY <1>6 DEF Register, Advance
<1>7. ASSUME NEW g \in Handlers, Connected(g) PROVE Goal
  BY <1>7 DEF Connected, Advance, registries
<1>8. ASSUME NEW g \in Handlers, ReadFails(g) PROVE Goal
  BY <1>8 DEF ReadFails, Advance, registries
<1>9. ASSUME NEW g \in Handlers, CleanUp(g) PROVE Goal
  BY <1>9 DEF CleanUp, Advance
<1>10. ASSUME NEW g \in Handlers, Finish(g) PROVE Goal
  BY <1>10 DEF Finish, Advance, registries
<1>11. ASSUME NEW g \in Handlers, CancelDelivered(g) PROVE Goal
  BY <1>11 DEF CancelDelivered, registries
<1>12. CASE UNCHANGED vars
  BY <1>12 DEF vars, handlerVars, registries
<1> QED
  BY <1>1, <1>2, <1>3, <1>4, <1>5, <1>6, <1>7, <1>8, <1>9, <1>10, <1>11, <1>12, <1>13
  DEF Next, CallStep, HandlerStep

\* A handler that ended has closed its writer and left the registries (but for
\* _client_tasks, if it received a request), and one that close() cut off leaves an open
\* transport only if it was waiting for the tasks of its requests: for any number of
\* connections and closes.
THEOREM HandlersForgotten == Spec => []Forgets
<1>1. Init => ConnectionTypes /\ HandlerInv
  BY ConnectionTypesInit DEF Init, HandlerInv, InRegistries, CutCleanly, LeavesNothing
<1>2. ConnectionTypes /\ HandlerInv /\ [Next]_vars => (ConnectionTypes /\ HandlerInv)'
  BY ConnectionTypesNext, HandlerInvNext
<1>3. HandlerInv => Forgets
  BY DEF HandlerInv, LeavesNothing, Forgets
<1> QED BY <1>1, <1>2, <1>3, PTL DEF Spec

-----------------------------------------------------------------------------
(* SubmitLoop: the first use of a client by one thread.                    *)

\* Some thread has started the loop, or is starting it.
Begun == {"starting", "waiting", "ensured", "submitted", "blocking", "done"}

\* If the first use does not overlap with another, one runner is created, and only its
\* user waits for it.
FirstUse ==
    /\ submit_loop \in {NoThread, submit_thread}
    /\ submit_thread # NoThread => submit_loop # NoThread \/ Starting # {}
    /\ \A u \in Users :
          /\ user[u] = "creating" => submit_thread = NoThread
          /\ user[u] = "starting" => runner[u] = "none"
          /\ user[u] \in {"starting", "waiting"} => submit_thread = u
          /\ user[u] \in Begun \ {"starting", "waiting"} => submit_loop # NoThread
          /\ runner[u] # "none" => submit_thread = u
          /\ runner[u] \in {"stored", "running"} => submit_loop = u
          /\ call_loop[u] # NoThread => call_loop[u] = submit_loop
          /\ user[u] = "submitted" => call_loop[u] # NoThread
          /\ user[u] # "blocking" /\ waits_for[u] = NoThread
    /\ \A u, v \in Starting : u = v
    /\ submit_ready => submit_loop # NoThread

\* SubmitTypeOK, without what it says of submit_ready.
LoopTypes ==
    /\ first_use_alone \in BOOLEAN
    /\ submit_loop \in Users \union {NoThread}
    /\ submit_thread \in Users \union {NoThread}
    /\ user \in [Users -> {"out", "failed", "creating"} \union Begun]
    /\ runner \in [Users -> {"none", "started", "stored", "running"}]
    /\ call_loop \in [Users -> Users \union {NoThread}]
    /\ waits_for \in [Users -> Users \union {NoThread}]

LoopInv == LoopTypes /\ (first_use_alone => FirstUse)

LEMMA LoopInit == SubmitInit => LoopInv
BY DEF SubmitInit, LoopInv, LoopTypes, FirstUse, Starting, Begun

LEMMA LoopTypesNext == LoopTypes /\ [SubmitNext]_submitVars => LoopTypes'
<1> SUFFICES ASSUME LoopTypes, [SubmitNext]_submitVars PROVE LoopTypes'
  OBVIOUS
<1> USE DEF LoopTypes, Begun, Move
<1>1. ASSUME NEW u \in Users, EnsureLoop(u) PROVE LoopTypes'
  BY <1>1 DEF EnsureLoop
<1>2. ASSUME NEW u \in Users, CreateThread(u) \/ StartThread(u) \/ LoopReady(u) PROVE LoopTypes'
  BY <1>2 DEF CreateThread, StartThread, LoopReady
<1>3. ASSUME NEW u \in Users, Submit(u) \/ RunCall(u) \/ WaitEnds(u) PROVE LoopTypes'
  BY <1>3 DEF Submit, RunCall, WaitEnds
<1>4. ASSUME NEW u \in Users, StoreLoop(u) \/ SetReady(u) PROVE LoopTypes'
  BY <1>4 DEF StoreLoop, SetReady
<1>5. CASE UNCHANGED submitVars
  BY <1>5 DEF submitVars
<1> QED BY <1>1, <1>2, <1>3, <1>4, <1>5 DEF SubmitNext, UserStep, RunnerStep

LEMMA FirstUseNext ==
    LoopTypes /\ first_use_alone /\ FirstUse /\ [SubmitNext]_submitVars => FirstUse'
<1> SUFFICES ASSUME LoopTypes, first_use_alone, FirstUse, [SubmitNext]_submitVars
             PROVE  FirstUse'
  OBVIOUS
<1> USE UsersAssumption DEF LoopTypes, Begun, Starting, Move
<1>1. ASSUME NEW u \in Users, EnsureLoop(u) PROVE FirstUse'
  BY <1>1 DEF EnsureLoop, Known, FirstUse
<1>2. ASSUME NEW u \in Users, CreateThread(u) PROVE FirstUse'
  BY <1>2 DEF CreateThread, FirstUse
<1>3. ASSUME NEW u \in Users, StartThread(u) PROVE FirstUse'
  BY <1>3 DEF StartThread, FirstUse
<1>4. ASSUME NEW u \in Users, LoopReady(u) PROVE FirstUse'
  BY <1>4 DEF LoopReady, FirstUse
<1>5. ASSUME NEW u \in Users, Submit(u) PROVE FirstUse'
  BY <1>5 DEF Submit, FirstUse
<1>6. ASSUME NEW u \in Users, RunCall(u) \/ WaitEnds(u) PROVE FirstUse'
  <2>1. CASE RunCall(u)
    BY <2>1 DEF RunCall, FirstUse
  <2>2. CASE WaitEnds(u)
    BY <2>2 DEF WaitEnds, FirstUse
  <2> QED BY <1>6, <2>1, <2>2
<1>7. ASSUME NEW u \in Users, StoreLoop(u) PROVE FirstUse'
  BY <1>7 DEF StoreLoop, FirstUse
<1>8. ASSUME NEW u \in Users, SetReady(u) PROVE FirstUse'
  BY <1>8 DEF SetReady, FirstUse
<1>9. CASE UNCHANGED submitVars
  BY <1>9 DEF submitVars, FirstUse
<1> QED
  BY <1>1, <1>2, <1>3, <1>4, <1>5, <1>6, <1>7, <1>8, <1>9 DEF SubmitNext, UserStep, RunnerStep

\* Any number of threads may use the client: if its first use does not overlap with
\* another, all calls run on one loop, which none of them blocks.
THEOREM OneLoopCorrect == SubmitSpec => []OneLoop
<1>1. LoopInv => OneLoop
  BY DEF LoopInv, LoopTypes, FirstUse, OneLoop
<1>2. LoopInv /\ [SubmitNext]_submitVars => LoopInv'
  <2> SUFFICES ASSUME LoopInv, [SubmitNext]_submitVars PROVE LoopInv'
    OBVIOUS
  <2>1. first_use_alone' = first_use_alone
    BY DEF SubmitNext, UserStep, RunnerStep, EnsureLoop, CreateThread, StartThread, LoopReady,
           Submit, RunCall, WaitEnds, StoreLoop, SetReady, submitVars
  <2> QED BY <2>1, LoopTypesNext, FirstUseNext DEF LoopInv
<1> QED BY <1>1, <1>2, LoopInit, PTL DEF SubmitSpec

-----------------------------------------------------------------------------
(* Commands: what is registered, and what clients were told of it.         *)

Route == [command : UserNames, endpoint : Endpoints]
RouteTypes ==
    /\ routes \in [Registries -> Seq(Route)]
    /\ push_routes \in [Registries -> Seq(UserNames)]

\* Registries only grow.
Grown(old, new) ==
    \A g \in Registries : /\ Len(old[g]) <= Len(new[g])
                          /\ \A i \in 1..Len(old[g]) : new[g][i] = old[g][i]
\* A registry has a command once.
Once(rs) == \A i, j \in 1..Len(rs) : rs[i].command = rs[j].command => i = j
Unique == \A g \in Registries : Once(routes[g])

\* Accepted is a prefix without taken names.
LEMMA AcceptedPrefix ==
    ASSUME NEW S, NEW s \in Seq(S), NEW taken
    PROVE  \E k \in 0..Len(s) : /\ Accepted(s, taken) = SubSeq(s, 1, k)
                                /\ Accepted(s, taken) \in Seq(S) /\ Len(Accepted(s, taken)) = k
                                /\ \A i \in 1..k : s[i] \notin taken
<1> DEFINE bad == {i \in 1..Len(s) : s[i] \in taken}
<1>1. CASE bad = {}
  <2>1. s = SubSeq(s, 1, Len(s)) /\ Len(s) \in Nat
    BY SubSeqFull
  <2>2. Accepted(s, taken) = s
    BY <1>1 DEF Accepted
  <2>3. \A i \in 1..Len(s) : s[i] \notin taken
    BY <1>1
  <2>4. Len(s) \in 0..Len(s)
    BY <2>1
  <2> WITNESS Len(s) \in 0..Len(s)
  <2> QED BY <2>1, <2>2, <2>3
<1>2. CASE bad # {}
  <2>1. bad \in SUBSET Nat
    OBVIOUS
  <2> DEFINE first == CHOOSE i \in bad : \A j \in bad : i <= j
  <2> HIDE DEF bad
  <2>2. \E i \in bad : \A j \in bad : i <= j
    BY <1>2, <2>1, MinIsMember, Zenon
  <2>3. first \in bad /\ \A j \in bad : first <= j
    BY <2>2
  <2>4. Accepted(s, taken) = SubSeq(s, 1, first - 1)
    BY <1>2 DEF Accepted, bad
  <2> HIDE DEF first
  <2>5. first - 1 \in 0..Len(s) /\ \A i \in 1..first - 1 : s[i] \notin taken
    BY <2>3 DEF bad
  <2>6. SubSeq(s, 1, first - 1) \in Seq(S) /\ Len(SubSeq(s, 1, first - 1)) = first - 1
    BY <2>5
  <2> QED BY <2>4, <2>5, <2>6
<1> QED BY <1>1, <1>2

\* Registries without common commands.
LEMMA OnceConcat ==
    ASSUME NEW S, NEW s \in Seq(S), NEW t \in Seq(S), Once(s), Once(t),
           \A i \in 1..Len(s), j \in 1..Len(t) : s[i].command # t[j].command
    PROVE  Once(s \o t)
<1> DEFINE q == s \o t
           l == Len(s)
<1>1. /\ Len(q) = l + Len(t) /\ l \in Nat /\ Len(t) \in Nat
      /\ \A i \in 1..l + Len(t) : q[i] = IF i <= l THEN s[i] ELSE t[i - l]
  BY ConcatProperties
<1> HIDE DEF q, l
<1>2. /\ \A i \in 1..Len(q) : i <= l => i \in 1..l /\ q[i] = s[i]
      /\ \A i \in 1..Len(q) : ~(i <= l) => i - l \in 1..Len(t) /\ q[i] = t[i - l]
  BY <1>1
<1>3. Once(q)
  <2> SUFFICES ASSUME NEW i \in 1..Len(q), NEW j \in 1..Len(q), q[i].command = q[j].command
               PROVE  i = j
    BY DEF Once
  <2>1. CASE i <= l /\ j <= l
    BY <1>2, <2>1 DEF Once, l
  <2>2. CASE ~(i <= l) /\ ~(j <= l)
    <3>1. i - l = j - l
      BY <1>2, <2>2 DEF Once
    <3> QED BY <1>1, <3>1
  <2>3. CASE i <= l /\ ~(j <= l)
    BY <1>2, <2>3 DEF l
  <2>4. CASE ~(i <= l) /\ j <= l
    BY <1>2, <2>4 DEF l
  <2> QED BY <2>1, <2>2, <2>3, <2>4
<1> QED BY <1>3 DEF q

\* A registration appends to one registry.
LEMMA RegisteredGrows ==
    ASSUME RouteTypes, Unique, NEW g \in Registries, NEW a \in Seq(Route), NEW b \in Seq(UserNames),
           Registered(g, routes[g] \o a, push_routes[g] \o b),
           Once(routes[g] \o a)
    PROVE  RouteTypes' /\ Unique' /\ Grown(routes, routes') /\ Grown(push_routes, push_routes')
<1> DEFINE rs == routes[g] \o a
           ps == push_routes[g] \o b
<1>1. routes' = [routes EXCEPT ![g] = rs] /\ push_routes' = [push_routes EXCEPT ![g] = ps]
  BY DEF Registered
<1>2. routes[g] \in Seq(Route) /\ push_routes[g] \in Seq(UserNames)
  BY DEF RouteTypes
<1>3. /\ rs \in Seq(Route) /\ Len(routes[g]) <= Len(rs)
      /\ \A i \in 1..Len(routes[g]) : rs[i] = routes[g][i]
  BY <1>2
<1>4. /\ ps \in Seq(UserNames) /\ Len(push_routes[g]) <= Len(ps)
      /\ \A i \in 1..Len(push_routes[g]) : ps[i] = push_routes[g][i]
  BY <1>2
<1>5. Once(rs)
  OBVIOUS
<1> HIDE DEF rs, ps
<1>6. \A f \in Registries : /\ routes'[f] = IF f = g THEN rs ELSE routes[f]
                            /\ push_routes'[f] = IF f = g THEN ps ELSE push_routes[f]
  BY <1>1 DEF RouteTypes
<1>7. RouteTypes'
  BY <1>1, <1>3, <1>4 DEF RouteTypes
<1>8. Unique'
  BY <1>5, <1>6 DEF Unique
<1>9. \A f \in Registries : Len(routes[f]) \in Nat /\ Len(push_routes[f]) \in Nat
  BY DEF RouteTypes
<1>10. Grown(routes, routes')
  BY <1>3, <1>6, <1>9 DEF Grown
<1>11. Grown(push_routes, push_routes')
  BY <1>4, <1>6, <1>9 DEF Grown
<1> QED BY <1>7, <1>8, <1>10, <1>11

LEMMA CommandGrows ==
    ASSUME RouteTypes, Unique, NEW g \in Registries, NEW n \in Names, NEW e \in Endpoints,
           Command(g, n, e)
    PROVE  RouteTypes' /\ Unique' /\ Grown(routes, routes') /\ Grown(push_routes, push_routes')
<1> DEFINE new == [command |-> n, endpoint |-> e]
<1>1. routes[g] \in Seq(Route) /\ push_routes[g] \in Seq(UserNames) /\ Once(routes[g])
  BY DEF RouteTypes, Unique
<1>2. new \in Route /\ <<new>> \in Seq(Route) /\ <<>> \in Seq(UserNames)
  BY DEF Command, Route, UserNames
<1>3. Append(routes[g], new) = routes[g] \o <<new>> /\ push_routes[g] \o <<>> = push_routes[g]
  BY <1>1, <1>2, AppendIsConcat, ConcatEmptySeq
<1>4. Registered(g, routes[g] \o <<new>>, push_routes[g] \o <<>>)
  BY <1>3 DEF Command
<1>5. Once(routes[g] \o <<new>>)
  <2>1. \A i \in 1..Len(routes[g]) : routes[g][i].command # n
    BY DEF Command, CommandsOf
  <2>2. /\ Len(Append(routes[g], new)) = Len(routes[g]) + 1 /\ Len(routes[g]) \in Nat
        /\ \A i \in 1..Len(routes[g]) : Append(routes[g], new)[i] = routes[g][i]
        /\ Append(routes[g], new)[Len(routes[g]) + 1].command = n
    BY <1>1
  <2>3. Once(Append(routes[g], new))
    BY <1>1, <2>1, <2>2 DEF Once
  <2> QED BY <1>3, <2>3
<1> QED BY <1>2, <1>4, <1>5, RegisteredGrows

LEMMA PushGrows ==
    ASSUME RouteTypes, Unique, NEW g \in Registries, NEW n \in Names, Push(g, n)
    PROVE  RouteTypes' /\ Unique' /\ Grown(routes, routes') /\ Grown(push_routes, push_routes')
<1>1. routes[g] \in Seq(Route) /\ push_routes[g] \in Seq(UserNames) /\ Once(routes[g])
  BY DEF RouteTypes, Unique
<1>2. n \in UserNames /\ <<n>> \in Seq(UserNames) /\ <<>> \in Seq(Route)
  BY DEF Push, UserNames
<1>3. Append(push_routes[g], n) = push_routes[g] \o <<n>> /\ routes[g] \o <<>> = routes[g]
  BY <1>1, <1>2, AppendIsConcat, ConcatEmptySeq
<1>4. Registered(g, routes[g] \o <<>>, push_routes[g] \o <<n>>) /\ Once(routes[g] \o <<>>)
  BY <1>1, <1>3 DEF Push
<1> QED BY <1>2, <1>4, RegisteredGrows

LEMMA IncludeGrows ==
    ASSUME RouteTypes, Unique, NEW g \in Registries, NEW r \in Registries, IncludeRouter(g, r)
    PROVE  RouteTypes' /\ Unique' /\ Grown(routes, routes') /\ Grown(push_routes, push_routes')
<1> DEFINE names == [i \in 1..Len(routes[r]) |-> routes[r][i].command]
           kept == Accepted(names, CommandsOf(routes[g]) \union ToSet(push_routes[g]))
           a == SubSeq(routes[r], 1, Len(kept))
           rs == routes[g] \o a
           ps == Accepted(push_routes[r], CommandsOf(rs) \union ToSet(push_routes[g]))
           b == IF kept = names THEN ps ELSE <<>>
<1>1. /\ routes[g] \in Seq(Route) /\ push_routes[g] \in Seq(UserNames) /\ Once(routes[g])
      /\ routes[r] \in Seq(Route) /\ push_routes[r] \in Seq(UserNames) /\ Once(routes[r])
  BY DEF RouteTypes, Unique
<1>2. names \in Seq(UserNames) /\ Len(names) = Len(routes[r])
      /\ \A i \in 1..Len(routes[r]) : names[i] = routes[r][i].command
  <2>1. \A i \in 1..Len(routes[r]) : routes[r][i].command \in UserNames
    <3>1. \A i \in 1..Len(routes[r]) : routes[r][i] \in Route
      BY <1>1
    <3> QED BY <3>1 DEF Route
  <2> QED BY <1>1, <2>1
<1> HIDE DEF names
<1>3. PICK k \in 0..Len(names) :
          /\ Len(kept) = k
          /\ \A i \in 1..k : names[i] \notin CommandsOf(routes[g]) \union ToSet(push_routes[g])
  BY <1>2, AcceptedPrefix
<1>4. PICK m \in 0..Len(push_routes[r]) : ps \in Seq(UserNames)
  BY <1>1, AcceptedPrefix
<1>5. b \in Seq(UserNames)
  BY <1>4
<1>6. Registered(g, routes[g] \o a, push_routes[g] \o b)
  <2>1. push_routes[g] \o <<>> = push_routes[g]
    BY <1>1, ConcatEmptySeq
  <2> QED BY <2>1 DEF IncludeRouter, names
<1> HIDE DEF kept, ps, b
<1>7. /\ a \in Seq(Route) /\ Len(a) = k /\ k \in Nat /\ k <= Len(routes[r])
      /\ \A i \in 1..k : a[i] = routes[r][i]
  BY <1>1, <1>2, <1>3
<1> HIDE DEF a
<1>8. Once(routes[g] \o a)
  <2>1. \A i \in 1..Len(routes[g]), j \in 1..k : routes[g][i].command # a[j].command
    BY <1>2, <1>3, <1>7 DEF CommandsOf
  <2>2. Once(a)
    BY <1>1, <1>7 DEF Once
  <2> QED BY <1>1, <1>7, <2>1, <2>2, OnceConcat
<1> QED BY <1>5, <1>6, <1>7, <1>8, RegisteredGrows

LEMMA RoutesNext ==
    ASSUME RouteTypes, Unique, [CommandsNext]_commandVars
    PROVE  RouteTypes' /\ Unique' /\ Grown(routes, routes') /\ Grown(push_routes, push_routes')
<1>1. CASE UNCHANGED <<routes, push_routes>>
  <2>1. \A f \in Registries : Len(routes[f]) \in Nat /\ Len(push_routes[f]) \in Nat
    BY DEF RouteTypes
  <2> QED BY <1>1, <2>1 DEF RouteTypes, Unique, Grown
<1>2. ASSUME NEW g \in Registries, NEW n \in Names, NEW e \in Endpoints, Command(g, n, e)
      PROVE  RouteTypes' /\ Unique' /\ Grown(routes, routes') /\ Grown(push_routes, push_routes')
  BY <1>2, CommandGrows
<1>3. ASSUME NEW g \in Registries, NEW n \in Names, Push(g, n)
      PROVE  RouteTypes' /\ Unique' /\ Grown(routes, routes') /\ Grown(push_routes, push_routes')
  BY <1>3, PushGrows
<1>4. ASSUME NEW g \in Registries, NEW r \in Routers, IncludeRouter(g, r)
      PROVE  RouteTypes' /\ Unique' /\ Grown(routes, routes') /\ Grown(push_routes, push_routes')
  BY <1>4, IncludeGrows DEF Registries
<1>5. TakeSchema => UNCHANGED <<routes, push_routes>>
  BY DEF TakeSchema
<1>6. \A c \in Invocations, n \in Names, args \in Arguments :
          Call(c, n, args) \/ RawCall(c, n, args) => UNCHANGED <<routes, push_routes>>
  BY DEF Call, RawCall
<1>7. \A c \in Invocations : Serve(c) => UNCHANGED <<routes, push_routes>>
  BY DEF Serve
<1>8. UNCHANGED commandVars => UNCHANGED <<routes, push_routes>>
  BY DEF commandVars
<1> QED BY <1>1, <1>2, <1>3, <1>4, <1>5, <1>6, <1>7, <1>8 DEF CommandsNext

\* What is registered stays, once.
LEMMA RegisteredStays ==
    ASSUME RouteTypes, Unique, [CommandsNext]_commandVars
    PROVE  /\ ToSet(routes["server"]) \subseteq ToSet(routes["server"])'
           /\ ToSet(push_routes["server"]) \subseteq ToSet(push_routes["server"])'
           /\ \A r, q \in ToSet(routes["server"]) : r.command = q.command => r = q
           /\ ToSet(routes["server"]) \subseteq Route /\ ToSet(push_routes["server"]) \subseteq UserNames
<1>1. "server" \in Registries
  BY DEF Registries
<1>2. RouteTypes' /\ Grown(routes, routes') /\ Grown(push_routes, push_routes')
  BY RoutesNext
<1>3. /\ routes["server"] \in Seq(Route) /\ push_routes["server"] \in Seq(UserNames)
      /\ routes'["server"] \in Seq(Route) /\ push_routes'["server"] \in Seq(UserNames)
  BY <1>1, <1>2 DEF RouteTypes
<1>4. /\ Len(routes["server"]) <= Len(routes'["server"])
      /\ \A i \in 1..Len(routes["server"]) : routes'["server"][i] = routes["server"][i]
  BY <1>1, <1>2 DEF Grown
<1>5. /\ Len(push_routes["server"]) <= Len(push_routes'["server"])
      /\ \A i \in 1..Len(push_routes["server"]) : push_routes'["server"][i] = push_routes["server"][i]
  BY <1>1, <1>2 DEF Grown
<1>6. ToSet(routes["server"]) \subseteq ToSet(routes["server"])'
  BY <1>3, <1>4 DEF ToSet
<1>7. ToSet(push_routes["server"]) \subseteq ToSet(push_routes["server"])'
  BY <1>3, <1>5 DEF ToSet
<1>8. Once(routes["server"])
  BY <1>1 DEF Unique
<1>9. \A r, q \in ToSet(routes["server"]) : r.command = q.command => r = q
  <2>1. \A r \in ToSet(routes["server"]) : \E i \in 1..Len(routes["server"]) : routes["server"][i] = r
    BY <1>3 DEF ToSet
  <2> QED BY <1>8, <2>1 DEF Once
<1>10. ToSet(routes["server"]) \subseteq Route /\ ToSet(push_routes["server"]) \subseteq UserNames
  BY <1>3 DEF ToSet
<1> QED BY <1>6, <1>7, <1>9, <1>10

LEMMA RoutesInit == CommandsInit => RouteTypes /\ Unique
BY DEF CommandsInit, RouteTypes, Unique, Once

LEMMA SnapshotNext ==
    RouteTypes /\ Unique /\ SnapshotServed /\ [CommandsNext]_commandVars => SnapshotServed'
<1> SUFFICES ASSUME RouteTypes, Unique, SnapshotServed, [CommandsNext]_commandVars
             PROVE  SnapshotServed'
  OBVIOUS
<1>1. CASE TakeSchema
  <2>1. /\ definitions' = <<CommandSchema>> /\ UNCHANGED <<routes, push_routes>>
        /\ \A i \in 1..Len(routes["server"]) : routes["server"][i].command \in NonStrings
                                              \/ routes["server"][i].endpoint \notin Unsupported
    BY <1>1 DEF TakeSchema
  <2>2. routes["server"] \in Seq(Route)
    BY DEF RouteTypes, Registries
  <2>3. \A r \in ToSet(routes["server"]) : r.command \in NonStrings \/ r.endpoint \notin Unsupported
    BY <2>1, <2>2 DEF ToSet
  <2>4. ASSUME NEW d \in CommandSchema
        PROVE  IF d.push THEN d.command \in ToSet(push_routes["server"])
               ELSE \E r \in ToSet(routes["server"]) :
                       /\ r.command = d.command /\ r.endpoint \notin Unsupported
                       /\ d.params = Params[r.endpoint] /\ d.required = Required[r.endpoint]
    BY <2>3 DEF CommandSchema
  <2>5. definitions'[1] = CommandSchema
    BY <2>1
  <2> QED BY <2>1, <2>4, <2>5 DEF SnapshotServed
<1>2. CASE UNCHANGED definitions
  BY <1>2, RegisteredStays DEF SnapshotServed
<1>3. TakeSchema \/ UNCHANGED definitions
  BY DEF CommandsNext, Command, Push, IncludeRouter, Registered, Call, RawCall, Serve, commandVars
<1> QED BY <1>1, <1>2, <1>3

\* All a client was told stays true, whatever is registered after it asked.
THEOREM SnapshotServedCorrect == CommandsSpec => []SnapshotServed
<1>1. CommandsInit => SnapshotServed
  BY DEF CommandsInit, SnapshotServed
<1> QED BY <1>1, RoutesInit, RoutesNext, SnapshotNext, PTL DEF CommandsSpec

-----------------------------------------------------------------------------
(* Commands: what is checked, on both sides.                               *)

Places ==
    {"idle", "sent", "raw", "ran", "rejected", "not_found", "invalid_arguments",
     "AttributeError", "TypeError", "KeyError", "EncodeError"}
CallTypes ==
    invocation \in [Invocations -> [at : Places, command : Names \union {ReservedName},
                                    args : Seq(ValueTypes)]]
DefinitionTypes == definitions # <<>> => definitions[1] \subseteq Definition

\* A request that was checked asks for a command that is there, with the arguments it
\* takes; those of a class the client knows are of that class.
SentChecked ==
    \A c \in Invocations :
        invocation[c].at = "sent" =>
            \E r \in ToSet(routes["server"]) :
                /\ r.command = invocation[c].command /\ r.endpoint \notin Unsupported
                /\ Binds(Required[r.endpoint], Params[r.endpoint], invocation[c].args)
                /\ \A i \in 1..Len(invocation[c].args) :
                       Params[r.endpoint][i] \in ClientChecked =>
                           invocation[c].args[i] = Params[r.endpoint][i]

CallInv ==
    /\ RouteTypes /\ Unique /\ SnapshotServed /\ DefinitionTypes /\ CallTypes
    /\ SentChecked /\ CheckedCallsAccepted /\ HandlerTypes

\* What a check passes on: as many arguments as it got, converted to the classes it knows.
Converted(checked, types, args, as) ==
    /\ as \in Seq(ValueTypes) /\ Len(as) = Len(args) /\ Len(args) \in Nat
    /\ \A i \in 1..Len(as) : types[i] \in checked => as[i] = types[i]

LEMMA PassedTypes ==
    ASSUME NEW strict, NEW checked, NEW types, NEW args \in Seq(ValueTypes),
           NEW as \in Passed(strict, checked, types, args)
    PROVE  Converted(checked, types, args, as)
<1>1. Len(args) \in Nat
  OBVIOUS
<1>2. as \in [1..Len(args) -> ValueTypes]
  BY DEF Passed
<1>3. as \in Seq(ValueTypes) /\ Len(as) = Len(args)
  <2>1. as \in Seq(ValueTypes)
    BY <1>1, <1>2, SeqDef
  <2>2. Len(as) \in Nat /\ DOMAIN as = 1..Len(as) /\ DOMAIN as = 1..Len(args)
    BY <1>2, <2>1, LenProperties
  <2>3. \A k, l \in Nat : 1..k = 1..l => k = l
    <3> SUFFICES ASSUME NEW k \in Nat, NEW l \in Nat, 1..k = 1..l PROVE k <= l /\ l <= k
      OBVIOUS
    <3>1. k = 0 \/ k \in 1..l
      OBVIOUS
    <3>2. l = 0 \/ l \in 1..k
      OBVIOUS
    <3> QED BY <3>1, <3>2
  <2> QED BY <1>1, <2>1, <2>2, <2>3
<1>4. \A i \in 1..Len(args) : as[i] \in Outcomes(strict, checked, types[i], args[i])
  BY DEF Passed
<1>5. \A i \in 1..Len(args) : types[i] \in checked => as[i] = types[i]
  BY <1>4 DEF Outcomes
<1> QED BY <1>1, <1>3, <1>5 DEF Converted

\* The wire changes no argument a JsonFrame can carry whose class the client checks.
LEMMA WireTypes ==
    ASSUME NEW args \in Seq(ValueTypes)
    PROVE  /\ OverTheWire(args) \in Seq(ValueTypes) /\ Len(OverTheWire(args)) = Len(args)
           /\ \A i \in 1..Len(args) : args[i] # "tuple" => OverTheWire(args)[i] = args[i]
<1>1. \A i \in 1..Len(args) : (IF args[i] = "tuple" THEN "list" ELSE args[i]) \in ValueTypes
  BY DEF ValueTypes
<1> QED BY <1>1 DEF OverTheWire

LEMMA CallInvInit == CommandsInit => CallInv
<1> SUFFICES ASSUME CommandsInit PROVE CallInv
  OBVIOUS
<1>1. RouteTypes /\ Unique
  BY RoutesInit
<1>2. SnapshotServed /\ DefinitionTypes
  BY DEF CommandsInit, SnapshotServed, DefinitionTypes
<1>3. \A c \in Invocations : invocation[c] = NoCall
  BY DEF CommandsInit
<1>4. SentChecked /\ CheckedCallsAccepted /\ HandlerTypes
  BY <1>3 DEF NoCall, SentChecked, CheckedCallsAccepted, HandlerTypes
<1>5. CallTypes
  <2>1. <<>> \in Seq(ValueTypes) /\ "idle" \in Places /\ ReservedName \in Names \union {ReservedName}
    BY DEF Places
  <2>2. invocation = [c \in Invocations |-> NoCall]
    BY DEF CommandsInit
  <2> QED BY <2>1, <2>2 DEF CallTypes, NoCall
<1> QED BY <1>1, <1>2, <1>4, <1>5 DEF CallInv

\* A registration, or a schema that is taken, disturbs no call.
LEMMA CallsStay ==
    ASSUME CallInv, [CommandsNext]_commandVars, UNCHANGED invocation
    PROVE  CallTypes' /\ SentChecked' /\ CheckedCallsAccepted' /\ HandlerTypes'
<1>1. ToSet(routes["server"]) \subseteq ToSet(routes["server"])'
  BY RegisteredStays DEF CallInv
<1>2. CallTypes'
  BY DEF CallInv, CallTypes
<1>3. SentChecked'
  BY <1>1 DEF CallInv, SentChecked
<1>4. CheckedCallsAccepted'
  BY <1>1 DEF CallInv, CheckedCallsAccepted
<1>5. HandlerTypes'
  BY <1>1 DEF CallInv, HandlerTypes
<1> QED BY <1>2, <1>3, <1>4, <1>5

\* What the three properties ask of one call, where it has been sent, refused or run.
MaySend(n, args) ==
    \E r \in ToSet(routes["server"]) :
        /\ r.command = n /\ r.endpoint \notin Unsupported
        /\ Binds(Required[r.endpoint], Params[r.endpoint], args)
        /\ \A i \in 1..Len(args) :
               Params[r.endpoint][i] \in ClientChecked => args[i] = Params[r.endpoint][i]
MayRefuse(n, args) ==
    \E r \in ToSet(routes["server"]) :
        /\ r.command = n
        /\ \E i \in 1..Len(args) : Params[r.endpoint][i] \in ServerChecked \ ClientChecked
MayRun(n, args) ==
    \E r \in ToSet(routes["server"]) :
        /\ r.command = n /\ Binds(Required[r.endpoint], Params[r.endpoint], args)
        /\ \A i \in 1..Len(args) : Params[r.endpoint][i] \in {args[i], "Any"}

\* The argument lists a caller passes.
LEMMA ArgumentTypes == ASSUME NEW args \in Arguments PROVE args \in Seq(ValueTypes)
<1>1. CASE args = <<>>
  BY <1>1
<1>2. ASSUME NEW v \in Values, args = <<v>> PROVE args \in Seq(ValueTypes)
  <2>1. v \in ValueTypes
    BY CommandsAssumption
  <2> HIDE DEF ValueTypes
  <2> QED BY <1>2, <2>1
<1> QED BY <1>1, <1>2 DEF Arguments

\* A call that gets somewhere; the others stay where they are.
LEMMA CallBecomes ==
    ASSUME CallInv, UNCHANGED routes, NEW c \in Invocations, NEW at \in Places,
           NEW n \in Names \union {ReservedName}, NEW args \in Seq(ValueTypes), Becomes(c, at, n, args),
           at # "not_found",
           at = "sent" => MaySend(n, args),
           at = "invalid_arguments" => MayRefuse(n, args),
           at = "ran" => MayRun(n, args)
    PROVE  CallTypes' /\ SentChecked' /\ CheckedCallsAccepted' /\ HandlerTypes'
<1>1. \A d \in Invocations :
          invocation'[d] = IF d = c THEN [at |-> at, command |-> n, args |-> args] ELSE invocation[d]
  BY DEF Becomes, CallInv, CallTypes
<1>2. CallTypes'
  BY DEF Becomes, CallInv, CallTypes
<1>3. SentChecked'
  BY <1>1 DEF CallInv, SentChecked, MaySend
<1>4. CheckedCallsAccepted'
  BY <1>1 DEF CallInv, CheckedCallsAccepted, MayRefuse
<1>5. HandlerTypes'
  BY <1>1 DEF CallInv, HandlerTypes, MayRun
<1> QED BY <1>2, <1>3, <1>4, <1>5

LEMMA CallKeeps ==
    ASSUME CallInv, NEW c \in Invocations, NEW n \in Names, NEW args \in Arguments, Call(c, n, args)
    PROVE  CallTypes' /\ SentChecked' /\ CheckedCallsAccepted' /\ HandlerTypes'
<1> DEFINE Goal == CallTypes' /\ SentChecked' /\ CheckedCallsAccepted' /\ HandlerTypes'
<1>1. UNCHANGED routes /\ definitions # <<>> /\ n \in Names \union {ReservedName}
  BY DEF Call
<1>2. args \in Seq(ValueTypes)
  BY ArgumentTypes
<1>3. ASSUME NEW as \in Seq(ValueTypes), NEW at \in {"AttributeError", "TypeError", "KeyError", "EncodeError"},
             Becomes(c, at, n, as)
      PROVE  Goal
  <2>1. at \in Places /\ at \notin {"not_found", "sent", "invalid_arguments", "ran"}
    BY DEF Places
  <2> QED BY <1>1, <1>3, <2>1, CallBecomes
<1>4. ASSUME NEW d \in FirstDefinition(n), NEW as \in Passed(client_strict, ClientChecked, d.params, args),
             Binds(d.required, d.params, args), ~d.push, Encodable(as),
             Becomes(c, "sent", n, OverTheWire(as))
      PROVE  Goal
  <2> DEFINE wire == OverTheWire(as)
  <2>1. /\ as \in Seq(ValueTypes) /\ Len(as) = Len(args)
        /\ \A i \in 1..Len(as) : d.params[i] \in ClientChecked => as[i] = d.params[i]
    <3>1. PICK strict, types, checked :
              strict = client_strict /\ types = d.params /\ checked = ClientChecked
      OBVIOUS
    <3>2. as \in Passed(strict, checked, types, args)
      BY <3>1
    <3>3. Converted(checked, types, args, as)
      BY <1>2, <3>2, PassedTypes, Zenon
    <3> QED BY <3>1, <3>3 DEF Converted
  <2>2. /\ wire \in Seq(ValueTypes) /\ Len(wire) = Len(as)
        /\ \A i \in 1..Len(as) : as[i] # "tuple" => wire[i] = as[i]
    BY <2>1, WireTypes
  <2>3. d \in definitions[1] /\ d.command = n
    BY DEF FirstDefinition
  <2>4. PICK r \in ToSet(routes["server"]) :
            /\ r.command = n /\ r.endpoint \notin Unsupported
            /\ d.params = Params[r.endpoint] /\ d.required = Required[r.endpoint]
    BY <1>1, <1>4, <2>3 DEF CallInv, SnapshotServed
  <2> HIDE DEF wire
  <2>5. Binds(Required[r.endpoint], Params[r.endpoint], wire)
    BY <1>4, <2>1, <2>2, <2>4 DEF Binds
  <2>6. \A i \in 1..Len(wire) : Params[r.endpoint][i] \in ClientChecked =>
                                    wire[i] = Params[r.endpoint][i]
    BY <2>1, <2>2, <2>4 DEF ClientChecked
  <2>7. MaySend(n, wire) /\ Becomes(c, "sent", n, wire)
    BY <1>4, <2>4, <2>5, <2>6 DEF MaySend, wire
  <2> QED BY <1>1, <2>2, <2>7, CallBecomes DEF Places
<1>5. ASSUME NEW d \in FirstDefinition(n), NEW as \in Passed(client_strict, ClientChecked, d.params, args)
      PROVE  as \in Seq(ValueTypes)
  <2>1. PICK strict, types, checked :
            strict = client_strict /\ types = d.params /\ checked = ClientChecked
    OBVIOUS
  <2>2. as \in Passed(strict, checked, types, args)
    BY <2>1
  <2>3. Converted(checked, types, args, as)
    BY <1>2, <2>2, PassedTypes, Zenon
  <2> QED BY <2>3 DEF Converted
<1> HIDE DEF Goal
<1>6. Goal
  BY <1>2, <1>3, <1>4, <1>5 DEF Call
<1> QED BY <1>6 DEF Goal

LEMMA RawCallKeeps ==
    ASSUME CallInv, NEW c \in Invocations, NEW n \in Names, NEW args \in Arguments, RawCall(c, n, args)
    PROVE  CallTypes' /\ SentChecked' /\ CheckedCallsAccepted' /\ HandlerTypes'
<1>1. UNCHANGED routes /\ Becomes(c, "raw", n, OverTheWire(args)) /\ n \in Names \union {ReservedName}
  BY DEF RawCall
<1>2. args \in Seq(ValueTypes)
  BY ArgumentTypes
<1>3. OverTheWire(args) \in Seq(ValueTypes)
  BY <1>2, WireTypes
<1> QED BY <1>1, <1>3, CallBecomes DEF Places

\* A request the client checked finds its command, and is refused only for an argument
\* of a class the client does not check.
LEMMA ServeKeeps ==
    ASSUME CallInv, NEW c \in Invocations, Serve(c),
           \A r, q \in ToSet(routes["server"]) : r.command = q.command => r = q
    PROVE  CallTypes' /\ SentChecked' /\ CheckedCallsAccepted' /\ HandlerTypes'
<1> DEFINE n == invocation[c].command
           args == invocation[c].args
           raw == invocation[c].at = "raw"
           found == {r \in ToSet(routes["server"]) : r.command = n}
           Goal == CallTypes' /\ SentChecked' /\ CheckedCallsAccepted' /\ HandlerTypes'
           Fails(error) == Becomes(c, IF raw THEN "rejected" ELSE error, n, args)
<1>1. /\ invocation[c].at \in {"sent", "raw"} /\ UNCHANGED routes
      /\ \/ found = {} /\ Fails("not_found")
         \/ \E r \in found :
               \/ InvalidArguments(r.endpoint, args) /\ Fails("invalid_arguments")
               \/ \E as \in HandlerArguments(r.endpoint, args) : Becomes(c, "ran", n, as)
  BY DEF Serve
<1>2. n \in Names \union {ReservedName} /\ args \in Seq(ValueTypes)
  BY DEF CallInv, CallTypes
<1>3. ~raw => \E r \in found :
                  /\ r.endpoint \notin Unsupported
                  /\ Binds(Required[r.endpoint], Params[r.endpoint], args)
                  /\ \A i \in 1..Len(args) : Params[r.endpoint][i] \in ClientChecked =>
                                                 args[i] = Params[r.endpoint][i]
  BY <1>1 DEF CallInv, SentChecked
<1>4. \A r, q \in found : r = q
  OBVIOUS
<1>5. found \subseteq ToSet(routes["server"]) /\ \A r \in found : r.command = n
  OBVIOUS
<1> HIDE DEF n, args, raw, found
<1>6. CASE raw /\ Becomes(c, "rejected", n, args)
  BY <1>1, <1>2, <1>6, CallBecomes DEF Places
<1>7. ASSUME ~raw, NEW r \in found, InvalidArguments(r.endpoint, args),
             Becomes(c, "invalid_arguments", n, args)
      PROVE  Goal
  <2>1. /\ r.endpoint \notin Unsupported /\ Binds(Required[r.endpoint], Params[r.endpoint], args)
        /\ \A i \in 1..Len(args) : Params[r.endpoint][i] \in ClientChecked =>
                                       args[i] = Params[r.endpoint][i]
    BY <1>3, <1>4, <1>7
  <2>2. Refusable(ServerChecked, Params[r.endpoint], args)
    BY <1>7, <2>1 DEF InvalidArguments
  <2>3. PICK i \in DOMAIN args : Params[r.endpoint][i] \in ServerChecked /\ args[i] # Params[r.endpoint][i]
    BY <2>2 DEF Refusable
  <2>4. i \in 1..Len(args) /\ Params[r.endpoint][i] \in ServerChecked \ ClientChecked
    BY <1>2, <2>1, <2>3
  <2>5. r \in ToSet(routes["server"]) /\ r.command = n
    BY <1>5
  <2>6. MayRefuse(n, args)
    BY <2>4, <2>5 DEF MayRefuse
  <2> QED BY <1>1, <1>2, <1>7, <2>6, CallBecomes DEF Places
<1>8. ASSUME NEW r \in found, NEW as \in HandlerArguments(r.endpoint, args), Becomes(c, "ran", n, as)
      PROVE  Goal
  <2>1. /\ Binds(Required[r.endpoint], Params[r.endpoint], args)
        /\ as \in Passed(server_strict, ServerChecked, Params[r.endpoint], args)
    BY DEF HandlerArguments
  <2>2. /\ as \in Seq(ValueTypes) /\ Len(as) = Len(args) /\ Len(args) \in Nat
        /\ \A i \in 1..Len(as) : Params[r.endpoint][i] \in ServerChecked => as[i] = Params[r.endpoint][i]
    <3>1. PICK strict, types, checked, given :
              /\ strict = server_strict /\ types = Params[r.endpoint]
              /\ checked = ServerChecked /\ given = args
      OBVIOUS
    <3>2. as \in Passed(strict, checked, types, given) /\ given \in Seq(ValueTypes)
      BY <1>2, <2>1, <3>1
    <3>3. Converted(checked, types, given, as)
      BY <3>2, PassedTypes, Zenon
    <3> QED BY <3>1, <3>3 DEF Converted
  <2>3. Binds(Required[r.endpoint], Params[r.endpoint], as)
    BY <2>1, <2>2 DEF Binds
  <2>4. \A i \in 1..Len(as) : Params[r.endpoint][i] \in {as[i], "Any"}
    <3>1. r.endpoint \in Endpoints
      <4>1. "server" \in Registries /\ routes["server"] \in Seq(Route)
        BY DEF CallInv, RouteTypes, Registries
      <4>2. r \in Route
        BY <1>5, <4>1 DEF ToSet
      <4> QED BY <4>2 DEF Route
    <3>2. Params[r.endpoint] \in Seq(Types) /\ Required[r.endpoint] \in Nat
      BY <3>1, CommandsAssumption
    <3>3. \A i \in 1..Len(as) : i \in 1..Len(Params[r.endpoint])
      BY <2>2, <2>3, <3>2 DEF Binds
    <3>4. \A i \in 1..Len(as) : Params[r.endpoint][i] \in Types
      <4> DEFINE types == Params[r.endpoint]
      <4>1. types \in Seq(Types) /\ \A i \in 1..Len(as) : i \in 1..Len(types)
        BY <3>2, <3>3
      <4> HIDE DEF types
      <4>2. \A S, t : t \in Seq(S) => \A i \in 1..Len(t) : t[i] \in S
        OBVIOUS
      <4>3. \A i \in 1..Len(as) : types[i] \in Types
        BY <4>1, <4>2, Zenon
      <4> QED BY <4>3 DEF types
    <3> QED BY <2>2, <3>4 DEF Types, ServerChecked
  <2>5. r \in ToSet(routes["server"]) /\ r.command = n
    BY <1>5
  <2>6. MayRun(n, as)
    BY <2>3, <2>4, <2>5 DEF MayRun
  <2> QED BY <1>1, <1>2, <1>8, <2>2, <2>6, CallBecomes DEF Places
<1>9. raw => (IF raw THEN "rejected" ELSE "not_found") = "rejected"
             /\ (IF raw THEN "rejected" ELSE "invalid_arguments") = "rejected"
  OBVIOUS
<1>10. ~raw => (IF raw THEN "rejected" ELSE "not_found") = "not_found"
             /\ (IF raw THEN "rejected" ELSE "invalid_arguments") = "invalid_arguments"
  OBVIOUS
<1>11. found = {} => raw
  BY <1>3
<1> QED
  <2>1. CASE found = {} /\ Fails("not_found")
    BY <1>6, <1>9, <1>11, <2>1
  <2>2. ASSUME NEW r \in found, InvalidArguments(r.endpoint, args), Fails("invalid_arguments")
        PROVE  Goal
    BY <1>6, <1>7, <1>9, <1>10, <2>2
  <2> QED BY <1>1, <1>8, <2>1, <2>2

LEMMA CallInvNext == CallInv /\ [CommandsNext]_commandVars => CallInv'
<1> SUFFICES ASSUME CallInv, [CommandsNext]_commandVars PROVE CallInv'
  OBVIOUS
<1>1. RouteTypes' /\ Unique' /\ SnapshotServed'
  BY RoutesNext, SnapshotNext DEF CallInv
<1>2. DefinitionTypes'
  <2>1. CASE UNCHANGED definitions
    BY <2>1 DEF CallInv, DefinitionTypes
  <2>2. CASE TakeSchema
    <3>1. ToSet(routes["server"]) \subseteq Route /\ ToSet(push_routes["server"]) \subseteq UserNames
      BY RegisteredStays DEF CallInv
    <3>2. CommandSchema \subseteq Definition
      <4>1. \A e \in Endpoints : Params[e] \in Seq(Types) /\ Required[e] \in Nat
        BY CommandsAssumption
      <4>2. \A r \in ToSet(routes["server"]) :
                [command |-> r.command, push |-> FALSE, params |-> Params[r.endpoint],
                 required |-> Required[r.endpoint]] \in Definition
        BY <3>1, <4>1 DEF Definition, Route
      <4>3. \A n \in ToSet(push_routes["server"]) :
                [command |-> n, push |-> TRUE, params |-> <<>>, required |-> 0] \in Definition
        BY <3>1 DEF Definition
      <4> QED BY <4>2, <4>3 DEF CommandSchema
    <3>3. definitions' = <<CommandSchema>>
      BY <2>2 DEF TakeSchema
    <3> QED BY <3>2, <3>3 DEF DefinitionTypes
  <2>3. TakeSchema \/ UNCHANGED definitions
    BY DEF CommandsNext, Command, Push, IncludeRouter, Registered, Call, RawCall, Serve, commandVars
  <2> QED BY <2>1, <2>2, <2>3
<1>3. CallTypes' /\ SentChecked' /\ CheckedCallsAccepted' /\ HandlerTypes'
  <2>1. CASE UNCHANGED invocation
    BY <2>1, CallsStay
  <2>2. ASSUME NEW c \in Invocations, NEW n \in Names, NEW args \in Arguments,
               Call(c, n, args) \/ RawCall(c, n, args)
        PROVE  CallTypes' /\ SentChecked' /\ CheckedCallsAccepted' /\ HandlerTypes'
    BY <2>2, CallKeeps, RawCallKeeps
  <2>3. ASSUME NEW c \in Invocations, Serve(c)
        PROVE  CallTypes' /\ SentChecked' /\ CheckedCallsAccepted' /\ HandlerTypes'
    BY <2>3, ServeKeeps, RegisteredStays DEF CallInv
  <2>4. \/ UNCHANGED invocation
        \/ \E c \in Invocations : \E n \in Names, args \in Arguments :
               Call(c, n, args) \/ RawCall(c, n, args)
        \/ \E c \in Invocations : Serve(c)
    BY DEF CommandsNext, Command, Push, IncludeRouter, Registered, TakeSchema, commandVars
  <2> QED BY <2>1, <2>2, <2>3, <2>4
<1> QED BY <1>1, <1>2, <1>3 DEF CallInv

\* A handler runs with arguments of the types it declares, whoever calls it and
\* whatever was registered while the call was on its way.
THEOREM HandlerTypesCorrect == CommandsSpec => []HandlerTypes
<1>1. CallInv => HandlerTypes
  BY DEF CallInv
<1> QED BY <1>1, CallInvInit, CallInvNext, PTL DEF CommandsSpec

\* The server refuses a call that a client has checked only for an argument of a class
\* the client does not know, whatever strict_type_check says on either side.
THEOREM CheckedCallsCorrect == CommandsSpec => []CheckedCallsAccepted
<1>1. CallInv => CheckedCallsAccepted
  BY DEF CallInv
<1> QED BY <1>1, CallInvInit, CallInvNext, PTL DEF CommandsSpec


-----------------------------------------------------------------------------
(* The types of the components' variables.                                 *)

\* A runner that has gone past it has stored its loop.
LoopStored == \A r \in Users : runner[r] \in {"stored", "running"} => submit_loop # NoThread

SubmitTypeInv == SubmitTypeOK /\ LoopStored

LEMMA SubmitTypeNext == SubmitTypeInv /\ [SubmitNext]_submitVars => SubmitTypeInv'
<1> SUFFICES ASSUME SubmitTypeInv, [SubmitNext]_submitVars PROVE SubmitTypeInv'
  OBVIOUS
<1> USE UsersAssumption DEF SubmitTypeInv, SubmitTypeOK, LoopStored, Move
<1>1. ASSUME NEW u \in Users, EnsureLoop(u) PROVE SubmitTypeInv'
  BY <1>1 DEF EnsureLoop
<1>2. ASSUME NEW u \in Users, CreateThread(u) PROVE SubmitTypeInv'
  BY <1>2 DEF CreateThread
<1>3. ASSUME NEW u \in Users, StartThread(u) PROVE SubmitTypeInv'
  BY <1>3 DEF StartThread
<1>4. ASSUME NEW u \in Users, LoopReady(u) PROVE SubmitTypeInv'
  BY <1>4 DEF LoopReady
<1>5. ASSUME NEW u \in Users, Submit(u) PROVE SubmitTypeInv'
  BY <1>5 DEF Submit
<1>6. ASSUME NEW u \in Users, RunCall(u) \/ WaitEnds(u) PROVE SubmitTypeInv'
  BY <1>6 DEF RunCall, WaitEnds
<1>7. ASSUME NEW u \in Users, StoreLoop(u) PROVE SubmitTypeInv'
  BY <1>7 DEF StoreLoop
<1>8. ASSUME NEW u \in Users, SetReady(u) PROVE SubmitTypeInv'
  BY <1>8 DEF SetReady
<1>9. CASE UNCHANGED submitVars
  BY <1>9 DEF submitVars
<1> QED
  BY <1>1, <1>2, <1>3, <1>4, <1>5, <1>6, <1>7, <1>8, <1>9 DEF SubmitNext, UserStep, RunnerStep

\* The attributes of the submit loop are well typed, and a loop that is ready is known.
THEOREM SubmitTypeCorrect == SubmitSpec => []SubmitTypeOK
<1>1. SubmitInit => SubmitTypeInv
  BY DEF SubmitInit, SubmitTypeInv, SubmitTypeOK, LoopStored
<1>2. SubmitTypeInv => SubmitTypeOK
  BY DEF SubmitTypeInv
<1> QED BY <1>1, <1>2, SubmitTypeNext, PTL DEF SubmitSpec

SettingTypes ==
    client_strict \in BOOLEAN /\ server_strict \in BOOLEAN /\ definitions \in Seq(SUBSET Definition)

\* The registries, the client's snapshot of them and the calls are well typed.
THEOREM CommandsTypeCorrect == CommandsSpec => []CommandsTypeOK
<1>1. CommandsInit => CallInv /\ SettingTypes
  <2>1. <<>> \in Seq(SUBSET Definition)
    OBVIOUS
  <2> QED BY <2>1, CallInvInit DEF CommandsInit, SettingTypes
<1>2. CallInv /\ SettingTypes /\ [CommandsNext]_commandVars => (CallInv /\ SettingTypes)'
  <2> SUFFICES ASSUME CallInv, SettingTypes, [CommandsNext]_commandVars PROVE SettingTypes'
    BY CallInvNext
  <2>1. DefinitionTypes'
    BY CallInvNext DEF CallInv
  <2>2. UNCHANGED definitions \/ definitions' = <<CommandSchema>>
    BY DEF CommandsNext, Command, Push, IncludeRouter, Registered, TakeSchema, Call, RawCall, Serve, commandVars
  <2>3. definitions' \in Seq(SUBSET Definition)
    <3>1. CASE UNCHANGED definitions
      BY <3>1 DEF SettingTypes
    <3>2. CASE definitions' = <<CommandSchema>>
      <4>1. CommandSchema \in SUBSET Definition
        BY <2>1, <3>2 DEF DefinitionTypes
      <4>2. \A x \in SUBSET Definition : <<x>> \in Seq(SUBSET Definition)
        OBVIOUS
      <4> QED BY <3>2, <4>1, <4>2
    <3> QED BY <2>2, <3>1, <3>2
  <2>4. UNCHANGED <<client_strict, server_strict>>
    BY DEF CommandsNext, Command, Push, IncludeRouter, Registered, TakeSchema, Call, RawCall, Serve, commandVars
  <2> QED BY <2>3, <2>4 DEF SettingTypes
<1>3. CallInv /\ SettingTypes => CommandsTypeOK
  BY DEF CallInv, RouteTypes, Route, CallTypes, Places, SettingTypes, CommandsTypeOK
<1> QED BY <1>1, <1>2, <1>3, PTL DEF CommandsSpec

-----------------------------------------------------------------------------
(* MCComponents: the three components side by side.                        *)

LEMMA ComponentsParts == ComponentsInit => Init /\ CommandsInit /\ SubmitInit
BY DEF ComponentsInit

\* A step of the whole is a step of one component, and the others stutter.
LEMMA ComponentsStep ==
    [ComponentsNext]_componentVars =>
        [Next]_vars /\ [CommandsNext]_commandVars /\ [SubmitNext]_submitVars
<1> SUFFICES ASSUME [ComponentsNext]_componentVars
             PROVE  [Next]_vars /\ [CommandsNext]_commandVars /\ [SubmitNext]_submitVars
  OBVIOUS
<1>1. CASE Next /\ UNCHANGED <<component, commandVars, submitVars>>
  BY <1>1
<1>2. CASE CommandsNext /\ UNCHANGED <<component, vars, submitVars>>
  BY <1>2
<1>3. CASE SubmitNext /\ UNCHANGED <<component, vars, commandVars>>
  BY <1>3
<1>4. CASE UNCHANGED componentVars
  BY <1>4 DEF componentVars
<1> QED BY <1>1, <1>2, <1>3, <1>4 DEF ComponentsNext

\* A behaviour of MCComponents is, seen through the variables of one component, a behaviour
\* of that component's specification, with its fairness: what is proved of each holds of the
\* whole.
THEOREM ComponentsComposed ==
    ComponentsSpec => Spec /\ Fairness /\ CommandsSpec /\ SubmitSpec /\ SubmitFairness
BY ComponentsParts, ComponentsStep, PTL DEF ComponentsSpec, Spec, CommandsSpec, SubmitSpec

\* No component's behaviours are left out: whatever one does while the others rest in one of
\* their initial states is a behaviour of the run.
THEOREM ComponentsExplored ==
    /\ component = "lifecycle" /\ Spec /\ CommandsInit /\ client_strict /\ server_strict
       /\ SubmitInit /\ sync /\ first_use_alone /\ [][FALSE]_<<component, commandVars, submitVars>>
       => ComponentsInit /\ [][ComponentsNext]_componentVars
    /\ component = "commands" /\ CommandsSpec /\ Init /\ ~overlapping
       /\ SubmitInit /\ sync /\ first_use_alone /\ [][FALSE]_<<component, vars, submitVars>>
       => ComponentsInit /\ [][ComponentsNext]_componentVars
    /\ component = "submitting" /\ SubmitSpec /\ Init /\ ~overlapping
       /\ CommandsInit /\ client_strict /\ server_strict /\ [][FALSE]_<<component, vars, commandVars>>
       => ComponentsInit /\ [][ComponentsNext]_componentVars
<1>1. /\ component = "lifecycle" /\ Init /\ CommandsInit /\ client_strict /\ server_strict
         /\ SubmitInit /\ sync /\ first_use_alone => ComponentsInit
      /\ component = "commands" /\ CommandsInit /\ Init /\ ~overlapping
         /\ SubmitInit /\ sync /\ first_use_alone => ComponentsInit
      /\ component = "submitting" /\ SubmitInit /\ Init /\ ~overlapping
         /\ CommandsInit /\ client_strict /\ server_strict => ComponentsInit
  BY DEF ComponentsInit
<1>2. component = "lifecycle" /\ [FALSE]_<<component, commandVars, submitVars>> /\ [Next]_vars
         => (component = "lifecycle")' /\ [ComponentsNext]_componentVars
  BY DEF ComponentsNext, componentVars
<1>3. component = "commands" /\ [FALSE]_<<component, vars, submitVars>> /\ [CommandsNext]_commandVars
         => (component = "commands")' /\ [ComponentsNext]_componentVars
  BY DEF ComponentsNext, componentVars
<1>4. component = "submitting" /\ [FALSE]_<<component, vars, commandVars>> /\ [SubmitNext]_submitVars
         => (component = "submitting")' /\ [ComponentsNext]_componentVars
  BY DEF ComponentsNext, componentVars
<1> QED BY <1>1, <1>2, <1>3, <1>4, PTL DEF Spec, CommandsSpec, SubmitSpec

\* The types of the three components, explored in one run.
THEOREM ComponentsTypeCorrect == ComponentsSpec => []ComponentsTypeOK
BY ComponentsComposed, LifecycleTypeCorrect, CommandsTypeCorrect, SubmitTypeCorrect, PTL
   DEF ComponentsTypeOK
=============================================================================
