-------------------------- MODULE ClientRequestsProofs --------------------------
(* Theorems about ClientRequests, for any calls and any bound on timeouts.      *)
EXTENDS ClientRequests, QueueLemmas

-----------------------------------------------------------------------------
(* Type correctness.                                                       *)

LEMMA TypeInit == Init => TypeOK
BY RequestBoundsAssumption, FrameTypesAssumption DEF Init, TypeOK, Frame

\* What a call leaves when it unregisters.
LEMMA TypeUnregister ==
    ASSUME TypeOK, NEW c \in Calls, Unregister(c)
    PROVE  pending' \subseteq Calls /\ none_pending' \in Seq(Calls) /\ remaining' \in [Calls -> Nat]
BY RemoveFirstType DEF TypeOK, Unregister

\* Registering, writing and draining keep the types.
LEMMA TypeRegistry ==
    ASSUME TypeOK, NEW c \in Calls, Register(c) \/ Write(c) \/ Drained(c)
    PROVE  TypeOK'
<1>1. RemoveFirst(write_lock, c) \in Seq(Calls)
  BY RemoveFirstType DEF TypeOK
<1>2. CASE Register(c)
  <2>1. pending' \subseteq Calls /\ none_pending' \in Seq(Calls) /\ remaining' \in [Calls -> Nat]
    <3>1. CASE sessioned
      BY <1>2, <3>1 DEF Register, TypeOK
    <3>2. CASE ~sessioned
      <4>1. /\ none_pending' = Append(none_pending, c) /\ UNCHANGED pending
            /\ remaining' = [remaining EXCEPT ![c] = ResponseFrames[c]]
        BY <1>2, <3>2 DEF Register
      <4>2. ResponseFrames[c] \in Nat
        BY RequestBoundsAssumption
      <4>3. QED
        BY <4>1, <4>2 DEF TypeOK
    <3>3. QED
      BY <3>1, <3>2
  <2>2. write_lock' \in Seq(Calls)
    BY <1>2 DEF Register, TypeOK
  <2>3. pc' \in [Calls -> {"idle", "locking", "draining", "waiting", "returned", "failed"}]
    BY <1>2 DEF Register, TypeOK, Goto
  <2>4. QED
    BY <1>2, <2>1, <2>2, <2>3 DEF Register, TypeOK, server
<1>3. CASE Write(c)
  BY <1>3 DEF Write, TypeOK, Goto, registry
<1>4. CASE Drained(c)
  BY <1>1, <1>4 DEF Drained, TypeOK, Goto, registry, server
<1>5. QED
  BY <1>2, <1>3, <1>4

\* So do taking a frame and the ways a call ends.
LEMMA TypeEnd ==
    ASSUME TypeOK, NEW c \in Calls, EncodeFails(c) \/ Take(c) \/ TimesOut(c)
    PROVE  TypeOK'
<1>1. RemoveFirst(write_lock, c) \in Seq(Calls)
  BY RemoveFirstType DEF TypeOK
<1>2. CASE EncodeFails(c)
  BY <1>1, <1>2, TypeUnregister DEF EncodeFails, TypeOK, Goto, server
<1>3. CASE TimesOut(c)
  BY <1>3, TypeUnregister DEF TimesOut, TypeOK, Goto, server
<1>4. CASE Take(c)
  <2>1. queue[c] \in Seq(Frame) /\ queue[c] # <<>> /\ results[c] \in Seq(Frame)
    BY <1>4 DEF Take, TypeOK
  <2>2. Head(queue[c]) \in Frame /\ Tail(queue[c]) \in Seq(Frame)
    BY <2>1
  <2>3. queue' \in [Calls -> Seq(Frame)]
    BY <1>4, <2>2 DEF Take, TypeOK
  <2>4. results' \in [Calls -> Seq(Frame)]
    BY <1>4, <2>1, <2>2 DEF Take, TypeOK
  <2>5. pending' \subseteq Calls /\ none_pending' \in Seq(Calls) /\ remaining' \in [Calls -> Nat]
    BY <1>4, TypeUnregister DEF Take, TypeOK, registry
  <2>6. pc' \in [Calls -> {"idle", "locking", "draining", "waiting", "returned", "failed"}]
    BY <1>4 DEF Take, TypeOK, Goto
  <2>7. QED
    BY <1>4, <2>3, <2>4, <2>5, <2>6 DEF Take, TypeOK, server
<1>5. QED
  BY <1>2, <1>3, <1>4

\* So do the server's frames.
LEMMA TypeServer ==
    ASSUME TypeOK, NEW c \in Calls, Answer(c)
    PROVE  TypeOK'
<1>1. ASSUME NEW kind \in {"value", "error"}, Send(c, kind)
      PROVE  sent' \in [Calls -> Nat] /\ incoming' \in Seq(Frame)
  <2>1. [call |-> c, kind |-> kind, seq |-> sent[c] + 1] \in Frame
    BY DEF Frame, TypeOK
  <2>2. QED
    BY <1>1, <2>1 DEF Send, TypeOK
<1>2. sent' \in [Calls -> Nat] /\ incoming' \in Seq(Frame) /\ answered' \subseteq Calls
  BY <1>1 DEF Answer, TypeOK
<1>3. QED
  BY <1>2 DEF Answer, TypeOK, calls, registry

\* So does the reader.
LEMMA TypeReader ==
    ASSUME TypeOK, ReadFrame \/ Deliver
    PROVE  TypeOK'
<1>1. CASE ReadFrame
  <2>1. Head(incoming) \in Frame /\ Tail(incoming) \in Seq(Frame)
    BY <1>1 DEF ReadFrame, TypeOK
  <2>2. QueueFor(Head(incoming)) # Nobody => QueueFor(Head(incoming)) \in Calls
    <3>1. Head(incoming).call \in Calls
      BY <2>1 DEF Frame
    <3>2. none_pending # <<>> => Head(none_pending) \in Calls
      BY DEF TypeOK
    <3> QED BY <3>1, <3>2 DEF QueueFor
  <2>3. QED
    BY <1>1, <2>1, <2>2 DEF ReadFrame, TypeOK, calls, registry, server
<1>2. CASE Deliver
  <2>1. PICK c \in Calls, frame \in Frame : target = <<c, frame>>
    <3>1. target \in Calls \X Frame
      BY <1>2 DEF Deliver, TypeOK
    <3>2. \E c \in Calls, frame \in Frame : target = <<c, frame>>
      BY <3>1
    <3>3. QED
      BY <3>2
  <2>2. queue' \in [Calls -> Seq(Frame)]
    BY <1>2, <2>1 DEF Deliver, TypeOK
  <2>3. pending' \subseteq Calls /\ none_pending' \in Seq(Calls) /\ remaining' \in [Calls -> Nat]
    <3>1. RemoveFirst(none_pending, c) \in Seq(Calls)
      BY RemoveFirstType DEF TypeOK
    <3>2. target[1] = c
      BY <2>1
    <3>3. CASE CountDown(c)
      BY <3>1, <3>3 DEF CountDown, TypeOK
    <3>4. QED
      BY <1>2, <3>2, <3>3 DEF Deliver, TypeOK, registry
  <2>4. QED
    BY <1>2, <2>2, <2>3 DEF Deliver, TypeOK, calls, server
<1>3. QED
  BY <1>1, <1>2

\* TypeOK is inductive.
LEMMA TypeNext == TypeOK /\ [Next]_vars => TypeOK'
<1> SUFFICES ASSUME TypeOK, [Next]_vars PROVE TypeOK'
  OBVIOUS
<1>1. CASE UNCHANGED vars
  BY <1>1 DEF TypeOK, vars, calls, registry, server
<1>2. QED
  BY <1>1, TypeRegistry, TypeEnd, TypeServer, TypeReader DEF Next, CallStep

\* The client's request state is well typed in every reachable state.
THEOREM RequestTypeCorrect == Spec => []TypeOK
BY TypeInit, TypeNext, PTL DEF Spec

-----------------------------------------------------------------------------
(* The order of requests and of the calls that wait without session ids.       *)

\* write_lock: who holds it or waits for it, and who has still to write.
InLock == {c \in Calls : pc[c] \in {"locking", "draining"}}
ToWrite == {c \in Calls : pc[c] = "locking"}
LockQueue == Queue(write_lock, InLock, ToWrite)

\* A call writes its request once, and before anything else happens to it.
WrittenOnce ==
    /\ \A i \in 1..Len(requests) : pc[requests[i]] \notin {"idle", "locking"}
    /\ Distinct(requests)
    /\ \A c \in Calls : pc[c] \in {"draining", "waiting"} => Contains(requests, c)

\* _none_pending holds the calls that still expect frames, each once.
Expecting ==
    /\ \A i \in 1..Len(none_pending) : remaining[none_pending[i]] > 0
    /\ \A c \in Calls : remaining[c] > 0 => Contains(none_pending, c)
    /\ Distinct(none_pending)
    /\ \A c \in Calls : remaining[c] > 0 => pc[c] \in {"locking", "draining", "waiting"}
InOrder ==
    \A i, j \in 1..Len(none_pending) :
        i < j => WrittenBefore(none_pending[i], none_pending[j])

LineInv == LockQueue /\ WrittenOnce /\ Expecting /\ InOrder

LEMMA ToSetContains ==
    ASSUME NEW S, NEW q \in Seq(S), NEW c
    PROVE  c \in ToSet(q) <=> Contains(q, c)
BY DEF ToSet, Contains

\* The elements of the sequences of calls are calls.
LEMMA AreCalls ==
    ASSUME TypeOK
    PROVE  /\ \A i \in 1..Len(requests) : requests[i] \in Calls
           /\ \A i \in 1..Len(none_pending) : none_pending[i] \in Calls
           /\ \A i \in 1..Len(write_lock) : write_lock[i] \in Calls
           /\ Len(requests) \in Nat /\ Len(none_pending) \in Nat /\ Len(write_lock) \in Nat
BY DEF TypeOK

LEMMA LineInit == Init => LineInv
<1> SUFFICES ASSUME Init PROVE LineInv
  OBVIOUS
<1>1. /\ write_lock = <<>> /\ requests = <<>> /\ none_pending = <<>>
      /\ \A c \in Calls : pc[c] = "idle" /\ remaining[c] = 0
  BY DEF Init
<1>2. LockQueue
  BY <1>1 DEF LockQueue, Queue, InLock, ToWrite
<1> QED BY <1>1, <1>2 DEF LineInv, WrittenOnce, Expecting, InOrder, Distinct

\* Steps that leave the lock and the requests alone, and the calls inside the lock.
LEMMA LineStays ==
    ASSUME TypeOK, LockQueue, WrittenOnce, NEW c \in Calls, UNCHANGED <<write_lock, requests>>,
           \A d \in Calls \ {c} : pc'[d] = pc[d],
           \/ pc'[c] = pc[c]
           \/ pc[c] = "waiting" /\ pc'[c] \in {"returned", "failed"}
    PROVE  LockQueue' /\ WrittenOnce'
<1>1. InLock' = InLock /\ ToWrite' = ToWrite
  BY DEF InLock, ToWrite
<1>2. LockQueue'
  BY <1>1 DEF LockQueue
<1>3. WrittenOnce'
  BY AreCalls DEF WrittenOnce
<1> QED BY <1>2, <1>3

\* Whoever was written before another still is, when nobody but c leaves the lock.
LEMMA StillBefore ==
    ASSUME TypeOK, NEW c, NEW x \in Calls, NEW y \in Calls, WrittenBefore(x, y),
           UNCHANGED requests,
           pc[x] = "locking" => x # c /\ pc'[x] = "locking",
           pc[y] = "locking" => y # c /\ pc'[y] = "locking",
           UNCHANGED write_lock \/ WithoutIt(write_lock, c, write_lock')
    PROVE  WrittenBefore(x, y)'
<1>1. CASE \E i, j \in 1..Len(requests) : i < j /\ requests[i] = x /\ requests[j] = y
  BY <1>1 DEF WrittenBefore
<1>2. CASE x \in ToSet(requests) /\ pc[y] = "locking"
  BY <1>2 DEF WrittenBefore
<1>3. CASE /\ pc[x] = "locking" /\ pc[y] = "locking"
           /\ \E i, j \in 1..Len(write_lock) : i < j /\ write_lock[i] = x /\ write_lock[j] = y
  <2>1. pc'[x] = "locking" /\ pc'[y] = "locking" /\ x # c /\ y # c
    BY <1>3
  <2>2. CASE UNCHANGED write_lock
    BY <1>3, <2>1, <2>2 DEF WrittenBefore
  <2>3. CASE WithoutIt(write_lock, c, write_lock')
    <3>1. PICK at \in [1..Len(write_lock') -> 1..Len(write_lock)] :
             /\ \A j \in 1..Len(write_lock') : write_lock'[j] = write_lock[at[j]]
             /\ \A j, m \in 1..Len(write_lock') : j < m => at[j] < at[m]
             /\ \A n \in 1..Len(write_lock) : write_lock[n] # c =>
                    \E j \in 1..Len(write_lock') : at[j] = n
      BY <2>3 DEF WithoutIt
    <3>2. PICK i \in 1..Len(write_lock), j \in 1..Len(write_lock) :
              i < j /\ write_lock[i] = x /\ write_lock[j] = y
      BY <1>3
    <3>3. PICK k \in 1..Len(write_lock'), l \in 1..Len(write_lock') : at[k] = i /\ at[l] = j
      BY <2>1, <3>1, <3>2
    <3>4. k < l
      <4>1. ~(l < k)
        BY <3>1, <3>2, <3>3
      <4>2. l # k
        BY <3>2, <3>3
      <4> QED BY <4>1, <4>2
    <3>5. write_lock'[k] = x /\ write_lock'[l] = y
      BY <3>1, <3>2, <3>3
    <3> QED BY <2>1, <3>4, <3>5 DEF WrittenBefore
  <2> QED BY <2>2, <2>3
<1> QED BY <1>1, <1>2, <1>3 DEF WrittenBefore

\* A call that expects no more frames leaves _none_pending.
LEMMA LeaveLine ==
    ASSUME TypeOK, Expecting, InOrder, NEW c \in Calls,
           none_pending' = RemoveFirst(none_pending, c),
           remaining' = [remaining EXCEPT ![c] = 0],
           \A d \in Calls \ {c} : pc'[d] = pc[d],
           \A x, y \in Calls \ {c} : WrittenBefore(x, y) => WrittenBefore(x, y)'
    PROVE  Expecting' /\ InOrder'
<1>1. \A d \in Calls : remaining'[d] = IF d = c THEN 0 ELSE remaining[d]
  BY DEF TypeOK
<1>2. none_pending \in Seq(Calls) /\ \A i \in 1..Len(none_pending) : none_pending[i] \in Calls
  BY DEF TypeOK
<1>3. \A d \in Calls : remaining'[d] > 0 => pc'[d] \in {"locking", "draining", "waiting"}
  BY <1>1 DEF Expecting
<1>4. CASE Contains(none_pending, c)
  <2>1. WithoutIt(none_pending, c, none_pending')
    BY <1>2, <1>4, RemoveFirstKeeps, Zenon DEF Expecting
  <2>2. PICK at \in [1..Len(none_pending') -> 1..Len(none_pending)] :
           /\ \A j \in 1..Len(none_pending') :
                  none_pending'[j] = none_pending[at[j]] /\ none_pending'[j] # c
           /\ \A j, m \in 1..Len(none_pending') : j < m => at[j] < at[m]
           /\ \A n \in 1..Len(none_pending) : none_pending[n] # c =>
                  \E j \in 1..Len(none_pending') : at[j] = n
    BY <2>1 DEF WithoutIt
  <2>3. \A j \in 1..Len(none_pending') : none_pending'[j] \in Calls \ {c}
                                         /\ remaining'[none_pending'[j]] > 0
    <3> TAKE j \in 1..Len(none_pending')
    <3>1. /\ at[j] \in 1..Len(none_pending)
          /\ none_pending'[j] = none_pending[at[j]] /\ none_pending'[j] # c
      BY <2>2
    <3>2. none_pending[at[j]] \in Calls /\ remaining[none_pending[at[j]]] > 0
      BY <1>2, <3>1 DEF Expecting
    <3> QED BY <1>1, <3>1, <3>2
  <2>4. \A d \in Calls : remaining'[d] > 0 => Contains(none_pending', d)
    <3> SUFFICES ASSUME NEW d \in Calls, remaining'[d] > 0 PROVE Contains(none_pending', d)
      OBVIOUS
    <3>1. d # c /\ remaining[d] > 0
      BY <1>1
    <3>2. PICK n \in 1..Len(none_pending) : none_pending[n] = d
      BY <3>1 DEF Expecting, Contains
    <3>3. PICK j \in 1..Len(none_pending') : at[j] = n
      BY <2>2, <3>1, <3>2
    <3> QED BY <2>2, <3>2, <3>3 DEF Contains
  <2>5. Distinct(none_pending')
    <3> SUFFICES ASSUME NEW j \in 1..Len(none_pending'), NEW m \in 1..Len(none_pending'),
                        none_pending'[j] = none_pending'[m]
                 PROVE  j = m
      BY DEF Distinct
    <3>1. at[j] = at[m]
      BY <2>2 DEF Expecting, Distinct
    <3>2. at[j] \in Int /\ at[m] \in Int /\ j \in Int /\ m \in Int
      OBVIOUS
    <3> QED BY <2>2, <3>1, <3>2
  <2>6. InOrder'
    <3> SUFFICES ASSUME NEW j \in 1..Len(none_pending'), NEW m \in 1..Len(none_pending'), j < m
                 PROVE  WrittenBefore(none_pending[j], none_pending[m])'
      BY DEF InOrder
    <3>1. WrittenBefore(none_pending[at[j]], none_pending[at[m]])
      BY <2>2 DEF InOrder
    <3> DEFINE x == none_pending[at[j]]
               y == none_pending[at[m]]
    <3>2. x \in Calls \ {c} /\ y \in Calls \ {c} /\ none_pending'[j] = x /\ none_pending'[m] = y
      BY <2>2, <2>3
    <3> HIDE DEF x, y
    <3>3. PICK u, v \in Calls \ {c} : u = x /\ v = y
      BY <3>2
    <3>4. WrittenBefore(u, v)'
      BY <3>1, <3>3 DEF x, y
    <3> QED BY <3>2, <3>3, <3>4 DEF WrittenBefore
  <2> QED BY <1>3, <2>3, <2>4, <2>5, <2>6 DEF Expecting
<1>5. CASE ~Contains(none_pending, c)
  <2>1. \A i \in 1..Len(none_pending) : none_pending[i] # c
    BY <1>5 DEF Contains
  <2>2. none_pending' = none_pending
    BY <1>2, <2>1, RemoveFirstAbsent
  <2>3. InOrder'
    BY <1>2, <2>1, <2>2 DEF InOrder
  <2> QED BY <1>1, <1>2, <1>3, <2>1, <2>2, <2>3 DEF Expecting, Contains
<1> QED BY <1>4, <1>5

\* A call registers at the end of both queues.
LEMMA LineRegister ==
    ASSUME TypeOK, LineInv, NEW c \in Calls, Register(c)
    PROVE  LineInv'
<1>1. /\ pc[c] = "idle" /\ write_lock' = Append(write_lock, c) /\ UNCHANGED requests
      /\ \A d \in Calls : pc'[d] = IF d = c THEN "locking" ELSE pc[d]
  BY DEF Register, Goto, TypeOK, server
<1>2. /\ write_lock \in Seq(Calls) /\ none_pending \in Seq(Calls)
      /\ Len(write_lock') = Len(write_lock) + 1 /\ Len(write_lock) \in Nat
      /\ write_lock'[Len(write_lock) + 1] = c
      /\ \A i \in 1..Len(write_lock) : write_lock'[i] = write_lock[i]
  BY <1>1 DEF TypeOK
<1>3. LockQueue'
  <2>1. InLock' = InLock \union {c} /\ c \notin InLock /\ ToWrite' = ToWrite \union {c}
    BY <1>1 DEF InLock, ToWrite
  <2>2. Queue(Append(write_lock, c), InLock \union {c}, ToWrite')
    <3>1. ToWrite \ {c} \subseteq ToWrite' /\ c \in ToWrite'
      BY <2>1
    <3> QED BY <1>2, <2>1, <3>1, QueueJoin, Zenon DEF LineInv, LockQueue
  <2> QED BY <1>1, <2>1, <2>2 DEF LockQueue
<1>4. WrittenOnce'
  BY <1>1, AreCalls DEF LineInv, WrittenOnce
<1>5. \A x, y \in Calls \ {c} : WrittenBefore(x, y) => WrittenBefore(x, y)'
  <2> SUFFICES ASSUME NEW x \in Calls \ {c}, NEW y \in Calls \ {c}, WrittenBefore(x, y)
               PROVE  WrittenBefore(x, y)'
    OBVIOUS
  <2>1. pc'[x] = pc[x] /\ pc'[y] = pc[y]
    BY <1>1
  <2>2. \A i \in 1..Len(write_lock) : i \in 1..Len(write_lock')
    BY <1>2
  <2> QED BY <1>1, <1>2, <2>1, <2>2 DEF WrittenBefore
<1>6. \A d \in Calls : remaining[d] > 0 => d # c
  BY <1>1 DEF LineInv, Expecting
<1>7. CASE sessioned
  <2>1. UNCHANGED <<none_pending, remaining>>
    BY <1>7 DEF Register
  <2>2. \A i \in 1..Len(none_pending) : none_pending[i] \in Calls \ {c}
    BY <1>6, AreCalls DEF LineInv, Expecting
  <2>3. Expecting'
    BY <1>1, <1>6, <2>1 DEF LineInv, Expecting
  <2>4. InOrder'
    BY <1>5, <2>1, <2>2 DEF LineInv, InOrder
  <2> QED BY <1>3, <1>4, <2>3, <2>4 DEF LineInv
<1>8. CASE ~sessioned
  <2>1. /\ none_pending' = Append(none_pending, c)
        /\ remaining' = [remaining EXCEPT ![c] = ResponseFrames[c]]
    BY <1>8 DEF Register
  <2>2. \A d \in Calls : IF d = c THEN remaining'[d] > 0 ELSE remaining'[d] = remaining[d]
    <3>1. ResponseFrames[c] \in Nat \ {0}
      BY RequestBoundsAssumption
    <3>2. ResponseFrames[c] > 0
      BY <3>1
    <3>3. remaining \in [Calls -> Nat]
      BY DEF TypeOK
    <3> QED BY <2>1, <3>2, <3>3
  <2>3. /\ Len(none_pending') = Len(none_pending) + 1 /\ Len(none_pending) \in Nat
        /\ none_pending'[Len(none_pending) + 1] = c
        /\ \A i \in 1..Len(none_pending) :
               none_pending'[i] = none_pending[i] /\ none_pending[i] \in Calls \ {c}
    BY <1>2, <1>6, <2>1 DEF LineInv, Expecting
  <2>4. \A i \in 1..Len(none_pending') : i \in 1..Len(none_pending) \/ i = Len(none_pending) + 1
    BY <2>3
  <2>5. Expecting'
    <3>1. \A i \in 1..Len(none_pending') : remaining'[none_pending'[i]] > 0
      BY <2>2, <2>3, <2>4 DEF LineInv, Expecting
    <3>2. \A d \in Calls : remaining'[d] > 0 => Contains(none_pending', d)
      BY <2>2, <2>3 DEF LineInv, Expecting, Contains
    <3>3. Distinct(none_pending')
      BY <2>3, <2>4 DEF LineInv, Expecting, Distinct
    <3>4. \A d \in Calls : remaining'[d] > 0 => pc'[d] \in {"locking", "draining", "waiting"}
      BY <1>1, <2>2 DEF LineInv, Expecting
    <3> QED BY <3>1, <3>2, <3>3, <3>4 DEF Expecting
  \* Whoever was registered is before it: in the lock's queue, or written.
  <2>6. ASSUME NEW d \in Calls \ {c}, pc[d] \in {"locking", "draining", "waiting"}
        PROVE  WrittenBefore(d, c)'
    <3>1. pc'[d] = pc[d] /\ pc'[c] = "locking"
      BY <1>1, <2>6
    <3>2. CASE pc[d] = "locking"
      <4>1. PICK k \in 1..Len(write_lock) : write_lock[k] = d
        BY <3>2 DEF LineInv, LockQueue, Queue, InLock
      <4>2. k < Len(write_lock) + 1 /\ k \in 1..Len(write_lock')
            /\ Len(write_lock) + 1 \in 1..Len(write_lock')
            /\ write_lock'[k] = d /\ write_lock'[Len(write_lock) + 1] = c
        BY <1>2, <4>1
      <4> QED BY <3>1, <3>2, <4>2 DEF WrittenBefore
    <3>3. CASE pc[d] \in {"draining", "waiting"}
      <4>1. d \in ToSet(requests)
        BY <3>3, ToSetContains DEF LineInv, WrittenOnce, TypeOK
      <4> QED BY <1>1, <3>1, <4>1 DEF WrittenBefore
    <3> QED BY <2>6, <3>2, <3>3
  <2>7. InOrder'
    <3> SUFFICES ASSUME NEW i \in 1..Len(none_pending'), NEW j \in 1..Len(none_pending'), i < j
                 PROVE  WrittenBefore(none_pending[i], none_pending[j])'
      BY DEF InOrder
    <3>1. i \in 1..Len(none_pending)
      BY <2>3
    <3>2. PICK x \in Calls \ {c} : x = none_pending[i] /\ x = none_pending'[i]
      BY <2>3, <3>1
    <3>3. CASE j \in 1..Len(none_pending)
      <4>1. PICK y \in Calls \ {c} : y = none_pending[j] /\ y = none_pending'[j]
        BY <2>3, <3>3
      <4>2. WrittenBefore(none_pending[i], none_pending[j])
        BY <3>1, <3>3 DEF LineInv, InOrder
      <4>3. WrittenBefore(x, y)'
        BY <1>5, <3>2, <4>1, <4>2
      <4> QED BY <3>2, <4>1, <4>3 DEF WrittenBefore
    <3>4. CASE j = Len(none_pending) + 1
      <4>1. pc[x] \in {"locking", "draining", "waiting"}
        BY <3>1, <3>2 DEF LineInv, Expecting
      <4>2. WrittenBefore(x, c)'
        BY <2>6, <4>1
      <4> QED BY <2>3, <3>2, <3>4, <4>2 DEF WrittenBefore
    <3> QED BY <2>4, <3>3, <3>4
  <2> QED BY <1>3, <1>4, <2>5, <2>7 DEF LineInv
<1> QED BY <1>7, <1>8

\* The head of the lock's queue writes: it was before all who have not written.
LEMMA LineWrite ==
    ASSUME TypeOK, LineInv, NEW c \in Calls, Write(c)
    PROVE  LineInv'
<1>1. /\ pc[c] = "locking" /\ Head(write_lock) = c /\ requests' = Append(requests, c)
      /\ UNCHANGED <<write_lock, none_pending, remaining>>
      /\ \A d \in Calls : pc'[d] = IF d = c THEN "draining" ELSE pc[d]
  BY DEF Write, Goto, TypeOK, registry
<1>2. /\ write_lock \in Seq(Calls) /\ requests \in Seq(Calls)
      /\ Len(requests') = Len(requests) + 1 /\ Len(requests) \in Nat
      /\ requests'[Len(requests) + 1] = c
      /\ \A i \in 1..Len(requests) : requests'[i] = requests[i] /\ requests[i] \in Calls
  BY <1>1 DEF TypeOK
<1>3. \A i \in 1..Len(requests') : i \in 1..Len(requests) \/ i = Len(requests) + 1
  BY <1>2
<1>4. \A i \in 1..Len(requests) : requests[i] # c /\ i \in 1..Len(requests')
  BY <1>1, <1>2 DEF LineInv, WrittenOnce
<1>5. LockQueue'
  <2>1. InLock' = InLock /\ ToWrite \ {c} \subseteq ToWrite'
    BY <1>1 DEF InLock, ToWrite
  <2>2. Queue(write_lock, InLock, ToWrite')
    BY <1>1, <1>2, <2>1, QueueStays, Zenon DEF LineInv, LockQueue
  <2> QED BY <1>1, <2>1, <2>2 DEF LockQueue
<1>6. WrittenOnce'
  <2>1. \A i \in 1..Len(requests') : pc'[requests'[i]] \notin {"idle", "locking"}
    BY <1>1, <1>2, <1>3 DEF LineInv, WrittenOnce
  <2>2. Distinct(requests')
    BY <1>2, <1>3, <1>4 DEF LineInv, WrittenOnce, Distinct
  <2>3. \A d \in Calls : pc'[d] \in {"draining", "waiting"} => Contains(requests', d)
    <3> SUFFICES ASSUME NEW d \in Calls, pc'[d] \in {"draining", "waiting"}
                 PROVE  Contains(requests', d)
      OBVIOUS
    <3>1. CASE d = c
      BY <1>2, <3>1 DEF Contains
    <3>2. CASE d # c
      <4>1. PICK i \in 1..Len(requests) : requests[i] = d
        BY <1>1, <3>2 DEF LineInv, WrittenOnce, Contains
      <4> QED BY <1>2, <1>4, <4>1 DEF Contains
    <3> QED BY <3>1, <3>2
  <2> QED BY <2>1, <2>2, <2>3 DEF WrittenOnce
<1>7. Expecting'
  BY <1>1 DEF LineInv, Expecting
<1>8. ASSUME NEW x \in Calls, NEW y \in Calls, WrittenBefore(x, y), x # y
      PROVE  WrittenBefore(x, y)'
  <2>0. Len(requests) + 1 \in 1..Len(requests')
    BY <1>2
  <2>1. CASE \E i, j \in 1..Len(requests) : i < j /\ requests[i] = x /\ requests[j] = y
    <3>1. PICK i \in 1..Len(requests), j \in 1..Len(requests) :
              i < j /\ requests[i] = x /\ requests[j] = y
      BY <2>1
    <3> QED BY <1>2, <1>4, <3>1 DEF WrittenBefore
  <2>2. CASE x \in ToSet(requests) /\ pc[y] = "locking"
    <3>1. PICK i \in 1..Len(requests) : requests[i] = x
      BY <1>2, <2>2, ToSetContains DEF Contains
    <3>2. CASE y = c
      <4>1. i < Len(requests) + 1 /\ requests'[i] = x
        BY <1>2, <3>1
      <4> QED BY <1>2, <1>4, <2>0, <3>2, <4>1 DEF WrittenBefore
    <3>3. CASE y # c
      <4>1. x \in ToSet(requests')
        BY <1>2, <1>4, <3>1 DEF ToSet
      <4> QED BY <1>1, <2>2, <3>3, <4>1 DEF WrittenBefore
    <3> QED BY <3>2, <3>3
  <2>3. CASE /\ pc[x] = "locking" /\ pc[y] = "locking"
             /\ \E i, j \in 1..Len(write_lock) : i < j /\ write_lock[i] = x /\ write_lock[j] = y
    <3>1. PICK i \in 1..Len(write_lock), j \in 1..Len(write_lock) :
              i < j /\ write_lock[i] = x /\ write_lock[j] = y
      BY <2>3
    <3>2. 1 \in 1..Len(write_lock) /\ write_lock[1] = c /\ j # 1
      BY <1>1, <1>2, <3>1
    <3>3. y # c
      BY <3>1, <3>2 DEF LineInv, LockQueue, Queue
    <3>4. CASE x = c
      <4>1. x \in ToSet(requests')
        BY <1>2, <2>0, <3>4 DEF ToSet
      <4> QED BY <1>1, <2>3, <3>3, <4>1 DEF WrittenBefore
    <3>5. CASE x # c
      BY <1>1, <2>3, <3>1, <3>3, <3>5 DEF WrittenBefore
    <3> QED BY <3>4, <3>5
  <2> QED BY <1>8, <2>1, <2>2, <2>3 DEF WrittenBefore
<1>9. InOrder'
  <2> SUFFICES ASSUME NEW i \in 1..Len(none_pending), NEW j \in 1..Len(none_pending), i < j
               PROVE  WrittenBefore(none_pending[i], none_pending[j])'
    BY <1>1 DEF InOrder
  <2>1. /\ WrittenBefore(none_pending[i], none_pending[j])
        /\ none_pending[i] # none_pending[j]
        /\ none_pending[i] \in Calls /\ none_pending[j] \in Calls
    BY AreCalls DEF LineInv, InOrder, Expecting, Distinct
  <2>2. PICK x, y \in Calls : x = none_pending[i] /\ y = none_pending[j]
    BY <2>1
  <2>3. WrittenBefore(x, y)'
    BY <1>8, <2>1, <2>2
  <2> QED BY <1>1, <2>2, <2>3 DEF WrittenBefore
<1> QED BY <1>5, <1>6, <1>7, <1>9 DEF LineInv

\* Who leaves the lock leaves the others in their order.
LEMMA LineUnlock ==
    ASSUME TypeOK, LineInv, NEW c \in Calls, Drained(c) \/ EncodeFails(c)
    PROVE  LineInv'
<1>1. PICK to \in {"waiting", "failed"} :
         /\ \A d \in Calls : pc'[d] = IF d = c THEN to ELSE pc[d]
         /\ to = "waiting" => pc[c] = "draining" /\ UNCHANGED registry
         /\ to = "failed" => pc[c] = "locking" /\ Unregister(c)
         /\ write_lock' = RemoveFirst(write_lock, c) /\ UNCHANGED requests
  BY DEF Drained, EncodeFails, Goto, TypeOK, server
<1>2. write_lock \in Seq(Calls) /\ Contains(write_lock, c) /\ Distinct(write_lock) /\ c \in InLock
  BY <1>1 DEF TypeOK, LineInv, LockQueue, Queue, InLock, Contains, Distinct
<1>3. WithoutIt(write_lock, c, write_lock')
  BY <1>1, <1>2, RemoveFirstKeeps, Zenon
<1>4. LockQueue'
  <2>1. InLock' = InLock \ {c} /\ ToWrite \ {c} \subseteq ToWrite'
    BY <1>1 DEF InLock, ToWrite
  <2>2. Queue(RemoveFirst(write_lock, c), InLock \ {c}, ToWrite')
    BY <1>2, <2>1, QueueLeave, Zenon DEF LineInv, LockQueue
  <2> QED BY <1>1, <2>1, <2>2 DEF LockQueue
<1>5. WrittenOnce'
  BY <1>1, AreCalls DEF LineInv, WrittenOnce
<1>6. CASE to = "waiting"
  <2>1. UNCHANGED <<none_pending, remaining>>
    BY <1>1, <1>6 DEF registry
  <2>2. Expecting'
    BY <1>1, <1>6, <2>1 DEF LineInv, Expecting
  <2>3. InOrder'
    <3> SUFFICES ASSUME NEW i \in 1..Len(none_pending), NEW j \in 1..Len(none_pending), i < j
                 PROVE  WrittenBefore(none_pending[i], none_pending[j])'
      BY <2>1 DEF InOrder
    <3>1. /\ WrittenBefore(none_pending[i], none_pending[j])
          /\ none_pending[i] \in Calls /\ none_pending[j] \in Calls
      BY AreCalls DEF LineInv, InOrder
    <3>2. \A d \in Calls : pc[d] = "locking" => d # c /\ pc'[d] = "locking"
      BY <1>1, <1>6
    <3>3. PICK x, y \in Calls : x = none_pending[i] /\ y = none_pending[j]
      BY <3>1
    <3>4. WrittenBefore(x, y)'
      BY <1>1, <1>3, <3>1, <3>2, <3>3, StillBefore
    <3> QED BY <2>1, <3>3, <3>4 DEF WrittenBefore
  <2> QED BY <1>4, <1>5, <2>2, <2>3 DEF LineInv
<1>7. CASE to = "failed"
  <2>1. \A x, y \in Calls \ {c} : WrittenBefore(x, y) => WrittenBefore(x, y)'
    <3> SUFFICES ASSUME NEW x \in Calls \ {c}, NEW y \in Calls \ {c}, WrittenBefore(x, y)
                 PROVE  WrittenBefore(x, y)'
      OBVIOUS
    <3>1. pc'[x] = pc[x] /\ pc'[y] = pc[y]
      BY <1>1
    <3> QED BY <1>1, <1>3, <3>1, StillBefore
  <2>2. Expecting' /\ InOrder'
    BY <1>1, <1>7, <2>1, LeaveLine DEF Unregister, LineInv
  <2> QED BY <1>4, <1>5, <2>2 DEF LineInv
<1> QED BY <1>1, <1>6, <1>7

\* A call ends, or the last frame it declared is put in its queue.
LEMMA LineLeave ==
    ASSUME TypeOK, LineInv, NEW c \in Calls, UNCHANGED <<write_lock, requests>>,
           none_pending' = RemoveFirst(none_pending, c),
           remaining' = [remaining EXCEPT ![c] = 0],
           \A d \in Calls \ {c} : pc'[d] = pc[d],
           \/ pc'[c] = pc[c]
           \/ pc[c] = "waiting" /\ pc'[c] \in {"returned", "failed"}
    PROVE  LineInv'
<1>1. LockQueue' /\ WrittenOnce'
  BY LineStays DEF LineInv
<1>2. \A x, y \in Calls \ {c} : WrittenBefore(x, y) => WrittenBefore(x, y)'
  <2> SUFFICES ASSUME NEW x \in Calls \ {c}, NEW y \in Calls \ {c}, WrittenBefore(x, y)
               PROVE  WrittenBefore(x, y)'
    OBVIOUS
  <2>1. pc'[x] = pc[x] /\ pc'[y] = pc[y]
    OBVIOUS
  <2> QED BY <2>1, StillBefore
<1>3. Expecting' /\ InOrder'
  BY <1>2, LeaveLine DEF LineInv
<1> QED BY <1>1, <1>3 DEF LineInv

\* Steps that leave calls, lock, requests and _none_pending alone.
LEMMA LineUnmoved ==
    ASSUME TypeOK, LineInv, UNCHANGED <<pc, write_lock, requests, none_pending>>,
           \A d \in Calls : remaining'[d] > 0 <=> remaining[d] > 0
    PROVE  LineInv'
<1>1. LockQueue' /\ WrittenOnce' /\ InOrder'
  BY DEF LineInv, LockQueue, InLock, ToWrite, WrittenOnce, InOrder, WrittenBefore
<1>2. Expecting'
  BY AreCalls DEF LineInv, Expecting
<1> QED BY <1>1, <1>2 DEF LineInv

LEMMA LineTake ==
    ASSUME TypeOK, LineInv, NEW c \in Calls, Take(c)
    PROVE  LineInv'
<1>1. pc[c] = "waiting" /\ UNCHANGED <<write_lock, requests>>
  BY DEF Take, server
<1>2. CASE UNCHANGED <<pc, registry>>
  BY <1>1, <1>2, LineUnmoved DEF registry
<1>3. ASSUME NEW to \in {"returned", "failed"}, Goto(c, to), Unregister(c)
      PROVE  LineInv'
  <2>1. \A d \in Calls : pc'[d] = IF d = c THEN to ELSE pc[d]
    BY <1>3 DEF Goto, TypeOK
  <2> QED BY <1>1, <1>3, <2>1, LineLeave DEF Unregister
<1> QED BY <1>2, <1>3 DEF Take

LEMMA LineTimesOut ==
    ASSUME TypeOK, LineInv, NEW c \in Calls, TimesOut(c)
    PROVE  LineInv'
<1>1. \A d \in Calls : pc'[d] = IF d = c THEN "failed" ELSE pc[d]
  BY DEF TimesOut, Goto, TypeOK
<1> QED BY <1>1, LineLeave DEF TimesOut, Unregister, server

LEMMA LineDeliver ==
    ASSUME TypeOK, LineInv, Deliver
    PROVE  LineInv'
<1>1. UNCHANGED <<pc, write_lock, requests>>
  BY DEF Deliver, calls, server
<1>2. PICK c \in Calls : target[1] = c
  BY DEF Deliver, TypeOK
<1>3. CASE UNCHANGED registry
  BY <1>1, <1>3, LineUnmoved DEF registry
<1>4. CASE CountDown(c)
  <2>1. remaining[c] \in Nat /\ \A d \in Calls : remaining[d] \in Nat
    BY DEF TypeOK
  <2>2. CASE remaining[c] = 1
    <3>1. none_pending' = RemoveFirst(none_pending, c) /\ remaining' = [remaining EXCEPT ![c] = 0]
      BY <1>4, <2>2 DEF CountDown
    <3> QED BY <1>1, <3>1, LineLeave
  <2>3. CASE remaining[c] # 1
    <3>1. UNCHANGED none_pending
          /\ \A d \in Calls : remaining'[d] > 0 <=> remaining[d] > 0
      BY <1>4, <2>1, <2>3 DEF CountDown, TypeOK
    <3> QED BY <1>1, <3>1, LineUnmoved
  <2> QED BY <2>2, <2>3
<1> QED BY <1>2, <1>3, <1>4 DEF Deliver

LEMMA LineNext == TypeOK /\ LineInv /\ [Next]_vars => LineInv'
<1> SUFFICES ASSUME TypeOK, LineInv, [Next]_vars PROVE LineInv'
  OBVIOUS
<1>1. CASE UNCHANGED vars
  BY <1>1, LineUnmoved DEF vars, calls, registry, server
<1>2. ASSUME NEW c \in Calls, Answer(c)
      PROVE  LineInv'
  BY <1>2, LineUnmoved DEF Answer, calls, registry
<1>3. CASE ReadFrame
  BY <1>3, LineUnmoved DEF ReadFrame, calls, registry, server
<1> QED BY <1>1, <1>2, <1>3, LineRegister, LineWrite, LineUnlock, LineTake, LineTimesOut,
           LineDeliver DEF Next, CallStep

\* Whatever calls fail or time out, and however the frames of several responses
\* interleave with new requests: the calls that still expect frames without session
\* ids are in _none_pending, in the order of their requests on the wire (_request).
THEOREM RequestOrderCorrect == Spec => []PendingInRequestOrder
<1>1. ASSUME TypeOK, LineInv
      PROVE  PendingInRequestOrder
  <2>1. none_pending \in Seq(Calls) /\ \A c \in Calls : remaining[c] \in Nat
    BY <1>1 DEF TypeOK
  <2>2. \A c : c \in ToSet(none_pending) <=> Contains(none_pending, c)
    BY <2>1, ToSetContains
  <2>3. \A c : c \in ToSet(none_pending) <=> c \in Calls /\ remaining[c] > 0
    <3> TAKE c
    <3>1. c \in ToSet(none_pending) => c \in Calls /\ remaining[c] > 0
      BY <1>1, <2>2, AreCalls DEF LineInv, Expecting, Contains
    <3> QED BY <1>1, <2>2, <3>1 DEF LineInv, Expecting
  <2>4. ToSet(none_pending) = {c \in Calls : remaining[c] > 0}
    BY <2>3
  <2> QED BY <1>1, <2>4 DEF PendingInRequestOrder, LineInv, InOrder
<1> QED BY <1>1, TypeInit, TypeNext, LineInit, LineNext, PTL DEF Spec

-----------------------------------------------------------------------------
(* Responses reach their calls.  While a call has not ended, the frames the    *)
(* server has sent for it are in its results, then in its queue, then with     *)
(* the callbacks, then on their way: each once, in order.                      *)

Got(c) == Len(results[c]) + Len(queue[c])
Arrived(c) == IF target # Nobody /\ target[1] = c THEN Got(c) + 1 ELSE Got(c)

SentAfterWrite == \A c \in Calls : sent[c] # 0 => Contains(requests, c)
InQueue ==
    \A c \in Calls :
        /\ \A i \in 1..Len(results[c]) : results[c][i].call = c /\ results[c][i].seq = i
        /\ \A i \in 1..Len(queue[c]) :
               queue[c][i].call = c /\ queue[c][i].seq = Len(results[c]) + i
WithCallbacks ==
    target # Nobody =>
        /\ target[2].call = target[1]
        /\ ~Ended(target[1]) => target[2].seq = Got(target[1]) + 1
Increasing ==
    \A i, j \in 1..Len(incoming) :
        i < j /\ incoming[i].call = incoming[j].call => incoming[i].seq < incoming[j].seq
OnTheWay ==
    /\ \A i \in 1..Len(incoming) : incoming[i].seq <= sent[incoming[i].call] /\ incoming[i].seq # 0
    /\ \A i \in 1..Len(incoming) :
           ~Ended(incoming[i].call) => Arrived(incoming[i].call) < incoming[i].seq
NotAhead == \A c \in Calls : ~Ended(c) => Arrived(c) <= sent[c]
NoneMissing ==
    \A c \in Calls : ~Ended(c) =>
        \A n \in 1..sent[c] :
            Arrived(c) < n => \E i \in 1..Len(incoming) : incoming[i].call = c /\ incoming[i].seq = n

FramesInv ==
    /\ SentAfterWrite /\ InQueue
    /\ WithCallbacks /\ Increasing /\ OnTheWay /\ NotAhead /\ NoneMissing

\* The provers reason about lengths of s and t better than of queue[c].
LEMMA LengthsSum ==
    ASSUME NEW s \in Seq(Frame), NEW t \in Seq(Frame)
    PROVE  Len(s) + Len(t) \in Nat
OBVIOUS

\* A frame moves from the queue to the results.
LEMMA LengthsMove ==
    ASSUME NEW s \in Seq(Frame), NEW t \in Seq(Frame), t # <<>>, NEW f \in Frame
    PROVE  Len(Append(s, f)) + Len(Tail(t)) = Len(s) + Len(t)
OBVIOUS

\* A frame joins the queue.
LEMMA LengthsGrow ==
    ASSUME NEW s \in Seq(Frame), NEW t \in Seq(Frame), NEW f \in Frame
    PROVE  Len(s) + Len(Append(t, f)) = (Len(s) + Len(t)) + 1
OBVIOUS

\* The last of n frames is in the queue.
LEMMA LengthsReach ==
    ASSUME NEW s \in Seq(Frame), NEW t \in Seq(Frame), t # <<>>, NEW n \in Nat, Len(s) + 1 = n
    PROVE  Len(s) + Len(t) >= n
OBVIOUS

\* The frame after the last one of a run continues it.
LEMMA NextInRow ==
    ASSUME NEW s \in Seq(Frame), NEW c \in Calls, NEW n \in Nat, NEW f \in Frame,
           \A i \in 1..Len(s) : s[i].call = c /\ s[i].seq = n + i,
           f.call = c, f.seq = (n + Len(s)) + 1
    PROVE  \A i \in 1..Len(Append(s, f)) :
               Append(s, f)[i].call = c /\ Append(s, f)[i].seq = n + i
<1>1. \A i \in 1..Len(Append(s, f)) :
          \/ i \in 1..Len(s) /\ Append(s, f)[i] = s[i]
          \/ i = Len(s) + 1 /\ Append(s, f)[i] = f
  OBVIOUS
<1>2. f.seq = n + (Len(s) + 1)
  OBVIOUS
<1>3. QED
  BY <1>1, <1>2

\* Two runs that follow one another are one run.
LEMMA OneRow ==
    ASSUME NEW s \in Seq(Frame), NEW t \in Seq(Frame), NEW c \in Calls,
           \A i \in 1..Len(s) : s[i].call = c /\ s[i].seq = i,
           \A i \in 1..Len(t) : t[i].call = c /\ t[i].seq = Len(s) + i
    PROVE  \A i \in 1..Len(s \o t) : (s \o t)[i].call = c /\ (s \o t)[i].seq = i
<1>1. ASSUME NEW i \in 1..Len(s \o t)
      PROVE  (s \o t)[i].call = c /\ (s \o t)[i].seq = i
  <2>1. CASE i <= Len(s)
    <3>1. i \in 1..Len(s) /\ (s \o t)[i] = s[i]
      BY <2>1
    <3>2. QED
      BY <3>1
  <2>2. CASE i > Len(s)
    <3>1. /\ i - Len(s) \in 1..Len(t) /\ (s \o t)[i] = t[i - Len(s)]
          /\ Len(s) + (i - Len(s)) = i
      BY <2>2
    <3>2. QED
      BY <3>1
  <2>3. QED
    BY <2>1, <2>2
<1>2. QED
  BY <1>1

\* The counts of frames are naturals.
LEMMA ArrivedType ==
    ASSUME TypeOK, NEW c \in Calls
    PROVE  Got(c) \in Nat /\ Arrived(c) \in Nat
<1>1. queue[c] \in Seq(Frame) /\ results[c] \in Seq(Frame)
  BY DEF TypeOK
<1>2. Got(c) \in Nat
  BY <1>1, LengthsSum DEF Got
<1>3. QED
  BY <1>2 DEF Arrived

\* A client starts in FramesInv.
LEMMA FramesInvInit == Init => FramesInv
<1> SUFFICES ASSUME Init PROVE FramesInv
  OBVIOUS
<1>2. SentAfterWrite /\ InQueue
  BY DEF Init, SentAfterWrite, InQueue
<1>3. WithCallbacks /\ Increasing /\ OnTheWay
  BY DEF Init, WithCallbacks, Increasing, OnTheWay
<1>4. \A c \in Calls : sent[c] = 0 /\ Arrived(c) = 0
  <2>1. \A c \in Calls : Len(results[c]) = 0 /\ Len(queue[c]) = 0 /\ sent[c] = 0
    BY DEF Init
  <2>2. QED
    BY <2>1 DEF Init, Arrived, Got
<1>5. NoneMissing /\ NotAhead
  BY <1>4 DEF NoneMissing, NotAhead
<1>6. QED
  BY <1>2, <1>3, <1>5 DEF FramesInv

\* A step of a call that takes nothing from its queue.
LEMMA FramesCall ==
    ASSUME TypeOK, FramesInv, NEW c \in Calls,
           Register(c) \/ Write(c) \/ Drained(c) \/ EncodeFails(c) \/ TimesOut(c)
    PROVE  FramesInv'
<1>1. PICK to \in {"locking", "draining", "waiting", "failed"} : pc' = [pc EXCEPT ![c] = to]
  BY DEF Register, Write, Drained, EncodeFails, TimesOut, Goto
<1>2. \A d \in Calls : pc'[d] = IF d = c THEN to ELSE pc[d]
  BY <1>1 DEF TypeOK
<1>3. UNCHANGED <<sessioned, results, queue, sent, incoming, target>>
  BY DEF Register, Write, Drained, EncodeFails, TimesOut, server
<1>5. SentAfterWrite'
  <2>1. CASE requests' = requests
    BY <1>3, <2>1 DEF FramesInv, SentAfterWrite
  <2>2. CASE Write(c)
    <3>1. /\ requests \in Seq(Calls) /\ requests' = Append(requests, c)
          /\ \A i \in 1..Len(requests) : i \in 1..Len(requests') /\ requests'[i] = requests[i]
      BY <2>2 DEF Write, TypeOK
    <3> QED BY <1>3, <3>1 DEF FramesInv, SentAfterWrite, Contains
  <2> QED BY <2>1, <2>2 DEF Register, Drained, EncodeFails, TimesOut, server
<1>6. \A d \in Calls : Ended(d) => Ended(d)'
  BY <1>2 DEF Ended, Register, Write, Drained, EncodeFails, TimesOut, Goto, TypeOK
<1>7. \A d \in Calls : Got(d)' = Got(d) /\ Arrived(d)' = Arrived(d)
  BY <1>3 DEF Got, Arrived
<1>8. InQueue' /\ Increasing'
  BY <1>3 DEF FramesInv, InQueue, Increasing
<1>9. WithCallbacks' /\ OnTheWay' /\ NotAhead' /\ NoneMissing'
  <2>1. target # Nobody => target[1] \in Calls
    BY DEF TypeOK
  <2>2. \A i \in 1..Len(incoming) : incoming[i].call \in Calls
    <3>1. \A i \in 1..Len(incoming) : incoming[i] \in Frame
      BY DEF TypeOK
    <3>2. QED
      BY <3>1 DEF Frame
  <2>3. WithCallbacks'
    BY <1>3, <1>6, <1>7, <2>1 DEF FramesInv, WithCallbacks
  <2>4. OnTheWay'
    BY <1>3, <1>6, <1>7, <2>2 DEF FramesInv, OnTheWay
  <2>5. NotAhead'
    BY <1>3, <1>6, <1>7 DEF FramesInv, NotAhead
  <2>6. NoneMissing'
    BY <1>3, <1>6, <1>7 DEF FramesInv, NoneMissing
  <2>7. QED
    BY <2>3, <2>4, <2>5, <2>6
<1>10. QED
  BY <1>5, <1>8, <1>9 DEF FramesInv

\* A call takes the first frame of its queue: what has arrived stays the same.
LEMMA TakeKeeps ==
    ASSUME TypeOK, NEW c \in Calls, Take(c)
    PROVE  \A d \in Calls : Got(d)' = Got(d)
<1> DEFINE frame == Head(queue[c])
<1>1. /\ queue[c] \in Seq(Frame) /\ queue[c] # <<>> /\ results[c] \in Seq(Frame)
      /\ queue'[c] = Tail(queue[c]) /\ results'[c] = Append(results[c], frame)
      /\ \A d \in Calls : d # c => queue'[d] = queue[d] /\ results'[d] = results[d]
  BY DEF Take, TypeOK
<1>2. frame \in Frame
  BY <1>1
<1>3. Len(results'[c]) + Len(queue'[c]) = Len(results[c]) + Len(queue[c])
  BY <1>1, <1>2, LengthsMove
<1> QED BY <1>1, <1>3 DEF Got

LEMMA FramesTake ==
    ASSUME TypeOK, FramesInv, NEW c \in Calls, Take(c)
    PROVE  FramesInv'
<1> DEFINE frame == Head(queue[c])
<1>1. /\ queue[c] \in Seq(Frame) /\ queue[c] # <<>> /\ results[c] \in Seq(Frame)
      /\ queue' = [queue EXCEPT ![c] = Tail(@)]
      /\ results' = [results EXCEPT ![c] = Append(@, frame)]
  BY DEF Take, TypeOK
<1>2. /\ queue'[c] = Tail(queue[c]) /\ results'[c] = Append(results[c], frame)
      /\ \A d \in Calls : d # c => queue'[d] = queue[d] /\ results'[d] = results[d]
  BY <1>1 DEF TypeOK
<1>3. UNCHANGED <<sessioned, requests, sent, incoming, target>>
  BY DEF Take, server
<1>4. PICK to \in {"waiting", "returned", "failed"} : pc' = [pc EXCEPT ![c] = to]
  <2>1. pc[c] = "waiting" /\ pc \in [Calls -> {"idle", "locking", "draining", "waiting",
                                               "returned", "failed"}]
    BY DEF Take, TypeOK
  <2>2. CASE UNCHANGED pc
    BY <2>1, <2>2
  <2>3. CASE Goto(c, "returned")
    BY <2>3 DEF Goto
  <2>4. CASE Goto(c, "failed")
    BY <2>4 DEF Goto
  <2>5. QED
    BY <2>2, <2>3, <2>4 DEF Take
<1>5. pc[c] = "waiting" /\ \A d \in Calls : pc'[d] = IF d = c THEN to ELSE pc[d]
  BY <1>4 DEF Take, TypeOK
<1>7. SentAfterWrite'
  BY <1>3 DEF FramesInv, SentAfterWrite
<1>8. \A d \in Calls : Ended(d) => Ended(d)'
  BY <1>5 DEF Ended
<1>9. \A d \in Calls : Got(d)' = Got(d) /\ Arrived(d)' = Arrived(d)
  BY <1>3, TakeKeeps DEF Arrived
<1>10. InQueue'
  <2>1. /\ \A i \in 1..Len(results[c]) : results[c][i].call = c /\ results[c][i].seq = i
        /\ \A i \in 1..Len(queue[c]) :
               queue[c][i].call = c /\ queue[c][i].seq = Len(results[c]) + i
    BY DEF FramesInv, InQueue
  <2>2. frame.call = c /\ frame.seq = Len(results[c]) + 1
    BY <1>1, <2>1
  <2>3. \A i \in 1..Len(results'[c]) : results'[c][i].call = c /\ results'[c][i].seq = i
    BY <1>1, <1>2, <2>1, <2>2
  <2>4. \A i \in 1..Len(queue'[c]) :
            queue'[c][i].call = c /\ queue'[c][i].seq = Len(results'[c]) + i
    <3>1. Len(results'[c]) = Len(results[c]) + 1 /\ Len(results[c]) \in Nat
      BY <1>1, <1>2
    <3>2. \A i \in 1..Len(Tail(queue[c])) :
              i + 1 \in 1..Len(queue[c]) /\ Tail(queue[c])[i] = queue[c][i + 1]
      BY <1>1
    <3>3. QED
      BY <1>2, <2>1, <3>1, <3>2
  <2>5. ASSUME NEW d \in Calls
        PROVE  /\ \A i \in 1..Len(results'[d]) : results'[d][i].call = d /\ results'[d][i].seq = i
               /\ \A i \in 1..Len(queue'[d]) :
                      queue'[d][i].call = d /\ queue'[d][i].seq = Len(results'[d]) + i
    <3>1. CASE d = c
      BY <2>3, <2>4, <3>1
    <3>2. CASE d # c
      <4>1. queue'[d] = queue[d] /\ results'[d] = results[d]
        BY <1>2, <2>5, <3>2
      <4>2. QED
        BY <2>5, <4>1 DEF FramesInv, InQueue
    <3>3. QED
      BY <3>1, <3>2
  <2>6. QED
    BY <2>5 DEF InQueue
<1>11. WithCallbacks' /\ OnTheWay' /\ NotAhead' /\ NoneMissing' /\ Increasing'
  <2>1. target # Nobody => target[1] \in Calls
    BY DEF TypeOK
  <2>2. \A i \in 1..Len(incoming) : incoming[i].call \in Calls
    <3>1. \A i \in 1..Len(incoming) : incoming[i] \in Frame
      BY DEF TypeOK
    <3>2. QED
      BY <3>1 DEF Frame
  <2>3. WithCallbacks'
    BY <1>3, <1>8, <1>9, <2>1 DEF FramesInv, WithCallbacks
  <2>4. OnTheWay'
    BY <1>3, <1>8, <1>9, <2>2 DEF FramesInv, OnTheWay
  <2>5. NoneMissing' /\ Increasing'
    BY <1>3, <1>8, <1>9 DEF FramesInv, NoneMissing, Increasing
  <2>6. NotAhead'
    BY <1>3, <1>8, <1>9 DEF FramesInv, NotAhead
  <2>7. QED
    BY <2>3, <2>4, <2>5, <2>6
<1>12. QED
  BY <1>7, <1>10, <1>11 DEF FramesInv

\* The server sends the next frame of a request, or is done with it.
LEMMA FramesAnswer ==
    ASSUME TypeOK, FramesInv, NEW c \in Calls, Answer(c)
    PROVE  FramesInv'
<1>1. UNCHANGED <<pc, results, queue, requests, target>>
  BY DEF Answer, calls
<1>2. \A d \in Calls : Got(d)' = Got(d) /\ Arrived(d)' = Arrived(d) /\ Ended(d)' = Ended(d)
  BY <1>1 DEF Got, Arrived, Ended
<1>3. InQueue' /\ WithCallbacks'
  BY <1>1 DEF FramesInv, InQueue, WithCallbacks, Got, Ended
<1>4. CASE UNCHANGED <<sent, incoming>>
  <2>1. SentAfterWrite' /\ Increasing'
    BY <1>1, <1>4 DEF FramesInv, SentAfterWrite, Increasing
  <2>2. \A i \in 1..Len(incoming) : incoming[i].call \in Calls
    <3>1. \A i \in 1..Len(incoming) : incoming[i] \in Frame
      BY DEF TypeOK
    <3>2. QED
      BY <3>1 DEF Frame
  <2>3. OnTheWay'
    BY <1>2, <1>4, <2>2 DEF FramesInv, OnTheWay
  <2>4. NotAhead' /\ NoneMissing'
    BY <1>2, <1>4 DEF FramesInv, NotAhead, NoneMissing
  <2>5. QED
    BY <1>1, <1>3, <2>1, <2>3, <2>4 DEF FramesInv
<1>5. ASSUME NEW kind \in {"value", "error"}, Send(c, kind)
      PROVE  FramesInv'
  <2> DEFINE frame == [call |-> c, kind |-> kind, seq |-> sent[c] + 1]
  <2>1. /\ incoming \in Seq(Frame) /\ frame \in Frame /\ sent[c] \in Nat
        /\ incoming' = Append(incoming, frame)
        /\ sent' = [sent EXCEPT ![c] = @ + 1]
    BY <1>5 DEF Send, TypeOK, Frame
  <2>2. /\ sent'[c] = sent[c] + 1
        /\ \A d \in Calls : sent[d] \in Nat /\ (d # c => sent'[d] = sent[d])
    BY <2>1 DEF TypeOK
  <2>3. /\ Len(incoming') = Len(incoming) + 1 /\ Len(incoming) \in Nat
        /\ \A i \in 1..Len(incoming) : incoming'[i] = incoming[i]
        /\ incoming'[Len(incoming) + 1] = frame
    BY <2>1
  <2>4. \A i \in 1..Len(incoming) :
            incoming[i].call \in Calls /\ incoming[i].seq \in Nat
    <3>1. \A i \in 1..Len(incoming) : incoming[i] \in Frame
      BY <2>1
    <3>2. QED
      BY <3>1 DEF Frame
  <2>5. Contains(requests, c)
    BY ToSetContains DEF Answer, TypeOK
  <2>6. SentAfterWrite'
    BY <1>1, <2>2, <2>5 DEF FramesInv, SentAfterWrite
  <2>7. Increasing'
    <3>1. ASSUME NEW i \in 1..Len(incoming), incoming[i].call = c
          PROVE  incoming[i].seq < sent[c] + 1
      BY <2>1, <2>4, <3>1 DEF FramesInv, OnTheWay
    <3>2. QED
      BY <2>3, <3>1 DEF FramesInv, Increasing
  <2>8. OnTheWay'
    <3>1. ASSUME NEW i \in 1..Len(incoming)
          PROVE  /\ incoming'[i].seq <= sent'[incoming'[i].call] /\ incoming'[i].seq # 0
                 /\ ~Ended(incoming'[i].call) => Arrived(incoming'[i].call) < incoming'[i].seq
      BY <2>2, <2>3, <2>4, <3>1 DEF FramesInv, OnTheWay
    <3>2. ~Ended(c) => Arrived(c) < sent[c] + 1
      <4>1. Arrived(c) \in Nat
        BY ArrivedType
      <4>2. QED
        BY <2>1, <4>1 DEF FramesInv, NotAhead
    <3>3. ASSUME NEW i \in 1..Len(incoming')
          PROVE  /\ incoming'[i].seq <= sent'[incoming'[i].call] /\ incoming'[i].seq # 0
                 /\ ~Ended(incoming'[i].call) => Arrived(incoming'[i].call) < incoming'[i].seq
      <4>1. CASE i \in 1..Len(incoming)
        BY <3>1, <4>1
      <4>2. CASE i = Len(incoming) + 1
        BY <2>1, <2>2, <2>3, <3>2, <4>2
      <4>3. QED
        BY <2>3, <4>1, <4>2
    <3>4. \A i \in 1..Len(incoming') : incoming'[i].call \in Calls
      <4>1. \A i \in 1..Len(incoming') :
                i \in 1..Len(incoming) \/ i = Len(incoming) + 1
        BY <2>3
      <4>2. QED
        BY <2>3, <2>4, <4>1
    <3>5. QED
      BY <1>2, <3>3, <3>4 DEF OnTheWay
  <2>9. NoneMissing'
    BY <1>2, <2>1, <2>2, <2>3 DEF FramesInv, NoneMissing
  <2>10. NotAhead'
    <3>1. \A d \in Calls : Arrived(d) \in Nat
      BY ArrivedType
    <3>2. \A d \in Calls : sent[d] <= sent'[d]
      BY <2>2
    <3>3. \A d \in Calls : sent'[d] \in Nat
      BY <2>2
    <3>4. QED
      BY <1>2, <2>2, <3>1, <3>2, <3>3 DEF FramesInv, NotAhead
  <2>11. QED
    BY <1>1, <1>3, <2>6, <2>7, <2>8, <2>9, <2>10 DEF FramesInv
<1>6. QED
  BY <1>4, <1>5 DEF Answer

\* The reader takes the next frame.  While its call has not ended, it is the next
\* one the call needs, and it has to find that call's queue.
LEMMA FramesRead ==
    ASSUME TypeOK, FramesInv, ReadFrame,
           LET frame == Head(incoming)
           IN  \/ target' = <<frame.call, frame>>
               \/ target' = Nobody /\ Ended(frame.call)
    PROVE  FramesInv'
<1>0. /\ incoming \in Seq(Frame) /\ incoming # <<>>
      /\ \E f \in Frame : f = Head(incoming) /\ \E d \in Calls : d = f.call
  <2>1. incoming \in Seq(Frame) /\ incoming # <<>>
    BY DEF TypeOK, ReadFrame
  <2>2. Head(incoming) \in Frame
    BY <2>1
  <2>3. QED
    BY <2>1, <2>2 DEF Frame
<1> PICK frame \in Frame : frame = Head(incoming) /\ \E d \in Calls : d = frame.call
  BY <1>0
<1> PICK c \in Calls : c = frame.call
  OBVIOUS
<1>1. /\ UNCHANGED <<pc, results, queue, requests, sent>>
      /\ target = Nobody /\ incoming # <<>> /\ incoming' = Tail(incoming)
  BY DEF ReadFrame, calls, server
<1>2. incoming \in Seq(Frame)
  BY <1>0
<1>3. /\ 1 \in 1..Len(incoming) /\ frame = incoming[1] /\ frame \in Frame
      /\ Len(incoming') = Len(incoming) - 1
      /\ \A i \in 1..Len(incoming') : i + 1 \in 1..Len(incoming) /\ incoming'[i] = incoming[i + 1]
  BY <1>1, <1>2
<1>4. c \in Calls /\ frame.seq \in Nat
  BY <1>3 DEF Frame
<1>5. \A i \in 1..Len(incoming) : incoming[i].call \in Calls /\ incoming[i].seq \in Nat
  <2>1. \A i \in 1..Len(incoming) : incoming[i] \in Frame
    BY <1>2
  <2>2. QED
    BY <2>1 DEF Frame
<1>6. target' = <<c, frame>> \/ (target' = Nobody /\ Ended(c))
  OBVIOUS
\* While its call has not ended, the frame is the next one of its request.
<1>9. ~Ended(c) => frame.seq = Got(c) + 1 /\ Arrived(c) = Got(c)
  <2> SUFFICES ASSUME ~Ended(c) PROVE frame.seq = Got(c) + 1 /\ Arrived(c) = Got(c)
    OBVIOUS
  <2>1. Arrived(c) = Got(c) /\ Got(c) \in Nat
    BY <1>1, <1>4, ArrivedType DEF Arrived
  <2>2. Got(c) < frame.seq /\ frame.seq <= sent[c] /\ sent[c] \in Nat
    BY <1>3, <1>4, <2>1 DEF FramesInv, OnTheWay, TypeOK
  <2>3. Got(c) + 1 \in 1..sent[c] /\ Arrived(c) < Got(c) + 1
    BY <1>4, <2>1, <2>2
  <2>4. PICK i \in 1..Len(incoming) : incoming[i].call = c /\ incoming[i].seq = Got(c) + 1
    BY <1>4, <2>3 DEF FramesInv, NoneMissing
  <2>5. i # 1 => frame.seq < Got(c) + 1
    BY <1>3, <2>4 DEF FramesInv, Increasing
  <2>6. i = 1
    BY <1>4, <2>1, <2>2, <2>5
  <2>7. QED
    BY <1>3, <2>1, <2>4, <2>6
<1>10. /\ \A d \in Calls : Got(d)' = Got(d) /\ Ended(d)' = Ended(d)
       /\ \A d \in Calls \ {c} : Arrived(d)' = Arrived(d)
       /\ ~Ended(c) => Arrived(c)' = frame.seq
  <2>1. \A d \in Calls : Got(d)' = Got(d) /\ Ended(d)' = Ended(d)
    BY <1>1 DEF Got, Ended
  <2>2. \A d \in Calls \ {c} : Arrived(d)' = Arrived(d)
    BY <1>1, <1>6, <2>1 DEF Arrived
  <2>3. ~Ended(c) => Arrived(c)' = frame.seq
    <3> SUFFICES ASSUME ~Ended(c) PROVE Arrived(c)' = frame.seq
      OBVIOUS
    <3>1. target' = <<c, frame>> /\ target' # Nobody /\ target'[1] = c
      BY <1>6 DEF Nobody
    <3>2. Arrived(c)' = Got(c)' + 1
      BY <3>1 DEF Arrived
    <3>3. QED
      BY <1>4, <1>9, <2>1, <3>2
  <2>4. QED
    BY <2>1, <2>2, <2>3
<1>11. SentAfterWrite' /\ InQueue'
  BY <1>1 DEF FramesInv, SentAfterWrite, InQueue
<1>12. WithCallbacks'
  <2>1. CASE target' = <<c, frame>>
    BY <1>4, <1>9, <1>10, <2>1 DEF WithCallbacks
  <2>2. CASE target' = Nobody
    BY <2>2 DEF WithCallbacks
  <2>3. QED
    BY <1>6, <2>1, <2>2
<1>13. Increasing'
  <2> SUFFICES ASSUME NEW i \in 1..Len(incoming'), NEW j \in 1..Len(incoming'), i < j,
                      incoming'[i].call = incoming'[j].call
               PROVE  incoming'[i].seq < incoming'[j].seq
    BY DEF Increasing
  <2>1. /\ i + 1 \in 1..Len(incoming) /\ incoming'[i] = incoming[i + 1]
        /\ j + 1 \in 1..Len(incoming) /\ incoming'[j] = incoming[j + 1]
    BY <1>3
  <2>2. i + 1 < j + 1
    OBVIOUS
  <2> QED BY <2>1, <2>2 DEF FramesInv, Increasing
<1>14. OnTheWay'
  <2>1. ASSUME NEW i \in 1..Len(incoming')
        PROVE  /\ incoming'[i].seq <= sent[incoming'[i].call] /\ incoming'[i].seq # 0
               /\ incoming'[i].call \in Calls
    BY <1>3, <1>5 DEF FramesInv, OnTheWay
  <2>2. ASSUME NEW i \in 1..Len(incoming'), NEW d \in Calls, d = incoming'[i].call, ~Ended(d)
        PROVE  Arrived(d)' < incoming'[i].seq
    <3>1. i + 1 \in 1..Len(incoming) /\ incoming'[i] = incoming[i + 1] /\ 1 < i + 1
      BY <1>2, <1>3
    <3>2. CASE d = c
      <4>1. frame.seq < incoming[i + 1].seq
        BY <1>3, <2>2, <3>1, <3>2 DEF FramesInv, Increasing
      <4>2. QED
        BY <1>10, <2>2, <3>1, <3>2, <4>1
    <3>3. CASE d # c
      BY <1>5, <1>10, <2>2, <3>1, <3>3 DEF FramesInv, OnTheWay
    <3>4. QED
      BY <3>2, <3>3
  <2>3. QED
    BY <1>1, <1>10, <2>1, <2>2 DEF OnTheWay
<1>15. NotAhead'
  <2>1. frame.seq <= sent[c]
    BY <1>3 DEF FramesInv, OnTheWay
  <2>2. QED
    BY <1>1, <1>10, <2>1 DEF FramesInv, NotAhead
<1>16. NoneMissing'
  <2>1. ASSUME NEW d \in Calls, ~Ended(d), NEW n \in 1..sent[d], Arrived(d)' < n
        PROVE  \E i \in 1..Len(incoming') : incoming'[i].call = d /\ incoming'[i].seq = n
    <3>1. Arrived(d) < n
      <4>1. CASE d # c
        BY <1>10, <2>1, <4>1
      <4>2. CASE d = c
        <5>1. Arrived(c)' = Got(c) + 1 /\ Arrived(c) = Got(c) /\ Got(c) \in Nat
          BY <1>4, <1>9, <1>10, <2>1, <4>2, ArrivedType
        <5>2. QED
          BY <2>1, <4>2, <5>1
      <4>3. QED
        BY <4>1, <4>2
    <3>2. PICK i \in 1..Len(incoming) : incoming[i].call = d /\ incoming[i].seq = n
      BY <2>1, <3>1 DEF FramesInv, NoneMissing
    <3>3. i # 1
      <4>1. CASE d = c
        <5>1. frame.seq < n
          BY <1>10, <2>1, <4>1
        <5>2. QED
          BY <1>3, <1>4, <3>2, <5>1
      <4>2. CASE d # c
        BY <1>3, <3>2, <4>2
      <4>3. QED
        BY <4>1, <4>2
    <3>4. i - 1 \in 1..Len(incoming') /\ i = (i - 1) + 1
      BY <1>2, <1>3, <3>3
    <3>5. QED
      BY <1>3, <3>2, <3>4
  <2>2. QED
    BY <1>1, <1>10, <2>1 DEF NoneMissing
<1>17. QED
  BY <1>11, <1>12, <1>13, <1>14, <1>15, <1>16 DEF FramesInv

\* The reader's frame is put in the queue of its call.
LEMMA FramesDeliver ==
    ASSUME TypeOK, FramesInv, Deliver
    PROVE  FramesInv'
<1>1. PICK c \in Calls, frame \in Frame : target = <<c, frame>>
  <2>1. target \in Calls \X Frame
    BY DEF Deliver, TypeOK
  <2>2. \E c \in Calls, frame \in Frame : target = <<c, frame>>
    BY <2>1
  <2>3. QED
    BY <2>2
<1>2. /\ UNCHANGED <<pc, results, requests, sent, incoming>>
      /\ target # Nobody /\ target' = Nobody
      /\ queue' = [queue EXCEPT ![c] = IF Ended(c) THEN @ ELSE Append(@, frame)]
  BY <1>1 DEF Deliver, calls, server
<1>3. /\ \A d \in Calls : d # c => queue'[d] = queue[d]
      /\ Ended(c) => queue'[c] = queue[c]
      /\ ~Ended(c) => queue'[c] = Append(queue[c], frame)
      /\ \A d \in Calls : Ended(d)' = Ended(d)
  BY <1>2 DEF TypeOK, Ended
<1>4. /\ queue[c] \in Seq(Frame) /\ results[c] \in Seq(Frame)
      /\ \A d \in Calls : Got(d) \in Nat
  BY ArrivedType DEF TypeOK
<1>5. /\ frame.call = c
      /\ ~Ended(c) => frame.seq = Got(c) + 1
  BY <1>1, <1>2 DEF FramesInv, WithCallbacks
<1>6. \A d \in Calls : ~Ended(d) => Arrived(d)' = Arrived(d)
  <2>1. ASSUME NEW d \in Calls, d # c PROVE Arrived(d)' = Arrived(d)
    <3>1. Got(d)' = Got(d)
      BY <1>2, <1>3, <2>1 DEF Got
    <3>2. target[1] # d
      BY <1>1, <2>1
    <3>3. Arrived(d) = Got(d)
      BY <3>2 DEF Arrived
    <3>4. Arrived(d)' = Got(d)'
      BY <1>2 DEF Arrived
    <3>5. QED
      BY <3>1, <3>3, <3>4
  <2>2. ASSUME ~Ended(c) PROVE Arrived(c)' = Arrived(c)
    <3>1. Arrived(c) = Got(c) + 1 /\ Arrived(c)' = Got(c)'
      BY <1>1, <1>2 DEF Arrived
    <3>2. Got(c)' = Len(results[c]) + Len(Append(queue[c], frame))
      BY <1>2, <1>3, <2>2 DEF Got
    <3>3. QED
      BY <1>4, <3>1, <3>2, LengthsGrow DEF Got
  <2>3. QED
    BY <2>1, <2>2
<1>7. InQueue'
  <2>1. ASSUME NEW d \in Calls
        PROVE  /\ \A i \in 1..Len(results[d]) : results[d][i].call = d /\ results[d][i].seq = i
               /\ \A i \in 1..Len(queue'[d]) :
                      queue'[d][i].call = d /\ queue'[d][i].seq = Len(results[d]) + i
    <3>1. CASE d # c \/ Ended(c)
      <4>1. queue'[d] = queue[d]
        BY <1>3, <3>1
      <4>2. QED
        BY <4>1 DEF FramesInv, InQueue
    <3>2. CASE d = c /\ ~Ended(c)
      <4>1. /\ \A i \in 1..Len(results[c]) : results[c][i].call = c /\ results[c][i].seq = i
            /\ \A i \in 1..Len(queue[c]) :
                   queue[c][i].call = c /\ queue[c][i].seq = Len(results[c]) + i
        BY DEF FramesInv, InQueue
      <4>2. Len(results[c]) \in Nat /\ frame.seq = (Len(results[c]) + Len(queue[c])) + 1
        <5>1. Len(results[c]) \in Nat
          BY <1>4
        <5>2. frame.seq = Got(c) + 1
          BY <1>5, <3>2
        <5>3. QED
          BY <5>1, <5>2, Zenon DEF Got
      <4>3. \A i \in 1..Len(Append(queue[c], frame)) :
                /\ Append(queue[c], frame)[i].call = c
                /\ Append(queue[c], frame)[i].seq = Len(results[c]) + i
        <5>1. \A i \in 1..Len(queue[c]) :
                  queue[c][i].call = c /\ queue[c][i].seq = Len(results[c]) + i
          BY <4>1
        <5>2. queue[c] \in Seq(Frame) /\ frame.call = c
          BY <1>4, <1>5
        <5>3. QED
          BY <4>2, <5>1, <5>2, NextInRow, ZenonT(30)
      <4>4. queue'[c] = Append(queue[c], frame)
        BY <1>3, <3>2
      <4>5. \A i \in 1..Len(queue'[c]) :
                queue'[c][i].call = c /\ queue'[c][i].seq = Len(results[c]) + i
        BY <4>3, <4>4
      <4>6. QED
        BY <3>2, <4>1, <4>5
    <3>3. QED
      BY <3>1, <3>2
  <2>2. QED
    BY <1>2, <2>1 DEF InQueue
<1>8. SentAfterWrite' /\ WithCallbacks' /\ Increasing'
  BY <1>2 DEF FramesInv, SentAfterWrite, WithCallbacks, Increasing
<1>9. OnTheWay' /\ NotAhead' /\ NoneMissing'
  <2>1. \A i \in 1..Len(incoming) : incoming[i].call \in Calls
    <3>1. \A i \in 1..Len(incoming) : incoming[i] \in Frame
      BY DEF TypeOK
    <3>2. QED
      BY <3>1 DEF Frame
  <2>2. OnTheWay'
    BY <1>2, <1>3, <1>6, <2>1 DEF FramesInv, OnTheWay
  <2>3. NotAhead' /\ NoneMissing'
    BY <1>2, <1>3, <1>6 DEF FramesInv, NotAhead, NoneMissing
  <2>4. QED
    BY <2>2, <2>3
<1>10. QED
  BY <1>7, <1>8, <1>9 DEF FramesInv

\* A stuttering step.
LEMMA FramesStutter ==
    ASSUME TypeOK, FramesInv, UNCHANGED vars
    PROVE  FramesInv'
<1>1. UNCHANGED <<pc, results, queue, requests, sent, incoming, target>>
  BY DEF vars, calls, server
<1>2. SentAfterWrite' /\ InQueue'
  BY <1>1 DEF FramesInv, SentAfterWrite, InQueue
<1>3. WithCallbacks' /\ Increasing'
  BY <1>1 DEF FramesInv, WithCallbacks, Increasing, Got, Ended
<1>4. \A c \in Calls : Arrived(c)' = Arrived(c) /\ Ended(c)' = Ended(c)
  BY <1>1 DEF Arrived, Got, Ended
<1>5. \A i \in 1..Len(incoming) : incoming[i] \in Frame
  BY DEF TypeOK
<1>6. \A i \in 1..Len(incoming) : incoming[i].call \in Calls
  BY <1>5 DEF Frame
<1>7. OnTheWay'
  BY <1>1, <1>4, <1>6 DEF FramesInv, OnTheWay
<1>8. NotAhead' /\ NoneMissing'
  BY <1>1, <1>4 DEF FramesInv, NotAhead, NoneMissing
<1> QED BY <1>2, <1>3, <1>7, <1>8 DEF FramesInv

\* FramesInv is stronger than OwnFrames.
LEMMA FramesImplies ==
    ASSUME TypeOK, FramesInv
    PROVE  OwnFrames
<1>1. ASSUME NEW c \in Calls
      PROVE  LET taken == results[c] \o queue[c]
             IN  \A i \in 1..Len(taken) : taken[i].call = c /\ taken[i].seq = i
  <2>1. queue[c] \in Seq(Frame) /\ results[c] \in Seq(Frame)
    BY DEF TypeOK
  <2>2. /\ \A i \in 1..Len(results[c]) : results[c][i].call = c /\ results[c][i].seq = i
        /\ \A i \in 1..Len(queue[c]) :
               queue[c][i].call = c /\ queue[c][i].seq = Len(results[c]) + i
    BY DEF FramesInv, InQueue
  <2>3. QED
    BY <2>1, <2>2, OneRow
<1>2. QED
  BY <1>1 DEF OwnFrames

-----------------------------------------------------------------------------
(* With session ids: a frame finds the queue of its call if that has not ended. *)

Registered ==
    \A c \in Calls : c \in pending <=> pc[c] \in {"locking", "draining", "waiting"}

\* Steps of a call that keep the registration in step with where the call is.
LEMMA RegisteredCall ==
    ASSUME TypeOK, sessioned, Registered, NEW c \in Calls,
           Register(c) \/ CallStep(c) \/ TimesOut(c)
    PROVE  Registered'
<1>1. CASE Register(c)
  <2>1. pending' = pending \union {c} /\ pc' = [pc EXCEPT ![c] = "locking"]
    BY <1>1 DEF Register, Goto
  <2> QED BY <2>1 DEF Registered, TypeOK
<1>2. CASE UNCHANGED <<pc, pending>>
  BY <1>2 DEF Registered
<1>3. CASE \E to \in {"draining", "waiting"} :
               /\ pending' = pending /\ pc' = [pc EXCEPT ![c] = to]
               /\ pc[c] \in {"locking", "draining"}
  BY <1>3 DEF Registered, TypeOK
<1>4. CASE \E to \in {"returned", "failed"} :
               pending' = pending \ {c} /\ pc' = [pc EXCEPT ![c] = to]
  BY <1>4 DEF Registered, TypeOK
<1>5. CASE Write(c)
  BY <1>3, <1>5 DEF Write, Goto, registry
<1>6. CASE Drained(c)
  BY <1>3, <1>6 DEF Drained, Goto, registry
<1>7. CASE EncodeFails(c) \/ TimesOut(c)
  BY <1>4, <1>7 DEF EncodeFails, TimesOut, Goto, Unregister
<1>8. CASE Take(c)
  BY <1>2, <1>4, <1>8 DEF Take, Goto, Unregister, registry
<1> QED BY <1>1, <1>5, <1>6, <1>7, <1>8 DEF CallStep

\* What is on its way are frames.
LEMMA OnWire ==
    ASSUME TypeOK
    PROVE  /\ incoming \in Seq(Frame) /\ Len(incoming) \in Nat
           /\ \A i \in 1..Len(incoming) : /\ incoming[i] \in Frame
                                          /\ incoming[i].call \in Calls
                                          /\ incoming[i].seq \in Nat
           /\ incoming # <<>> => 1 \in 1..Len(incoming) /\ Head(incoming) = incoming[1]
<1>1. incoming \in Seq(Frame) /\ Len(incoming) \in Nat
  BY DEF TypeOK
<1>2. \A i \in 1..Len(incoming) : incoming[i] \in Frame
  BY <1>1
<1>3. \A frame \in Frame : frame.call \in Calls /\ frame.seq \in Nat
  BY DEF Frame
<1>4. incoming # <<>> => 1 \in 1..Len(incoming) /\ Head(incoming) = incoming[1]
  BY <1>1
<1> QED BY <1>1, <1>2, <1>3, <1>4

\* A frame that finds no queue is of a call that has ended.
LEMMA SessionedRead ==
    ASSUME TypeOK, LineInv, sessioned, Registered, FramesInv, ReadFrame
    PROVE  LET frame == Head(incoming)
           IN  \/ target' = <<frame.call, frame>>
               \/ target' = Nobody /\ Ended(frame.call)
<1> DEFINE frame == Head(incoming)
           c == Head(incoming).call
<1>1. /\ incoming \in Seq(Frame) /\ incoming # <<>> /\ 1 \in 1..Len(incoming)
      /\ frame = incoming[1] /\ frame \in Frame /\ c \in Calls
  BY OnWire DEF ReadFrame
<1>2. Contains(requests, c)
  <2>1. incoming[1].seq <= sent[c] /\ incoming[1].seq # 0 /\ incoming[1].seq \in Nat
    BY <1>1 DEF FramesInv, OnTheWay, Frame
  <2>2. sent[c] \in Nat
    BY <1>1 DEF TypeOK
  <2>3. sent[c] # 0
    BY <2>1, <2>2
  <2> QED BY <1>1, <2>3 DEF FramesInv, SentAfterWrite
<1>3. pc[c] \notin {"idle", "locking"}
  BY <1>2 DEF LineInv, WrittenOnce, Contains
<1>4. QueueFor(frame) = IF c \in pending THEN c ELSE Nobody
  BY DEF QueueFor
<1>5. target' = IF QueueFor(frame) = Nobody THEN Nobody ELSE <<QueueFor(frame), frame>>
  BY DEF ReadFrame
<1>6. CASE c \in pending
  BY <1>1, <1>4, <1>5, <1>6, CallsAssumption DEF Nobody
<1>7. CASE c \notin pending
  BY <1>1, <1>3, <1>4, <1>5, <1>7 DEF Registered, Ended, TypeOK
<1> QED BY <1>6, <1>7

LEMMA SessionedNext ==
    ASSUME TypeOK, LineInv, sessioned, Registered, FramesInv, [Next]_vars
    PROVE  sessioned' /\ Registered' /\ FramesInv'
<1>1. sessioned'
  BY DEF Next, CallStep, Register, Write, Drained, EncodeFails, Take, TimesOut, Answer, ReadFrame,
         Deliver, vars
<1>2. CASE UNCHANGED vars
  BY <1>1, <1>2, FramesStutter DEF Registered, vars, calls, registry
<1>3. ASSUME NEW c \in Calls, Register(c) \/ CallStep(c) \/ TimesOut(c)
      PROVE  Registered' /\ FramesInv'
  BY <1>3, RegisteredCall, FramesCall, FramesTake DEF CallStep
<1>4. ASSUME NEW c \in Calls, Answer(c)
      PROVE  Registered' /\ FramesInv'
  BY <1>4, FramesAnswer DEF Answer, Registered, calls, registry
<1>5. CASE ReadFrame
  BY <1>5, SessionedRead, FramesRead DEF ReadFrame, Registered, calls, registry
<1>6. CASE Deliver
  BY <1>6, FramesDeliver DEF Deliver, Registered, calls, registry
<1> QED BY <1>1, <1>2, <1>3, <1>4, <1>5, <1>6 DEF Next

-----------------------------------------------------------------------------
(* Without session ids a response belongs to the oldest call that waits.  That *)
(* is its own call as long as every response has the declared number of        *)
(* frames: the requests are answered in order, so are the calls.               *)

\* The responses on their way follow the order of the requests.
InTurn ==
    \A i, j \in 1..Len(incoming) :
        i < j /\ incoming[i].call # incoming[j].call =>
            \E k, l \in 1..Len(requests) :
                k < l /\ requests[k] = incoming[i].call /\ requests[l] = incoming[j].call
AnsweredFirst ==
    \A k, l \in 1..Len(requests) : k < l /\ sent[requests[l]] > 0 => requests[k] \in answered
Bounded == \A c \in Calls : sent[c] <= ResponseFrames[c]
\* Frames still to come and frames in the queue or taken are those declared.
Counted ==
    /\ \A c \in Calls : pc[c] = "locking" => remaining[c] = ResponseFrames[c]
    /\ \A c \in Calls : Contains(requests, c) => remaining[c] + Got(c) = ResponseFrames[c]
\* A call that was written ends when the server has sent all its frames, and no
\* frame of it is left.
EndsComplete ==
    /\ \A c \in Calls : Contains(requests, c) /\ Ended(c) => sent[c] = ResponseFrames[c]
    /\ \A i \in 1..Len(incoming) : ~Ended(incoming[i].call)
    /\ target # Nobody => ~Ended(target[1])
\* An exception is the last frame declared.
LastOf(frame) == frame.kind = "error" => frame.seq = ResponseFrames[frame.call]
ErrorsLast ==
    /\ \A i \in 1..Len(incoming) : LastOf(incoming[i])
    /\ target # Nobody => LastOf(target[2])
    /\ \A c \in Calls : \A i \in 1..Len(queue[c]) : LastOf(queue[c][i])

Serial == InTurn /\ AnsweredFirst /\ Bounded /\ Counted /\ EndsComplete /\ ErrorsLast

\* What a step takes for granted, and what it keeps, without session ids.
InSeries == TypeOK /\ LineInv /\ ~sessioned /\ Orderly /\ FramesInv /\ Serial

LEMMA SerialInit == Init => Serial
<1> SUFFICES ASSUME Init PROVE Serial
  OBVIOUS
<1>1. /\ requests = <<>> /\ incoming = <<>> /\ target = Nobody
      /\ \A c \in Calls : pc[c] = "idle" /\ sent[c] = 0 /\ queue[c] = <<>>
  BY DEF Init
<1>2. \A c \in Calls : ResponseFrames[c] \in Nat
  BY RequestBoundsAssumption
<1>3. \A c : ~Contains(requests, c)
  BY <1>1 DEF Contains
<1>4. InTurn /\ AnsweredFirst /\ Bounded
  BY <1>1, <1>2 DEF InTurn, AnsweredFirst, Bounded
<1>5. Counted /\ EndsComplete /\ ErrorsLast
  BY <1>1, <1>3 DEF Counted, EndsComplete, ErrorsLast
<1> QED BY <1>4, <1>5 DEF Serial

\* A client that gets declared numbers of frames always has.
LEMMA OrderlyBefore ==
    ASSUME TypeOK, ~sessioned, Orderly', [Next]_vars
    PROVE  ~sessioned' /\ Orderly
<1>1. ~sessioned'
  BY DEF Next, CallStep, Register, Write, Drained, EncodeFails, Take, TimesOut, Answer, ReadFrame,
         Deliver, vars
<1>2. timeouts' = 0 /\ \A c \in answered' : sent'[c] = ResponseFrames[c]
  BY <1>1 DEF Orderly
<1>3. timeouts = 0
  <2>1. timeouts' = timeouts \/ timeouts' = timeouts + 1
    BY DEF Next, CallStep, Register, Write, Drained, EncodeFails, Take, TimesOut, Answer,
           ReadFrame, Deliver, vars
  <2> QED BY <1>2, <2>1 DEF TypeOK
<1>4. \A c \in answered : c \in answered' /\ sent'[c] = sent[c]
  <2>1. ASSUME NEW d \in Calls, Answer(d)
        PROVE  \A c \in answered : c \in answered' /\ sent'[c] = sent[c]
    <3>1. d \notin answered
      BY <2>1 DEF Answer
    <3> QED BY <2>1, <3>1 DEF Answer, Send, TypeOK
  <2> QED BY <2>1 DEF Next, CallStep, Register, Write, Drained, EncodeFails, Take, TimesOut,
             ReadFrame, Deliver, vars, server
<1> QED BY <1>1, <1>2, <1>3, <1>4 DEF Orderly

\* What is on its way, or with the callbacks, is for a call that was written.
LEMMA WireWritten ==
    ASSUME InSeries
    PROVE  /\ \A i \in 1..Len(incoming) :
                  sent[incoming[i].call] > 0 /\ Contains(requests, incoming[i].call)
           /\ target # Nobody =>
                  target[1] \in Calls /\ sent[target[1]] > 0 /\ Contains(requests, target[1])
<1>1. TypeOK /\ FramesInv /\ Serial
  BY DEF InSeries
<1>2. \A c \in Calls : sent[c] \in Nat
  BY <1>1 DEF TypeOK
<1>3. \A c \in Calls : sent[c] > 0 => Contains(requests, c)
  BY <1>1, <1>2 DEF FramesInv, SentAfterWrite
<1>4. \A i \in 1..Len(incoming) : sent[incoming[i].call] > 0 /\ incoming[i].call \in Calls
  <2> TAKE i \in 1..Len(incoming)
  <2>1. incoming[i].call \in Calls /\ incoming[i].seq \in Nat
    BY <1>1, OnWire
  <2>2. incoming[i].seq <= sent[incoming[i].call] /\ incoming[i].seq # 0
    BY <1>1 DEF FramesInv, OnTheWay
  <2> QED BY <1>2, <2>1, <2>2
<1>5. target # Nobody => target[1] \in Calls /\ sent[target[1]] > 0
  <2> SUFFICES ASSUME target # Nobody PROVE target[1] \in Calls /\ sent[target[1]] > 0
    OBVIOUS
  <2>1. PICK c \in Calls : c = target[1]
    BY <1>1 DEF TypeOK
  <2>2. ~Ended(c)
    BY <1>1, <2>1 DEF Serial, EndsComplete
  <2>3. Arrived(c) <= sent[c] /\ Arrived(c) = Got(c) + 1 /\ Got(c) \in Nat
    BY <1>1, <2>1, <2>2, ArrivedType DEF FramesInv, NotAhead, Arrived
  <2> QED BY <1>2, <2>1, <2>3
<1> QED BY <1>3, <1>4, <1>5

\* Who is written has left the places before.
LEMMA WrittenMoved ==
    ASSUME InSeries, NEW c \in Calls, Contains(requests, c)
    PROVE  pc[c] \notin {"idle", "locking"}
BY DEF InSeries, LineInv, WrittenOnce, Contains

\* A call that has all its frames: none of them is anywhere else.
LEMMA AllArrived ==
    ASSUME InSeries, NEW c \in Calls, Contains(requests, c), ~Ended(c), Got(c) >= ResponseFrames[c]
    PROVE  /\ sent[c] = ResponseFrames[c] /\ remaining[c] = 0
           /\ \A i \in 1..Len(incoming) : incoming[i].call # c
           /\ target # Nobody => target[1] # c
<1>1. TypeOK /\ FramesInv /\ Serial
  BY DEF InSeries
<1>2. /\ sent[c] \in Nat /\ remaining[c] \in Nat /\ ResponseFrames[c] \in Nat
      /\ Got(c) \in Nat /\ Arrived(c) \in Nat
  BY <1>1, ArrivedType, RequestBoundsAssumption DEF TypeOK
<1>3. Arrived(c) <= sent[c] /\ sent[c] <= ResponseFrames[c] /\ remaining[c] + Got(c) = ResponseFrames[c]
  BY <1>1 DEF FramesInv, NotAhead, Serial, Bounded, Counted
<1>4. Arrived(c) = Got(c) \/ Arrived(c) = Got(c) + 1
  BY DEF Arrived
<1>5. Arrived(c) = Got(c) /\ sent[c] = ResponseFrames[c] /\ remaining[c] = 0
      /\ Arrived(c) = sent[c]
  BY <1>2, <1>3, <1>4
<1>6. target # Nobody => target[1] # c
  BY <1>2, <1>5 DEF Arrived
<1>7. ASSUME NEW i \in 1..Len(incoming), incoming[i].call = c
      PROVE  FALSE
  <2>1. Arrived(c) < incoming[i].seq /\ incoming[i].seq <= sent[c] /\ incoming[i].seq \in Nat
    BY <1>1, <1>7, OnWire DEF FramesInv, OnTheWay
  <2> QED BY <1>2, <1>5, <2>1
<1> QED BY <1>5, <1>6, <1>7

\* Steps of a call that move no frame and write nothing.
LEMMA SerialMoves ==
    ASSUME InSeries, NEW c \in Calls,
           UNCHANGED <<requests, sent, answered, incoming, target, queue, results>>,
           \A d \in Calls \ {c} : pc'[d] = pc[d] /\ remaining'[d] = remaining[d],
           pc'[c] = "locking" => remaining'[c] = ResponseFrames[c],
           Contains(requests, c) =>
               remaining'[c] = remaining[c] /\ pc'[c] \notin {"returned", "failed"}
    PROVE  Serial'
<1>1. TypeOK /\ FramesInv /\ Serial
  BY DEF InSeries
<1>2. InTurn' /\ AnsweredFirst' /\ Bounded' /\ ErrorsLast'
  BY <1>1 DEF Serial, InTurn, AnsweredFirst, Bounded, ErrorsLast, LastOf
<1>3. \A d \in Calls : Got(d)' = Got(d)
  BY DEF Got
<1>4. Counted'
  <2>1. \A d \in Calls : pc'[d] = "locking" => remaining'[d] = ResponseFrames[d]
    BY <1>1 DEF Serial, Counted
  <2>2. \A d \in Calls : Contains(requests, d) => remaining'[d] = remaining[d]
    OBVIOUS
  <2> QED BY <1>1, <1>3, <2>1, <2>2 DEF Serial, Counted
<1>5. \A d \in Calls : Contains(requests, d) /\ Ended(d)' => Ended(d)
  BY DEF Ended
<1>6. EndsComplete'
  <2>1. \A d \in Calls : Contains(requests, d) /\ Ended(d)' => sent[d] = ResponseFrames[d]
    BY <1>1, <1>5 DEF Serial, EndsComplete
  <2>2. ASSUME NEW d \in Calls, \/ \E i \in 1..Len(incoming) : incoming[i].call = d
                                \/ target # Nobody /\ target[1] = d
        PROVE  ~Ended(d)'
    <3>1. Contains(requests, d)
      BY <2>2, WireWritten
    <3>2. ~Ended(d)
      BY <1>1, <2>2 DEF Serial, EndsComplete
    <3> QED BY <1>5, <3>1, <3>2
  <2>3. \A i \in 1..Len(incoming) : ~Ended(incoming[i].call)'
    <3> TAKE i \in 1..Len(incoming)
    <3>1. PICK d \in Calls : d = incoming[i].call
      BY <1>1, OnWire
    <3>2. ~Ended(d)'
      BY <2>2, <3>1
    <3> QED BY <3>1, <3>2 DEF Ended
  <2>4. target # Nobody => ~Ended(target[1])'
    <3> SUFFICES ASSUME target # Nobody PROVE ~Ended(target[1])'
      OBVIOUS
    <3>1. PICK d \in Calls : d = target[1]
      BY WireWritten
    <3>2. ~Ended(d)'
      BY <2>2, <3>1
    <3> QED BY <3>1, <3>2 DEF Ended
  <2> QED BY <2>1, <2>3, <2>4 DEF EndsComplete
<1> QED BY <1>2, <1>4, <1>6 DEF Serial

LEMMA SerialRegister ==
    ASSUME InSeries, NEW c \in Calls, Register(c) \/ Drained(c) \/ EncodeFails(c)
    PROVE  Serial'
<1>1. TypeOK /\ ~sessioned
  BY DEF InSeries
<1>2. UNCHANGED <<requests, sent, answered, incoming, target, queue, results>>
  BY DEF Register, Drained, EncodeFails, server
<1>3. CASE Register(c)
  <2>1. ~Contains(requests, c)
    BY <1>3, WrittenMoved DEF Register
  <2>2. /\ \A d \in Calls : pc'[d] = IF d = c THEN "locking" ELSE pc[d]
        /\ \A d \in Calls : remaining'[d] = IF d = c THEN ResponseFrames[c] ELSE remaining[d]
    BY <1>1, <1>3 DEF Register, Goto, TypeOK
  <2> QED BY <1>2, <2>1, <2>2, SerialMoves
<1>4. CASE Drained(c)
  <2>1. /\ \A d \in Calls : pc'[d] = IF d = c THEN "waiting" ELSE pc[d]
        /\ remaining' = remaining
    BY <1>1, <1>4 DEF Drained, Goto, TypeOK, registry
  <2> QED BY <1>2, <2>1, SerialMoves
<1>5. CASE EncodeFails(c)
  <2>1. ~Contains(requests, c)
    BY <1>5, WrittenMoved DEF EncodeFails
  <2>2. /\ \A d \in Calls : pc'[d] = IF d = c THEN "failed" ELSE pc[d]
        /\ \A d \in Calls \ {c} : remaining'[d] = remaining[d]
    BY <1>1, <1>5 DEF EncodeFails, Goto, Unregister, TypeOK
  <2> QED BY <1>2, <2>1, <2>2, SerialMoves
<1> QED BY <1>3, <1>4, <1>5

\* A request is written behind the others, with nothing sent for it yet.
LEMMA SerialWrite ==
    ASSUME InSeries, NEW c \in Calls, Write(c)
    PROVE  Serial'
<1>1. TypeOK /\ FramesInv /\ Serial
  BY DEF InSeries
<1>2. /\ pc[c] = "locking" /\ requests' = Append(requests, c)
      /\ UNCHANGED <<remaining, sent, answered, incoming, target, queue, results>>
      /\ \A d \in Calls : pc'[d] = IF d = c THEN "draining" ELSE pc[d]
  BY <1>1 DEF Write, Goto, TypeOK, registry
<1>3. /\ requests \in Seq(Calls) /\ Len(requests) \in Nat /\ Len(requests') = Len(requests) + 1
      /\ requests'[Len(requests) + 1] = c
      /\ \A i \in 1..Len(requests) : /\ i \in 1..Len(requests') /\ requests'[i] = requests[i]
                                     /\ i # Len(requests) + 1
  <2>1. requests \in Seq(Calls) /\ requests' = Append(requests, c)
    BY <1>1, <1>2 DEF TypeOK
  <2> QED BY <2>1
<1>4. \A i \in 1..Len(requests') : i \in 1..Len(requests) \/ i = Len(requests) + 1
  BY <1>3
<1>5. sent[c] = 0 /\ Got(c) = 0 /\ remaining[c] = ResponseFrames[c] /\ ~Ended(c)
  <2>1. ~Ended(c) /\ ~Contains(requests, c)
    BY <1>2, WrittenMoved DEF Ended
  <2>2. sent[c] = 0
    BY <1>1, <2>1 DEF FramesInv, SentAfterWrite
  <2>3. Arrived(c) <= 0 /\ Got(c) \in Nat
    BY <1>1, <2>1, <2>2, ArrivedType DEF FramesInv, NotAhead
  <2>4. Got(c) = 0
    BY <2>3 DEF Arrived
  <2>5. remaining[c] = ResponseFrames[c]
    BY <1>1, <1>2 DEF Serial, Counted
  <2> QED BY <2>1, <2>2, <2>4, <2>5
<1>6. InTurn'
  BY <1>1, <1>2, <1>3 DEF Serial, InTurn
<1>7. AnsweredFirst'
  <2> SUFFICES ASSUME NEW k \in 1..Len(requests'), NEW l \in 1..Len(requests'), k < l,
                      sent[requests'[l]] > 0
               PROVE  requests'[k] \in answered
    BY <1>2 DEF AnsweredFirst
  <2>1. l \in 1..Len(requests)
    BY <1>3, <1>4, <1>5
  <2>2. k \in 1..Len(requests)
    BY <1>3, <2>1
  <2> QED BY <1>1, <1>3, <2>1, <2>2 DEF Serial, AnsweredFirst
<1>8. Bounded' /\ ErrorsLast'
  BY <1>1, <1>2 DEF Serial, Bounded, ErrorsLast, LastOf
<1>9. \A d \in Calls : Contains(requests', d) => d = c \/ Contains(requests, d)
  BY <1>3, <1>4 DEF Contains
<1>10. \A d \in Calls : Got(d)' = Got(d) /\ Ended(d)' = Ended(d)
  BY <1>2 DEF Got, Ended
<1>11. Counted'
  <2>1. \A d \in Calls : pc'[d] = "locking" => remaining[d] = ResponseFrames[d]
    BY <1>1, <1>2 DEF Serial, Counted
  <2>2. \A d \in Calls : Contains(requests', d) => remaining[d] + Got(d) = ResponseFrames[d]
    <3>1. ResponseFrames[c] + 0 = ResponseFrames[c]
      BY RequestBoundsAssumption
    <3> QED BY <1>1, <1>5, <1>9, <3>1 DEF Serial, Counted
  <2> QED BY <1>2, <1>10, <2>1, <2>2 DEF Counted
<1>12. EndsComplete'
  <2>1. \A d \in Calls : Contains(requests', d) /\ Ended(d) => sent[d] = ResponseFrames[d]
    BY <1>1, <1>5, <1>9 DEF Serial, EndsComplete
  <2>2. \A i \in 1..Len(incoming) : ~Ended(incoming[i].call) /\ incoming[i].call \in Calls
    BY <1>1, OnWire DEF Serial, EndsComplete
  <2>3. target # Nobody => ~Ended(target[1]) /\ target[1] \in Calls
    BY <1>1, WireWritten DEF Serial, EndsComplete
  <2> QED BY <1>2, <1>10, <2>1, <2>2, <2>3 DEF EndsComplete
<1> QED BY <1>6, <1>7, <1>8, <1>11, <1>12 DEF Serial

\* A call takes a frame: the last one it needs, when it ends.
LEMMA SerialTake ==
    ASSUME InSeries, NEW c \in Calls, Take(c)
    PROVE  Serial'
<1>1. TypeOK /\ LineInv /\ FramesInv /\ Serial
  BY DEF InSeries
<1>2. /\ queue[c] \in Seq(Frame) /\ queue[c] # <<>> /\ results[c] \in Seq(Frame)
      /\ \A d \in Calls : queue'[d] = IF d = c THEN Tail(queue[c]) ELSE queue[d]
      /\ pc[c] = "waiting" /\ ~Ended(c)
  BY <1>1 DEF Take, TypeOK, Ended
<1>3. UNCHANGED <<requests, sent, answered, incoming, target>>
  BY DEF Take, server
<1>4. \A d \in Calls : Got(d)' = Got(d)
  BY <1>1, TakeKeeps
<1>5. InTurn' /\ AnsweredFirst' /\ Bounded'
  BY <1>1, <1>3 DEF Serial, InTurn, AnsweredFirst, Bounded
<1>6. ErrorsLast'
  <2>1. \A i \in 1..Len(Tail(queue[c])) :
            i + 1 \in 1..Len(queue[c]) /\ Tail(queue[c])[i] = queue[c][i + 1]
    BY <1>2
  <2>2. \A d \in Calls : \A i \in 1..Len(queue'[d]) : LastOf(queue'[d][i])
    BY <1>1, <1>2, <2>1 DEF Serial, ErrorsLast
  <2> QED BY <1>1, <1>3, <2>2 DEF Serial, ErrorsLast, LastOf
<1>7. CASE UNCHANGED <<pc, registry>>
  <2>1. Counted' /\ EndsComplete'
    BY <1>1, <1>3, <1>4, <1>7 DEF Serial, Counted, EndsComplete, Ended, registry
  <2> QED BY <1>5, <1>6, <2>1 DEF Serial
<1>8. ASSUME NEW to \in {"returned", "failed"}, Goto(c, to), Unregister(c),
             Len(results[c]) + 1 = ResponseFrames[c]
      PROVE  Serial'
  <2>1. /\ \A d \in Calls : pc'[d] = IF d = c THEN to ELSE pc[d]
        /\ \A d \in Calls : remaining'[d] = IF d = c THEN 0 ELSE remaining[d]
    BY <1>1, <1>8 DEF Goto, Unregister, TypeOK
  <2>2. Contains(requests, c)
    BY <1>1, <1>2 DEF LineInv, WrittenOnce
  <2>3. Got(c) >= ResponseFrames[c]
    <3>1. ResponseFrames[c] \in Nat
      BY RequestBoundsAssumption
    <3>2. Len(results[c]) + Len(queue[c]) >= ResponseFrames[c]
      BY <1>2, <1>8, <3>1, LengthsReach
    <3> QED BY <3>2 DEF Got
  <2>4. /\ sent[c] = ResponseFrames[c] /\ remaining[c] = 0
        /\ \A i \in 1..Len(incoming) : incoming[i].call # c
        /\ target # Nobody => target[1] # c
    BY <1>2, <2>2, <2>3, AllArrived
  <2>5. Counted'
    <3>1. \A d \in Calls : remaining'[d] = remaining[d]
      BY <2>1, <2>4
    <3>2. \A d \in Calls : pc'[d] = "locking" => pc[d] = "locking"
      BY <2>1
    <3> QED BY <1>1, <1>3, <1>4, <3>1, <3>2 DEF Serial, Counted
  <2>6. EndsComplete'
    <3>1. \A d \in Calls \ {c} : Ended(d)' = Ended(d)
      BY <2>1 DEF Ended
    <3>2. \A d \in Calls : Contains(requests, d) /\ Ended(d)' => sent[d] = ResponseFrames[d]
      BY <1>1, <2>4, <3>1 DEF Serial, EndsComplete
    <3>3. \A i \in 1..Len(incoming) : ~Ended(incoming[i].call)'
      <4> TAKE i \in 1..Len(incoming)
      <4>1. PICK d \in Calls \ {c} : d = incoming[i].call
        BY <1>1, <2>4, OnWire
      <4>2. ~Ended(d)'
        BY <1>1, <3>1, <4>1 DEF Serial, EndsComplete
      <4> QED BY <1>3, <4>1, <4>2 DEF Ended
    <3>4. target # Nobody => ~Ended(target[1])'
      <4> SUFFICES ASSUME target # Nobody PROVE ~Ended(target[1])'
        OBVIOUS
      <4>1. PICK d \in Calls \ {c} : d = target[1]
        BY <2>4, WireWritten
      <4>2. ~Ended(d)'
        BY <1>1, <3>1, <4>1 DEF Serial, EndsComplete
      <4> QED BY <1>3, <4>1, <4>2 DEF Ended
    <3> QED BY <1>3, <3>2, <3>3, <3>4 DEF EndsComplete
  <2> QED BY <1>5, <1>6, <2>5, <2>6 DEF Serial
<1>9. CASE Head(queue[c]).kind = "error"
  <2>1. 1 \in 1..Len(queue[c]) /\ Head(queue[c]) = queue[c][1] /\ Len(results[c]) \in Nat
    BY <1>2
  <2>2. queue[c][1].call = c /\ queue[c][1].seq = Len(results[c]) + 1
    BY <1>1, <2>1 DEF FramesInv, InQueue
  <2>3. queue[c][1].seq = ResponseFrames[c]
    BY <1>1, <1>9, <2>1, <2>2 DEF Serial, ErrorsLast, LastOf
  <2> QED BY <1>8, <1>9, <2>2, <2>3 DEF Take
<1> QED BY <1>7, <1>8, <1>9 DEF Take

\* The server answers the oldest request it has not finished with.
LEMMA SerialAnswer ==
    ASSUME InSeries, Orderly', NEW c \in Calls, Answer(c)
    PROVE  Serial'
<1>1. TypeOK /\ LineInv /\ FramesInv /\ Serial /\ ~sessioned
  BY DEF InSeries
<1>2. UNCHANGED <<sessioned, pc, remaining, results, queue, requests, target>>
  BY DEF Answer, calls, registry
<1>3. /\ Contains(requests, c) /\ c \notin answered
      /\ \A k, l \in 1..Len(requests) : k < l /\ requests[l] = c => requests[k] \in answered
  <2>1. Contains(requests, c) /\ c \notin answered
    BY <1>1, ToSetContains DEF Answer, TypeOK
  <2>2. \A i \in 1..Len(requests) :
            requests[i] = c => \A j \in 1..(i - 1) : requests[j] \in answered
    BY <1>1 DEF Answer
  <2>3. \A k, l \in 1..Len(requests) : k < l => k \in 1..(l - 1)
    BY <1>1 DEF TypeOK
  <2> QED BY <2>1, <2>2, <2>3
<1>4. answered \subseteq answered' /\ \A d \in answered' : sent'[d] = ResponseFrames[d]
  BY <1>1, <1>2 DEF Answer, Orderly
<1>5. \A d \in Calls : Got(d)' = Got(d) /\ Ended(d)' = Ended(d)
  BY <1>2 DEF Got, Ended
<1>6. Counted'
  BY <1>1, <1>2, <1>5 DEF Serial, Counted
<1>7. CASE UNCHANGED <<sent, incoming>>
  <2>1. InTurn' /\ AnsweredFirst' /\ Bounded' /\ EndsComplete' /\ ErrorsLast'
    BY <1>1, <1>2, <1>4, <1>7 DEF Serial, InTurn, AnsweredFirst, Bounded, EndsComplete, Ended,
       ErrorsLast, LastOf
  <2> QED BY <1>6, <2>1 DEF Serial
<1>8. ASSUME NEW kind \in {"value", "error"}, Send(c, kind),
             kind = "value" => sent[c] < ResponseFrames[c], kind = "error" => c \in answered'
      PROVE  Serial'
  <2> DEFINE frame == [call |-> c, kind |-> kind, seq |-> sent[c] + 1]
  <2>1. /\ incoming \in Seq(Frame) /\ frame \in Frame /\ sent[c] \in Nat
        /\ \A d \in Calls : sent'[d] = IF d = c THEN sent[c] + 1 ELSE sent[d]
        /\ incoming' = Append(incoming, frame)
    BY <1>1, <1>8 DEF Send, TypeOK, Frame
  <2>2. /\ Len(incoming') = Len(incoming) + 1 /\ Len(incoming) \in Nat
        /\ \A i \in 1..Len(incoming) : incoming'[i] = incoming[i] /\ i < Len(incoming) + 1
        /\ incoming'[Len(incoming) + 1] = frame
    BY <2>1
  <2>3. \A i \in 1..Len(incoming') : i \in 1..Len(incoming) \/ i = Len(incoming) + 1
    BY <2>2
  <2>4. ResponseFrames[c] \in Nat
    BY RequestBoundsAssumption
  <2>5. kind = "error" => sent[c] + 1 = ResponseFrames[c]
    BY <1>4, <1>8, <2>1
  <2>6. ~Ended(c)
    <3>1. sent[c] # ResponseFrames[c]
      BY <1>8, <2>1, <2>4, <2>5
    <3> QED BY <1>1, <1>3, <3>1 DEF Serial, EndsComplete
  <2>7. Bounded'
    <3>1. sent[c] + 1 <= ResponseFrames[c]
      BY <1>8, <2>1, <2>4, <2>5
    <3> QED BY <1>1, <2>1, <3>1 DEF Serial, Bounded
  <2>8. AnsweredFirst'
    <3> SUFFICES ASSUME NEW k \in 1..Len(requests), NEW l \in 1..Len(requests), k < l,
                        sent'[requests[l]] > 0
                 PROVE  requests[k] \in answered'
      BY <1>2 DEF AnsweredFirst
    <3>1. CASE requests[l] = c
      BY <1>3, <1>4, <3>1
    <3>2. CASE requests[l] # c
      <4>1. sent[requests[l]] > 0
        BY <1>1, <2>1, <3>2, AreCalls
      <4> QED BY <1>1, <1>4, <4>1 DEF Serial, AnsweredFirst
    <3> QED BY <3>1, <3>2
  \* Whatever is still on its way was requested before.
  <2>9. ASSUME NEW i \in 1..Len(incoming), incoming[i].call # c
        PROVE  \E k, l \in 1..Len(requests) :
                   k < l /\ requests[k] = incoming[i].call /\ requests[l] = c
    <3>1. PICK k \in 1..Len(requests) : requests[k] = incoming[i].call
      BY WireWritten DEF Contains
    <3>2. PICK l \in 1..Len(requests) : requests[l] = c
      BY <1>3 DEF Contains
    <3>3. ~(l < k)
      <4>1. sent[requests[k]] > 0
        BY <3>1, WireWritten
      <4> QED BY <1>1, <1>3, <3>2, <4>1 DEF Serial, AnsweredFirst
    <3>4. k # l
      BY <2>9, <3>1, <3>2
    <3>5. k < l
      BY <3>3, <3>4
    <3> QED BY <3>1, <3>2, <3>5
  <2>10. InTurn'
    <3> SUFFICES ASSUME NEW i \in 1..Len(incoming'), NEW j \in 1..Len(incoming'), i < j,
                        incoming'[i].call # incoming'[j].call
                 PROVE  \E k, l \in 1..Len(requests) :
                            k < l /\ requests[k] = incoming'[i].call /\ requests[l] = incoming'[j].call
      BY <1>2 DEF InTurn
    <3>1. i \in 1..Len(incoming)
      BY <2>2
    <3>2. CASE j \in 1..Len(incoming)
      BY <1>1, <2>2, <3>1, <3>2 DEF Serial, InTurn
    <3>3. CASE j = Len(incoming) + 1
      BY <2>2, <2>9, <3>1, <3>3
    <3> QED BY <2>3, <3>2, <3>3
  <2>11. EndsComplete'
    <3>1. \A d \in Calls : Contains(requests, d) /\ Ended(d) => sent'[d] = ResponseFrames[d]
      BY <1>1, <2>1, <2>6 DEF Serial, EndsComplete
    <3>2. \A i \in 1..Len(incoming') : ~Ended(incoming'[i].call)
      BY <1>1, <2>2, <2>3, <2>6 DEF Serial, EndsComplete
    <3> QED BY <1>1, <1>2, <3>1, <3>2 DEF Serial, EndsComplete, Ended
  <2>12. ErrorsLast'
    <3>1. LastOf(frame)
      BY <2>5 DEF LastOf
    <3>2. \A i \in 1..Len(incoming') : LastOf(incoming'[i])
      BY <1>1, <2>2, <2>3, <3>1 DEF Serial, ErrorsLast
    <3> QED BY <1>1, <1>2, <3>2 DEF Serial, ErrorsLast, LastOf
  <2> QED BY <1>6, <2>7, <2>8, <2>10, <2>11, <2>12 DEF Serial
<1> QED BY <1>7, <1>8 DEF Answer

\* The frame that arrives first is for the oldest call that waits.
LEMMA HeadOfLine ==
    ASSUME InSeries, target = Nobody, incoming # <<>>
    PROVE  none_pending # <<>> /\ Head(none_pending) = Head(incoming).call
<1>1. TypeOK /\ LineInv /\ FramesInv /\ Serial
  BY DEF InSeries
<1>2. 1 \in 1..Len(incoming) /\ Head(incoming) = incoming[1] /\ incoming[1].call \in Calls
      /\ incoming[1].seq \in Nat
  BY <1>1, OnWire
<1>3. PICK c \in Calls : c = incoming[1].call
  BY <1>2
<1>4. Contains(requests, c) /\ sent[c] > 0 /\ ~Ended(c) /\ pc[c] # "locking"
  BY <1>1, <1>2, <1>3, WireWritten, WrittenMoved DEF Serial, EndsComplete
<1>5. \A d \in Calls : /\ sent[d] \in Nat /\ remaining[d] \in Nat /\ ResponseFrames[d] \in Nat
                       /\ Got(d) \in Nat /\ Arrived(d) = Got(d)
  BY <1>1, ArrivedType, RequestBoundsAssumption DEF TypeOK, Arrived
<1>6. remaining[c] > 0
  <2>1. Got(c) < incoming[1].seq /\ incoming[1].seq <= sent[c]
    BY <1>1, <1>2, <1>3, <1>4, <1>5 DEF FramesInv, OnTheWay
  <2>2. sent[c] <= ResponseFrames[c] /\ remaining[c] + Got(c) = ResponseFrames[c]
    BY <1>1, <1>4 DEF Serial, Bounded, Counted
  <2> QED BY <1>2, <1>5, <2>1, <2>2
<1>7. PICK n \in 1..Len(none_pending) : none_pending[n] = c
  BY <1>1, <1>6 DEF LineInv, Expecting, Contains
<1>8. /\ none_pending \in Seq(Calls) /\ none_pending # <<>> /\ 1 \in 1..Len(none_pending)
      /\ Head(none_pending) = none_pending[1] /\ none_pending[1] \in Calls
  <2>1. none_pending \in Seq(Calls)
    BY <1>1 DEF TypeOK
  <2> QED BY <1>7, <2>1
<1>9. ASSUME n # 1
      PROVE  FALSE
  <2>1. PICK d \in Calls : d = none_pending[1]
    BY <1>8
  <2>2. d # c /\ remaining[d] > 0 /\ pc[d] \in {"locking", "draining", "waiting"} /\ ~Ended(d)
    BY <1>1, <1>7, <1>8, <1>9, <2>1 DEF LineInv, Expecting, Distinct, Ended
  <2>3. WrittenBefore(d, c)
    <3>1. 1 < n
      BY <1>7, <1>8, <1>9
    <3> QED BY <1>1, <1>7, <1>8, <2>1, <3>1 DEF LineInv, InOrder
  <2>4. PICK i \in 1..Len(requests), j \in 1..Len(requests) :
            i < j /\ requests[i] = d /\ requests[j] = c
    BY <1>4, <2>3 DEF WrittenBefore
  <2>5. sent[d] = ResponseFrames[d]
    <3>1. d \in answered
      BY <1>1, <1>4, <2>4 DEF Serial, AnsweredFirst
    <3> QED BY <3>1 DEF InSeries, Orderly
  <2>6. Contains(requests, d)
    BY <2>4 DEF Contains
  <2>7. remaining[d] + Got(d) = ResponseFrames[d]
    BY <1>1, <2>6 DEF Serial, Counted
  <2>8. Got(d) + 1 \in 1..sent[d] /\ Got(d) < Got(d) + 1
    BY <1>5, <2>2, <2>5, <2>7
  <2>9. PICK m \in 1..Len(incoming) : incoming[m].call = d
    BY <1>1, <1>5, <2>2, <2>8 DEF FramesInv, NoneMissing
  <2>10. 1 < m
    <3>1. m # 1
      BY <1>3, <2>2, <2>9
    <3> QED BY <3>1
  <2>11. PICK k \in 1..Len(requests), l \in 1..Len(requests) :
            k < l /\ requests[k] = c /\ requests[l] = d
    BY <1>1, <1>2, <1>3, <2>2, <2>9, <2>10 DEF Serial, InTurn
  <2>12. k = j /\ l = i
    BY <1>1, <2>4, <2>11 DEF LineInv, WrittenOnce, Distinct
  <2>13. i \in Int /\ j \in Int
    OBVIOUS
  <2> QED BY <2>4, <2>11, <2>12, <2>13
<1> QED BY <1>2, <1>3, <1>7, <1>8, <1>9

LEMMA SerialRead ==
    ASSUME InSeries, ReadFrame
    PROVE  Serial' /\ target' = <<Head(incoming).call, Head(incoming)>>
<1>1. TypeOK /\ LineInv /\ FramesInv /\ Serial /\ ~sessioned
  BY DEF InSeries
<1>2. /\ UNCHANGED <<pc, remaining, results, queue, requests, sent, answered>>
      /\ target = Nobody /\ incoming # <<>> /\ incoming' = Tail(incoming)
  BY DEF ReadFrame, calls, registry, server
<1>3. incoming \in Seq(Frame) /\ 1 \in 1..Len(incoming) /\ Head(incoming) = incoming[1]
      /\ incoming[1].call \in Calls
  BY <1>1, <1>2, OnWire
<1>4. target' = <<Head(incoming).call, Head(incoming)>>
  <2>1. QueueFor(Head(incoming)) = Head(incoming).call
    BY <1>1, <1>2, HeadOfLine DEF QueueFor
  <2>2. Head(incoming).call # Nobody
    BY <1>3, CallsAssumption DEF Nobody
  <2> QED BY <2>1, <2>2 DEF ReadFrame
<1>5. /\ Len(incoming') = Len(incoming) - 1 /\ Len(incoming) \in Nat
      /\ \A i \in 1..Len(incoming') : i + 1 \in 1..Len(incoming) /\ incoming'[i] = incoming[i + 1]
  BY <1>2, <1>3
<1>6. InTurn'
  <2>0. requests' = requests
    BY <1>2
  <2> SUFFICES ASSUME NEW i \in 1..Len(incoming'), NEW j \in 1..Len(incoming'), i < j,
                      incoming'[i].call # incoming'[j].call
               PROVE  \E k, l \in 1..Len(requests) :
                          k < l /\ requests[k] = incoming'[i].call /\ requests[l] = incoming'[j].call
    BY <2>0 DEF InTurn
  <2>1. /\ i + 1 \in 1..Len(incoming) /\ incoming'[i] = incoming[i + 1]
        /\ j + 1 \in 1..Len(incoming) /\ incoming'[j] = incoming[j + 1]
    BY <1>5
  <2>2. i + 1 < j + 1
    BY <1>5
  <2>3. \E k, l \in 1..Len(requests) :
            /\ k < l
            /\ requests[k] = incoming[i + 1].call /\ requests[l] = incoming[j + 1].call
    BY <1>1, <2>1, <2>2 DEF Serial, InTurn
  <2> QED BY <2>1, <2>3
<1>7. AnsweredFirst' /\ Bounded' /\ Counted'
  BY <1>1, <1>2 DEF Serial, AnsweredFirst, Bounded, Counted, Got
<1>8. target'[1] = incoming[1].call /\ target'[2] = incoming[1] /\ target' # Nobody
  BY <1>3, <1>4 DEF Nobody
<1>9. EndsComplete'
  <2>1. \A d : Ended(d)' = Ended(d)
    BY <1>2 DEF Ended
  <2>2. \A i \in 1..Len(incoming') : ~Ended(incoming'[i].call)
    BY <1>1, <1>5 DEF Serial, EndsComplete
  <2>3. ~Ended(target'[1])
    BY <1>1, <1>3, <1>8 DEF Serial, EndsComplete
  <2>4. \A d \in Calls : Contains(requests, d) /\ Ended(d) => sent[d] = ResponseFrames[d]
    BY <1>1 DEF Serial, EndsComplete
  <2> QED BY <1>2, <2>2, <2>3, <2>4 DEF EndsComplete, Ended
<1>10. ErrorsLast'
  <2>1. \A i \in 1..Len(incoming') : LastOf(incoming'[i])
    BY <1>1, <1>5 DEF Serial, ErrorsLast
  <2>2. LastOf(target'[2])
    BY <1>1, <1>3, <1>8 DEF Serial, ErrorsLast
  <2> QED BY <1>1, <1>2, <2>1, <2>2 DEF Serial, ErrorsLast, LastOf
<1> QED BY <1>4, <1>6, <1>7, <1>9, <1>10 DEF Serial

\* A frame is put in the queue of its call, which expects one frame less.
LEMMA SerialDeliver ==
    ASSUME InSeries, Deliver
    PROVE  Serial'
<1>1. TypeOK /\ LineInv /\ FramesInv /\ Serial /\ ~sessioned
  BY DEF InSeries
<1>2. PICK c \in Calls, frame \in Frame : target = <<c, frame>>
  <2>1. target \in Calls \X Frame
    BY <1>1 DEF Deliver, TypeOK
  <2> QED BY <2>1
<1>3. /\ target # Nobody /\ target[1] = c /\ target[2] = frame /\ target' = Nobody
      /\ UNCHANGED <<pc, results, requests, sent, answered, incoming>>
  BY <1>2 DEF Deliver, calls, server
<1>4. Contains(requests, c) /\ sent[c] > 0 /\ ~Ended(c) /\ pc[c] # "locking"
  BY <1>1, <1>3, WireWritten, WrittenMoved DEF Serial, EndsComplete
<1>5. \A d \in Calls : queue'[d] = IF d = c THEN Append(queue[c], frame) ELSE queue[d]
  BY <1>1, <1>3, <1>4 DEF Deliver, TypeOK
<1>6. \A d \in Calls : remaining'[d] = IF d = c THEN (IF remaining[c] = 0 THEN 0 ELSE remaining[c] - 1)
                                       ELSE remaining[d]
  <2>1. CountDown(c)
    BY <1>1, <1>3 DEF Deliver
  <2> QED BY <1>1, <2>1 DEF CountDown, TypeOK
<1>7. /\ queue[c] \in Seq(Frame) /\ results[c] \in Seq(Frame) /\ remaining[c] \in Nat
      /\ sent[c] \in Nat /\ ResponseFrames[c] \in Nat /\ Got(c) \in Nat
  BY <1>1, ArrivedType, RequestBoundsAssumption DEF TypeOK
<1>8. remaining[c] > 0
  <2>1. Arrived(c) = Got(c) + 1
    BY <1>3 DEF Arrived
  <2>2. Arrived(c) <= sent[c] /\ sent[c] <= ResponseFrames[c]
        /\ remaining[c] + Got(c) = ResponseFrames[c]
    BY <1>1, <1>4 DEF FramesInv, NotAhead, Serial, Bounded, Counted
  <2> QED BY <1>7, <2>1, <2>2
<1>9. \A d \in Calls : Got(d)' = IF d = c THEN Got(c) + 1 ELSE Got(d)
  <2>1. Len(results[c]) + Len(Append(queue[c], frame)) = (Len(results[c]) + Len(queue[c])) + 1
    BY <1>7, LengthsGrow
  <2> QED BY <1>3, <1>5, <2>1 DEF Got
<1>10. Counted'
  <2>1. \A d \in Calls : pc[d] = "locking" => remaining'[d] = ResponseFrames[d]
    BY <1>1, <1>4, <1>6 DEF Serial, Counted
  <2>2. remaining[c] + Got(c) = ResponseFrames[c]
    BY <1>1, <1>4 DEF Serial, Counted
  <2>3. (remaining[c] - 1) + (Got(c) + 1) = ResponseFrames[c]
    BY <1>7, <1>8, <2>2
  <2>4. ASSUME NEW d \in Calls, Contains(requests, d)
        PROVE  remaining'[d] + Got(d)' = ResponseFrames[d]
    <3>1. CASE d = c
      BY <1>6, <1>8, <1>9, <2>3, <3>1
    <3>2. CASE d # c
      BY <1>1, <1>6, <1>9, <2>4, <3>2 DEF Serial, Counted
    <3> QED BY <3>1, <3>2
  <2> QED BY <1>3, <2>1, <2>4 DEF Counted
<1>11. ErrorsLast'
  <2>1. /\ LastOf(frame) /\ \A i \in 1..Len(queue[c]) : LastOf(queue[c][i])
    BY <1>1, <1>3 DEF Serial, ErrorsLast
  <2>2. \A i \in 1..Len(Append(queue[c], frame)) : LastOf(Append(queue[c], frame)[i])
    <3>1. \A i \in 1..Len(Append(queue[c], frame)) :
              \/ i \in 1..Len(queue[c]) /\ Append(queue[c], frame)[i] = queue[c][i]
              \/ Append(queue[c], frame)[i] = frame
      BY <1>7
    <3> QED BY <2>1, <3>1
  <2>3. \A d \in Calls : \A i \in 1..Len(queue'[d]) : LastOf(queue'[d][i])
    BY <1>1, <1>5, <2>2 DEF Serial, ErrorsLast
  <2> QED BY <1>1, <1>3, <2>3 DEF Serial, ErrorsLast, LastOf
<1>12. InTurn' /\ AnsweredFirst' /\ Bounded' /\ EndsComplete'
  BY <1>1, <1>3 DEF Serial, InTurn, AnsweredFirst, Bounded, EndsComplete, Ended
<1> QED BY <1>10, <1>11, <1>12 DEF Serial

LEMMA SerialNext ==
    ASSUME InSeries, Orderly', [Next]_vars
    PROVE  FramesInv' /\ Serial'
<1>1. TypeOK /\ LineInv /\ FramesInv /\ Serial /\ ~sessioned
  BY DEF InSeries
<1>2. CASE UNCHANGED vars
  <2>1. UNCHANGED <<pc, remaining, results, queue, requests, sent, answered, incoming, target>>
    BY <1>2 DEF vars, calls, registry, server
  <2>2. InTurn' /\ AnsweredFirst' /\ Bounded'
    BY <1>1, <2>1 DEF Serial, InTurn, AnsweredFirst, Bounded
  <2>3. Counted' /\ EndsComplete'
    BY <1>1, <2>1 DEF Serial, Counted, EndsComplete, Got, Ended
  <2>4. ErrorsLast'
    BY <1>1, <2>1 DEF Serial, ErrorsLast, LastOf
  <2> QED BY <1>1, <1>2, <2>2, <2>3, <2>4, FramesStutter DEF Serial
<1>3. ASSUME NEW c \in Calls, Register(c) \/ CallStep(c)
      PROVE  FramesInv' /\ Serial'
  BY <1>1, <1>3, SerialRegister, SerialWrite, SerialTake, FramesCall, FramesTake DEF CallStep
<1>4. ASSUME NEW c \in Calls, TimesOut(c)
      PROVE  FALSE
  <2>1. timeouts \in Nat /\ timeouts' = timeouts + 1
    BY <1>1, <1>4 DEF TimesOut, TypeOK
  <2>2. sessioned' = sessioned
    BY <1>4 DEF TimesOut
  <2>3. timeouts' = 0
    BY <1>1, <2>2 DEF Orderly
  <2> QED BY <2>1, <2>3
<1>5. ASSUME NEW c \in Calls, Answer(c)
      PROVE  FramesInv' /\ Serial'
  BY <1>1, <1>5, SerialAnswer, FramesAnswer
<1>6. CASE ReadFrame
  BY <1>1, <1>6, SerialRead, FramesRead
<1>7. CASE Deliver
  BY <1>1, <1>7, SerialDeliver, FramesDeliver
<1> QED BY <1>2, <1>3, <1>4, <1>5, <1>6, <1>7 DEF Next

-----------------------------------------------------------------------------
(* Both kinds of client.                                                       *)

OwnInv ==
    IF sessioned THEN Registered /\ FramesInv ELSE Orderly => FramesInv /\ Serial

LEMMA OwnNext == TypeOK /\ LineInv /\ OwnInv /\ [Next]_vars => OwnInv'
<1> SUFFICES ASSUME TypeOK, LineInv, OwnInv, [Next]_vars PROVE OwnInv'
  OBVIOUS
<1>1. CASE sessioned
  BY <1>1, SessionedNext DEF OwnInv
<1>2. CASE ~sessioned
  <2>1. CASE ~Orderly'
    <3>1. ~sessioned'
      BY <2>1 DEF Orderly
    <3> QED BY <2>1, <3>1 DEF OwnInv
  <2>2. CASE Orderly'
    <3>1. ~sessioned' /\ Orderly
      BY <1>2, <2>2, OrderlyBefore
    <3>2. InSeries
      BY <1>2, <3>1 DEF OwnInv, InSeries
    <3> QED BY <2>2, <3>1, <3>2, SerialNext DEF OwnInv
  <2> QED BY <2>1, <2>2
<1> QED BY <1>1, <1>2

\* With session ids, whatever the order of the answers and however many calls have
\* timed out or failed, and without, as long as every call takes exactly the frames
\* its command declares: in every reachable state the frames a call has taken or finds
\* in its queue are its own, in order and without a gap.
THEOREM OwnResponsesCorrect == Spec => []OwnResponses
<1>1. Init => OwnInv
  <2> SUFFICES ASSUME Init PROVE OwnInv
    OBVIOUS
  <2>1. Registered
    BY DEF Init, Registered
  <2> QED BY <2>1, FramesInvInit, SerialInit DEF OwnInv
<1>2. TypeOK /\ OwnInv => OwnResponses
  BY FramesImplies DEF OwnInv, OwnResponses, Orderly
<1> QED BY <1>1, <1>2, TypeInit, TypeNext, LineInit, LineNext, OwnNext, PTL DEF Spec
-----------------------------------------------------------------------------
(* Without session ids the server is assumed to do exactly what ResponseStream *)
(* promises, and ServerConnection keeps.                                       *)

\* A request that was not written has no response; every frame is of one that was.
StreamInv ==
    /\ \A c \in Calls : ~Contains(requests, c) => sent[c] = 0 /\ c \notin answered
    /\ \A i \in 1..Len(incoming) : Contains(requests, incoming[i].call)

\* The abstract state.
Asked == [i \in 1..Len(requests) |-> ResponseFrames[requests[i]]]
Given == [i \in 1..Len(requests) |-> sent[requests[i]]]
Finished == {i \in 1..Len(requests) : requests[i] \in answered}
Numbered(frame) == [task |-> Number(frame.call), kind |-> frame.kind, seq |-> frame.seq]
Travelling == [i \in 1..Len(incoming) |-> [task |-> Number(incoming[i].call),
                                           kind |-> incoming[i].kind, seq |-> incoming[i].seq]]

LEMMA StreamInvInit == Init => StreamInv
BY DEF Init, StreamInv, Contains

LEMMA StreamInvNext == TypeOK /\ StreamInv /\ [Next]_vars => StreamInv'
<1> SUFFICES ASSUME TypeOK, StreamInv, [Next]_vars PROVE StreamInv'
  OBVIOUS
<1>1. CASE UNCHANGED <<server, incoming>>
  BY <1>1 DEF StreamInv, server
<1>2. ASSUME NEW c \in Calls, Write(c) PROVE StreamInv'
  <2>1. requests' = Append(requests, c) /\ UNCHANGED <<sent, answered, incoming>>
    BY <1>2 DEF Write
  <2>2. \A d : Contains(requests, d) => Contains(requests, d)'
    BY <2>1 DEF Contains, TypeOK
  <2>3. QED
    BY <2>1, <2>2 DEF StreamInv
<1>3. ASSUME NEW c \in Calls, Answer(c) PROVE StreamInv'
  <2>1. Contains(requests, c) /\ UNCHANGED requests
    BY <1>3, ToSetContains DEF Answer, TypeOK
  <2>2. \A d \in Calls : ~Contains(requests, d) => sent'[d] = 0 /\ d \notin answered'
    BY <1>3, <2>1 DEF Answer, Send, StreamInv, TypeOK
  <2>3. \A i \in 1..Len(incoming') : Contains(requests, incoming'[i].call)
    <3>1. CASE UNCHANGED incoming
      BY <3>1 DEF StreamInv
    <3>2. ASSUME NEW kind, Send(c, kind)
          PROVE  \A i \in 1..Len(incoming') : Contains(requests, incoming'[i].call)
      <4> DEFINE f == [call |-> c, kind |-> kind, seq |-> sent[c] + 1]
      <4>1. incoming' = Append(incoming, f) /\ f.call = c
        BY <3>2 DEF Send
      <4> HIDE DEF f
      <4>2. \A i \in 1..Len(incoming') :
                incoming'[i] = f \/ (i \in 1..Len(incoming) /\ incoming'[i] = incoming[i])
        <5>1. incoming \in Seq(Frame)
          BY OnWire
        <5>2. QED
          BY <4>1, <5>1
      <4>3. QED
        BY <2>1, <4>1, <4>2 DEF StreamInv
    <3>3. QED
      BY <1>3, <3>1, <3>2 DEF Answer
  <2>4. QED
    BY <2>1, <2>2, <2>3 DEF StreamInv, Contains
<1>4. CASE ReadFrame
  <2>1. UNCHANGED server /\ incoming # <<>> /\ incoming' = Tail(incoming)
    BY <1>4 DEF ReadFrame
  <2>2. \A i \in 1..Len(incoming') : i + 1 \in 1..Len(incoming) /\ incoming'[i] = incoming[i + 1]
    BY <2>1 DEF TypeOK
  <2>3. QED
    BY <2>1, <2>2 DEF StreamInv, server, Contains
<1>5. ASSUME NEW c \in Calls,
             Register(c) \/ EncodeFails(c) \/ Drained(c) \/ Take(c) \/ TimesOut(c)
      PROVE  UNCHANGED <<server, incoming>>
  BY <1>5 DEF Register, EncodeFails, Drained, Take, TimesOut
<1>6. QED
  BY <1>1, <1>2, <1>3, <1>4, <1>5 DEF Next, CallStep, Deliver, vars

LEMMA NumberIs ==
    ASSUME LineInv, NEW i \in 1..Len(requests)
    PROVE  Number(requests[i]) = i
<1>1. \A j \in 1..Len(requests) : requests[j] = requests[i] => j = i
  BY DEF LineInv, WrittenOnce, Distinct
<1>2. QED
  BY <1>1 DEF Number

\* A request is written: it arrives at the server.
LEMMA StreamWrite ==
    ASSUME TypeOK, LineInv, StreamInv, NEW c \in Calls, Write(c)
    PROVE  Stream!Arrive
<1> DEFINE n == Len(requests)
<1>1. /\ requests' = Append(requests, c) /\ UNCHANGED <<sent, answered, incoming>>
      /\ pc[c] = "locking"
  BY DEF Write
<1>2. /\ n \in Nat /\ Len(requests') = n + 1 /\ requests'[n + 1] = c
      /\ \A i \in 1..n : requests'[i] = requests[i] /\ requests[i] \in Calls
  BY <1>1 DEF TypeOK
<1>3. ~Contains(requests, c) /\ sent[c] = 0 /\ c \notin answered
  BY <1>1 DEF Contains, LineInv, WrittenOnce, StreamInv
<1>4. Asked' = Append(Asked, ResponseFrames[c])
  <2> DEFINE S == {Asked[i] : i \in 1..n} \union {ResponseFrames[c]}
  <2>1. Asked \in Seq(S) /\ ResponseFrames[c] \in S /\ Len(Asked) = n
    BY <1>2 DEF Asked
  <2>2. Append(Asked, ResponseFrames[c])
        = [i \in 1..(n + 1) |-> IF i = n + 1 THEN ResponseFrames[c] ELSE Asked[i]]
    <3> HIDE DEF S
    <3>1. QED
      BY <2>1, AppendIsFunction
  <2>3. \A i \in 1..(n + 1) : ResponseFrames[requests'[i]]
                              = IF i = n + 1 THEN ResponseFrames[c] ELSE Asked[i]
    BY <1>2 DEF Asked
  <2>4. Asked' = [i \in 1..(n + 1) |-> ResponseFrames[requests'[i]]]
    BY <1>2 DEF Asked
  <2>5. QED
    BY <2>2, <2>3, <2>4
<1>5. Given' = Append(Given, 0)
  <2> DEFINE S == {Given[i] : i \in 1..n} \union {0}
  <2>1. Given \in Seq(S) /\ 0 \in S /\ Len(Given) = n
    BY <1>2 DEF Given
  <2>2. Append(Given, 0) = [i \in 1..(n + 1) |-> IF i = n + 1 THEN 0 ELSE Given[i]]
    <3> HIDE DEF S
    <3>1. QED
      BY <2>1, AppendIsFunction
  <2>3. \A i \in 1..(n + 1) : sent'[requests'[i]] = IF i = n + 1 THEN 0 ELSE Given[i]
    BY <1>1, <1>2, <1>3 DEF Given
  <2>4. Given' = [i \in 1..(n + 1) |-> sent'[requests'[i]]]
    BY <1>2 DEF Given
  <2>5. QED
    BY <2>2, <2>3, <2>4
<1>6. UNCHANGED Finished
  <2>1. \A i \in 1..(n + 1) : requests'[i] \in answered' <=> i \in 1..n /\ requests[i] \in answered
    BY <1>1, <1>2, <1>3
  <2>2. QED
    BY <1>2, <2>1 DEF Finished
<1>7. UNCHANGED Travelling
  <2>1. ASSUME NEW i \in 1..Len(incoming) PROVE Number(incoming[i].call)' = Number(incoming[i].call)
    <3>1. PICK k \in 1..n : requests[k] = incoming[i].call
      BY DEF StreamInv, Contains
    <3>2. \A j \in 1..(n + 1) : requests'[j] = incoming[i].call <=> j = k
      BY <1>2, <1>3, <3>1 DEF Contains, LineInv, WrittenOnce, Distinct
    <3>3. \A j \in 1..n : requests[j] = incoming[i].call <=> j = k
      BY <3>1 DEF LineInv, WrittenOnce, Distinct
    <3>4. QED
      BY <1>1, <1>2, <3>1, <3>2, <3>3 DEF Number
  <2>2. QED
    BY <1>1, <2>1 DEF Travelling
<1>8. ResponseFrames[c] \in {ResponseFrames[d] : d \in Calls}
  OBVIOUS
<1>9. QED
  BY <1>4, <1>5, <1>6, <1>7, <1>8
     DEF Stream!Arrive, Asked, Given, Finished, Travelling

\* A frame is read: it leaves the wire.
LEMMA StreamRead ==
    ASSUME TypeOK, ReadFrame
    PROVE  Stream!Read
<1>1. UNCHANGED server /\ incoming # <<>> /\ incoming' = Tail(incoming) /\ incoming \in Seq(Frame)
  BY OnWire DEF ReadFrame
<1>2. /\ Len(incoming) \in Nat /\ Len(incoming) # 0 /\ Len(incoming') = Len(incoming) - 1
      /\ \A i \in 1..Len(incoming') : incoming'[i] = incoming[i + 1]
  BY <1>1
<1>3. UNCHANGED <<Asked, Given, Finished>> /\ \A c : Number(c)' = Number(c)
  BY <1>1 DEF server, Asked, Given, Finished, Number
<1>4. Travelling # <<>> /\ Travelling' = Tail(Travelling)
  <2>1. Len(Travelling) = Len(incoming)
        /\ \A i \in 1..Len(incoming) : Travelling[i] = Numbered(incoming[i])
    BY <1>2 DEF Travelling, Numbered
  <2>2. Travelling' = [i \in 1..Len(incoming') |-> Numbered(incoming[i + 1])]
    BY <1>2, <1>3 DEF Travelling, Numbered
  <2> DEFINE S == {Numbered(incoming[i]) : i \in 1..Len(incoming)}
  <2>3. Travelling \in Seq(S)
    BY <1>2 DEF Travelling, Numbered
  <2> HIDE DEF S, Numbered
  <2>4. Tail(Travelling) = [i \in 1..(Len(incoming) - 1) |-> Travelling[i + 1]]
    <3>1. Travelling # <<>>
      BY <1>2, <2>1
    <3>2. QED
      BY <2>1, <2>3, <3>1, TailIsFunction
  <2>5. \A i \in 1..(Len(incoming) - 1) : i + 1 \in 1..Len(incoming)
    BY <1>2
  <2>6. Tail(Travelling) = [i \in 1..(Len(incoming) - 1) |-> Numbered(incoming[i + 1])]
    BY <2>1, <2>4, <2>5
  <2>7. Travelling # <<>>
    BY <1>2, <2>1
  <2>8. QED
    BY <1>2, <2>2, <2>6, <2>7
<1>5. QED
  BY <1>3, <1>4 DEF Stream!Read, Asked, Given, Finished, Travelling

\* The server may answer the request whose turn it is.
LEMMA TurnIs ==
    ASSUME TypeOK, LineInv, NEW i \in 1..Len(requests)
    PROVE  Stream!Turn(i) <=>
             /\ requests[i] \in ToSet(requests) \ answered
             /\ \A k \in 1..Len(requests) :
                    requests[k] = requests[i] => \A j \in 1..(k - 1) : requests[j] \in answered
<1>1. Len(requests) \in Nat /\ Len(Asked) = Len(requests)
  BY DEF Asked, TypeOK
<1>2. requests[i] \in ToSet(requests)
  BY ToSetContains DEF Contains, TypeOK
<1>3. \A k \in 1..Len(requests) : requests[k] = requests[i] <=> k = i
  BY DEF LineInv, WrittenOnce, Distinct
<1>4. i \in Finished <=> requests[i] \in answered
  BY DEF Finished
<1>5. 1..(i - 1) \subseteq Finished <=> \A j \in 1..(i - 1) : requests[j] \in answered
  BY <1>1 DEF Finished
<1>6. Stream!Turn(i) <=> i \in (1..Len(Asked)) \ Finished /\ 1..(i - 1) \subseteq Finished
  BY DEF Stream!Turn, Asked, Finished
<1>7. QED
  BY <1>1, <1>2, <1>3, <1>4, <1>5, <1>6

\* The two sides of a frame that is sent.
LEMMA NumberedAppend ==
    ASSUME TypeOK, UNCHANGED requests, NEW f
    PROVE  incoming' = Append(incoming, f) => Travelling' = Append(Travelling, Numbered(f))
<1> SUFFICES ASSUME incoming' = Append(incoming, f)
             PROVE  Travelling' = Append(Travelling, Numbered(f))
  OBVIOUS
<1>1. incoming \in Seq(Frame) /\ Len(incoming) \in Nat
  BY OnWire
<1>2. /\ Len(incoming') = Len(incoming) + 1 /\ incoming'[Len(incoming) + 1] = f
      /\ \A i \in 1..Len(incoming) : incoming'[i] = incoming[i]
  BY <1>1
<1>3. \A c : Number(c)' = Number(c)
  BY DEF Number
<1>4. Travelling' = [i \in 1..(Len(incoming) + 1) |-> Numbered(incoming'[i])]
  BY <1>2, <1>3 DEF Travelling, Numbered
<1>5. /\ Len(Travelling) = Len(incoming)
      /\ \A i \in 1..Len(incoming) : Travelling[i] = Numbered(incoming[i])
  BY <1>1 DEF Travelling, Numbered
<1> DEFINE S == {Numbered(incoming[i]) : i \in 1..Len(incoming)} \union {Numbered(f)}
<1>6. Travelling = [i \in 1..Len(incoming) |-> Numbered(incoming[i])]
  BY DEF Travelling, Numbered
<1> HIDE DEF Numbered
<1>7. Travelling \in Seq(S) /\ Numbered(f) \in S
  BY <1>6, <1>1
<1> HIDE DEF S
<1>8. Append(Travelling, Numbered(f))
      = [i \in 1..(Len(incoming) + 1) |-> IF i = Len(incoming) + 1 THEN Numbered(f) ELSE Travelling[i]]
  BY <1>5, <1>7, AppendIsFunction
<1>9. QED
  BY <1>1, <1>2, <1>4, <1>5, <1>8

LEMMA StreamSends ==
    ASSUME TypeOK, LineInv, NEW i \in 1..Len(requests), UNCHANGED requests, NEW kind,
           Send(requests[i], kind)
    PROVE  Stream!Send(i, kind)
<1> DEFINE c == requests[i]
           f == [call |-> c, kind |-> kind, seq |-> sent[c] + 1]
<1>1. c \in Calls /\ sent \in [Calls -> Nat] /\ Len(requests) \in Nat
      /\ \A j \in 1..Len(requests) : requests[j] \in Calls
  BY AreCalls DEF TypeOK
<1>2. sent' = [sent EXCEPT ![c] = @ + 1] /\ incoming' = Append(incoming, f)
  BY DEF Send
<1>3. \A j \in 1..Len(requests) : requests[j] = c <=> j = i
  BY DEF LineInv, WrittenOnce, Distinct
<1>4. Given' = [Given EXCEPT ![i] = @ + 1]
  BY <1>1, <1>2, <1>3 DEF Given
<1>5. Numbered(f) = [task |-> i, kind |-> kind, seq |-> Given[i] + 1]
  BY NumberIs DEF Numbered, Given
<1>6. Travelling' = Append(Travelling, Numbered(f))
  BY <1>2, NumberedAppend
<1>7. QED
  BY <1>4, <1>5, <1>6 DEF Stream!Send, Given, Travelling

\* An answer is a step of the stream.
LEMMA StreamAnswers ==
    ASSUME TypeOK, LineInv, ~sessioned, NEW i \in 1..Len(requests), Answer(requests[i])
    PROVE  Stream!Value(i) \/ Stream!Error(i) \/ Stream!Serve(i)
<1> DEFINE c == requests[i]
<1>1. Stream!Turn(i) /\ UNCHANGED requests /\ UNCHANGED Asked
  BY TurnIs DEF Answer, Asked
<1>2. Given[i] = sent[c] /\ Asked[i] = ResponseFrames[c]
  BY DEF Given, Asked
<1>3. answered' = answered \union {c} => Finished' = Finished \union {i}
  BY <1>1 DEF Finished, LineInv, WrittenOnce, Distinct
<1>4. CASE sent[c] < ResponseFrames[c] /\ Send(c, "value") /\ UNCHANGED answered
  <2>1. Stream!Send(i, "value") /\ UNCHANGED Finished
    BY <1>1, <1>4, StreamSends DEF Finished
  <2>2. Stream!Value(i)
    BY <1>1, <1>2, <1>4, <2>1 DEF Stream!Value, Asked, Given, Finished, Travelling
  <2>3. QED
    BY <2>2
<1>5. CASE Send(c, "error") /\ answered' = answered \union {c}
  <2>1. Stream!Send(i, "error")
    BY <1>1, <1>5, StreamSends
  <2>2. Stream!Error(i)
    BY <1>1, <1>3, <1>5, <2>1 DEF Stream!Error, Asked, Given, Finished, Travelling
  <2>3. QED
    BY <2>2
<1>6. CASE answered' = answered \union {c} /\ UNCHANGED <<sent, incoming>>
  <2>1. UNCHANGED <<Given, Travelling>>
    BY <1>1, <1>6 DEF Given, Travelling, Number
  <2>2. Stream!Serve(i)
    BY <1>1, <1>3, <1>6, <2>1 DEF Stream!Serve, Asked, Given, Finished, Travelling
  <2>3. QED
    BY <2>2
<1>7. QED
  BY <1>4, <1>5, <1>6 DEF Answer

\* A frame can be told from its number.
LEMMA NumberedOnce ==
    ASSUME TypeOK, NEW x \in Frame, NEW y \in Frame,
           Contains(requests, x.call), Contains(requests, y.call), Numbered(x) = Numbered(y)
    PROVE  x = y
<1>1. \A c : Contains(requests, c) => requests[Number(c)] = c
  BY DEF Contains, Number
<1>2. x.call = y.call /\ x.kind = y.kind /\ x.seq = y.seq
  BY <1>1 DEF Numbered
<1>3. QED
  BY <1>2 DEF Frame

LEMMA NumberedAppended ==
    ASSUME TypeOK, TypeOK', StreamInv, StreamInv', UNCHANGED requests, NEW f \in Frame,
           Contains(requests, f.call), Travelling' = Append(Travelling, Numbered(f))
    PROVE  incoming' = Append(incoming, f)
<1> DEFINE n == Len(incoming)
           app == Append(incoming, f)
<1>1. incoming \in Seq(Frame) /\ incoming' \in Seq(Frame) /\ n \in Nat /\ Len(incoming') \in Nat
  BY OnWire DEF TypeOK
<1>2. /\ app \in Seq(Frame) /\ Len(app) = n + 1 /\ app[n + 1] = f
      /\ \A i \in 1..n : app[i] = incoming[i]
  BY <1>1
<1>3. \A i \in 1..Len(app) : app[i] \in Frame /\ Contains(requests, app[i].call)
  BY <1>1, <1>2 DEF StreamInv
<1>4. \A i \in 1..Len(incoming') : incoming'[i] \in Frame /\ Contains(requests, incoming'[i].call)
  BY <1>1 DEF StreamInv, Contains
<1>5. \A c : Number(c)' = Number(c)
  BY DEF Number
<1>6. /\ Len(Travelling) = n /\ \A i \in 1..n : Travelling[i] = Numbered(incoming[i])
      /\ Travelling = [i \in 1..n |-> Numbered(incoming[i])]
  BY <1>1 DEF Travelling, Numbered
<1>7. Travelling' = [i \in 1..Len(incoming') |-> Numbered(incoming'[i])]
  BY <1>5 DEF Travelling, Numbered
<1> DEFINE S == {Numbered(incoming[i]) : i \in 1..n} \union {Numbered(f)}
<1> HIDE DEF Numbered, app
<1>8. Travelling \in Seq(S) /\ Numbered(f) \in S
  BY <1>1, <1>6
<1> HIDE DEF S
<1>9. Travelling' = [i \in 1..(n + 1) |-> IF i = n + 1 THEN Numbered(f) ELSE Travelling[i]]
  BY <1>6, <1>8, AppendIsFunction
<1>10. Len(incoming') = n + 1
  BY <1>1, <1>7, <1>9
<1>11. \A i \in 1..(n + 1) : Numbered(incoming'[i]) = Numbered(app[i])
  BY <1>1, <1>2, <1>6, <1>7, <1>9, <1>10
<1>12. \A i \in 1..(n + 1) : incoming'[i] = app[i]
  BY <1>2, <1>3, <1>4, <1>10, <1>11, NumberedOnce
<1>13. incoming' = app
  BY <1>1, <1>2, <1>10, <1>12, SeqEqual
<1>14. QED
  BY <1>13 DEF app

\* What the stream sends for a request, the server sends for its call.
LEMMA SendsForCall ==
    ASSUME TypeOK, TypeOK', LineInv, StreamInv, StreamInv', NEW i \in 1..Len(requests),
           UNCHANGED requests, NEW kind \in {"value", "error"}, Stream!Send(i, kind)
    PROVE  Send(requests[i], kind)
<1> DEFINE c == requests[i]
           f == [call |-> c, kind |-> kind, seq |-> sent[c] + 1]
<1>1. /\ c \in Calls /\ sent \in [Calls -> Nat] /\ sent' \in [Calls -> Nat] /\ Contains(requests, c)
      /\ f \in Frame /\ f.call = c
  <2>1. c \in Calls
    BY AreCalls DEF TypeOK
  <2>2. sent \in [Calls -> Nat] /\ sent' \in [Calls -> Nat]
    BY DEF TypeOK
  <2>3. Contains(requests, c)
    BY DEF Contains
  <2>4. sent[c] + 1 \in Nat
    BY <2>1, <2>2
  <2>5. f \in Frame
    BY <2>1, <2>4 DEF Frame
  <2>6. QED
    BY <2>1, <2>2, <2>3, <2>5
<1>2. Given' = [Given EXCEPT ![i] = @ + 1] /\ DOMAIN Given = 1..Len(requests)
      /\ \A j \in 1..Len(requests) : Given[j] = sent[requests[j]] /\ Given'[j] = sent'[requests[j]]
  BY DEF Stream!Send, Given
<1>3. \A d \in Calls : sent'[d] = IF d = c THEN sent[d] + 1 ELSE sent[d]
  <2> TAKE d \in Calls
  <2>1. CASE d = c
    BY <1>2, <2>1
  <2>2. CASE d # c /\ Contains(requests, d)
    <3>1. PICK j \in 1..Len(requests) : requests[j] = d
      BY <2>2 DEF Contains
    <3>2. QED
      BY <1>2, <2>2, <3>1
  <2>3. CASE d # c /\ ~Contains(requests, d)
    BY <2>3 DEF StreamInv, Contains
  <2>4. QED
    BY <2>1, <2>2, <2>3
<1>4. sent' = [sent EXCEPT ![c] = @ + 1]
  BY <1>1, <1>3
<1>5. Numbered(f) = [task |-> i, kind |-> kind, seq |-> Given[i] + 1]
  BY <1>2, NumberIs DEF Numbered
<1>6. Travelling' = Append(Travelling, Numbered(f))
  BY <1>5 DEF Stream!Send, Travelling, Given
<1> HIDE DEF f
<1>7. incoming' = Append(incoming, f)
  BY <1>1, <1>6, NumberedAppended
<1>8. QED
  BY <1>4, <1>7 DEF Send, f

\* Where the stream sends nothing, the server sends nothing.
LEMMA GivenSame ==
    ASSUME TypeOK, TypeOK', StreamInv, StreamInv', UNCHANGED <<requests, Given>>
    PROVE  UNCHANGED sent
<1>1. sent \in [Calls -> Nat] /\ sent' \in [Calls -> Nat]
  BY DEF TypeOK
<1>2. \A j \in 1..Len(requests) : sent'[requests[j]] = sent[requests[j]]
  <2>1. \A j \in 1..Len(requests) : Given[j] = sent[requests[j]] /\ Given'[j] = sent'[requests[j]]
    BY DEF Given
  <2>2. QED
    BY <2>1
<1>3. \A d \in Calls : sent'[d] = sent[d]
  <2> TAKE d \in Calls
  <2>1. CASE Contains(requests, d)
    BY <1>2, <2>1 DEF Contains
  <2>2. CASE ~Contains(requests, d)
    BY <2>2 DEF StreamInv, Contains
  <2>3. QED
    BY <2>1, <2>2
<1>4. QED
  BY <1>1, <1>3

LEMMA TravellingSame ==
    ASSUME TypeOK, TypeOK', StreamInv, StreamInv', UNCHANGED <<requests, Travelling>>
    PROVE  UNCHANGED incoming
<1>1. incoming \in Seq(Frame) /\ incoming' \in Seq(Frame)
      /\ Len(incoming) \in Nat /\ Len(incoming') \in Nat
  BY OnWire DEF TypeOK
<1>2. \A i \in 1..Len(incoming) : incoming[i] \in Frame /\ Contains(requests, incoming[i].call)
  BY <1>1 DEF StreamInv
<1>3. \A i \in 1..Len(incoming') : incoming'[i] \in Frame /\ Contains(requests, incoming'[i].call)
  BY <1>1 DEF StreamInv, Contains
<1>4. \A c : Number(c)' = Number(c)
  BY DEF Number
<1>5. /\ Travelling = [i \in 1..Len(incoming) |-> Numbered(incoming[i])]
      /\ Travelling' = [i \in 1..Len(incoming') |-> Numbered(incoming'[i])]
  BY <1>4 DEF Travelling, Numbered
<1> HIDE DEF Numbered
<1>6. Len(incoming') = Len(incoming)
  BY <1>1, <1>5
<1>7. \A i \in 1..Len(incoming) : Numbered(incoming'[i]) = Numbered(incoming[i])
  BY <1>1, <1>5, <1>6
<1>8. \A i \in 1..Len(incoming) : incoming'[i] = incoming[i]
  BY <1>2, <1>3, <1>6, <1>7, NumberedOnce
<1>9. QED
  BY <1>1, <1>6, <1>8, SeqEqual

\* Requests are finished as calls are answered.
LEMMA FinishedAnswered ==
    ASSUME TypeOK, TypeOK', StreamInv, StreamInv', NEW i \in 1..Len(requests), UNCHANGED requests
    PROVE  /\ UNCHANGED Finished => UNCHANGED answered
           /\ Finished' = Finished \union {i} => answered' = answered \union {requests[i]}
<1>1. /\ \A c \in answered : c \in Calls /\ \E j \in 1..Len(requests) : requests[j] = c
      /\ \A c \in answered' : c \in Calls /\ \E j \in 1..Len(requests) : requests[j] = c
  BY DEF StreamInv, Contains, TypeOK
<1>2. \A j \in 1..Len(requests) : /\ j \in Finished <=> requests[j] \in answered
                                  /\ j \in Finished' <=> requests[j] \in answered'
  BY DEF Finished
<1>3. UNCHANGED Finished => UNCHANGED answered
  BY <1>1, <1>2
<1>4. ASSUME Finished' = Finished \union {i} PROVE answered' = answered \union {requests[i]}
  <2>1. \A c \in answered' : c \in answered \/ c = requests[i]
    BY <1>1, <1>2, <1>4
  <2>2. \A c \in answered \union {requests[i]} : c \in answered'
    BY <1>1, <1>2, <1>4
  <2>3. QED
    BY <2>1, <2>2
<1>5. QED
  BY <1>3, <1>4

\* The server of a client without session ids may do all that ResponseStream allows and
\* nothing else: in every step that leaves the client and the requests alone, "Answer" of
\* a call is "Value", "Error" or "Serve" of its request.
THEOREM AnswersAreTheStreams ==
    ASSUME TypeOK, TypeOK', LineInv, StreamInv, StreamInv', ~sessioned,
           NEW i \in 1..Len(requests),
           UNCHANGED <<sessioned, calls, registry, queue, requests, target, timeouts>>
    PROVE  Answer(requests[i]) <=> Stream!Value(i) \/ Stream!Error(i) \/ Stream!Serve(i)
<1> DEFINE c == requests[i]
<1>1. UNCHANGED requests /\ Given[i] = sent[c] /\ Asked[i] = ResponseFrames[c]
  BY DEF Given, Asked
<1>2. ASSUME Stream!Turn(i),
             \/ sent[c] < ResponseFrames[c] /\ Send(c, "value") /\ UNCHANGED answered
             \/ Send(c, "error") /\ answered' = answered \union {c}
             \/ answered' = answered \union {c} /\ UNCHANGED <<sent, incoming>>
      PROVE  Answer(c)
  BY <1>2, TurnIs DEF Answer
<1>3. CASE Stream!Value(i)
  <2>1. Stream!Turn(i) /\ Given[i] < Asked[i] /\ Stream!Send(i, "value") /\ UNCHANGED Finished
    BY <1>3 DEF Stream!Value, Asked, Given, Finished, Travelling
  <2>2. Send(c, "value") /\ UNCHANGED answered
    BY <1>1, <2>1, SendsForCall, FinishedAnswered
  <2>3. QED
    BY <1>1, <1>2, <1>3, <2>1, <2>2
<1>4. CASE Stream!Error(i)
  <2>1. Stream!Turn(i) /\ Stream!Send(i, "error") /\ Finished' = Finished \union {i}
    BY <1>4 DEF Stream!Error, Asked, Given, Finished, Travelling
  <2>2. Send(c, "error") /\ answered' = answered \union {c}
    BY <1>1, <2>1, SendsForCall, FinishedAnswered
  <2>3. QED
    BY <1>2, <1>4, <2>1, <2>2
<1>5. CASE Stream!Serve(i)
  <2>1. Stream!Turn(i) /\ UNCHANGED <<Given, Travelling>> /\ Finished' = Finished \union {i}
    BY <1>5 DEF Stream!Serve, Asked, Given, Finished, Travelling
  <2>2. answered' = answered \union {c}
    BY <1>1, <2>1, FinishedAnswered
  <2>3. UNCHANGED sent
    BY <2>1, GivenSame
  <2>4. UNCHANGED incoming
    BY <2>1, TravellingSame
  <2>5. QED
    BY <1>2, <1>5, <2>1, <2>2, <2>3, <2>4
<1>6. QED
  BY <1>3, <1>4, <1>5, StreamAnswers

\* Seen by the server, a client without session ids and its connection do what
\* ResponseStream says: requests arrive, are answered in their turn and the frames read
\* in order, whatever calls time out or fail.
THEOREM ServedAsPromisedCorrect == Spec => ServedAsPromised
<1>1. TypeOK /\ LineInv /\ StreamInv /\ [Next]_vars
      => (~sessioned => Stream!Next) \/ UNCHANGED <<server, incoming>>
  <2> SUFFICES ASSUME TypeOK, LineInv, StreamInv, [Next]_vars, ~sessioned
               PROVE  Stream!Next \/ UNCHANGED <<server, incoming>>
    OBVIOUS
  <2>1. ASSUME NEW c \in Calls, Write(c) PROVE Stream!Next
    BY <2>1, StreamWrite DEF Stream!Next
  <2>2. ASSUME NEW c \in Calls, Answer(c) PROVE Stream!Next
    <3>1. PICK i \in 1..Len(requests) : requests[i] = c
      BY <2>2, ToSetContains DEF Answer, Contains, TypeOK
    <3>2. i \in 1..Len(Asked)
      BY DEF Asked, TypeOK
    <3>3. Stream!Value(i) \/ Stream!Error(i) \/ Stream!Serve(i)
      BY <2>2, <3>1, StreamAnswers
    <3>4. QED
      BY <3>2, <3>3 DEF Stream!Next, Asked
  <2>3. CASE ReadFrame
    BY <2>3, StreamRead DEF Stream!Next
  <2>4. ASSUME NEW c \in Calls,
               Register(c) \/ EncodeFails(c) \/ Drained(c) \/ Take(c) \/ TimesOut(c)
        PROVE  UNCHANGED <<server, incoming>>
    BY <2>4 DEF Register, EncodeFails, Drained, Take, TimesOut
  <2>5. QED
    BY <2>1, <2>2, <2>3, <2>4 DEF Next, CallStep, Deliver, vars
<1>2. Spec => [](TypeOK /\ LineInv /\ StreamInv)
  BY TypeInit, TypeNext, LineInit, LineNext, StreamInvInit, StreamInvNext, PTL DEF Spec
<1>3. QED
  BY <1>1, <1>2, PTL DEF Spec, ServedAsPromised
=============================================================================
