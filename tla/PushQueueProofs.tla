----------------------------- MODULE PushQueueProofs -----------------------------
(***************************************************************************)
(* Proofs about PushQueue: for any number of callers, frames and           *)
(* suspensions, and any bound of the queue.                                *)
(***************************************************************************)
EXTENDS PushQueue, QueueLemmas, FiniteSetTheorems, TLAPS

\* What the proof needs of the types: frames are numbers.
QueueTypes ==
    /\ early_frames \in Seq(Nat) /\ pushes \in Seq(Nat)
    /\ hand \in [Tasks -> Nat] /\ replay \in Nat \ {0}
    /\ place \in [Tasks -> {"reading", "callbacks", "evicting", "putting", "dead", "requested",
                            "defining", "replaying", "done", "failed"}]
    /\ kinds \in Seq({"push", "other"})

\* One task at a time is between two awaits.
Running(t) == place[t] \in {"replaying", "evicting", "putting"}
OneRuns == \A t, u \in Tasks : Running(t) /\ Running(u) => t = u

OverfullInv == QueueTypes /\ OneRuns /\ NeverOverfull

-----------------------------------------------------------------------------
(* Sequences.                                                              *)

LEMMA AppendLen ==
    ASSUME NEW S, NEW s \in Seq(S), NEW e \in S
    PROVE  Append(s, e) \in Seq(S) /\ Len(Append(s, e)) = Len(s) + 1
OBVIOUS

LEMMA TailLen ==
    ASSUME NEW S, NEW s \in Seq(S), s # <<>>
    PROVE  Tail(s) \in Seq(S) /\ Len(Tail(s)) = Len(s) - 1 /\ Head(s) \in S /\ Len(s) \in Nat \ {0}
OBVIOUS

LEMMA LenZero ==
    ASSUME NEW S, NEW s \in Seq(S)
    PROVE  Len(s) \in Nat /\ (Len(s) = 0 <=> s = <<>>)
OBVIOUS

\* A caller that takes a frame makes room.
LEMMA RoomLeft ==
    ASSUME OverfullInv, pushes # <<>>, pushes' = Tail(pushes),
           UNCHANGED <<frames, tasks>>
    PROVE  OverfullInv'
<1>1. Len(pushes) \in Nat /\ Len(pushes') = Len(pushes) - 1 /\ pushes' \in Seq(Nat)
  BY TailLen, LenZero DEF OverfullInv, QueueTypes
<1>2. UNCHANGED <<kinds, early_frames, place, hand, replay>>
  BY DEF frames, tasks
<1>3. QueueTypes' /\ OneRuns'
  BY <1>1, <1>2 DEF OverfullInv, QueueTypes, OneRuns, Running
<1>4. Len(pushes) <= PushQueueSize
  BY DEF OverfullInv, NeverOverfull
<1>5. Len(pushes') <= PushQueueSize /\ Len(pushes') # PushQueueSize
  <2>1. \A m, k, size \in Nat : m <= size /\ k = m - 1 => k <= size /\ k # size
    OBVIOUS
  <2>2. Len(pushes') \in Nat
    BY <1>1, LenZero
  <2> QED BY <1>1, <1>4, <2>1, <2>2, PushSizeAssumption
<1>6. NeverOverfull'
  BY <1>2, <1>5 DEF OverfullInv, NeverOverfull, Full
<1> QED BY <1>3, <1>6 DEF OverfullInv

LEMMA NoQueueChange ==
    ASSUME OverfullInv, UNCHANGED <<frames, pushes, tasks>> PROVE OverfullInv'
BY DEF OverfullInv, QueueTypes, OneRuns, Running, NeverOverfull, Full, frames, tasks

-----------------------------------------------------------------------------
(* The tasks.                                                              *)

\* A task that starts to put a frame while no other task runs.
LEMMA PutPushKeeps ==
    ASSUME OverfullInv, NEW t \in Tasks, NEW n \in Nat, PutPush(t, n),
           \A u \in Tasks \ {t} : ~Running(u),
           UNCHANGED <<kinds, early_frames, pushes, replay>>
    PROVE  OverfullInv'
<1> USE DEF OverfullInv, QueueTypes
<1>1. PICK to \in {"callbacks", "evicting", "putting"} :
          place' = [place EXCEPT ![t] = to] /\ (to = "putting" => ~Full)
  BY DEF PutPush, AfterCallbacks
<1>2. hand' = [hand EXCEPT ![t] = n]
  BY DEF PutPush
<1>3. QueueTypes'
  BY <1>1, <1>2
<1>4. OneRuns'
  BY <1>1 DEF OneRuns, Running
<1>5. NeverOverfull'
  BY <1>1 DEF NeverOverfull, Full, Running
<1> QED BY <1>3, <1>4, <1>5

LEMMA CallbacksDoneKeeps ==
    ASSUME OverfullInv, NEW t \in Tasks, CallbacksDone(t) PROVE OverfullInv'
<1> USE DEF OverfullInv, QueueTypes
<1>1. PICK to \in {"evicting", "putting"} :
          place' = [place EXCEPT ![t] = to] /\ (to = "putting" => ~Full)
  BY DEF CallbacksDone, AfterCallbacks
<1>2. UNCHANGED <<kinds, early_frames, pushes, hand, replay>>
  BY DEF CallbacksDone, frames
<1>3. \A u \in Tasks : ~Running(u)
  BY DEF CallbacksDone, LoopFree, Running
<1>4. QueueTypes' /\ OneRuns'
  BY <1>1, <1>2, <1>3 DEF OneRuns, Running
<1>5. NeverOverfull'
  BY <1>1, <1>2, <1>3 DEF NeverOverfull, Full, Running
<1> QED BY <1>4, <1>5

LEMMA EvictKeeps ==
    ASSUME OverfullInv, NEW t \in Tasks, Evict(t) PROVE OverfullInv'
<1> USE DEF OverfullInv, QueueTypes
<1>1. place[t] = "evicting" /\ UNCHANGED <<kinds, early_frames, hand, replay>>
  BY DEF Evict, frames
<1>2. \A u \in Tasks \ {t} : ~Running(u)
  BY <1>1 DEF OneRuns, Running
<1>3. CASE pushes = <<>>
  <2>1. PICK to \in {"dead", "failed"} : place' = [place EXCEPT ![t] = to]
    BY <1>3 DEF Evict, Raises
  <2>2. UNCHANGED pushes
    BY <1>3 DEF Evict
  <2>3. QueueTypes' /\ OneRuns'
    BY <1>1, <1>2, <2>1, <2>2 DEF OneRuns, Running
  <2>4. NeverOverfull'
    BY <1>1, <2>1, <2>2 DEF NeverOverfull, Full
  <2> QED BY <2>3, <2>4
<1>4. CASE pushes # <<>>
  <2>1. pushes' = Tail(pushes) /\ place' = [place EXCEPT ![t] = "putting"]
    BY <1>4 DEF Evict
  <2>2. Len(pushes) \in Nat /\ Len(pushes') = Len(pushes) - 1 /\ pushes' \in Seq(Nat)
    BY <1>4, <2>1, TailLen, LenZero
  <2>3. QueueTypes' /\ OneRuns'
    BY <1>1, <1>2, <2>1, <2>2 DEF OneRuns, Running
  <2>4. NeverOverfull'
    <3>1. Len(pushes) <= PushQueueSize
      BY DEF NeverOverfull
    <3>2. Len(pushes') <= PushQueueSize /\ Len(pushes') # PushQueueSize
      BY <2>2, <3>1, PushSizeAssumption
    <3> QED BY <1>1, <3>2 DEF NeverOverfull, Full
  <2> QED BY <2>3, <2>4
<1> QED BY <1>3, <1>4

LEMMA PutKeeps ==
    ASSUME OverfullInv, NEW t \in Tasks, Put(t) PROVE OverfullInv'
<1> USE DEF OverfullInv, QueueTypes
<1>1. place[t] = "putting" /\ UNCHANGED <<kinds, early_frames>> /\ ~Full
  BY DEF Put, frames, NeverOverfull
<1>2. \A u \in Tasks \ {t} : ~Running(u)
  BY <1>1 DEF OneRuns, Running
<1>3. PICK to \in {"reading", "replaying"} : place' = [place EXCEPT ![t] = to]
  BY <1>1 DEF Put
<1>4. pushes' = Append(pushes, hand[t]) /\ hand' = [hand EXCEPT ![t] = 0]
  BY <1>1 DEF Put
<1>5. hand[t] \in Nat
  OBVIOUS
<1>6. Len(pushes) \in Nat /\ Len(pushes') = Len(pushes) + 1 /\ pushes' \in Seq(Nat)
  BY <1>4, <1>5, AppendLen, LenZero
<1>7. QueueTypes' /\ OneRuns'
  <2>1. replay' = replay \/ replay' = replay + 1
    BY <1>1 DEF Put
  <2> QED BY <1>1, <1>2, <1>3, <1>4, <1>6, <2>1 DEF OneRuns, Running
<1>8. NeverOverfull'
  <2>1. Len(pushes') <= PushQueueSize
    BY <1>1, <1>6, PushSizeAssumption DEF NeverOverfull, Full
  <2>2. \A u \in Tasks : place'[u] # "putting"
    BY <1>2, <1>3 DEF Running
  <2> QED BY <1>1, <2>1, <2>2 DEF NeverOverfull
<1> QED BY <1>7, <1>8

-----------------------------------------------------------------------------
(* The reader and connect().                                               *)

LEMMA RememberKeeps ==
    ASSUME OverfullInv, NEW n \in Nat, Remember(n)
    PROVE  early_frames' \in Seq(Nat) /\ Len(early_frames') <= PushQueueSize
<1> USE DEF OverfullInv, QueueTypes
<1>1. Len(early_frames) \in Nat /\ Len(early_frames) <= PushQueueSize
  BY LenZero DEF NeverOverfull
<1>2. CASE Len(early_frames) = PushQueueSize
  <2>1. early_frames # <<>>
    BY <1>2, LenZero, PushSizeAssumption
  <2>2. Tail(early_frames) \in Seq(Nat) /\ Len(Tail(early_frames)) = Len(early_frames) - 1
    BY <2>1, TailLen
  <2>3. early_frames' = Append(Tail(early_frames), n)
    BY <1>2 DEF Remember
  <2> QED BY <1>1, <2>2, <2>3, AppendLen, PushSizeAssumption
<1>3. CASE Len(early_frames) # PushQueueSize
  <2>1. early_frames' = Append(early_frames, n)
    BY <1>3 DEF Remember
  <2> QED BY <1>1, <1>3, <2>1, AppendLen, PushSizeAssumption
<1> QED BY <1>2, <1>3

LEMMA ReadKeeps ==
    ASSUME OverfullInv, ReadUnsolicited PROVE OverfullInv'
<1> USE DEF OverfullInv, QueueTypes
<1> DEFINE n == Len(kinds) + 1
<1>1. n \in Nat
  BY LenZero
<1>2. UNCHANGED <<pushes, replay>> /\ \A u \in Tasks : ~Running(u)
  BY DEF ReadUnsolicited, LoopFree, Running
<1>3. PICK kind \in {"push", "other"} :
          /\ kinds' = Append(kinds, kind)
          /\ IF schema
             THEN /\ IF kind = "push" THEN PutPush("reader", n)
                                      ELSE UNCHANGED <<place, hand, suspends>>
                  /\ UNCHANGED early_frames
             ELSE Remember(n) /\ UNCHANGED <<place, hand, suspends>>
  BY DEF ReadUnsolicited
<1>4. kinds' \in Seq({"push", "other"})
  BY <1>3, AppendLen
<1>5. CASE schema /\ kind = "push"
  <2>1. PICK to \in {"callbacks", "evicting", "putting"} :
            place' = [place EXCEPT !["reader"] = to] /\ (to = "putting" => ~Full)
    BY <1>3, <1>5 DEF PutPush, AfterCallbacks
  <2>2. hand' = [hand EXCEPT !["reader"] = n] /\ UNCHANGED early_frames
    BY <1>3, <1>5 DEF PutPush
  <2>3. QueueTypes' /\ OneRuns'
    BY <1>1, <1>2, <1>4, <2>1, <2>2 DEF OneRuns, Running, Tasks
  <2>4. NeverOverfull'
    BY <1>2, <2>1, <2>2 DEF NeverOverfull, Full, Running, Tasks
  <2> QED BY <2>3, <2>4
<1>6. CASE schema /\ kind # "push"
  <2>1. UNCHANGED <<place, hand, early_frames>>
    BY <1>3, <1>6
  <2> QED BY <1>2, <1>4, <2>1 DEF OneRuns, Running, NeverOverfull, Full
<1>7. CASE ~schema
  <2>1. UNCHANGED <<place, hand>> /\ Remember(n)
    BY <1>3, <1>7
  <2>2. early_frames' \in Seq(Nat) /\ Len(early_frames') <= PushQueueSize
    BY <1>1, <2>1, RememberKeeps
  <2> QED BY <1>2, <1>4, <2>1, <2>2 DEF OneRuns, Running, NeverOverfull, Full
<1> QED BY <1>5, <1>6, <1>7

LEMMA SchemaKeeps ==
    ASSUME OverfullInv, SchemaArrives \/ Define PROVE OverfullInv'
<1> USE DEF OverfullInv, QueueTypes
<1>1. UNCHANGED <<kinds, early_frames, pushes, hand, replay>> /\ \A u \in Tasks : ~Running(u)
  BY DEF SchemaArrives, Define, LoopFree, Running, frames
<1>2. PICK to \in {"defining", "requested", "replaying", "failed"} :
          place' = [place EXCEPT !["connector"] = to]
  BY DEF SchemaArrives, Define
<1>3. QueueTypes' /\ OneRuns'
  BY <1>1, <1>2 DEF OneRuns, Running
<1>4. NeverOverfull'
  BY <1>1, <1>2 DEF NeverOverfull, Full
<1> QED BY <1>3, <1>4

LEMMA ReplayKeeps ==
    ASSUME OverfullInv, ReplayNext PROVE OverfullInv'
<1> USE DEF OverfullInv, QueueTypes
<1>1. place["connector"] = "replaying" /\ UNCHANGED <<kinds, pushes>>
  BY DEF ReplayNext
<1>2. \A u \in Tasks \ {"connector"} : ~Running(u)
  BY <1>1 DEF OneRuns, Running, Tasks
<1>3. CASE replay > Len(early_frames)
  <2>1. early_frames' = <<>> /\ place' = [place EXCEPT !["connector"] = "done"]
        /\ UNCHANGED <<hand, replay>>
    BY <1>3 DEF ReplayNext
  <2>2. early_frames' \in Seq(Nat) /\ Len(early_frames') = 0
    BY <2>1
  <2>3. QueueTypes' /\ OneRuns'
    BY <1>1, <1>2, <2>1, <2>2 DEF OneRuns, Running
  <2>4. NeverOverfull'
    BY <1>1, <2>1, <2>2, PushSizeAssumption DEF NeverOverfull, Full
  <2> QED BY <2>3, <2>4
<1>4. CASE ~(replay > Len(early_frames)) /\ kinds[early_frames[replay]] = "push"
  <2>1. PutPush("connector", early_frames[replay]) /\ UNCHANGED <<early_frames, replay>>
    BY <1>4 DEF ReplayNext
  <2>2. "connector" \in Tasks
    BY DEF Tasks
  <2>3. early_frames[replay] \in Nat
    <3>1. replay \in 1..Len(early_frames)
      BY <1>4, LenZero
    <3> QED BY <3>1
  <2> QED BY <1>1, <1>2, <2>1, <2>2, <2>3, PutPushKeeps
<1>5. CASE ~(replay > Len(early_frames)) /\ kinds[early_frames[replay]] # "push"
  <2>1. UNCHANGED <<early_frames, place, hand>> /\ replay' = replay + 1
    BY <1>5 DEF ReplayNext
  <2> QED BY <1>1, <2>1 DEF OneRuns, Running, NeverOverfull, Full
<1> QED BY <1>3, <1>4, <1>5

-----------------------------------------------------------------------------
LEMMA OverfullInit == PushInit => OverfullInv
BY PushSizeAssumption
DEF PushInit, OverfullInv, QueueTypes, OneRuns, Running, NeverOverfull, Full, Tasks

LEMMA OverfullNext == OverfullInv /\ [PushNext]_pushVars => OverfullInv'
<1> SUFFICES ASSUME OverfullInv, [PushNext]_pushVars PROVE OverfullInv'
  OBVIOUS
<1>1. ASSUME NEW t \in Tasks, TaskStep(t) PROVE OverfullInv'
  BY <1>1, CallbacksDoneKeeps, EvictKeeps, PutKeeps DEF TaskStep
<1>2. CASE ReadUnsolicited \/ SchemaArrives \/ Define \/ ReplayNext
  BY <1>2, ReadKeeps, SchemaKeeps, ReplayKeeps
<1>3. ASSUME NEW c \in Consumers, TakePush(c) PROVE OverfullInv'
  <2>1. CASE pushes = <<>>
    BY <1>3, <2>1, NoQueueChange DEF TakePush
  <2>2. CASE pushes # <<>>
    BY <1>3, <2>2, RoomLeft DEF TakePush
  <2> QED BY <2>1, <2>2
<1>4. ASSUME NEW c \in Consumers,
             NextPush(c) \/ Check(c) \/ AwaitPush(c) \/ Resume(c) \/ FallAsleep(c) \/ GiveUp(c)
      PROVE OverfullInv'
  BY <1>4, NoQueueChange DEF NextPush, Check, AwaitPush, Resume, FallAsleep, GiveUp
<1>5. CASE UNCHANGED pushVars
  BY <1>5, NoQueueChange DEF pushVars
<1> QED BY <1>1, <1>2, <1>3, <1>4, <1>5 DEF PushNext, CallerStep

\* The queue and the early frames stay within push_queue_size, and a put after an
\* eviction finds room, for any number of threads that call next_push and whenever the
\* callbacks suspend: QueueFull never reaches the reader.
THEOREM QueueNeverOverfull == PushSpec => []NeverOverfull
<1>1. OverfullInv => NeverOverfull
  BY DEF OverfullInv
<1> QED BY <1>1, OverfullInit, OverfullNext, PTL DEF PushSpec

-----------------------------------------------------------------------------
(* The order of the frames, taken and in the queue.                        *)

Queued == taken \o pushes
Active == place["connector"] \in {"replaying", "callbacks", "evicting", "putting"}

OrderTypes == taken \in Seq(Nat) /\ suspends \in Nat /\ schema \in BOOLEAN /\ replayed \subseteq Nat

\* Nothing is queued before the schema; each task has in its hand what it is putting.
Phases ==
    /\ ~schema => /\ place["connector"] \in {"requested", "defining"}
                  /\ place["reader"] = "reading"
                  /\ taken = <<>> /\ pushes = <<>> /\ replay = 1 /\ replayed = {}
    /\ schema => place["connector"] \notin {"requested", "defining"}
    /\ place["connector"] = "done" => early_frames = <<>>
    /\ hand["connector"] # 0 =>
           /\ replay \in 1..Len(early_frames) /\ hand["connector"] = early_frames[replay]
           /\ place["connector"] \notin {"requested", "defining", "replaying", "done"}
    /\ hand["reader"] # 0 => place["reader"] # "reading"
    /\ \A t \in Tasks : place[t] \in {"callbacks", "evicting", "putting"} => hand[t] # 0
Numbers ==
    /\ \A i \in 1..Len(Queued) : Queued[i] \in 1..Len(kinds)
    /\ \A i \in 1..Len(early_frames) : early_frames[i] \in 1..Len(kinds)
    /\ hand["reader"] <= Len(kinds)
\* Early frames that wait for the replay are not queued yet; what the reader has in its
\* hand came after them, and after what is queued.
Early ==
    /\ \A i, j \in 1..Len(early_frames) : i < j => early_frames[i] < early_frames[j]
    /\ \A i \in 1..Len(early_frames) : i >= replay =>
           ~Contains(Queued, early_frames[i]) /\ \A n \in replayed : n < early_frames[i]
    /\ hand["reader"] # 0 =>
           /\ \A i \in 1..Len(early_frames) : early_frames[i] < hand["reader"]
           /\ \A i \in 1..Len(Queued) : Queued[i] < hand["reader"]
Overtaken ==
    \A i, j \in 1..Len(Queued) :
        i < j /\ Queued[i] > Queued[j] =>
            Queued[j] \in replayed /\ Queued[i] \notin replayed /\ suspends > 0
\* The reader comes between the replay's frames only while a callback suspends.
Between ==
    /\ Active /\ (hand["reader"] # 0 \/ \E i \in 1..Len(Queued) : Queued[i] \notin replayed) =>
           suspends > 0
    /\ place["connector"] = "callbacks" => suspends > 0

OrderInv ==
    /\ OrderTypes /\ Phases /\ Numbers /\ Early
    /\ Distinct(Queued) /\ Overtaken /\ Between

\* r has elements of q, in their order.
Thinned(q, r) ==
    \E at \in [1..Len(r) -> 1..Len(q)] :
       /\ \A j \in 1..Len(r) : r[j] = q[at[j]]
       /\ \A j, m \in 1..Len(r) : j < m => at[j] < at[m]

LEMMA QueuedType ==
    ASSUME QueueTypes, OrderTypes
    PROVE  /\ Queued \in Seq(Nat) /\ Len(Queued) \in Nat
           /\ Len(Queued) = Len(taken) + Len(pushes)
           /\ \A i \in 1..Len(Queued) : Queued[i] \in Nat
<1>1. Queued \in Seq(Nat) /\ Len(Queued) = Len(taken) + Len(pushes)
  BY ConcatProperties DEF QueueTypes, OrderTypes, Queued
<1> QED BY <1>1

\* A frame is put at the end.
LEMMA ConcatAppend ==
    ASSUME NEW S, NEW s \in Seq(S), NEW t \in Seq(S), NEW x \in S
    PROVE  /\ Len(s \o Append(t, x)) = Len(s \o t) + 1
           /\ (s \o Append(t, x))[Len(s \o t) + 1] = x
           /\ \A i \in 1..Len(s \o t) : (s \o Append(t, x))[i] = (s \o t)[i]
<1> DEFINE q == s \o t
<1>1. q \in Seq(S)
  OBVIOUS
<1>2. s \o Append(t, x) = Append(q, x)
  <2>1. Append(t, x) = t \o <<x>> /\ Append(q, x) = q \o <<x>> /\ <<x>> \in Seq(S)
    BY <1>1, AppendIsConcat
  <2> QED BY <2>1, ConcatAssociative
<1> HIDE DEF q
<1>3. /\ Len(Append(q, x)) = Len(q) + 1 /\ Append(q, x)[Len(q) + 1] = x
      /\ \A i \in 1..Len(q) : Append(q, x)[i] = q[i]
  BY <1>1
<1> QED BY <1>2, <1>3 DEF q

\* A caller takes the first frame.
LEMMA ConcatTake ==
    ASSUME NEW S, NEW s \in Seq(S), NEW t \in Seq(S), t # <<>>
    PROVE  Append(s, Head(t)) \o Tail(t) = s \o t
<1>1. Head(t) \in S /\ Tail(t) \in Seq(S) /\ <<Head(t)>> \in Seq(S)
  BY HeadTailProperties
<1>2. Append(s, Head(t)) = s \o <<Head(t)>>
  BY <1>1, AppendIsConcat
<1>3. (s \o <<Head(t)>>) \o Tail(t) = s \o (<<Head(t)>> \o Tail(t))
  BY <1>1, ConcatAssociative
<1> QED BY <1>2, <1>3, QueueHeadTail

\* The first frame of the queue is dropped.
LEMMA ConcatTail ==
    ASSUME NEW S, NEW s \in Seq(S), NEW t \in Seq(S), t # <<>>
    PROVE  Len(s \o Tail(t)) = Len(s \o t) - 1 /\ Thinned(s \o t, s \o Tail(t))
<1> DEFINE q == s \o t
           r == s \o Tail(t)
           at == [j \in 1..Len(r) |-> IF j <= Len(s) THEN j ELSE j + 1]
<1>1. /\ Tail(t) \in Seq(S) /\ Len(Tail(t)) = Len(t) - 1
      /\ \A i \in 1..Len(Tail(t)) : Tail(t)[i] = t[i + 1]
      /\ Len(s) \in Nat /\ Len(t) \in Nat
  BY HeadTailProperties
<1>2. /\ Len(q) = Len(s) + Len(t)
      /\ \A i \in 1..Len(s) + Len(t) : q[i] = IF i <= Len(s) THEN s[i] ELSE t[i - Len(s)]
  BY ConcatProperties
<1>3. /\ Len(r) = Len(s) + (Len(t) - 1)
      /\ \A i \in 1..Len(s) + (Len(t) - 1) :
             r[i] = IF i <= Len(s) THEN s[i] ELSE Tail(t)[i - Len(s)]
  BY <1>1, ConcatProperties
<1> HIDE DEF q, r
<1>4. \A j \in 1..Len(r) : at[j] \in 1..Len(q) /\ r[j] = q[at[j]]
  <2> TAKE j \in 1..Len(r)
  <2>1. CASE j <= Len(s)
    BY <1>1, <1>2, <1>3, <2>1
  <2>2. CASE ~(j <= Len(s))
    <3>1. at[j] = j + 1 /\ j + 1 \in 1..Len(s) + Len(t) /\ ~(j + 1 <= Len(s))
      BY <1>1, <1>3, <2>2
    <3>2. j - Len(s) \in 1..Len(Tail(t)) /\ (j + 1) - Len(s) = (j - Len(s)) + 1
      BY <1>1, <1>3, <2>2
    <3>3. r[j] = Tail(t)[j - Len(s)] /\ q[j + 1] = t[(j + 1) - Len(s)]
      BY <1>1, <1>2, <1>3, <2>2, <3>1
    <3> QED BY <1>1, <1>2, <3>1, <3>2, <3>3
  <2> QED BY <2>1, <2>2
<1>5. \A j, m \in 1..Len(r) : j < m => at[j] < at[m]
  <2> TAKE j, m \in 1..Len(r)
  <2>1. j \in Int /\ m \in Int /\ Len(s) \in Int
    BY <1>1
  <2> QED BY <2>1
<1>6. at \in [1..Len(r) -> 1..Len(q)]
  BY <1>4
<1> HIDE DEF at
<1>7. Thinned(q, r)
  BY <1>4, <1>5, <1>6 DEF Thinned
<1>8. Len(r) = Len(q) - 1
  BY <1>1, <1>2, <1>3
<1> QED BY <1>7, <1>8 DEF q, r

LEMMA OrderInit == PushInit => OrderInv
<1> SUFFICES ASSUME PushInit PROVE OrderInv
  OBVIOUS
<1>1. Queued = <<>>
  BY DEF PushInit, Queued
<1>2. OrderTypes /\ Phases
  BY DEF PushInit, OrderTypes, Phases, Tasks
<1>3. Numbers /\ Early /\ Distinct(Queued) /\ Overtaken /\ Between
  BY <1>1 DEF PushInit, Numbers, Early, Distinct, Overtaken, Between, Active, Tasks, Contains
<1> QED BY <1>2, <1>3 DEF OrderInv

\* Steps of the callers, who take frames in order.
LEMMA OrderStays ==
    ASSUME OrderInv, UNCHANGED <<frames, tasks, replayed>>, Queued' = Queued, taken' \in Seq(Nat),
           schema \/ UNCHANGED <<taken, pushes>>
    PROVE  OrderInv'
<1>1. UNCHANGED <<kinds, schema, early_frames, place, hand, replay, suspends>>
  BY DEF frames, tasks
<1>2. OrderTypes' /\ Phases'
  BY <1>1 DEF OrderInv, OrderTypes, Phases
<1>3. Numbers' /\ Early' /\ Distinct(Queued)' /\ Overtaken' /\ Between'
  BY <1>1 DEF OrderInv, Numbers, Early, Distinct, Overtaken, Between, Active
<1> QED BY <1>2, <1>3 DEF OrderInv

\* A task goes on towards its put, or ends.
LEMMA OrderMoves ==
    ASSUME QueueTypes, OrderInv, NEW t \in Tasks, NEW to, place' = [place EXCEPT ![t] = to],
           place[t] \in {"callbacks", "evicting"},
           to \in {"evicting", "putting", IF t = "reader" THEN "dead" ELSE "failed"},
           UNCHANGED <<frames, hand, replay, suspends, pushes, outcome>>
    PROVE  OrderInv'
<1>1. UNCHANGED <<kinds, schema, early_frames, hand, replay, suspends, pushes, taken, replayed>>
      /\ Queued' = Queued
  BY DEF frames, outcome, Queued
<1>2. \A u \in Tasks : place'[u] = IF u = t THEN to ELSE place[u]
  BY DEF QueueTypes
<1>3. OrderTypes' /\ Numbers' /\ Early' /\ Distinct(Queued)' /\ Overtaken'
  BY <1>1 DEF OrderInv, OrderTypes, Numbers, Early, Distinct, Overtaken
<1>4. Phases' /\ Between'
  BY <1>1, <1>2 DEF OrderInv, Phases, Between, Active, Tasks
<1> QED BY <1>3, <1>4 DEF OrderInv

\* The oldest frame in the queue is dropped.
LEMMA OrderEvicts ==
    ASSUME QueueTypes, OrderInv, NEW t \in Tasks, Evict(t), pushes # <<>>
    PROVE  OrderInv'
<1>1. /\ place[t] = "evicting" /\ pushes' = Tail(pushes)
      /\ place' = [place EXCEPT ![t] = "putting"]
      /\ UNCHANGED <<kinds, schema, early_frames, hand, replay, suspends, taken, replayed>>
  BY DEF Evict, frames, outcome
<1>2. \A u \in Tasks : place'[u] = IF u = t THEN "putting" ELSE place[u]
  BY <1>1 DEF QueueTypes
<1>3. Thinned(Queued, Queued') /\ \A i \in 1..Len(Queued) : Queued[i] \in Nat
  BY <1>1, ConcatTail, QueuedType DEF Queued, OrderInv, OrderTypes, QueueTypes
<1>4. PICK at \in [1..Len(Queued') -> 1..Len(Queued)] :
         /\ \A j \in 1..Len(Queued') : Queued'[j] = Queued[at[j]]
         /\ \A j, m \in 1..Len(Queued') : j < m => at[j] < at[m]
  BY <1>3 DEF Thinned
<1>5. OrderTypes' /\ Phases'
  BY <1>1, <1>2 DEF OrderInv, OrderTypes, Phases, Tasks
<1>6. Numbers' /\ Early'
  <2>1. Numbers'
    BY <1>1, <1>4 DEF OrderInv, Numbers
  <2>2. \A n : Contains(Queued', n) => Contains(Queued, n)
    BY <1>4 DEF Contains
  <2>3. \A i \in 1..Len(early_frames) : i >= replay =>
            ~Contains(Queued', early_frames[i]) /\ \A n \in replayed : n < early_frames[i]
    BY <2>2 DEF OrderInv, Early
  <2>4. hand["reader"] # 0 => \A i \in 1..Len(Queued') : Queued'[i] < hand["reader"]
    BY <1>4 DEF OrderInv, Early
  <2>5. Early'
    BY <1>1, <2>3, <2>4 DEF OrderInv, Early
  <2> QED BY <2>1, <2>5
<1>7. Distinct(Queued)'
  <2> SUFFICES ASSUME NEW j \in 1..Len(Queued'), NEW m \in 1..Len(Queued'), Queued'[j] = Queued'[m]
               PROVE  j = m
    BY DEF Distinct
  <2>1. at[j] = at[m]
    BY <1>4 DEF OrderInv, Distinct
  <2>2. at[j] \in Int /\ at[m] \in Int /\ j \in Int /\ m \in Int
    OBVIOUS
  <2> QED BY <1>4, <2>1, <2>2
<1>8. Overtaken'
  <2> SUFFICES ASSUME NEW i \in 1..Len(Queued'), NEW j \in 1..Len(Queued'),
                      i < j, Queued'[i] > Queued'[j]
               PROVE  Queued'[j] \in replayed /\ Queued'[i] \notin replayed /\ suspends > 0
    BY <1>1 DEF Overtaken
  <2>1. /\ at[i] \in 1..Len(Queued) /\ at[j] \in 1..Len(Queued) /\ at[i] < at[j]
        /\ Queued'[i] = Queued[at[i]] /\ Queued'[j] = Queued[at[j]]
    BY <1>4
  <2> QED BY <2>1 DEF OrderInv, Overtaken
<1>9. Between'
  <2>1. (\E i \in 1..Len(Queued') : Queued'[i] \notin replayed)
            => \E i \in 1..Len(Queued) : Queued[i] \notin replayed
    BY <1>4
  <2>2. /\ Active' => Active
        /\ place'["connector"] = "callbacks" => place["connector"] = "callbacks"
    BY <1>1, <1>2 DEF Active, Tasks
  <2> QED BY <1>1, <2>1, <2>2 DEF OrderInv, Between
<1> QED BY <1>5, <1>6, <1>7, <1>8, <1>9 DEF OrderInv

\* What putting x does to the order.
LEMMA QueuedGrows ==
    ASSUME QueueTypes, OrderTypes, NEW x \in Nat, pushes' = Append(pushes, x), UNCHANGED taken
    PROVE  /\ Len(Queued') = Len(Queued) + 1 /\ Len(Queued) \in Nat
           /\ Queued'[Len(Queued) + 1] = x
           /\ \A i \in 1..Len(Queued) : Queued'[i] = Queued[i] /\ Queued[i] \in Nat
           /\ \A i \in 1..Len(Queued') : i \in 1..Len(Queued) \/ i = Len(Queued) + 1
           /\ \A n : Contains(Queued', n) => Contains(Queued, n) \/ n = x
<1>1. /\ Len(Queued') = Len(Queued) + 1 /\ Queued'[Len(Queued) + 1] = x
      /\ \A i \in 1..Len(Queued) : Queued'[i] = Queued[i]
  BY ConcatAppend DEF QueueTypes, OrderTypes, Queued
<1>2. Len(Queued) \in Nat /\ \A i \in 1..Len(Queued) : Queued[i] \in Nat
  BY QueuedType
<1>3. \A i \in 1..Len(Queued') : i \in 1..Len(Queued) \/ i = Len(Queued) + 1
  BY <1>1, <1>2
<1>4. \A n : Contains(Queued', n) => Contains(Queued, n) \/ n = x
  BY <1>1, <1>3 DEF Contains
<1> QED BY <1>1, <1>2, <1>3, <1>4

\* The reader puts the newest of all.
LEMMA OrderReaderPuts ==
    ASSUME OverfullInv, OrderInv, Put("reader")
    PROVE  OrderInv'
<1> DEFINE x == hand["reader"]
           l == Len(Queued) + 1
<1>0. "reader" \in Tasks /\ "connector" \in Tasks /\ \A t \in Tasks : t \in {"reader", "connector"}
  BY DEF Tasks
<1>1. QueueTypes /\ OrderTypes /\ Phases /\ Numbers /\ Early /\ Distinct(Queued) /\ Overtaken /\ Between
  BY DEF OverfullInv, OrderInv
<1>2. /\ place["reader"] = "putting" /\ pushes' = Append(pushes, x)
      /\ hand' = [hand EXCEPT !["reader"] = 0] /\ place' = [place EXCEPT !["reader"] = "reading"]
      /\ UNCHANGED <<kinds, schema, early_frames, replay, replayed, suspends, taken>>
  BY <1>0 DEF Put, frames, OverfullInv, NeverOverfull
<1>3. /\ \A t \in Tasks : place'[t] = IF t = "reader" THEN "reading" ELSE place[t]
      /\ \A t \in Tasks : hand'[t] = IF t = "reader" THEN 0 ELSE hand[t]
  BY <1>1, <1>2 DEF QueueTypes
<1>4. schema /\ x # 0 /\ x \in Nat /\ x <= Len(kinds) /\ Len(kinds) \in Nat
  BY <1>0, <1>1, <1>2 DEF Phases, QueueTypes, Numbers
<1>5. /\ Len(Queued') = l /\ Len(Queued) \in Nat /\ Queued'[l] = x
      /\ \A i \in 1..Len(Queued) : Queued'[i] = Queued[i] /\ Queued[i] \in Nat
      /\ \A i \in 1..Len(Queued') : i \in 1..Len(Queued) \/ i = l
      /\ \A n : Contains(Queued', n) => Contains(Queued, n) \/ n = x
  BY <1>1, <1>2, <1>4, QueuedGrows
<1>6. /\ \A i \in 1..Len(early_frames) : early_frames[i] < x /\ early_frames[i] \in Nat
      /\ \A i \in 1..Len(Queued) : Queued[i] < x
  BY <1>1, <1>4 DEF Early, QueueTypes
<1> HIDE DEF x, l
<1>7. OrderTypes' /\ Phases'
  BY <1>0, <1>1, <1>2, <1>3, <1>4 DEF OrderTypes, Phases
<1>8. Numbers'
  <2>1. x \in 1..Len(kinds)
    BY <1>4
  <2>2. hand'["reader"] = 0
    BY <1>0, <1>3
  <2>3. \A i \in 1..Len(Queued') : Queued'[i] \in 1..Len(kinds)
    BY <1>1, <1>5, <2>1 DEF Numbers
  <2> QED BY <1>1, <1>2, <1>4, <2>2, <2>3 DEF Numbers
<1>9. Early'
  <2>1. \A i \in 1..Len(early_frames) : i >= replay => ~Contains(Queued', early_frames[i])
    BY <1>1, <1>4, <1>5, <1>6 DEF Early
  <2>2. hand'["reader"] = 0
    BY <1>0, <1>3
  <2> QED BY <1>1, <1>2, <2>1, <2>2 DEF Early
<1>10. Distinct(Queued)'
  BY <1>1, <1>4, <1>5, <1>6 DEF Distinct
<1>11. Overtaken'
  <2> SUFFICES ASSUME NEW i \in 1..Len(Queued'), NEW j \in 1..Len(Queued'), i < j,
                      Queued'[i] > Queued'[j]
               PROVE  Queued'[j] \in replayed /\ Queued'[i] \notin replayed /\ suspends > 0
    BY <1>2 DEF Overtaken
  <2>1. i \in 1..Len(Queued)
    BY <1>5
  <2>2. j # l
    BY <1>4, <1>5, <1>6, <2>1
  <2> QED BY <1>1, <1>5, <2>1, <2>2 DEF Overtaken
<1>12. Between'
  BY <1>0, <1>1, <1>2, <1>3, <1>4 DEF Between, Active, x
<1> QED BY <1>7, <1>8, <1>9, <1>10, <1>11, <1>12 DEF OrderInv

\* The replay puts the oldest frame that is left.
LEMMA OrderConnectorPuts ==
    ASSUME OverfullInv, OrderInv, Put("connector")
    PROVE  OrderInv'
<1> DEFINE x == hand["connector"]
           l == Len(Queued) + 1
<1>0. "reader" \in Tasks /\ "connector" \in Tasks /\ \A t \in Tasks : t \in {"reader", "connector"}
  BY DEF Tasks
<1>1. QueueTypes /\ OrderTypes /\ Phases /\ Numbers /\ Early /\ Distinct(Queued) /\ Overtaken /\ Between
  BY DEF OverfullInv, OrderInv
<1>2. /\ place["connector"] = "putting" /\ pushes' = Append(pushes, x)
      /\ hand' = [hand EXCEPT !["connector"] = 0]
      /\ place' = [place EXCEPT !["connector"] = "replaying"]
      /\ replay' = replay + 1 /\ replayed' = replayed \union {x}
      /\ UNCHANGED <<kinds, schema, early_frames, suspends, taken>>
  BY <1>0 DEF Put, frames, OverfullInv, NeverOverfull
<1>3. /\ \A t \in Tasks : place'[t] = IF t = "connector" THEN "replaying" ELSE place[t]
      /\ \A t \in Tasks : hand'[t] = IF t = "connector" THEN 0 ELSE hand[t]
  BY <1>1, <1>2 DEF QueueTypes
<1>4. /\ schema /\ x # 0 /\ x \in Nat
      /\ replay \in 1..Len(early_frames) /\ x = early_frames[replay] /\ x \in 1..Len(kinds)
      /\ Len(early_frames) \in Nat
  BY <1>0, <1>1, <1>2 DEF Phases, QueueTypes, Numbers
<1>5. /\ Len(Queued') = l /\ Len(Queued) \in Nat /\ Queued'[l] = x
      /\ \A i \in 1..Len(Queued) : Queued'[i] = Queued[i] /\ Queued[i] \in Nat
      /\ \A i \in 1..Len(Queued') : i \in 1..Len(Queued) \/ i = l
      /\ \A n : Contains(Queued', n) => Contains(Queued, n) \/ n = x
  BY <1>1, <1>2, <1>4, QueuedGrows
<1>6. /\ ~Contains(Queued, x) /\ \A n \in replayed : n < x
      /\ \A i \in 1..Len(Queued) : Queued[i] # x
      /\ hand["reader"] # 0 => x < hand["reader"]
  BY <1>1, <1>4 DEF Early, Contains
<1> HIDE DEF x, l
<1>7. OrderTypes' /\ Phases'
  <2>1. OrderTypes'
    BY <1>1, <1>2, <1>4 DEF OrderTypes
  <2>2. place'["reader"] = place["reader"] /\ hand'["reader"] = hand["reader"]
        /\ place'["connector"] = "replaying" /\ hand'["connector"] = 0
    BY <1>0, <1>3
  <2>3. \A t \in Tasks : place'[t] \in {"callbacks", "evicting", "putting"} => hand'[t] # 0
    BY <1>0, <1>1, <2>2 DEF Phases
  <2>4. Phases'
    BY <1>1, <1>2, <1>4, <2>2, <2>3 DEF Phases
  <2> QED BY <2>1, <2>4
<1>8. Numbers'
  <2>1. hand'["reader"] = hand["reader"]
    BY <1>0, <1>3
  <2>2. \A i \in 1..Len(Queued') : Queued'[i] \in 1..Len(kinds)
    BY <1>1, <1>4, <1>5 DEF Numbers
  <2> QED BY <1>1, <1>2, <2>1, <2>2 DEF Numbers
<1>9. Early'
  <2>1. ASSUME NEW i \in 1..Len(early_frames), i >= replay + 1
        PROVE  /\ ~Contains(Queued', early_frames[i])
               /\ \A n \in replayed \union {x} : n < early_frames[i]
    <3>1. i >= replay /\ replay < i /\ early_frames[i] \in Nat
      BY <1>1, <1>4, <2>1 DEF QueueTypes
    <3>2. x < early_frames[i]
      BY <1>1, <1>4, <3>1 DEF Early
    <3>3. x # early_frames[i]
      BY <1>4, <3>1, <3>2
    <3> QED BY <1>1, <1>5, <3>1, <3>2, <3>3 DEF Early
  <2>2. hand'["reader"] = hand["reader"]
    BY <1>0, <1>3
  <2>3. hand["reader"] # 0 => \A i \in 1..Len(Queued') : Queued'[i] < hand["reader"]
    BY <1>1, <1>5, <1>6 DEF Early
  <2> QED BY <1>1, <1>2, <2>1, <2>2, <2>3 DEF Early
<1>10. Distinct(Queued)'
  BY <1>1, <1>5, <1>6 DEF Distinct
<1>11. \A n \in replayed : n \in Nat
  BY <1>1 DEF OrderTypes
<1>12. Overtaken'
  <2> SUFFICES ASSUME NEW i \in 1..Len(Queued'), NEW j \in 1..Len(Queued'), i < j,
                      Queued'[i] > Queued'[j]
               PROVE  Queued'[j] \in replayed' /\ Queued'[i] \notin replayed' /\ suspends > 0
    BY <1>2 DEF Overtaken
  <2>1. i \in 1..Len(Queued) /\ Queued'[i] = Queued[i] /\ Queued[i] # x
    BY <1>5, <1>6
  <2>2. CASE j = l
    <3>1. Queued[i] > x /\ Queued[i] \in Nat
      BY <1>5, <2>1, <2>2
    <3>2. Queued[i] \notin replayed
      BY <1>4, <1>6, <1>11, <3>1
    <3>3. suspends > 0
      BY <1>1, <1>2, <2>1, <3>2 DEF Between, Active
    <3> QED BY <1>2, <1>5, <2>1, <2>2, <3>2, <3>3
  <2>3. CASE j \in 1..Len(Queued)
    BY <1>1, <1>2, <1>5, <2>1, <2>3 DEF Overtaken
  <2> QED BY <1>5, <2>2, <2>3
<1>13. Between'
  <2>1. hand'["reader"] = hand["reader"] /\ place'["connector"] = "replaying"
    BY <1>0, <1>3
  <2>2. Active
    BY <1>2 DEF Active
  <2>3. (\E i \in 1..Len(Queued') : Queued'[i] \notin replayed') =>
            \E i \in 1..Len(Queued) : Queued[i] \notin replayed
    BY <1>2, <1>5
  <2> QED BY <1>1, <1>2, <2>1, <2>2, <2>3 DEF Between
<1> QED BY <1>7, <1>8, <1>9, <1>10, <1>12, <1>13 DEF OrderInv

\* A task has a frame to put: its callbacks suspend, or it goes on at once.
LEMMA PutPushStarts ==
    ASSUME QueueTypes, OrderTypes, NEW t \in Tasks, NEW n \in Nat, PutPush(t, n)
    PROVE  \E to \in {"callbacks", "evicting", "putting"} :
              /\ \A u \in Tasks : place'[u] = IF u = t THEN to ELSE place[u]
              /\ \A u \in Tasks : hand'[u] = IF u = t THEN n ELSE hand[u]
              /\ suspends' \in Nat /\ suspends' >= suspends
              /\ to = "callbacks" => suspends' > 0
<1>1. \A u \in Tasks : hand'[u] = IF u = t THEN n ELSE hand[u]
  BY DEF PutPush, QueueTypes
<1>2. suspends \in Nat
  BY DEF OrderTypes
<1>3. CASE suspends' = suspends + 1 /\ place' = [place EXCEPT ![t] = "callbacks"]
  <2>1. \A u \in Tasks : place'[u] = IF u = t THEN "callbacks" ELSE place[u]
    BY <1>3 DEF QueueTypes
  <2> QED BY <1>1, <1>2, <1>3, <2>1
<1>4. CASE AfterCallbacks(t) /\ UNCHANGED suspends
  <2>1. PICK to \in {"evicting", "putting"} : place' = [place EXCEPT ![t] = to]
    BY <1>4 DEF AfterCallbacks
  <2>2. \A u \in Tasks : place'[u] = IF u = t THEN to ELSE place[u]
    BY <2>1 DEF QueueTypes
  <2> QED BY <1>1, <1>2, <1>4, <2>2
<1> QED BY <1>3, <1>4 DEF PutPush

\* The early frames stay in the order they were read.
LEMMA RememberOrder ==
    ASSUME QueueTypes, NEW n \in Nat, Remember(n),
           \A i \in 1..Len(early_frames) : early_frames[i] < n,
           \A i, j \in 1..Len(early_frames) : i < j => early_frames[i] < early_frames[j]
    PROVE  /\ \A i \in 1..Len(early_frames') :
                  early_frames'[i] = n \/ \E j \in 1..Len(early_frames) : early_frames'[i] = early_frames[j]
           /\ \A i, j \in 1..Len(early_frames') : i < j => early_frames'[i] < early_frames'[j]
<1> DEFINE e == IF Len(early_frames) = PushQueueSize THEN Tail(early_frames) ELSE early_frames
<1>1. early_frames \in Seq(Nat) /\ Len(early_frames) \in Nat
  BY DEF QueueTypes
<1>2. e \in Seq(Nat) /\ \E d \in {0, 1} : /\ Len(e) = Len(early_frames) - d
                                        /\ \A i \in 1..Len(e) : e[i] = early_frames[i + d]
  <2>1. CASE Len(early_frames) = PushQueueSize
    <3>1. early_frames # <<>> /\ e = Tail(early_frames)
      BY <1>1, <2>1, LenZero, PushSizeAssumption
    <3>2. /\ Tail(early_frames) \in Seq(Nat) /\ Len(Tail(early_frames)) = Len(early_frames) - 1
          /\ \A i \in 1..Len(Tail(early_frames)) : Tail(early_frames)[i] = early_frames[i + 1]
      BY <1>1, <3>1, HeadTailProperties
    <3> QED BY <3>1, <3>2
  <2>2. CASE Len(early_frames) # PushQueueSize
    <3>1. e = early_frames
      BY <2>2
    <3>2. Len(early_frames) = Len(early_frames) - 0 /\ \A i \in 1..Len(early_frames) : i = i + 0
      BY <1>1
    <3> HIDE DEF e
    <3> QED BY <1>1, <3>1, <3>2
  <2> QED BY <2>1, <2>2
<1>3. early_frames' = Append(e, n)
  BY DEF Remember
<1> HIDE DEF e
<1>4. PICK d \in {0, 1} : /\ Len(e) = Len(early_frames) - d
                          /\ \A i \in 1..Len(e) : e[i] = early_frames[i + d]
  BY <1>2
<1>5. Len(e) \in Nat /\ Len(early_frames') = Len(e) + 1 /\ early_frames'[Len(e) + 1] = n
      /\ \A i \in 1..Len(e) : early_frames'[i] = e[i]
  BY <1>2, <1>3
<1>6. \A i \in 1..Len(e) : i + d \in 1..Len(early_frames) /\ early_frames'[i] = early_frames[i + d]
  BY <1>1, <1>4, <1>5
<1>7. \A i \in 1..Len(early_frames') : i \in 1..Len(e) \/ i = Len(e) + 1
  BY <1>5
<1>8. \A i, j \in 1..Len(early_frames') : i < j => early_frames'[i] < early_frames'[j]
  <2> SUFFICES ASSUME NEW i \in 1..Len(early_frames'), NEW j \in 1..Len(early_frames'), i < j
               PROVE  early_frames'[i] < early_frames'[j]
    OBVIOUS
  <2>1. i \in 1..Len(e)
    BY <1>5
  <2>2. CASE j = Len(e) + 1
    BY <1>5, <1>6, <2>1, <2>2
  <2>3. CASE j \in 1..Len(e)
    <3>1. i + d < j + d
      BY <1>5
    <3> QED BY <1>6, <2>1, <2>3, <3>1
  <2> QED BY <1>7, <2>2, <2>3
<1> QED BY <1>5, <1>6, <1>7, <1>8

\* The reader reads a frame; what it keeps of it is newer than all the rest.
LEMMA OrderRead ==
    ASSUME OverfullInv, OrderInv, ReadUnsolicited
    PROVE  OrderInv'
<1> DEFINE n == Len(kinds) + 1
<1>0. "reader" \in Tasks /\ "connector" \in Tasks /\ \A t \in Tasks : t \in {"reader", "connector"}
  BY DEF Tasks
<1>1. QueueTypes /\ OrderTypes /\ Phases /\ Numbers /\ Early /\ Distinct(Queued) /\ Overtaken /\ Between
  BY DEF OverfullInv, OrderInv
<1>2. /\ UNCHANGED <<schema, pushes, taken, replay, replayed>> /\ Queued' = Queued
      /\ place["reader"] = "reading"
      /\ \A t \in Tasks : place[t] \notin {"replaying", "evicting", "putting"}
  BY DEF ReadUnsolicited, outcome, Queued, LoopFree
<1>3. PICK kind \in {"push", "other"} :
          /\ kinds' = Append(kinds, kind)
          /\ IF schema
             THEN /\ IF kind = "push" THEN PutPush("reader", n)
                                      ELSE UNCHANGED <<place, hand, suspends>>
                  /\ UNCHANGED early_frames
             ELSE Remember(n) /\ UNCHANGED <<place, hand, suspends>>
  BY DEF ReadUnsolicited
<1>4. Len(kinds) \in Nat /\ Len(kinds') = n /\ n \in Nat
  BY <1>1, <1>3 DEF QueueTypes
<1>5. /\ \A m \in 1..Len(kinds) : m \in 1..Len(kinds') /\ m < n
      /\ n \in 1..Len(kinds') /\ n # 0
  BY <1>4
<1>6. hand["reader"] = 0
  BY <1>1, <1>2 DEF Phases
<1> HIDE DEF n
<1>7. /\ \A i \in 1..Len(Queued) : Queued[i] \in 1..Len(kinds') /\ Queued[i] < n
      /\ \A i \in 1..Len(early_frames) : early_frames[i] \in 1..Len(kinds') /\ early_frames[i] < n
  BY <1>1, <1>5 DEF Numbers
<1>8. CASE UNCHANGED <<early_frames, place, hand, suspends>>
  <2>1. Numbers'
    BY <1>2, <1>4, <1>6, <1>7, <1>8 DEF Numbers
  <2>2. OrderTypes' /\ Phases' /\ Early' /\ Distinct(Queued)' /\ Overtaken' /\ Between'
    BY <1>1, <1>2, <1>8 DEF OrderTypes, Phases, Early, Distinct, Overtaken, Between, Active
  <2> QED BY <2>1, <2>2 DEF OrderInv
<1>9. CASE schema /\ kind = "push"
  <2>1. PutPush("reader", n) /\ UNCHANGED early_frames
    BY <1>3, <1>9
  <2>2. PICK to \in {"callbacks", "evicting", "putting"} :
              /\ \A u \in Tasks : place'[u] = IF u = "reader" THEN to ELSE place[u]
              /\ \A u \in Tasks : hand'[u] = IF u = "reader" THEN n ELSE hand[u]
              /\ suspends' \in Nat /\ suspends' >= suspends
              /\ to = "callbacks" => suspends' > 0
    BY <1>0, <1>1, <1>4, <2>1, PutPushStarts
  <2>3. /\ place'["reader"] = to /\ hand'["reader"] = n
        /\ place'["connector"] = place["connector"] /\ hand'["connector"] = hand["connector"]
    BY <1>0, <2>2
  <2>4. OrderTypes'
    BY <1>1, <1>2, <2>2 DEF OrderTypes
  <2>5. Phases'
    <3>1. \A t \in Tasks : place'[t] \in {"callbacks", "evicting", "putting"} => hand'[t] # 0
      BY <1>0, <1>1, <1>5, <2>3 DEF Phases
    <3> QED BY <1>1, <1>2, <1>9, <2>1, <2>3, <3>1 DEF Phases
  <2>6. Numbers'
    BY <1>2, <1>4, <1>7, <2>1, <2>3 DEF Numbers
  <2>7. Early'
    BY <1>1, <1>2, <1>7, <2>1, <2>3 DEF Early
  <2>8. suspends \in Nat /\ (suspends > 0 => suspends' > 0)
    BY <1>1, <2>2 DEF OrderTypes
  <2>9. Distinct(Queued)' /\ Overtaken'
    BY <1>1, <1>2, <2>8 DEF Distinct, Overtaken
  <2>10. Between'
    <3>1. Active => place["connector"] = "callbacks"
      BY <1>0, <1>2 DEF Active
    <3>2. Active => suspends > 0
      BY <1>1, <3>1 DEF Between
    <3> QED BY <1>1, <2>3, <2>8, <3>2 DEF Between, Active
  <2> QED BY <2>4, <2>5, <2>6, <2>7, <2>9, <2>10 DEF OrderInv
<1>10. CASE ~schema
  <2>1. Remember(n) /\ UNCHANGED <<place, hand, suspends>>
    BY <1>3, <1>10
  <2>2. place["connector"] \in {"requested", "defining"} /\ taken = <<>> /\ pushes = <<>>
        /\ replay = 1 /\ replayed = {} /\ hand["connector"] = 0
    BY <1>1, <1>10 DEF Phases
  <2>3. Queued = <<>> /\ Len(Queued) = 0
    BY <2>2 DEF Queued
  <2>4. \A i, j \in 1..Len(early_frames) : i < j => early_frames[i] < early_frames[j]
    BY <1>1 DEF Early
  <2>5. /\ \A i \in 1..Len(early_frames') :
               early_frames'[i] = n \/ \E j \in 1..Len(early_frames) : early_frames'[i] = early_frames[j]
        /\ \A i, j \in 1..Len(early_frames') : i < j => early_frames'[i] < early_frames'[j]
    BY <1>1, <1>4, <1>7, <2>1, <2>4, RememberOrder
  <2>6. OrderTypes'
    BY <1>1, <1>2, <2>1 DEF OrderTypes
  <2>7. Phases'
    BY <1>1, <1>2, <2>1, <2>2 DEF Phases
  <2>8. Numbers'
    <3>1. \A i \in 1..Len(early_frames') : early_frames'[i] \in 1..Len(kinds')
      BY <1>5, <1>7, <2>5
    <3> QED BY <1>2, <1>4, <1>6, <2>1, <2>3, <3>1 DEF Numbers
  <2>9. Early'
    BY <1>2, <1>6, <2>1, <2>2, <2>3, <2>5 DEF Early, Contains
  <2>10. Distinct(Queued)' /\ Overtaken' /\ Between'
    BY <1>1, <1>2, <2>1 DEF Distinct, Overtaken, Between, Active
  <2> QED BY <2>6, <2>7, <2>8, <2>9, <2>10 DEF OrderInv
<1> QED BY <1>3, <1>8, <1>9, <1>10

\* The schema arrives; nothing has been queued.
LEMMA OrderSchema ==
    ASSUME OverfullInv, OrderInv, SchemaArrives \/ Define
    PROVE  OrderInv'
<1>0. "reader" \in Tasks /\ "connector" \in Tasks /\ \A t \in Tasks : t \in {"reader", "connector"}
  BY DEF Tasks
<1>1. QueueTypes /\ OrderTypes /\ Phases /\ Numbers /\ Early /\ Distinct(Queued) /\ Overtaken /\ Between
  BY DEF OverfullInv, OrderInv
<1>2. /\ UNCHANGED <<kinds, early_frames, pushes, taken, hand, replay, suspends, replayed>>
      /\ Queued' = Queued /\ place["connector"] \in {"requested", "defining"}
  BY DEF SchemaArrives, Define, frames, outcome, Queued
<1>3. PICK to \in {"defining", "requested", "replaying", "failed"} :
          /\ place' = [place EXCEPT !["connector"] = to]
          /\ schema' = IF to \in {"replaying", "failed"} THEN TRUE ELSE schema
  BY DEF SchemaArrives, Define, frames
<1>4. place'["connector"] = to /\ place'["reader"] = place["reader"]
  BY <1>0, <1>1, <1>3 DEF QueueTypes
<1>5. /\ ~schema /\ hand["connector"] = 0 /\ place["reader"] = "reading" /\ hand["reader"] = 0
      /\ taken = <<>> /\ pushes = <<>>
  BY <1>1, <1>2 DEF Phases
<1>6. Len(Queued) = 0
  BY <1>5 DEF Queued
<1>7. OrderTypes' /\ Numbers' /\ Early' /\ Distinct(Queued)' /\ Overtaken'
  BY <1>1, <1>2, <1>3 DEF OrderTypes, Numbers, Early, Distinct, Overtaken
<1>8. Phases'
  <2>1. \A t \in Tasks : place'[t] \notin {"callbacks", "evicting", "putting"}
    BY <1>0, <1>4, <1>5
  <2> QED BY <1>1, <1>2, <1>3, <1>4, <1>5, <2>1 DEF Phases
<1>9. Between'
  BY <1>2, <1>4, <1>5, <1>6 DEF Between, Active
<1> QED BY <1>7, <1>8, <1>9 DEF OrderInv

\* connect() goes through the early frames, and forgets them at the end.
LEMMA OrderReplay ==
    ASSUME OverfullInv, OrderInv, ReplayNext
    PROVE  OrderInv'
<1>0. "reader" \in Tasks /\ "connector" \in Tasks /\ \A t \in Tasks : t \in {"reader", "connector"}
  BY DEF Tasks
<1>1. QueueTypes /\ OrderTypes /\ Phases /\ Numbers /\ Early /\ Distinct(Queued) /\ Overtaken /\ Between
  BY DEF OverfullInv, OrderInv
<1>2. /\ UNCHANGED <<kinds, schema, pushes, taken, replayed>> /\ Queued' = Queued
      /\ place["connector"] = "replaying"
  BY DEF ReplayNext, outcome, Queued
<1>3. schema /\ hand["connector"] = 0 /\ Active
  BY <1>1, <1>2 DEF Phases, Active
<1>4. Len(early_frames) \in Nat /\ replay \in Nat \ {0}
  BY <1>1 DEF QueueTypes
<1>5. CASE replay > Len(early_frames)
  <2>1. /\ early_frames' = <<>> /\ place' = [place EXCEPT !["connector"] = "done"]
        /\ UNCHANGED <<hand, replay, suspends>>
    BY <1>5 DEF ReplayNext
  <2>2. place'["connector"] = "done" /\ place'["reader"] = place["reader"] /\ Len(early_frames') = 0
    BY <1>0, <1>1, <2>1 DEF QueueTypes
  <2>3. OrderTypes' /\ Numbers' /\ Early' /\ Distinct(Queued)' /\ Overtaken'
    BY <1>1, <1>2, <2>1, <2>2 DEF OrderTypes, Numbers, Early, Distinct, Overtaken
  <2>4. Phases'
    <3>1. \A t \in Tasks : place'[t] \in {"callbacks", "evicting", "putting"} => hand'[t] # 0
      BY <1>0, <1>1, <2>1, <2>2 DEF Phases
    <3> QED BY <1>1, <1>2, <1>3, <2>1, <2>2, <3>1 DEF Phases
  <2>5. Between'
    BY <2>2 DEF Between, Active
  <2> QED BY <2>3, <2>4, <2>5 DEF OrderInv
<1>6. CASE ~(replay > Len(early_frames)) /\ kinds[early_frames[replay]] = "push"
  <2> DEFINE n == early_frames[replay]
  <2>1. PutPush("connector", n) /\ UNCHANGED <<early_frames, replay>>
    BY <1>6 DEF ReplayNext
  <2>2. replay \in 1..Len(early_frames)
    BY <1>4, <1>6
  <2>3. n \in Nat /\ n # 0
    BY <1>1, <2>2 DEF Numbers
  <2>4. PICK to \in {"callbacks", "evicting", "putting"} :
              /\ \A u \in Tasks : place'[u] = IF u = "connector" THEN to ELSE place[u]
              /\ \A u \in Tasks : hand'[u] = IF u = "connector" THEN n ELSE hand[u]
              /\ suspends' \in Nat /\ suspends' >= suspends
              /\ to = "callbacks" => suspends' > 0
    BY <1>0, <1>1, <2>1, <2>3, PutPushStarts
  <2>5. /\ place'["connector"] = to /\ hand'["connector"] = n
        /\ place'["reader"] = place["reader"] /\ hand'["reader"] = hand["reader"]
    BY <1>0, <2>4
  <2>6. suspends \in Nat /\ (suspends > 0 => suspends' > 0)
    BY <1>1, <2>4 DEF OrderTypes
  <2>7. OrderTypes' /\ Numbers' /\ Early' /\ Distinct(Queued)'
    BY <1>1, <1>2, <2>1, <2>4, <2>5 DEF OrderTypes, Numbers, Early, Distinct
  <2>8. Overtaken' /\ Between'
    BY <1>1, <1>2, <1>3, <2>4, <2>5, <2>6 DEF Overtaken, Between
  <2>9. Phases'
    <3>1. \A t \in Tasks : place'[t] \in {"callbacks", "evicting", "putting"} => hand'[t] # 0
      BY <1>0, <1>1, <2>3, <2>5 DEF Phases
    <3> QED BY <1>1, <1>2, <1>3, <2>1, <2>2, <2>5, <3>1 DEF Phases
  <2> QED BY <2>7, <2>8, <2>9 DEF OrderInv
<1>7. CASE ~(replay > Len(early_frames)) /\ kinds[early_frames[replay]] # "push"
  <2>1. UNCHANGED <<early_frames, place, hand, suspends>> /\ replay' = replay + 1
    BY <1>7 DEF ReplayNext
  <2>2. OrderTypes' /\ Numbers' /\ Distinct(Queued)' /\ Overtaken' /\ Between'
    BY <1>1, <1>2, <2>1 DEF OrderTypes, Numbers, Distinct, Overtaken, Between, Active
  <2>3. \A i \in 1..Len(early_frames) : i >= replay + 1 => i >= replay
    BY <1>4
  <2>4. Early'
    BY <1>1, <1>2, <2>1, <2>3 DEF Early
  <2>5. Phases'
    BY <1>1, <1>2, <1>3, <2>1 DEF Phases
  <2> QED BY <2>2, <2>4, <2>5 DEF OrderInv
<1> QED BY <1>5, <1>6, <1>7

LEMMA OrderNext == OverfullInv /\ OrderInv /\ [PushNext]_pushVars => OrderInv'
<1> SUFFICES ASSUME OverfullInv, OrderInv, [PushNext]_pushVars PROVE OrderInv'
  OBVIOUS
<1>0. QueueTypes /\ OrderTypes /\ Phases
  BY DEF OverfullInv, OrderInv
<1>1. ASSUME NEW t \in Tasks, TaskStep(t) PROVE OrderInv'
  <2>1. CASE CallbacksDone(t)
    <3>1. PICK to \in {"evicting", "putting"} : place' = [place EXCEPT ![t] = to]
      BY <2>1 DEF CallbacksDone, AfterCallbacks
    <3>2. place[t] = "callbacks"
          /\ UNCHANGED <<frames, hand, replay, suspends, pushes, outcome>>
      BY <2>1 DEF CallbacksDone
    <3> QED BY <1>0, <3>1, <3>2, OrderMoves
  <2>2. CASE Evict(t) /\ pushes = <<>>
    <3>1. PICK to : to = (IF t = "reader" THEN "dead" ELSE "failed")
                    /\ place' = [place EXCEPT ![t] = to]
      BY <2>2 DEF Evict, Raises
    <3>2. place[t] = "evicting"
          /\ UNCHANGED <<frames, hand, replay, suspends, pushes, outcome>>
      BY <2>2 DEF Evict
    <3> QED BY <1>0, <3>1, <3>2, OrderMoves
  <2>3. CASE Evict(t) /\ pushes # <<>>
    BY <1>0, <2>3, OrderEvicts
  <2>4. CASE Put(t)
    BY <2>4, OrderReaderPuts, OrderConnectorPuts DEF Tasks
  <2> QED BY <1>1, <2>1, <2>2, <2>3, <2>4 DEF TaskStep
<1>2. CASE ReadUnsolicited \/ SchemaArrives \/ Define \/ ReplayNext
  BY <1>2, OrderRead, OrderSchema, OrderReplay
<1>3. ASSUME NEW c \in Consumers, TakePush(c) PROVE OrderInv'
  <2>1. UNCHANGED <<frames, tasks, replayed>>
    BY <1>3 DEF TakePush
  <2>2. CASE pushes = <<>>
    <3>1. UNCHANGED <<taken, pushes>>
      BY <1>3, <2>2 DEF TakePush
    <3> QED BY <1>0, <2>1, <3>1, OrderStays DEF Queued, OrderTypes
  <2>3. CASE pushes # <<>>
    <3>1. taken' = Append(taken, Head(pushes)) /\ pushes' = Tail(pushes)
      BY <1>3, <2>3 DEF TakePush
    <3>2. taken \in Seq(Nat) /\ pushes \in Seq(Nat) /\ Head(pushes) \in Nat
      BY <1>0, <2>3, TailLen DEF OrderTypes, QueueTypes
    <3>3. Queued' = Queued /\ taken' \in Seq(Nat)
      <4>1. Append(taken, Head(pushes)) \o Tail(pushes) = taken \o pushes
        BY <2>3, <3>2, ConcatTake
      <4>2. Append(taken, Head(pushes)) \in Seq(Nat)
        BY <3>2
      <4> QED BY <3>1, <4>1, <4>2 DEF Queued
    <3>4. schema
      BY <1>0, <2>3 DEF Phases
    <3> QED BY <2>1, <3>3, <3>4, OrderStays
  <2> QED BY <2>2, <2>3
<1>4. ASSUME UNCHANGED <<frames, tasks, pushes, outcome>> PROVE OrderInv'
  <2>1. UNCHANGED <<frames, tasks, replayed, taken, pushes>> /\ Queued' = Queued /\ taken' \in Seq(Nat)
    BY <1>0, <1>4 DEF outcome, Queued, OrderTypes
  <2> QED BY <2>1, OrderStays
<1>5. ASSUME NEW c \in Consumers,
             NextPush(c) \/ Check(c) \/ AwaitPush(c) \/ Resume(c) \/ FallAsleep(c) \/ GiveUp(c)
      PROVE OrderInv'
  BY <1>4, <1>5 DEF NextPush, Check, AwaitPush, Resume, FallAsleep, GiveUp
<1>6. CASE UNCHANGED pushVars
  BY <1>4, <1>6 DEF pushVars
<1> QED BY <1>1, <1>2, <1>3, <1>5, <1>6 DEF PushNext, CallerStep

\* Neither the replay nor an eviction that races with a caller duplicates a frame:
\* what is taken, queued or about to be put is so once.
THEOREM NothingTwiceCorrect == PushSpec => []NothingTwice
<1>1. OverfullInv /\ OrderInv => NothingTwice
  <2> SUFFICES ASSUME OverfullInv, OrderInv PROVE NothingTwice
    OBVIOUS
  <2>1. QueueTypes /\ OrderTypes /\ Phases /\ Numbers /\ Early /\ Distinct(Queued)
    BY DEF OverfullInv, OrderInv
  <2>2. Queued \in Seq(Nat) /\ Len(Queued) \in Nat /\ DOMAIN Queued = 1..Len(Queued)
    BY <2>1, QueuedType
  <2>3. IsInjective(Queued)
    BY <2>1, <2>2 DEF Distinct, IsInjective
  <2>4. hand["reader"] # 0 => ~Contains(Queued, hand["reader"])
    BY <2>1, <2>2 DEF Early, Contains, Numbers
  <2>5. hand["connector"] # 0 =>
            /\ ~Contains(Queued, hand["connector"])
            /\ hand["reader"] = 0 \/ hand["connector"] < hand["reader"]
    <3> HAVE hand["connector"] # 0
    <3>1. replay \in 1..Len(early_frames) /\ hand["connector"] = early_frames[replay]
      BY <2>1 DEF Phases
    <3> QED BY <2>1, <3>1 DEF Early
  <2>6. hand["reader"] # hand["connector"] \/ hand["reader"] = 0
    <3>1. hand["reader"] \in Nat /\ hand["connector"] \in Nat
      BY <2>1 DEF QueueTypes, Tasks
    <3> QED BY <2>5, <3>1
  <2>7. ({hand[t] : t \in Tasks} \ {0}) \intersect ToSet(Queued) = {}
    <3>1. \A t \in Tasks : hand[t] # 0 => ~Contains(Queued, hand[t])
      BY <2>4, <2>5 DEF Tasks
    <3>2. \A n \in ToSet(Queued) : Contains(Queued, n)
      BY <2>2 DEF ToSet, Contains
    <3> QED BY <3>1, <3>2
  <2> QED BY <2>3, <2>6, <2>7 DEF NothingTwice, Queued
<1> QED BY <1>1, OverfullInit, OverfullNext, OrderInit, OrderNext, PTL DEF PushSpec

\* Frames are queued in the order they were read, except that a frame read after the
\* schema overtakes early ones while a callback of the replay suspends.
THEOREM OvertakenCorrect == PushSpec => []OvertakenOnlyInReplay
<1>1. OverfullInv /\ OrderInv => OvertakenOnlyInReplay
  BY DEF OrderInv, Overtaken, OvertakenOnlyInReplay, Queued
<1> QED BY <1>1, OverfullInit, OverfullNext, OrderInit, OrderNext, PTL DEF PushSpec

-----------------------------------------------------------------------------
(* What is lost.                                                           *)

\* An early frame the replay has not come to.
Waits(n) == \E i \in 1..Len(early_frames) : i >= replay /\ early_frames[i] = n
Kept(n) == Contains(Queued, n) \/ Waits(n) \/ \E t \in Tasks : hand[t] = n
IsLost(n) == n \in 1..Len(kinds) /\ kinds[n] = "push" /\ ~Kept(n)

Settled == (\E t \in Tasks : place[t] = "evicting") => Len(Queued) >= PushQueueSize
\* Once a frame is lost, push_queue_size frames that were read are not.
Covered ==
    (\E n : IsLost(n)) =>
        \E S \in SUBSET (1..Len(kinds)) :
            Cardinality(S) >= PushQueueSize /\ \A n \in S : ~IsLost(n)

LostInv == Settled /\ Covered

\* Different numbers below a bound, counted.
LEMMA LossCounted ==
    ASSUME NEW l \in Nat, NEW m \in Nat, NEW q \in [1..m -> 1..l],
           \A i, j \in 1..m : q[i] = q[j] => i = j
    PROVE  \E S \in SUBSET (1..l) :
              Cardinality(S) >= m /\ \A x \in S : \E i \in 1..m : x = q[i]
<1> DEFINE S == {q[i] : i \in 1..m}
           f == [i \in 1..m |-> q[i]]
<1>1. S \in SUBSET (1..l)
  OBVIOUS
<1>2. f \in Injection(1..m, S)
  BY DEF Injection, IsInjective
<1>3. IsFiniteSet(1..l) /\ IsFiniteSet(1..m) /\ Cardinality(1..m) = m
  BY FS_Interval
<1>4. IsFiniteSet(S)
  BY <1>1, <1>3, FS_Subset
<1>5. m <= Cardinality(S) /\ Cardinality(S) \in Nat
  BY <1>2, <1>3, <1>4, FS_Injection, FS_CardinalityType
<1> QED BY <1>1, <1>5

\* Steps that lose nothing.
LEMMA CoveredStays ==
    ASSUME Covered, Len(kinds) \in Nat, Len(kinds') \in Nat, Len(kinds) <= Len(kinds'),
           \A n : IsLost(n)' => IsLost(n)
    PROVE  Covered'
<1>1. CASE ~ \E n : IsLost(n)'
  BY <1>1 DEF Covered
<1>2. CASE \E n : IsLost(n)'
  <2>1. PICK S \in SUBSET (1..Len(kinds)) :
            Cardinality(S) >= PushQueueSize /\ \A n \in S : ~IsLost(n)
    BY <1>2 DEF Covered
  <2>2. S \in SUBSET (1..Len(kinds'))
    OBVIOUS
  <2> QED BY <2>1, <2>2 DEF Covered
<1> QED BY <1>1, <1>2

\* The steps before a put: what was put stays, and nothing is lost.
LEMMA LostStays ==
    ASSUME OverfullInv, OrderInv, LostInv, Queued' = Queued,
           Len(kinds') \in Nat, Len(kinds) <= Len(kinds'),
           \A t \in Tasks : place[t] # "putting",
           \A t \in Tasks : place'[t] = "evicting" => place[t] = "evicting" \/ Full,
           \A n : IsLost(n)' => IsLost(n)
    PROVE  LostInv'
<1>1. Len(kinds) \in Nat
  BY DEF OverfullInv, QueueTypes
<1>2. Covered'
  BY <1>1, CoveredStays DEF LostInv
<1>3. Settled'
  <2>1. Full => Len(Queued) >= PushQueueSize
    BY QueuedType, PushSizeAssumption, LenZero DEF OverfullInv, OrderInv, QueueTypes, OrderTypes, Full
  <2> QED BY <2>1 DEF LostInv, Settled
<1> QED BY <1>2, <1>3 DEF LostInv

\* Steps of the callers.
LEMMA LostIdles ==
    ASSUME OverfullInv, LostInv, UNCHANGED <<frames, tasks>>, Queued' = Queued
    PROVE  LostInv'
<1>1. UNCHANGED <<kinds, early_frames, place, hand, replay>>
  BY DEF frames, tasks
<1>2. \A n : IsLost(n)' => IsLost(n)
  BY <1>1 DEF IsLost, Kept, Waits
<1>3. Covered'
  BY <1>1, <1>2, CoveredStays DEF LostInv, OverfullInv, QueueTypes
<1>4. Settled'
  BY <1>1 DEF LostInv, Settled
<1> QED BY <1>3, <1>4 DEF LostInv

\* A full queue drops its oldest frame; those behind it and the one in hand stay.
LEMMA LostEvicts ==
    ASSUME OverfullInv, OrderInv, OrderInv', LostInv, NEW t \in Tasks, Evict(t), pushes # <<>>
    PROVE  LostInv'
<1>1. QueueTypes /\ OrderTypes /\ Phases /\ OneRuns
  BY DEF OverfullInv, OrderInv
<1>2. /\ place[t] = "evicting" /\ pushes' = Tail(pushes)
      /\ place' = [place EXCEPT ![t] = "putting"]
      /\ UNCHANGED <<kinds, early_frames, hand, replay, taken>>
  BY DEF Evict, frames, outcome
<1>3. Len(Queued') = Len(Queued) - 1 /\ Len(Queued) >= PushQueueSize /\ Len(Queued) \in Nat
  <2>1. Len(taken \o Tail(pushes)) = Len(taken \o pushes) - 1
    BY <1>1, ConcatTail DEF QueueTypes, OrderTypes
  <2> QED BY <1>1, <1>2, <2>1, QueuedType DEF LostInv, Settled, Queued
<1>4. \A u \in Tasks : place'[u] # "evicting"
  BY <1>1, <1>2 DEF OneRuns, Running, QueueTypes
<1>5. Settled'
  BY <1>4 DEF Settled
<1>6. Covered'
  <2> DEFINE x == hand[t]
             m == Len(Queued') + 1
             q == [i \in 1..m |-> IF i = m THEN x ELSE Queued'[i]]
  <2>1. x # 0 /\ x \in Nat
    BY <1>1, <1>2 DEF Phases, QueueTypes
  <2>2. Len(Queued') \in Nat /\ m = Len(Queued) /\ Len(kinds') = Len(kinds) /\ Len(kinds) \in Nat
    BY <1>1, <1>2, <1>3, PushSizeAssumption DEF QueueTypes
  <2>3. x \in 1..Len(kinds)
    <3>1. Tasks = {"reader", "connector"}
      BY DEF Tasks
    <3>2. CASE t = "reader"
      BY <2>1, <2>2, <3>2 DEF OrderInv, Numbers
    <3>3. CASE t = "connector"
      BY <1>1, <2>1, <3>3 DEF OrderInv, Phases, Numbers
    <3> QED BY <3>1, <3>2, <3>3
  <2>4. /\ \A i \in 1..Len(Queued') : Queued'[i] \in 1..Len(kinds)
        /\ \A i, j \in 1..Len(Queued') : Queued'[i] = Queued'[j] => i = j
    BY <1>2 DEF OrderInv, Numbers, Distinct
  <2>5. \A i \in 1..Len(Queued') : Queued'[i] # x
    <3>1. hand' = hand /\ early_frames' = early_frames /\ replay' = replay
      BY <1>2
    <3>2. Tasks = {"reader", "connector"}
      BY DEF Tasks
    <3>3. CASE t = "reader"
      <4>1. \A i \in 1..Len(Queued') : Queued'[i] < x
        BY <2>1, <3>1, <3>3 DEF OrderInv, Early
      <4> QED BY <2>1, <2>4, <4>1
    <3>4. CASE t = "connector"
      <4>1. replay \in 1..Len(early_frames) /\ x = early_frames[replay]
        BY <1>1, <2>1, <3>4 DEF Phases
      <4>2. ~Contains(Queued, x)'
        BY <3>1, <4>1 DEF OrderInv, Early
      <4> QED BY <3>1, <4>2 DEF Contains
    <3> QED BY <3>2, <3>3, <3>4
  <2> HIDE DEF x
  <2>6. /\ \A i \in 1..m : q[i] = x \/ \E k \in 1..Len(Queued') : q[i] = Queued'[k]
        /\ q \in [1..m -> 1..Len(kinds)]
        /\ \A i, j \in 1..m : q[i] = q[j] => i = j
    BY <2>2, <2>3, <2>4, <2>5
  <2>7. m \in Nat /\ m >= PushQueueSize
    BY <1>3, <2>2
  <2> HIDE DEF m, q
  <2>8. PICK S \in SUBSET (1..Len(kinds)) :
            Cardinality(S) >= m /\ \A n \in S : \E i \in 1..m : n = q[i]
    <3>1. Len(kinds) \in Nat /\ m \in Nat
      BY <2>2, <2>7
    <3>2. \A i, j \in 1..m : q[i] = q[j] => i = j
      BY <2>6
    <3> QED BY <2>6, <3>1, <3>2, LossCounted
  <2>9. \A n \in S : ~IsLost(n)'
    <3> SUFFICES ASSUME NEW n \in S PROVE Kept(n)'
      BY DEF IsLost
    <3>1. n = x \/ \E k \in 1..Len(Queued') : n = Queued'[k]
      BY <2>6, <2>8
    <3>2. hand'[t] = x
      BY <1>2 DEF x
    <3>3. (\E k \in 1..Len(Queued') : n = Queued'[k]) => Contains(Queued, n)'
      BY DEF Contains
    <3> QED BY <3>1, <3>2, <3>3 DEF Kept
  <2>10. IsFiniteSet(S) /\ Cardinality(S) \in Nat
    <3>1. IsFiniteSet(1..Len(kinds))
      BY <2>2, FS_Interval
    <3> QED BY <3>1, FS_Subset, FS_CardinalityType
  <2>11. Cardinality(S) >= PushQueueSize
    BY <2>7, <2>8, <2>10, PushSizeAssumption
  <2> QED BY <1>2, <2>9, <2>11 DEF Covered
<1> QED BY <1>5, <1>6 DEF LostInv

\* A put loses nothing.
LEMMA LostPuts ==
    ASSUME OverfullInv, OrderInv, LostInv, NEW t \in Tasks, Put(t)
    PROVE  LostInv'
<1>0. PICK x \in Nat : x = hand[t]
  BY DEF OverfullInv, QueueTypes
<1>1. QueueTypes /\ OrderTypes /\ Phases /\ OneRuns
  BY DEF OverfullInv, OrderInv
<1>2. /\ place[t] = "putting" /\ pushes' = Append(pushes, x) /\ hand' = [hand EXCEPT ![t] = 0]
      /\ \/ t = "reader" /\ place' = [place EXCEPT ![t] = "reading"] /\ replay' = replay
         \/ /\ t = "connector" /\ place' = [place EXCEPT ![t] = "replaying"]
            /\ replay' = replay + 1
      /\ UNCHANGED <<kinds, early_frames, taken>>
  BY <1>0 DEF Put, frames, OverfullInv, NeverOverfull, Tasks
<1>3. x # 0 /\ x \in Nat
  BY <1>0, <1>1, <1>2 DEF Phases, QueueTypes
<1>4. /\ Len(Queued') = Len(Queued) + 1 /\ Len(Queued) \in Nat
      /\ Queued'[Len(Queued) + 1] = x
      /\ \A i \in 1..Len(Queued) : Queued'[i] = Queued[i]
  BY <1>1, <1>2, <1>3, QueuedGrows
<1>5. (\A n : Contains(Queued, n) => Contains(Queued, n)') /\ Contains(Queued, x)'
  BY <1>4 DEF Contains
<1>6. Settled'
  BY <1>1, <1>2 DEF Settled, OneRuns, Running, QueueTypes
<1>7. \A n : Waits(n) => Waits(n)' \/ n = x
  <2>1. CASE replay' = replay
    BY <1>2, <2>1 DEF Waits
  <2>2. CASE t = "connector" /\ replay' = replay + 1
    <3>1. replay \in 1..Len(early_frames) /\ x = early_frames[replay]
      BY <1>0, <1>1, <1>3, <2>2 DEF Phases
    <3>2. \A i \in 1..Len(early_frames) : i >= replay => i >= replay + 1 \/ early_frames[i] = x
      BY <3>1
    <3> QED BY <1>2, <2>2, <3>2 DEF Waits
  <2> QED BY <1>2, <2>1, <2>2
<1>8. \A n : IsLost(n)' => IsLost(n)
  <2>1. \A u \in Tasks : hand[u] = hand'[u] \/ hand[u] = x
    BY <1>0, <1>1, <1>2 DEF QueueTypes
  <2> QED BY <1>2, <1>5, <1>7, <2>1 DEF IsLost, Kept
<1>9. Covered'
  BY <1>1, <1>2, <1>8, CoveredStays DEF LostInv, QueueTypes
<1> QED BY <1>6, <1>9 DEF LostInv

\* A frame that is read is in hand, or an early frame; a full list of early frames
\* drops its oldest.
LEMMA LostReads ==
    ASSUME OverfullInv, OrderInv, OrderInv', LostInv, ReadUnsolicited
    PROVE  LostInv'
<1> DEFINE n == Len(kinds) + 1
<1>0. "reader" \in Tasks /\ "connector" \in Tasks /\ \A t \in Tasks : t \in {"reader", "connector"}
  BY DEF Tasks
<1>1. QueueTypes /\ OrderTypes /\ Phases /\ Numbers
  BY DEF OverfullInv, OrderInv
<1>2. /\ UNCHANGED <<replay, pushes, taken>> /\ Queued' = Queued /\ place["reader"] = "reading"
      /\ \A t \in Tasks : place[t] \notin {"replaying", "evicting", "putting"}
  BY DEF ReadUnsolicited, outcome, Queued, LoopFree
<1>3. PICK kind \in {"push", "other"} :
          /\ kinds' = Append(kinds, kind)
          /\ IF schema
             THEN /\ IF kind = "push" THEN PutPush("reader", n)
                                      ELSE UNCHANGED <<place, hand, suspends>>
                  /\ UNCHANGED early_frames
             ELSE Remember(n) /\ UNCHANGED <<place, hand, suspends>>
  BY DEF ReadUnsolicited
<1>4. /\ Len(kinds) \in Nat /\ Len(kinds') = n /\ n \in Nat /\ Len(kinds) <= n
      /\ \A m \in 1..Len(kinds) : kinds'[m] = kinds[m]
      /\ kinds'[n] = kind /\ \A m \in 1..n : m = n \/ m \in 1..Len(kinds)
  BY <1>1, <1>3 DEF QueueTypes
<1>5. hand["reader"] = 0
  BY <1>1, <1>2 DEF Phases
<1> HIDE DEF n
<1>6. \A i \in 1..Len(early_frames) : kinds'[early_frames[i]] = kinds[early_frames[i]]
  BY <1>1, <1>4 DEF Numbers
<1>7. CASE schema
  <2>1. UNCHANGED early_frames
    BY <1>3, <1>7
  <2>2. \A t \in Tasks : place'[t] = "evicting" => Full
    <3>1. CASE UNCHANGED place
      BY <1>2, <3>1
    <3>2. CASE PutPush("reader", n)
      <4>1. PICK to \in {"callbacks", "evicting", "putting"} :
                place' = [place EXCEPT !["reader"] = to] /\ (to = "evicting" => Full)
        BY <3>2 DEF PutPush, AfterCallbacks
      <4> QED BY <1>1, <1>2, <4>1 DEF QueueTypes
    <3> QED BY <1>3, <1>7, <3>1, <3>2
  <2>3. kind = "push" => hand'["reader"] = n
    BY <1>0, <1>1, <1>3, <1>7 DEF PutPush, QueueTypes
  <2>4. \A t \in Tasks : hand[t] # 0 => hand'[t] = hand[t]
    <3>1. CASE UNCHANGED hand
      BY <3>1
    <3>2. CASE PutPush("reader", n)
      <4>1. hand' = [hand EXCEPT !["reader"] = n]
        BY <3>2 DEF PutPush
      <4> QED BY <1>0, <1>1, <1>5, <4>1 DEF QueueTypes
    <3> QED BY <1>3, <1>7, <3>1, <3>2
  <2>5. \A m : IsLost(m)' => IsLost(m)
    <3> SUFFICES ASSUME NEW m, IsLost(m)' PROVE IsLost(m)
      OBVIOUS
    <3>1. m \in 1..n /\ kinds'[m] = "push" /\ ~Kept(m)'
      BY <1>4 DEF IsLost
    <3>2. m # n
      BY <1>0, <1>4, <2>3, <3>1 DEF Kept
    <3>3. m \in 1..Len(kinds) /\ kinds[m] = "push" /\ m # 0
      BY <1>4, <3>1, <3>2
    <3>4. ~Kept(m)
      BY <1>2, <2>1, <2>4, <3>1, <3>3 DEF Kept, Waits
    <3> QED BY <3>3, <3>4 DEF IsLost
  <2> QED BY <1>2, <1>4, <1>6, <2>1, <2>2, <2>5, LostStays
<1>8. CASE ~schema
  <2>1. Remember(n) /\ UNCHANGED <<place, hand, suspends>>
    BY <1>3, <1>8
  <2>2. replay = 1
    BY <1>1, <1>8 DEF Phases
  <2>3. Settled'
    BY <1>2, <2>1 DEF Settled
  <2>4. /\ early_frames' \in Seq(Nat) /\ Len(early_frames') \in Nat
        /\ \A i \in 1..Len(early_frames') : early_frames'[i] \in 1..Len(kinds')
        /\ \A i, j \in 1..Len(early_frames') : i < j => early_frames'[i] < early_frames'[j]
    BY <1>4, <2>1, RememberKeeps DEF OrderInv, Numbers, Early
  <2>5. CASE Len(early_frames) # PushQueueSize
    <3>1. early_frames' = Append(early_frames, n)
      BY <2>1, <2>5 DEF Remember
    <3>2. \A m : Waits(m) \/ m = n => Waits(m)'
      <4>1. /\ Len(early_frames) \in Nat /\ Len(early_frames') = Len(early_frames) + 1
            /\ early_frames'[Len(early_frames) + 1] = n
            /\ \A i \in 1..Len(early_frames) : early_frames'[i] = early_frames[i]
        BY <1>1, <1>4, <3>1 DEF QueueTypes
      <4>2. \A m : Waits(m) => Waits(m)'
        BY <1>2, <4>1 DEF Waits
      <4>3. \E i \in 1..Len(early_frames') : i >= replay' /\ early_frames'[i] = n
        BY <1>2, <2>2, <4>1
      <4>4. \A m : m = n => Waits(m)'
        BY <4>3 DEF Waits
      <4> QED BY <4>2, <4>4
    <3>3. \A m : IsLost(m)' => IsLost(m)
      <4> SUFFICES ASSUME NEW m, IsLost(m)' PROVE IsLost(m)
        OBVIOUS
      <4>1. m \in 1..n /\ kinds'[m] = "push" /\ ~Kept(m)'
        BY <1>4 DEF IsLost
      <4>2. m # n
        BY <3>2, <4>1 DEF Kept
      <4>3. m \in 1..Len(kinds) /\ kinds[m] = "push"
        BY <1>4, <4>1, <4>2
      <4>4. ~Kept(m)
        BY <1>2, <2>1, <3>2, <4>1 DEF Kept
      <4> QED BY <4>3, <4>4 DEF IsLost
    <3> QED BY <1>4, <2>3, <3>3, CoveredStays DEF LostInv
  <2>6. CASE Len(early_frames) = PushQueueSize
    <3>1. early_frames # <<>> /\ early_frames' = Append(Tail(early_frames), n)
      BY <1>1, <2>1, <2>6, LenZero, PushSizeAssumption DEF Remember, QueueTypes
    <3>2. Len(early_frames') = PushQueueSize
      <4>1. Tail(early_frames) \in Seq(Nat) /\ Len(Tail(early_frames)) = Len(early_frames) - 1
        BY <1>1, <3>1, TailLen DEF QueueTypes
      <4> QED BY <1>4, <2>6, <3>1, <4>1, AppendLen, PushSizeAssumption
    <3>3. early_frames' \in [1..Len(early_frames') -> 1..Len(kinds')]
      BY <2>4
    <3>4. \A i, j \in 1..Len(early_frames') : early_frames'[i] = early_frames'[j] => i = j
      BY <2>4
    <3>5. PICK S \in SUBSET (1..Len(kinds')) :
              /\ Cardinality(S) >= Len(early_frames')
              /\ \A m \in S : \E i \in 1..Len(early_frames') : m = early_frames'[i]
      BY <1>4, <2>4, <3>3, <3>4, LossCounted
    <3>6. \A m \in S : ~IsLost(m)'
      <4>1. \A i \in 1..Len(early_frames') : i >= replay'
        BY <1>2, <2>2
      <4> QED BY <3>5, <4>1 DEF IsLost, Kept, Waits
    <3>7. Covered'
      BY <3>2, <3>5, <3>6 DEF Covered
    <3> QED BY <2>3, <3>7 DEF LostInv
  <2> QED BY <2>5, <2>6
<1> QED BY <1>7, <1>8

\* The replay takes up the next early frame, or forgets those it has put.
LEMMA LostReplays ==
    ASSUME OverfullInv, OrderInv, OrderInv', LostInv, ReplayNext
    PROVE  LostInv'
<1>0. "reader" \in Tasks /\ "connector" \in Tasks /\ \A t \in Tasks : t \in {"reader", "connector"}
  BY DEF Tasks
<1>1. QueueTypes /\ OrderTypes /\ Phases /\ Numbers /\ OneRuns
  BY DEF OverfullInv, OrderInv
<1>2. /\ UNCHANGED <<kinds, schema, pushes, taken>> /\ Queued' = Queued
      /\ place["connector"] = "replaying"
  BY DEF ReplayNext, outcome, Queued
<1>3. /\ \A t \in Tasks : place[t] # "putting" /\ place[t] # "evicting"
      /\ hand["connector"] = 0
  BY <1>0, <1>1, <1>2 DEF OneRuns, Running, Phases
<1>4. Len(early_frames) \in Nat /\ replay \in Nat \ {0} /\ Len(kinds) \in Nat
  BY <1>1 DEF QueueTypes
<1>5. CASE replay > Len(early_frames)
  <2>1. /\ early_frames' = <<>> /\ place' = [place EXCEPT !["connector"] = "done"]
        /\ UNCHANGED <<hand, replay, suspends>>
    BY <1>5 DEF ReplayNext
  <2>2. /\ \A t \in Tasks : place'[t] # "evicting"
        /\ Len(early_frames') = 0
    BY <1>1, <1>3, <2>1 DEF QueueTypes
  <2>3. Settled'
    BY <2>2 DEF Settled
  <2>4. \A n : IsLost(n)' => IsLost(n)
    <3>1. \A n : ~Waits(n)
      BY <1>4, <1>5 DEF Waits
    <3> QED BY <1>2, <2>1, <3>1 DEF IsLost, Kept
  <2>5. Covered'
    BY <1>2, <1>4, <2>4, CoveredStays DEF LostInv
  <2> QED BY <2>3, <2>5 DEF LostInv
<1>6. CASE ~(replay > Len(early_frames)) /\ kinds[early_frames[replay]] = "push"
  <2> DEFINE n == early_frames[replay]
  <2>1. PutPush("connector", n) /\ UNCHANGED <<early_frames, replay>>
    BY <1>6 DEF ReplayNext
  <2>2. PICK to \in {"callbacks", "evicting", "putting"} :
            place' = [place EXCEPT !["connector"] = to] /\ (to = "evicting" => Full)
    BY <2>1 DEF PutPush, AfterCallbacks
  <2>3. \A t \in Tasks : place'[t] = "evicting" => Full
    BY <1>1, <1>3, <2>2 DEF QueueTypes
  <2>4. hand' = [hand EXCEPT !["connector"] = n]
    BY <2>1 DEF PutPush
  <2>5. \A t \in Tasks : hand[t] # 0 => hand'[t] = hand[t]
    BY <1>0, <1>1, <1>3, <2>4 DEF QueueTypes
  <2>6. \A m : IsLost(m)' => IsLost(m)
    BY <1>2, <2>1, <2>5 DEF IsLost, Kept, Waits
  <2> QED BY <1>2, <1>3, <1>4, <2>1, <2>3, <2>6, LostStays
<1>7. CASE ~(replay > Len(early_frames)) /\ kinds[early_frames[replay]] # "push"
  <2>1. UNCHANGED <<early_frames, place, hand, suspends>> /\ replay' = replay + 1
    BY <1>7 DEF ReplayNext
  <2>2. \A m : Waits(m) => Waits(m)' \/ m = early_frames[replay]
    <3>1. \A i \in 1..Len(early_frames) : i >= replay => i >= replay + 1 \/ i = replay
      BY <1>4
    <3> QED BY <2>1, <3>1 DEF Waits
  <2>3. \A m : IsLost(m)' => IsLost(m)
    BY <1>2, <1>7, <2>1, <2>2 DEF IsLost, Kept
  <2> QED BY <1>2, <1>3, <1>4, <2>1, <2>3, LostStays
<1> QED BY <1>5, <1>6, <1>7

LEMMA LostInit == PushInit => LostInv
<1> SUFFICES ASSUME PushInit PROVE LostInv
  OBVIOUS
<1>1. Len(kinds) = 0 /\ Len(early_frames) = 0 /\ \A t \in Tasks : place[t] # "evicting"
  BY DEF PushInit, Tasks
<1>2. \A n : ~IsLost(n)
  BY <1>1 DEF IsLost
<1> QED BY <1>1, <1>2 DEF LostInv, Settled, Covered

LEMMA LostNext ==
    OverfullInv /\ OrderInv /\ OrderInv' /\ LostInv /\ [PushNext]_pushVars => LostInv'
<1> SUFFICES ASSUME OverfullInv, OrderInv, OrderInv', LostInv, [PushNext]_pushVars PROVE LostInv'
  OBVIOUS
<1>0. QueueTypes /\ OrderTypes /\ Phases /\ OneRuns /\ Len(kinds) \in Nat
  BY DEF OverfullInv, OrderInv, QueueTypes
<1>1. ASSUME NEW t \in Tasks, TaskStep(t) PROVE LostInv'
  <2>1. CASE CallbacksDone(t) \/ (Evict(t) /\ pushes = <<>>)
    <3>1. /\ UNCHANGED <<kinds, early_frames, hand, replay>> /\ Queued' = Queued
      BY <2>1 DEF CallbacksDone, Evict, frames, outcome, Queued
    <3>2. \A u \in Tasks : place[u] # "putting"
      BY <1>0, <2>1 DEF CallbacksDone, LoopFree, Evict, OneRuns, Running
    <3>3. PICK to \in {"evicting", "putting", "dead", "failed"} :
              place' = [place EXCEPT ![t] = to] /\ (to = "evicting" => Full)
      BY <2>1 DEF CallbacksDone, AfterCallbacks, Evict, Raises
    <3>4. \A u \in Tasks : place'[u] = "evicting" => place[u] = "evicting" \/ Full
      BY <1>0, <3>3 DEF QueueTypes
    <3>5. \A n : IsLost(n)' => IsLost(n)
      BY <3>1 DEF IsLost, Kept, Waits
    <3> QED BY <1>0, <3>1, <3>2, <3>4, <3>5, LostStays
  <2>2. CASE Evict(t) /\ pushes # <<>>
    BY <2>2, LostEvicts
  <2>3. CASE Put(t)
    BY <2>3, LostPuts
  <2> QED BY <1>1, <2>1, <2>2, <2>3 DEF TaskStep
<1>2. CASE ReadUnsolicited \/ ReplayNext
  BY <1>2, LostReads, LostReplays
<1>3. CASE SchemaArrives \/ Define
  <2>1. /\ UNCHANGED <<kinds, early_frames, hand, replay>> /\ Queued' = Queued
        /\ \A u \in Tasks : place[u] # "putting"
    BY <1>3 DEF SchemaArrives, Define, LoopFree, frames, outcome, Queued
  <2>2. PICK to \in {"defining", "requested", "replaying", "failed"} :
            place' = [place EXCEPT !["connector"] = to]
    BY <1>3 DEF SchemaArrives, Define
  <2>3. \A u \in Tasks : place'[u] = "evicting" => place[u] = "evicting"
    BY <1>0, <2>2 DEF QueueTypes
  <2>4. \A n : IsLost(n)' => IsLost(n)
    BY <2>1 DEF IsLost, Kept, Waits
  <2> QED BY <1>0, <2>1, <2>3, <2>4, LostStays
<1>4. ASSUME NEW c \in Consumers, TakePush(c) PROVE LostInv'
  <2>1. Queued' = Queued
    <3>1. CASE pushes = <<>>
      BY <1>4, <3>1 DEF TakePush, Queued
    <3>2. CASE pushes # <<>>
      BY <1>0, <1>4, <3>2, ConcatTake DEF TakePush, Queued, OrderTypes, QueueTypes
    <3> QED BY <3>1, <3>2
  <2>2. UNCHANGED <<frames, tasks>>
    BY <1>4 DEF TakePush
  <2> QED BY <2>1, <2>2, LostIdles
<1>5. ASSUME UNCHANGED <<frames, tasks, pushes, outcome>> PROVE LostInv'
  BY <1>5, LostIdles DEF outcome, Queued
<1>6. ASSUME NEW c \in Consumers,
             NextPush(c) \/ Check(c) \/ AwaitPush(c) \/ Resume(c) \/ FallAsleep(c) \/ GiveUp(c)
      PROVE LostInv'
  BY <1>5, <1>6 DEF NextPush, Check, AwaitPush, Resume, FallAsleep, GiveUp
<1>7. CASE UNCHANGED pushVars
  BY <1>5, <1>7 DEF pushVars
<1> QED BY <1>1, <1>2, <1>3, <1>4, <1>6, <1>7 DEF PushNext, CallerStep

\* What failures strand are early frames and what the reader has in its hand.
LEMMA StrandedBounded ==
    ASSUME OverfullInv, OrderInv
    PROVE  IsFiniteSet(Stranded) /\ Cardinality(Stranded) <= PushQueueSize + 1
<1>1. /\ QueueTypes /\ Phases /\ Len(early_frames) \in Nat /\ Len(early_frames) <= PushQueueSize
      /\ replay \in Nat \ {0}
  BY DEF OverfullInv, OrderInv, NeverOverfull, QueueTypes
<1> DEFINE places == 1..Len(early_frames)
           early == {early_frames[i] : i \in places}
           x == hand["reader"]
<1>2. Unreplayed \subseteq early
  BY <1>1 DEF Unreplayed
<1>3. hand["connector"] # 0 => hand["connector"] \in early
  BY <1>1 DEF Phases
<1>4. Stranded \subseteq early \union {x}
  BY <1>2, <1>3 DEF Stranded, Tasks
<1>5. [i \in places |-> early_frames[i]] \in Surjection(places, early)
  BY DEF Surjection
<1>6. IsFiniteSet(places) /\ Cardinality(places) = Len(early_frames)
  BY <1>1, FS_Interval
<1> HIDE DEF places, early, x
<1>7. IsFiniteSet(early) /\ Cardinality(early) <= Len(early_frames) /\ Cardinality(early) \in Nat
  BY <1>5, <1>6, FS_Surjection, FS_CardinalityType
<1>8. IsFiniteSet(early \union {x}) /\ Cardinality(early \union {x}) <= Cardinality(early) + 1
      /\ Cardinality(early \union {x}) \in Nat
  BY <1>7, FS_AddElement, FS_CardinalityType
<1>9. IsFiniteSet(Stranded) /\ Cardinality(Stranded) <= Cardinality(early \union {x})
      /\ Cardinality(Stranded) \in Nat
  BY <1>4, <1>8, FS_Subset, FS_CardinalityType
<1> QED BY <1>1, <1>7, <1>8, <1>9, PushSizeAssumption

\* A declared push that nobody will take or put was lost to the bound, one for one with
\* frames read beyond push_queue_size, or was stranded by a failure, as at most the early
\* frames and the one in the reader's hand are; for any bound and any number of callers.
THEOREM LossBoundedCorrect == PushSpec => []LossBounded
<1>1. OverfullInv /\ OrderInv /\ LostInv => LossBounded
  <2> SUFFICES ASSUME OverfullInv, OrderInv, LostInv PROVE LossBounded
    OBVIOUS
  <2> DEFINE kept == ToSet(taken \o pushes)
                 \union {hand[t] : t \in {u \in Tasks : ~Failed(u)}}
                 \union (IF Failed("connector") THEN {} ELSE Unreplayed)
             lost == {n \in 1..Len(kinds) : kinds[n] = "push" /\ n \notin kept}
             overflowed == lost \ Stranded
  <2>1. Len(kinds) \in Nat /\ QueueTypes /\ OrderTypes /\ replay \in Nat \ {0}
        /\ Len(early_frames) \in Nat
    BY DEF OverfullInv, OrderInv, QueueTypes
  <2>2. \A n \in 1..Len(kinds) : Kept(n) => n \in kept \union Stranded
    <3> SUFFICES ASSUME NEW n \in 1..Len(kinds), Kept(n) PROVE n \in kept \union Stranded
      OBVIOUS
    <3>1. CASE Contains(Queued, n)
      <4>1. Queued \in Seq(Nat)
        BY <2>1, QueuedType
      <4>2. n \in ToSet(Queued)
        BY <3>1, <4>1 DEF Contains, ToSet
      <4> QED BY <4>2 DEF Queued
    <3>2. CASE Waits(n)
      <4>1. n \in Unreplayed
        BY <2>1, <3>2 DEF Waits, Unreplayed
      <4> QED BY <4>1 DEF Stranded
    <3>3. CASE \E t \in Tasks : hand[t] = n
      BY <3>3 DEF Stranded
    <3> QED BY <3>1, <3>2, <3>3 DEF Kept
  <2>3. \A n \in overflowed : IsLost(n)
    BY <2>2 DEF IsLost
  <2> HIDE DEF kept
  <2>4. SUFFICES ASSUME overflowed # {}
                 PROVE  Cardinality(overflowed) + PushQueueSize <= Len(kinds)
    BY StrandedBounded DEF LossBounded, kept
  <2>5. PICK S \in SUBSET (1..Len(kinds)) :
            Cardinality(S) >= PushQueueSize /\ \A n \in S : ~IsLost(n)
    BY <2>3, <2>4 DEF LostInv, Covered
  <2> DEFINE all == 1..Len(kinds)
  <2>6. overflowed \in SUBSET (all \ S) /\ all \intersect S = S
    BY <2>3, <2>5
  <2> HIDE DEF overflowed
  <2>7. IsFiniteSet(all) /\ Cardinality(all) = Len(kinds)
    <3>1. Len(kinds) \in Int /\ Len(kinds) >= 0
      BY <2>1
    <3> QED BY <3>1, FS_Interval, SMTT(30)
  <2> HIDE DEF all
  <2>8. IsFiniteSet(S) /\ Cardinality(S) \in Nat
    BY <2>5, <2>7, FS_Subset, FS_CardinalityType DEF all
  <2>9. IsFiniteSet(all \ S) /\ Cardinality(all \ S) = Len(kinds) - Cardinality(S)
    BY <2>6, <2>7, FS_Difference, ZenonT(30)
  <2>10. /\ Cardinality(overflowed) <= Cardinality(all \ S)
         /\ Cardinality(overflowed) \in Nat
    BY <2>6, <2>9, FS_Subset, FS_CardinalityType
  <2> QED BY <2>1, <2>5, <2>8, <2>9, <2>10, PushSizeAssumption
<1> QED BY <1>1, OverfullInit, OverfullNext, OrderInit, OrderNext, LostInit, LostNext, PTL DEF PushSpec


-----------------------------------------------------------------------------
(* Types.                                                                  *)

ListTypes ==
    /\ kinds \in Seq({"push", "other"}) /\ Len(kinds) <= MaxFrames
    /\ schema \in BOOLEAN
    /\ early_frames \in Seq(Frames) /\ pushes \in Seq(Frames)
    /\ taken \in Seq(Frames) /\ replayed \subseteq Frames
TaskTypes ==
    /\ place["reader"] \in {"reading", "callbacks", "evicting", "putting", "dead"}
    /\ place["connector"] \in {"requested", "defining", "replaying", "callbacks", "evicting",
                               "putting", "done", "failed"}
    /\ hand \in [Tasks -> 0..MaxFrames] /\ replay \in Nat /\ suspends \in 0..MaxSuspends
CallerTypes ==
    /\ consumer \in [Consumers -> {"idle", "checking", "registering", "taking", "waiting",
                                   "asleep"}]
    /\ getters \in Seq(Consumers) /\ woken \subseteq Consumers
    /\ boundLoop \in Consumers \union {NoLoop}

LEMMA TypeParts == PushTypeOK <=> ListTypes /\ TaskTypes /\ CallerTypes
BY DEF PushTypeOK, ListTypes, TaskTypes, CallerTypes

LEMMA TypePartsNext == ASSUME ListTypes', TaskTypes', CallerTypes' PROVE PushTypeOK'
BY DEF PushTypeOK, ListTypes, TaskTypes, CallerTypes

LEMMA TypesInit == PushInit => PushTypeOK
<1> SUFFICES ASSUME PushInit PROVE PushTypeOK
  OBVIOUS
<1>1. ListTypes
  BY PushBoundsAssumption DEF PushInit, ListTypes
<1>2. TaskTypes
  BY PushBoundsAssumption DEF PushInit, TaskTypes, Tasks
<1>3. CallerTypes
  BY DEF PushInit, CallerTypes
<1> QED BY <1>1, <1>2, <1>3, TypeParts

\* The place of a task that runs a step of _put_push.
LEMMA TaskMoves ==
    ASSUME QueueTypes, TaskTypes, NEW t \in Tasks,
           NEW to \in {"callbacks", "evicting", "putting"} \union
                      (IF t = "reader" THEN {"reading", "dead"}
                                       ELSE {"replaying", "done", "failed", "requested", "defining"}),
           place' = [place EXCEPT ![t] = to],
           hand' \in [Tasks -> 0..MaxFrames], replay' \in Nat, suspends' \in 0..MaxSuspends
    PROVE  TaskTypes'
<1>1. \A u \in Tasks : place'[u] = IF u = t THEN to ELSE place[u]
  BY DEF QueueTypes
<1>2. CASE t = "reader"
  BY <1>1, <1>2 DEF TaskTypes, Tasks
<1>3. CASE t = "connector"
  BY <1>1, <1>3 DEF TaskTypes, Tasks
<1> QED BY <1>2, <1>3 DEF Tasks

LEMMA PutPushTypes ==
    ASSUME QueueTypes, TaskTypes, NEW t \in Tasks, NEW n \in Frames, PutPush(t, n), replay' \in Nat
    PROVE  TaskTypes'
<1>1. hand' \in [Tasks -> 0..MaxFrames]
  <2>1. n \in 0..MaxFrames
    BY PushBoundsAssumption DEF Frames
  <2> QED BY <2>1 DEF PutPush, TaskTypes
<1>2. suspends' \in 0..MaxSuspends
  BY PushBoundsAssumption DEF PutPush, TaskTypes
<1>3. PICK to \in {"callbacks", "evicting", "putting"} : place' = [place EXCEPT ![t] = to]
  BY DEF PutPush, AfterCallbacks
<1> QED BY <1>1, <1>2, <1>3, TaskMoves

LEMMA TaskStepTypes ==
    ASSUME QueueTypes, Phases, PushTypeOK, NEW t \in Tasks, TaskStep(t)
    PROVE  PushTypeOK'
<1>0. ListTypes /\ TaskTypes /\ CallerTypes
  BY TypeParts
<1>1. CASE CallbacksDone(t)
  <2>1. PICK to \in {"evicting", "putting"} : place' = [place EXCEPT ![t] = to]
    BY <1>1 DEF CallbacksDone, AfterCallbacks
  <2>2. UNCHANGED <<frames, pushes, hand, replay, suspends, callers, outcome>>
    BY <1>1 DEF CallbacksDone
  <2>3. TaskTypes'
    BY <1>0, <2>1, <2>2, TaskMoves DEF TaskTypes
  <2>4. ListTypes' /\ CallerTypes'
    BY <1>0, <2>2 DEF ListTypes, CallerTypes, frames, callers, outcome
  <2> QED BY <2>3, <2>4, TypePartsNext
<1>2. CASE Evict(t)
  <2>1. UNCHANGED <<frames, hand, replay, suspends, callers, outcome>>
    BY <1>2 DEF Evict
  <2>2. PICK to \in {"putting"} \union (IF t = "reader" THEN {"dead"} ELSE {"failed"}) :
            place' = [place EXCEPT ![t] = to]
    BY <1>2 DEF Evict, Raises
  <2>3. TaskTypes'
    BY <1>0, <2>1, <2>2, TaskMoves DEF TaskTypes
  <2>4. pushes' \in Seq(Frames)
    <3>1. pushes \in Seq(Frames)
      BY <1>0 DEF ListTypes
    <3>2. CASE pushes = <<>>
      BY <1>2, <3>1, <3>2 DEF Evict
    <3>3. CASE pushes # <<>>
      BY <1>2, <3>1, <3>3, TailLen DEF Evict
    <3> QED BY <3>2, <3>3
  <2>5. ListTypes' /\ CallerTypes'
    BY <1>0, <2>1, <2>4 DEF ListTypes, CallerTypes, frames, callers, outcome
  <2> QED BY <2>3, <2>5, TypePartsNext
<1>3. CASE Put(t)
  <2>0. UNCHANGED <<frames, suspends, consumer, boundLoop, taken>>
    BY <1>3 DEF Put
  <2>1. hand[t] \in Frames
    BY <1>0, <1>3 DEF Phases, Put, TaskTypes, Frames
  <2>2. pushes' \in Seq(Frames) /\ replayed' \subseteq Frames
    <3>1. Append(pushes, hand[t]) \in Seq(Frames)
      BY <1>0, <2>1, AppendLen DEF ListTypes
    <3>2. pushes' \in {pushes, Append(pushes, hand[t])}
          /\ replayed' \in {replayed, replayed \union {hand[t]}}
      BY <1>3 DEF Put
    <3> QED BY <1>0, <2>1, <3>1, <3>2 DEF ListTypes
  <2>3. ListTypes'
    BY <1>0, <2>0, <2>2 DEF ListTypes, frames
  <2>4. CallerTypes'
    <3>1. getters \in Seq(Consumers) /\ woken \subseteq Consumers
      BY <1>0 DEF CallerTypes
    <3>2. getters # <<>> => Tail(getters) \in Seq(Consumers) /\ Head(getters) \in Consumers
      BY <3>1, TailLen
    <3>3. getters' \in Seq(Consumers) /\ woken' \subseteq Consumers
      BY <1>3, <3>1, <3>2 DEF Put
    <3> QED BY <1>0, <2>0, <3>3 DEF CallerTypes
  <2>5. hand' \in [Tasks -> 0..MaxFrames] /\ replay' \in Nat /\ suspends' \in 0..MaxSuspends
    <3>1. hand' \in {hand, [hand EXCEPT ![t] = 0]} /\ replay' \in {replay, replay + 1}
      BY <1>3 DEF Put
    <3>2. hand \in [Tasks -> 0..MaxFrames] /\ replay \in Nat /\ 0 \in 0..MaxFrames
      BY <1>0, PushBoundsAssumption DEF TaskTypes
    <3>3. [hand EXCEPT ![t] = 0] \in [Tasks -> 0..MaxFrames]
      BY <3>2
    <3> QED BY <1>0, <2>0, <3>1, <3>2, <3>3 DEF TaskTypes
  <2>6. PICK to \in IF t = "reader" THEN {"reading", "dead"} ELSE {"replaying", "failed"} :
            place' = [place EXCEPT ![t] = to]
    BY <1>3 DEF Put, Raises
  <2>7. TaskTypes'
    BY <1>0, <2>5, <2>6, TaskMoves
  <2> QED BY <2>3, <2>4, <2>7, TypePartsNext
<1> QED BY <1>1, <1>2, <1>3 DEF TaskStep

LEMMA ReadTypes ==
    ASSUME QueueTypes, PushTypeOK, ReadUnsolicited
    PROVE  PushTypeOK'
<1>0. ListTypes /\ TaskTypes /\ CallerTypes
  BY TypeParts
<1>1. PICK kind \in {"push", "other"} :
          /\ kinds' = Append(kinds, kind)
          /\ IF schema
             THEN /\ IF kind = "push" THEN PutPush("reader", Len(kinds) + 1)
                                      ELSE UNCHANGED <<place, hand, suspends>>
                  /\ UNCHANGED early_frames
             ELSE Remember(Len(kinds) + 1) /\ UNCHANGED <<place, hand, suspends>>
  BY DEF ReadUnsolicited
<1>2. Len(kinds) < MaxFrames /\ UNCHANGED <<schema, pushes, replay, callers, outcome>>
  BY DEF ReadUnsolicited
<1>3. /\ kinds \in Seq({"push", "other"}) /\ Len(kinds) \in Nat
      /\ kinds' \in Seq({"push", "other"}) /\ Len(kinds') = Len(kinds) + 1
  BY <1>0, <1>1, AppendLen, LenZero DEF ListTypes
<1>4. Len(kinds) + 1 \in Frames
  BY <1>2, <1>3, PushBoundsAssumption DEF Frames
<1>5. early_frames' \in Seq(Frames)
  <2>1. early_frames \in Seq(Frames)
    BY <1>0 DEF ListTypes
  <2>2. CASE schema
    BY <1>1, <2>1, <2>2
  <2>3. CASE ~schema
    <3>1. early_frames # <<>> => Tail(early_frames) \in Seq(Frames)
      BY <2>1, TailLen
    <3>2. Len(early_frames) = PushQueueSize => early_frames # <<>>
      BY <2>1, LenZero, PushSizeAssumption
    <3> QED BY <1>1, <1>4, <2>1, <2>3, <3>1, <3>2, AppendLen DEF Remember
  <2> QED BY <2>2, <2>3
<1>6. ListTypes'
  BY <1>0, <1>2, <1>3, <1>5, PushBoundsAssumption DEF ListTypes, outcome
<1>7. TaskTypes'
  <2>1. "reader" \in Tasks /\ replay' \in Nat
    BY <1>0, <1>2 DEF TaskTypes, Tasks
  <2>2. CASE UNCHANGED <<place, hand, suspends>>
    BY <1>0, <1>2, <2>2 DEF TaskTypes
  <2>3. CASE PutPush("reader", Len(kinds) + 1)
    BY <1>0, <1>4, <2>1, <2>3, PutPushTypes
  <2> QED BY <1>1, <2>2, <2>3
<1>8. CallerTypes'
  BY <1>0, <1>2 DEF CallerTypes, callers
<1> QED BY <1>6, <1>7, <1>8, TypePartsNext

LEMMA ConnectTypes ==
    ASSUME QueueTypes, PushTypeOK, SchemaArrives \/ Define \/ ReplayNext
    PROVE  PushTypeOK'
<1>0. ListTypes /\ TaskTypes /\ CallerTypes /\ "connector" \in Tasks
  BY TypeParts DEF Tasks
<1>1. CASE SchemaArrives \/ Define
  <2>1. UNCHANGED <<kinds, early_frames, pushes, hand, replay, suspends, callers, outcome>>
        /\ schema' \in BOOLEAN
    BY <1>0, <1>1 DEF SchemaArrives, Define, ListTypes, frames
  <2>2. PICK to \in {"defining", "requested", "replaying", "failed"} :
            place' = [place EXCEPT !["connector"] = to]
    BY <1>1 DEF SchemaArrives, Define
  <2>3. TaskTypes'
    BY <1>0, <2>1, <2>2, TaskMoves DEF TaskTypes
  <2>4. ListTypes' /\ CallerTypes'
    BY <1>0, <2>1 DEF ListTypes, CallerTypes, callers, outcome
  <2> QED BY <2>3, <2>4, TypePartsNext
<1>2. CASE ReplayNext /\ replay > Len(early_frames)
  <2>1. /\ early_frames' = <<>> /\ place' = [place EXCEPT !["connector"] = "done"]
        /\ UNCHANGED <<kinds, schema, pushes, hand, replay, suspends, callers, outcome>>
    BY <1>2 DEF ReplayNext
  <2>2. TaskTypes'
    BY <1>0, <2>1, TaskMoves DEF TaskTypes
  <2>3. ListTypes' /\ CallerTypes'
    BY <1>0, <2>1 DEF ListTypes, CallerTypes, callers, outcome
  <2> QED BY <2>2, <2>3, TypePartsNext
<1>3. CASE ReplayNext /\ ~(replay > Len(early_frames))
  <2>1. /\ UNCHANGED <<kinds, schema, early_frames, pushes, callers, outcome>>
        /\ \/ PutPush("connector", early_frames[replay]) /\ UNCHANGED replay
           \/ replay' = replay + 1 /\ UNCHANGED <<place, hand, suspends>>
    BY <1>3 DEF ReplayNext
  <2>2. early_frames[replay] \in Frames
    <3>1. replay \in 1..Len(early_frames)
      BY <1>0, <1>3, LenZero DEF QueueTypes, ListTypes
    <3> QED BY <1>0, <3>1 DEF ListTypes
  <2>3. TaskTypes'
    <3>1. CASE PutPush("connector", early_frames[replay]) /\ UNCHANGED replay
      <4>1. replay' \in Nat
        BY <1>0, <3>1 DEF TaskTypes
      <4> QED BY <1>0, <2>2, <3>1, <4>1, PutPushTypes
    <3>2. CASE replay' = replay + 1 /\ UNCHANGED <<place, hand, suspends>>
      BY <1>0, <3>2 DEF TaskTypes
    <3> QED BY <2>1, <3>1, <3>2
  <2>4. ListTypes' /\ CallerTypes'
    BY <1>0, <2>1 DEF ListTypes, CallerTypes, callers, outcome
  <2> QED BY <2>3, <2>4, TypePartsNext
<1> QED BY <1>1, <1>2, <1>3

LEMMA CallerStepTypes ==
    ASSUME PushTypeOK, NEW c \in Consumers,
           NextPush(c) \/ CallerStep(c) \/ FallAsleep(c) \/ GiveUp(c)
    PROVE  PushTypeOK'
<1>0. ListTypes /\ TaskTypes /\ CallerTypes
  BY TypeParts
<1>1. UNCHANGED <<frames, tasks, replayed>>
  BY DEF NextPush, CallerStep, Check, AwaitPush, TakePush, Resume, FallAsleep, GiveUp, outcome
<1>2. TaskTypes'
  BY <1>0, <1>1 DEF TaskTypes, tasks
<1>3. pushes' \in Seq(Frames) /\ taken' \in Seq(Frames)
  <2>1. pushes \in Seq(Frames) /\ taken \in Seq(Frames)
    BY <1>0 DEF ListTypes
  <2>2. CASE UNCHANGED <<pushes, taken>>
    BY <2>1, <2>2
  <2>3. CASE pushes # <<>> /\ taken' = Append(taken, Head(pushes)) /\ pushes' = Tail(pushes)
    BY <2>1, <2>3, TailLen, AppendLen
  <2> QED BY <2>2, <2>3 DEF NextPush, CallerStep, Check, AwaitPush, TakePush, Resume,
                            FallAsleep, GiveUp, outcome
<1>4. ListTypes'
  BY <1>0, <1>1, <1>3 DEF ListTypes, frames
<1>5. consumer' \in [Consumers -> {"idle", "checking", "registering", "taking", "waiting", "asleep"}]
  <2>1. PICK to \in {"idle", "checking", "registering", "taking", "waiting", "asleep"} : Step(c, to)
    BY DEF NextPush, CallerStep, Check, AwaitPush, TakePush, Resume, FallAsleep, GiveUp
  <2> QED BY <1>0, <2>1 DEF CallerTypes, Step
<1>6. getters' \in Seq(Consumers)
  <2>1. getters \in Seq(Consumers)
    BY <1>0 DEF CallerTypes
  <2>2. Append(getters, c) \in Seq(Consumers) /\ RemoveFirst(getters, c) \in Seq(Consumers)
    BY <2>1, AppendLen, RemoveFirstType
  <2> QED BY <2>1, <2>2 DEF NextPush, CallerStep, Check, AwaitPush, TakePush, Resume,
                            FallAsleep, GiveUp
<1>7. woken' \subseteq Consumers /\ boundLoop' \in Consumers \union {NoLoop}
  BY <1>0 DEF CallerTypes, NextPush, CallerStep, Check, AwaitPush, TakePush, Resume,
              FallAsleep, GiveUp
<1> QED BY <1>2, <1>4, <1>5, <1>6, <1>7, TypePartsNext DEF CallerTypes

\* What is queued, early, taken and in a task's hand are numbers of frames that were
\* read, and the callers of next_push are where Queue.get can be.
THEOREM PushTypeCorrect == PushSpec => []PushTypeOK
<1>1. OverfullInv /\ OrderInv /\ PushTypeOK /\ [PushNext]_pushVars => PushTypeOK'
  <2> SUFFICES ASSUME OverfullInv, OrderInv, PushTypeOK, [PushNext]_pushVars PROVE PushTypeOK'
    OBVIOUS
  <2>0. QueueTypes /\ Phases
    BY DEF OverfullInv, OrderInv
  <2>1. ASSUME NEW t \in Tasks, TaskStep(t) PROVE PushTypeOK'
    BY <2>0, <2>1, TaskStepTypes
  <2>2. CASE ReadUnsolicited
    BY <2>0, <2>2, ReadTypes
  <2>3. CASE SchemaArrives \/ Define \/ ReplayNext
    BY <2>0, <2>3, ConnectTypes
  <2>4. ASSUME NEW c \in Consumers, NextPush(c) \/ CallerStep(c) \/ FallAsleep(c) \/ GiveUp(c)
        PROVE  PushTypeOK'
    BY <2>4, CallerStepTypes
  <2>5. CASE UNCHANGED pushVars
    BY <2>5 DEF pushVars, frames, tasks, callers, outcome, PushTypeOK
  <2> QED BY <2>1, <2>2, <2>3, <2>4, <2>5 DEF PushNext
<1> QED BY <1>1, OverfullInit, OverfullNext, OrderInit, OrderNext, TypesInit, PTL DEF PushSpec
=============================================================================
