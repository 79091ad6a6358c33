-------------------------------- MODULE QueueLemmas --------------------------------
(* Removing an element from the queue of a lock or of pending calls.            *)
EXTENDS Naturals, SequencesExt, SequenceTheorems, WellFoundedInduction, TLAPS

\* The least element of a non-empty set of naturals is one of its elements.
LEMMA MinIsMember ==
    ASSUME NEW I \in SUBSET Nat, I # {}
    PROVE  Min(I) \in I /\ \A y \in I : Min(I) <= y
<1>1. PICK m \in I : \A y \in I : <<y, m>> \notin OpToRel(<, Nat)
  BY NatLessThanWellFounded, WFMin, Zenon
<1>2. \A y \in I : ~ (y < m)
  BY <1>1 DEF OpToRel
<1>3. \A y \in I : m <= y
  BY <1>2
<1>4. QED
  BY <1>3 DEF Min

\* RemoveFirst deletes one occurrence and keeps the rest in order.
LEMMA RemoveFirstSplits ==
    ASSUME NEW S, NEW s \in Seq(S), NEW e, NEW k \in 1..Len(s), s[k] = e
    PROVE  \E i \in 1..Len(s) :
              /\ s[i] = e
              /\ \A j \in 1..Len(s) : s[j] = e => i <= j
              /\ RemoveFirst(s, e) = SubSeq(s, 1, i-1) \o SubSeq(s, i+1, Len(s))
<1> DEFINE I == {i \in 1..Len(s) : s[i] = e}
<1>1. I # {} /\ I \in SUBSET Nat
  OBVIOUS
<1>2. Min(I) \in I /\ \A y \in I : Min(I) <= y
  BY <1>1, MinIsMember, Zenon
<1>3. RemoveFirst(s, e) = RemoveAt(s, Min(I))
  BY <1>1 DEF RemoveFirst, SelectInSeq
<1>4. QED
  BY <1>2, <1>3 DEF RemoveAt

LEMMA RemoveFirstType ==
    ASSUME NEW S, NEW s \in Seq(S), NEW e
    PROVE  RemoveFirst(s, e) \in Seq(S)
<1>1. CASE \E k \in 1..Len(s) : s[k] = e
  <2>1. PICK i \in 1..Len(s) : RemoveFirst(s, e) = SubSeq(s, 1, i-1) \o SubSeq(s, i+1, Len(s))
    BY <1>1, RemoveFirstSplits
  <2>2. SubSeq(s, 1, i-1) \in Seq(S) /\ SubSeq(s, i+1, Len(s)) \in Seq(S)
    BY SubSeqProperties
  <2>3. QED
    BY <2>1, <2>2
<1>2. CASE ~ \E k \in 1..Len(s) : s[k] = e
  BY <1>2 DEF RemoveFirst
<1>3. QED
  BY <1>1, <1>2

-----------------------------------------------------------------------------
(* A queue that contains each member of a set once; those behind its head   *)
(* wait.                                                                    *)

Queue(q, inside, waiting) ==
    /\ \A i \in 1..Len(q) : q[i] \in inside
    /\ \A t \in inside : \E i \in 1..Len(q) : q[i] = t
    /\ \A i, j \in 1..Len(q) : q[i] = q[j] => i = j
    /\ \A i \in 2..Len(q) : q[i] \in waiting

\* A newcomer goes to the end.
LEMMA QueueJoin ==
    ASSUME NEW S, NEW q \in Seq(S), NEW inside, NEW waiting, Queue(q, inside, waiting),
           NEW t \in S, t \notin inside, NEW others, waiting \ {t} \subseteq others, t \in others
    PROVE  Queue(Append(q, t), inside \union {t}, others)
<1> DEFINE a == Append(q, t)
<1>1. Len(q) \in Nat /\ Len(a) = Len(q) + 1 /\ a[Len(q) + 1] = t
      /\ \A i \in 1..Len(q) : a[i] = q[i]
  OBVIOUS
<1> HIDE DEF a
<1>2. \A i \in 1..Len(a) : i \in 1..Len(q) \/ i = Len(q) + 1
  BY <1>1
<1>3. \A i \in 1..Len(q) : q[i] # t
  BY DEF Queue
<1>4. \A i \in 1..Len(a) : a[i] \in inside \union {t}
  BY <1>1, <1>2 DEF Queue
<1>5. \A u \in inside \union {t} : \E i \in 1..Len(a) : a[i] = u
  BY <1>1 DEF Queue
<1>6. \A i, j \in 1..Len(a) : a[i] = a[j] => i = j
  BY <1>1, <1>2, <1>3 DEF Queue
<1>7. \A i \in 2..Len(a) : a[i] \in others
  BY <1>1, <1>2, <1>3 DEF Queue
<1>8. Queue(a, inside \union {t}, others)
  BY <1>4, <1>5, <1>6, <1>7 DEF Queue
<1> QED BY <1>8 DEF a

\* What is left when the element at i is taken out.
LEMMA CutOut ==
    ASSUME NEW S, NEW q \in Seq(S), NEW i \in 1..Len(q),
           NEW r, r = SubSeq(q, 1, i-1) \o SubSeq(q, i+1, Len(q))
    PROVE  /\ Len(r) = Len(q) - 1
           /\ \A j \in 1..Len(r) : r[j] = IF j < i THEN q[j] ELSE q[j+1]
<1>1. Len(q) \in Nat
  OBVIOUS
<1>2. SubSeq(q, 1, i-1) \in Seq(S) /\ Len(SubSeq(q, 1, i-1)) = i - 1
      /\ \A j \in 1..i-1 : SubSeq(q, 1, i-1)[j] = q[j]
  BY <1>1
<1>3. SubSeq(q, i+1, Len(q)) \in Seq(S) /\ Len(SubSeq(q, i+1, Len(q))) = Len(q) - i
      /\ \A j \in 1..Len(q) - i : SubSeq(q, i+1, Len(q))[j] = q[i + j]
  BY <1>1
<1> DEFINE a == SubSeq(q, 1, i-1)
           b == SubSeq(q, i+1, Len(q))
<1>4. Len(a \o b) = Len(a) + Len(b)
      /\ \A j \in 1..Len(a) + Len(b) : (a \o b)[j] = IF j <= Len(a) THEN a[j] ELSE b[j - Len(a)]
  <2> HIDE DEF a, b
  <2>1. a \in Seq(S) /\ b \in Seq(S)
    BY <1>2, <1>3 DEF a, b
  <2> QED BY <2>1
<1> DEFINE c == a \o b
<1> HIDE DEF a, b, c
<1>5. r = c /\ Len(a) = i - 1 /\ Len(b) = Len(q) - i
      /\ (\A j \in 1..i-1 : a[j] = q[j]) /\ (\A j \in 1..Len(q) - i : b[j] = q[i + j])
  BY <1>2, <1>3 DEF a, b, c
<1>6. Len(c) = Len(q) - 1
      /\ \A j \in 1..Len(q) - 1 : c[j] = IF j <= i - 1 THEN a[j] ELSE b[j - (i - 1)]
  BY <1>1, <1>4, <1>5 DEF c
<1>7. \A j \in 1..Len(q) - 1 : c[j] = IF j < i THEN q[j] ELSE q[j+1]
  <2> TAKE j \in 1..Len(q) - 1
  <2>1. CASE j < i
    <3>1. j \in 1..i-1 /\ j <= i - 1
      BY <1>1, <2>1
    <3> QED BY <1>5, <1>6, <2>1, <3>1
  <2>2. CASE ~(j < i)
    <3>1. j - (i - 1) \in 1..Len(q) - i /\ i + (j - (i - 1)) = j + 1 /\ ~(j <= i - 1)
      BY <1>1, <2>2
    <3> QED BY <1>5, <1>6, <2>2, <3>1
  <2> QED BY <2>1, <2>2
<1> QED BY <1>5, <1>6, <1>7

\* No element twice.
Distinct(q) == \A i, j \in 1..Len(q) : q[i] = q[j] => i = j

\* r is q without t: at says where its elements were, in the same order.
WithoutIt(q, t, r) ==
    \E at \in [1..Len(r) -> 1..Len(q)] :
       /\ \A j \in 1..Len(r) : r[j] = q[at[j]] /\ r[j] # t
       /\ \A j, m \in 1..Len(r) : j < m => at[j] < at[m]
       /\ \A n \in 1..Len(q) : q[n] # t => \E j \in 1..Len(r) : at[j] = n

\* Where the elements of what is left were: all but the one at i, in their order.
LEMMA CutOutKeeps ==
    ASSUME NEW S, NEW q \in Seq(S), NEW i \in 1..Len(q),
           Distinct(q), NEW r, Len(r) = Len(q) - 1,
           \A j \in 1..Len(r) : r[j] = IF j < i THEN q[j] ELSE q[j+1]
    PROVE  WithoutIt(q, q[i], r)
<1>2. Len(q) \in Nat /\ Len(r) = Len(q) - 1
      /\ \A j \in 1..Len(r) : r[j] = IF j < i THEN q[j] ELSE q[j+1]
  OBVIOUS
<1> DEFINE at == [j \in 1..Len(r) |-> IF j < i THEN j ELSE j + 1]
<1>3. \A j \in 1..Len(r) : at[j] \in 1..Len(q) /\ at[j] # i /\ r[j] = q[at[j]]
  <2> TAKE j \in 1..Len(r)
  <2>1. CASE j < i
    BY <1>2, <2>1
  <2>2. CASE ~(j < i)
    BY <1>2, <2>2
  <2> QED BY <2>1, <2>2
<1>4. \A j, m \in 1..Len(r) : j < m => at[j] < at[m]
  <2> TAKE j, m \in 1..Len(r)
  <2>1. j \in Nat /\ m \in Nat /\ i \in Nat
    BY <1>2
  <2> QED BY <2>1
<1>5. \A n \in 1..Len(q) : n # i => \E j \in 1..Len(r) : at[j] = n
  <2> SUFFICES ASSUME NEW n \in 1..Len(q), n # i PROVE \E j \in 1..Len(r) : at[j] = n
    OBVIOUS
  <2>1. CASE n < i
    <3>1. n \in 1..Len(r) /\ at[n] = n
      BY <1>2, <2>1
    <3> QED BY <3>1
  <2>2. CASE n > i
    <3>1. n - 1 \in 1..Len(r) /\ at[n - 1] = n
      BY <1>2, <2>2
    <3> QED BY <3>1
  <2> QED BY <1>2, <2>1, <2>2
<1>6. at \in [1..Len(r) -> 1..Len(q)]
  BY <1>3
<1> HIDE DEF at
<1>7. \A j, m \in 1..Len(q) : q[j] = q[m] => j = m
  BY DEF Distinct
<1>8. /\ \A j \in 1..Len(r) : r[j] = q[at[j]] /\ r[j] # q[i]
      /\ \A j, m \in 1..Len(r) : j < m => at[j] < at[m]
      /\ \A n \in 1..Len(q) : q[n] # q[i] => \E j \in 1..Len(r) : at[j] = n
  <2>1. \A j \in 1..Len(r) : r[j] = q[at[j]] /\ r[j] # q[i]
    <3> TAKE j \in 1..Len(r)
    <3>1. at[j] \in 1..Len(q) /\ at[j] # i /\ r[j] = q[at[j]]
      BY <1>3, Zenon
    <3>2. q[at[j]] # q[i]
      BY <1>7, <3>1, Zenon
    <3> QED BY <3>1, <3>2
  <2>2. \A n \in 1..Len(q) : q[n] # q[i] => n # i
    OBVIOUS
  <2> QED BY <1>4, <1>5, <2>1, <2>2, Zenon
<1> QED BY <1>6, <1>8, Zenon DEF WithoutIt

LEMMA RemoveFirstKeeps ==
    ASSUME NEW S, NEW q \in Seq(S), NEW t, Contains(q, t), Distinct(q)
    PROVE  WithoutIt(q, t, RemoveFirst(q, t))
<1> DEFINE r == RemoveFirst(q, t)
<1>1. PICK i \in 1..Len(q) : /\ q[i] = t
                             /\ r = SubSeq(q, 1, i-1) \o SubSeq(q, i+1, Len(q))
  BY RemoveFirstSplits DEF Contains
<1> HIDE DEF r
<1>2. Len(r) = Len(q) - 1
      /\ \A j \in 1..Len(r) : r[j] = IF j < i THEN q[j] ELSE q[j+1]
  <2>1. Len(q) \in Nat
    OBVIOUS
  <2> QED BY <1>1, <2>1, CutOut, Zenon
<1>3. WithoutIt(q, q[i], r)
  BY <1>2, CutOutKeeps, Zenon
<1>4. q[i] = t
  BY <1>1
<1> QED BY <1>3, <1>4 DEF r

\* Nothing is removed from a queue that t is not in.
LEMMA RemoveFirstAbsent ==
    ASSUME NEW S, NEW q \in Seq(S), NEW t, \A i \in 1..Len(q) : q[i] # t
    PROVE  RemoveFirst(q, t) = q
BY DEF RemoveFirst

\* Whoever leaves the queue leaves no trace in it, and the others keep their order.
LEMMA QueueLeave ==
    ASSUME NEW S, NEW q \in Seq(S), NEW inside, NEW waiting, Queue(q, inside, waiting),
           NEW t \in inside, NEW others, waiting \ {t} \subseteq others
    PROVE  Queue(RemoveFirst(q, t), inside \ {t}, others)
<1>1. PICK k \in 1..Len(q) : q[k] = t
  BY DEF Queue
<1> DEFINE r == RemoveFirst(q, t)
<1>2. PICK i \in 1..Len(q) : /\ q[i] = t
                             /\ r = SubSeq(q, 1, i-1) \o SubSeq(q, i+1, Len(q))
  BY <1>1, RemoveFirstSplits
<1> HIDE DEF r
<1>3. Len(q) \in Nat /\ Len(r) = Len(q) - 1
      /\ \A j \in 1..Len(r) : r[j] = IF j < i THEN q[j] ELSE q[j+1]
  <2>1. Len(q) \in Nat
    OBVIOUS
  <2> QED BY <1>2, <2>1, CutOut, Zenon
<1> DEFINE at == [j \in 1..Len(r) |-> IF j < i THEN j ELSE j + 1]
<1>4. \A j \in 1..Len(r) : at[j] \in 1..Len(q) /\ at[j] # i /\ r[j] = q[at[j]]
                           /\ (j >= 2 => at[j] >= 2)
  <2> TAKE j \in 1..Len(r)
  <2>1. CASE j < i
    BY <1>3, <2>1
  <2>2. CASE ~(j < i)
    BY <1>3, <2>2
  <2> QED BY <2>1, <2>2
<1>5. \A j, m \in 1..Len(r) : at[j] = at[m] => j = m
  <2> TAKE j, m \in 1..Len(r)
  <2>1. j \in Nat /\ m \in Nat /\ i \in Nat
    BY <1>3
  <2> QED BY <2>1
<1>6. \A n \in 1..Len(q) : n # i => \E j \in 1..Len(r) : at[j] = n
  <2> SUFFICES ASSUME NEW n \in 1..Len(q), n # i PROVE \E j \in 1..Len(r) : at[j] = n
    OBVIOUS
  <2>1. CASE n < i
    <3>1. n \in 1..Len(r) /\ at[n] = n
      BY <1>3, <2>1
    <3> QED BY <3>1
  <2>2. CASE n > i
    <3>1. n - 1 \in 1..Len(r) /\ at[n - 1] = n
      BY <1>3, <2>2
    <3> QED BY <3>1
  <2> QED BY <1>3, <2>1, <2>2
<1> HIDE DEF at
<1>0. /\ \A n \in 1..Len(q) : q[n] \in inside
      /\ \A u \in inside : \E n \in 1..Len(q) : q[n] = u
      /\ \A n, m \in 1..Len(q) : q[n] = q[m] => n = m
  BY DEF Queue
<1>7. \A j \in 1..Len(r) : r[j] \in inside \ {t}
  <2> TAKE j \in 1..Len(r)
  <2>1. at[j] \in 1..Len(q) /\ at[j] # i /\ r[j] = q[at[j]]
    BY <1>4
  <2>2. q[at[j]] \in inside /\ q[at[j]] # q[i]
    BY <1>0, <2>1, Zenon
  <2> QED BY <1>2, <2>1, <2>2, Zenon
<1>8. \A u \in inside \ {t} : \E j \in 1..Len(r) : r[j] = u
  <2> TAKE u \in inside \ {t}
  <2>1. PICK n \in 1..Len(q) : q[n] = u
    BY <1>0, Zenon
  <2>2. n # i
    BY <1>2, <2>1, Zenon
  <2>3. PICK j \in 1..Len(r) : at[j] = n
    BY <1>6, <2>2, Zenon
  <2>4. r[j] = u
    BY <1>4, <2>1, <2>3, Zenon
  <2> QED BY <2>4, Zenon
<1>9. \A j, m \in 1..Len(r) : r[j] = r[m] => j = m
  <2> SUFFICES ASSUME NEW j \in 1..Len(r), NEW m \in 1..Len(r), r[j] = r[m] PROVE j = m
    OBVIOUS
  <2>1. q[at[j]] = q[at[m]] /\ at[j] \in 1..Len(q) /\ at[m] \in 1..Len(q)
    BY <1>4, Zenon
  <2>2. at[j] = at[m]
    BY <1>0, <2>1, Zenon
  <2> QED BY <1>5, <2>2, Zenon
<1>10. \A j \in 2..Len(r) : r[j] \in others
  <2> TAKE j \in 2..Len(r)
  <2>1. j \in 1..Len(r) /\ j >= 2
    BY <1>3
  <2>2. at[j] \in 2..Len(q) /\ r[j] = q[at[j]]
    BY <1>3, <1>4, <2>1
  <2>3. q[at[j]] \in waiting
    BY <2>2 DEF Queue
  <2> QED BY <1>7, <2>1, <2>2, <2>3
<1>11. Queue(r, inside \ {t}, others)
  BY <1>7, <1>8, <1>9, <1>10 DEF Queue
<1> QED BY <1>11 DEF r

\* The head, or somebody who is not in the queue, stops or begins to wait.
LEMMA QueueStays ==
    ASSUME NEW S, NEW q \in Seq(S), NEW inside, NEW waiting, Queue(q, inside, waiting),
           NEW t, t \in inside => Head(q) = t, NEW others, waiting \ {t} \subseteq others
    PROVE  Queue(q, inside, others)
<1>1. Len(q) \in Nat
  OBVIOUS
<1>2. \A i \in 2..Len(q) : q[i] # t
  <2> SUFFICES ASSUME NEW i \in 2..Len(q), q[i] = t PROVE FALSE
    OBVIOUS
  <2>1. t \in inside /\ Len(q) >= 2
    BY <1>1 DEF Queue
  <2>2. q[1] = t
    BY <1>1, <2>1
  <2>3. 1 \in 1..Len(q) /\ i \in 1..Len(q) /\ i # 1
    BY <1>1, <2>1
  <2> QED BY <2>2, <2>3 DEF Queue
<1> QED BY <1>2 DEF Queue

\* The head leaves; whoever is left stays in order.
LEMMA QueueNext ==
    ASSUME NEW S, NEW q \in Seq(S), NEW inside, NEW waiting, Queue(q, inside, waiting),
           q # <<>>, NEW others, waiting \ {Head(q)} \subseteq others
    PROVE  Queue(Tail(q), inside \ {Head(q)}, others)
<1> DEFINE r == Tail(q)
<1>1. Len(q) \in Nat /\ Len(q) >= 1 /\ Len(r) = Len(q) - 1 /\ Head(q) = q[1]
      /\ \A i \in 1..Len(r) : r[i] = q[i + 1]
  OBVIOUS
<1> HIDE DEF r
<1>2. \A i \in 1..Len(r) : i + 1 \in 2..Len(q) /\ i + 1 \in 1..Len(q) /\ i + 1 # 1
  BY <1>1
<1>3. 1 \in 1..Len(q)
  BY <1>1
<1>4. \A i \in 1..Len(r) : r[i] # q[1]
  BY <1>1, <1>2, <1>3 DEF Queue
<1>5. \A i \in 1..Len(r) : r[i] \in inside \ {q[1]} /\ r[i] \in others
  BY <1>1, <1>2, <1>4 DEF Queue
<1>6. \A t \in inside \ {q[1]} : \E i \in 1..Len(r) : r[i] = t
  <2> TAKE t \in inside \ {q[1]}
  <2>1. PICK k \in 1..Len(q) : q[k] = t
    BY DEF Queue
  <2>2. k - 1 \in 1..Len(r) /\ (k - 1) + 1 = k
    BY <1>1, <2>1
  <2> QED BY <1>1, <2>1, <2>2
<1>7. \A i, j \in 1..Len(r) : r[i] = r[j] => i = j
  <2> SUFFICES ASSUME NEW i \in 1..Len(r), NEW j \in 1..Len(r), r[i] = r[j] PROVE i = j
    OBVIOUS
  <2>1. i + 1 = j + 1
    BY <1>1, <1>2 DEF Queue
  <2> QED BY <1>1, <2>1
<1>8. \A i \in 2..Len(r) : i \in 1..Len(r)
  BY <1>1
<1>9. Queue(r, inside \ {q[1]}, others)
  BY <1>5, <1>6, <1>7, <1>8 DEF Queue
<1> QED BY <1>1, <1>9 DEF r

\* The queue's head is replaced by the waiter it was granted to.
LEMMA QueueHeadTail ==
    ASSUME NEW S, NEW q \in Seq(S), q # <<>>
    PROVE  <<Head(q)>> \o Tail(q) = q
<1>1. Len(q) \in Nat /\ Len(q) >= 1
  OBVIOUS
<1> QED BY HeadTailProperties, <1>1

\* Append as a function.
LEMMA AppendIsFunction ==
    ASSUME NEW S, NEW s \in Seq(S), NEW e \in S
    PROVE  Append(s, e) = [i \in 1..(Len(s) + 1) |-> IF i = Len(s) + 1 THEN e ELSE s[i]]
<1> DEFINE a == Append(s, e)
           b == [i \in 1..(Len(s) + 1) |-> IF i = Len(s) + 1 THEN e ELSE s[i]]
<1>1. /\ a \in Seq(S) /\ Len(a) = Len(s) + 1 /\ a[Len(s) + 1] = e
      /\ \A i \in 1..Len(s) : a[i] = s[i]
  BY AppendProperties
<1>2. Len(s) \in Nat
  OBVIOUS
<1>3. b \in [1..(Len(s) + 1) -> S]
  BY <1>2
<1> HIDE DEF a
<1>4. a \in [1..(Len(s) + 1) -> S]
  BY <1>1
<1>5. \A i \in 1..(Len(s) + 1) : a[i] = b[i]
  BY <1>1, <1>2
<1> HIDE DEF b
<1>6. a = b
  BY <1>3, <1>4, <1>5
<1>7. QED
  BY <1>6 DEF a, b

LEMMA TailIsFunction ==
    ASSUME NEW S, NEW s \in Seq(S), s # <<>>
    PROVE  Tail(s) = [i \in 1..(Len(s) - 1) |-> s[i + 1]]
<1> DEFINE a == Tail(s)
           b == [i \in 1..(Len(s) - 1) |-> s[i + 1]]
<1>1. /\ a \in Seq(S) /\ Len(a) = Len(s) - 1 /\ Len(s) \in Nat /\ Len(s) # 0
      /\ \A i \in 1..Len(a) : a[i] = s[i + 1]
  OBVIOUS
<1>2. b \in [1..(Len(s) - 1) -> S]
  BY <1>1
<1> HIDE DEF a
<1>3. a \in [1..(Len(s) - 1) -> S]
  BY <1>1
<1>4. \A i \in 1..(Len(s) - 1) : a[i] = b[i]
  BY <1>1
<1> HIDE DEF b
<1>5. a = b
  BY <1>2, <1>3, <1>4
<1>6. QED
  BY <1>5 DEF a, b
=============================================================================
