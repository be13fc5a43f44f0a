------------------------ MODULE BlockingQueueProofs ------------------------
(* blocking_queue for any threads, capacity and number of calls: its       *)
(* inductive invariant, and that it implements BoundedFifo.                *)
EXTENDS BlockingQueue, FiniteSetTheorems, SequenceTheorems, TLAPS

(* The threads of S whose control state f is in L.                         *)
At(S, f, L) == {t \in S : f[t] \in L}

(* Only t changes, and it enters L: one thread more is in L.               *)
LEMMA EnterCount ==
  ASSUME NEW S, IsFiniteSet(S), NEW f, NEW g, NEW L, NEW t \in S,
         f[t] \notin L, g[t] \in L, \A s \in S \ {t} : g[s] = f[s]
  PROVE  /\ Cardinality(At(S, f, L)) \in Nat
         /\ Cardinality(At(S, g, L)) = Cardinality(At(S, f, L)) + 1
<1>1. IsFiniteSet(At(S, f, L))
  BY FS_Subset DEF At
<1>2. At(S, g, L) = At(S, f, L) \cup {t}
  BY DEF At
<1>3. t \notin At(S, f, L)
  BY DEF At
<1>4. Cardinality(At(S, f, L) \cup {t}) = Cardinality(At(S, f, L)) + 1
  BY <1>1, <1>3, FS_AddElement
<1> QED
  BY <1>1, <1>2, <1>4, FS_CardinalityType

(* Only t changes, and it leaves L: one thread fewer is in L.              *)
LEMMA LeaveCount ==
  ASSUME NEW S, IsFiniteSet(S), NEW f, NEW g, NEW L, NEW t \in S,
         f[t] \in L, g[t] \notin L, \A s \in S \ {t} : g[s] = f[s]
  PROVE  /\ Cardinality(At(S, f, L)) \in Nat
         /\ Cardinality(At(S, g, L)) = Cardinality(At(S, f, L)) - 1
         /\ Cardinality(At(S, g, L)) \in Nat
<1>1. /\ Cardinality(At(S, g, L)) \in Nat
      /\ Cardinality(At(S, f, L)) = Cardinality(At(S, g, L)) + 1
  BY EnterCount
<1> QED
  BY <1>1

(* Nobody of S leaves L: L has no fewer threads than before.               *)
LEMMA KeepCount ==
  ASSUME NEW S, IsFiniteSet(S), NEW f, NEW g, NEW L,
         \A s \in S : f[s] \in L => g[s] \in L
  PROVE  /\ Cardinality(At(S, f, L)) \in Nat
         /\ Cardinality(At(S, g, L)) \in Nat
         /\ Cardinality(At(S, f, L)) <= Cardinality(At(S, g, L))
<1>1. At(S, f, L) \subseteq At(S, g, L) /\ IsFiniteSet(At(S, g, L))
  BY FS_Subset DEF At
<1> QED
  BY <1>1, FS_Subset, FS_CardinalityType

Awakes == {"lock", "check"}
Notifies == {"notify"}

(* The sets of the invariant are of the form the lemmas count.             *)
LEMMA CountedSets ==
  /\ \A S : Awake(S) = At(S, pc, Awakes)
  /\ \A S : Notifying(S) = At(S, pc, Notifies)
  BY DEF Awake, Notifying, At, Awakes, Notifies

(* The same in the next state.                                             *)
LEMMA CountedSetsNext ==
  /\ \A S : Awake(S)' = At(S, pc', Awakes)
  /\ \A S : Notifying(S)' = At(S, pc', Notifies)
  BY DEF Awake, Notifying, At, Awakes, Notifies

-----------------------------------------------------------------------------
LEMMA InitInv == Init => IInv
<1> SUFFICES ASSUME Init PROVE IInv
  OBVIOUS
<1>1. TypeOK
  BY BoundsAssumption DEF Init, TypeOK
<1>2. MutualExclusion
  BY ThreadsAssumption DEF Init, MutualExclusion
<1>3. WithinCapacity /\ FifoOrder
  BY BoundsAssumption DEF Init, WithinCapacity, FifoOrder
<1>4. ElementsCovered /\ PlacesCovered
  BY DEF Init, ElementsCovered, PlacesCovered, Threads
<1> QED
  BY <1>1, <1>2, <1>3, <1>4 DEF IInv

(* A step that leaves the queue, the sleepers and the notifications alone, *)
(* and in which nobody stops being about to look, keeps the wake-ups       *)
(* covered: Call, Acquire and the spurious wake-ups.                       *)
LEMMA CoveredByMoving ==
  ASSUME TypeOK, ElementsCovered, PlacesCovered, UNCHANGED queue,
         \A t \in Threads : pc'[t] = "blocked" => pc[t] = "blocked",
         \A t \in Threads : pc[t] \in Awakes => pc'[t] \in Awakes,
         \A t \in Threads : pc[t] \in Notifies => pc'[t] \in Notifies
  PROVE  ElementsCovered' /\ PlacesCovered'
<1> USE CountedSets, CountedSetsNext, ThreadsAssumption, BoundsAssumption
<1>1. /\ Cardinality(At(Producers, pc, Notifies)) \in Nat
      /\ Cardinality(At(Producers, pc', Notifies)) \in Nat
      /\ Cardinality(At(Producers, pc, Notifies))
           <= Cardinality(At(Producers, pc', Notifies))
  BY KeepCount DEF Threads
<1>2. /\ Cardinality(At(Consumers, pc, Notifies)) \in Nat
      /\ Cardinality(At(Consumers, pc', Notifies)) \in Nat
      /\ Cardinality(At(Consumers, pc, Notifies))
           <= Cardinality(At(Consumers, pc', Notifies))
  BY KeepCount DEF Threads
<1>3. /\ Cardinality(At(Producers, pc, Awakes)) \in Nat
      /\ Cardinality(At(Producers, pc', Awakes)) \in Nat
      /\ Cardinality(At(Producers, pc, Awakes))
           <= Cardinality(At(Producers, pc', Awakes))
  BY KeepCount DEF Threads
<1>4. /\ Cardinality(At(Consumers, pc, Awakes)) \in Nat
      /\ Cardinality(At(Consumers, pc', Awakes)) \in Nat
      /\ Cardinality(At(Consumers, pc, Awakes))
           <= Cardinality(At(Consumers, pc', Awakes))
  BY KeepCount DEF Threads
<1>5. Len(queue) \in Nat
  BY LenProperties DEF TypeOK
<1>6. ElementsCovered'
  BY <1>1, <1>4, <1>5 DEF ElementsCovered, Threads
<1>7. PlacesCovered'
  BY <1>2, <1>3, <1>5 DEF PlacesCovered, Threads
<1> QED
  BY <1>6, <1>7

LEMMA CallStep ==
  ASSUME IInv, NEW t \in Threads, NEW quota \in Nat, Call(t, quota)
  PROVE  IInv'
<1>1. TypeOK'
  BY DEF IInv, TypeOK, Call
<1>2. MutualExclusion'
  BY DEF IInv, TypeOK, MutualExclusion, Call
<1>3. WithinCapacity' /\ FifoOrder'
  BY DEF IInv, WithinCapacity, FifoOrder, Call
<1>4. ElementsCovered' /\ PlacesCovered'
  BY CoveredByMoving DEF IInv, TypeOK, Call, Awakes, Notifies
<1> QED
  BY <1>1, <1>2, <1>3, <1>4 DEF IInv

LEMMA AcquireStep ==
  ASSUME IInv, NEW t \in Threads, Acquire(t)
  PROVE  IInv'
<1>1. TypeOK'
  BY DEF IInv, TypeOK, Acquire
<1>2. MutualExclusion'
  BY ThreadsAssumption DEF IInv, TypeOK, MutualExclusion, Acquire
<1>3. WithinCapacity' /\ FifoOrder'
  BY DEF IInv, WithinCapacity, FifoOrder, Acquire
<1>4. ElementsCovered' /\ PlacesCovered'
  BY CoveredByMoving DEF IInv, TypeOK, Acquire, Awakes, Notifies
<1> QED
  BY <1>1, <1>2, <1>3, <1>4 DEF IInv

LEMMA SpuriousWakeStep ==
  ASSUME IInv, NEW t \in Threads, SpuriousWake(t)
  PROVE  IInv'
<1>1. TypeOK'
  BY BoundsAssumption DEF IInv, TypeOK, SpuriousWake
<1>2. MutualExclusion'
  BY DEF IInv, TypeOK, MutualExclusion, SpuriousWake
<1>3. WithinCapacity' /\ FifoOrder'
  BY DEF IInv, WithinCapacity, FifoOrder, SpuriousWake
<1>4. ElementsCovered' /\ PlacesCovered'
  BY CoveredByMoving DEF IInv, TypeOK, SpuriousWake, Awakes, Notifies
<1> QED
  BY <1>1, <1>2, <1>3, <1>4 DEF IInv

(* A thread that finds the queue full or empty goes to sleep: what it      *)
(* looked at is still so, and the other side's sleepers lose nothing.      *)
LEMMA WaitType ==
  ASSUME IInv, NEW t \in Threads, pc[t] = "check", Wait(t)
  PROVE  TypeOK' /\ MutualExclusion' /\ WithinCapacity' /\ FifoOrder'
<1>1. TypeOK'
  BY DEF IInv, TypeOK, Wait
<1>2. MutualExclusion'
  BY ThreadsAssumption DEF IInv, TypeOK, MutualExclusion, Wait
<1>3. WithinCapacity' /\ FifoOrder'
  BY DEF IInv, WithinCapacity, FifoOrder, Wait
<1> QED
  BY <1>1, <1>2, <1>3

LEMMA PushWaitStep ==
  ASSUME IInv, NEW p \in Producers, PushWait(p)
  PROVE  IInv'
<1> USE CountedSets, CountedSetsNext, ThreadsAssumption, BoundsAssumption
<1>1. TypeOK' /\ MutualExclusion' /\ WithinCapacity' /\ FifoOrder'
  BY WaitType DEF PushWait, Threads
<1>2. /\ Len(queue') \in Nat
      /\ Capacity # -1
      /\ Capacity - Len(queue') <= 0
  BY LenProperties DEF IInv, TypeOK, PushWait, Wait, full
<1>3. At(Producers, pc', Notifies) = At(Producers, pc, Notifies)
  BY DEF IInv, TypeOK, PushWait, Wait, At, Notifies, Threads
<1>4. /\ At(Consumers, pc', Awakes) = At(Consumers, pc, Awakes)
      /\ \A c \in Consumers : pc'[c] = pc[c]
  BY DEF IInv, TypeOK, PushWait, Wait, At, Awakes, Threads
<1>5. ElementsCovered'
  BY <1>3, <1>4 DEF IInv, ElementsCovered, PushWait, Wait
<1>6. /\ Cardinality(At(Consumers, pc', Notifies)) \in Nat
      /\ Cardinality(At(Producers, pc', Awakes)) \in Nat
  BY KeepCount
<1>7. PlacesCovered'
  BY <1>2, <1>6 DEF PlacesCovered
<1> QED
  BY <1>1, <1>5, <1>7 DEF IInv

LEMMA PopWaitStep ==
  ASSUME IInv, NEW c \in Consumers, PopWait(c)
  PROVE  IInv'
<1> USE CountedSets, CountedSetsNext, ThreadsAssumption, BoundsAssumption
<1>1. TypeOK' /\ MutualExclusion' /\ WithinCapacity' /\ FifoOrder'
  BY WaitType DEF PopWait, Threads
<1>2. Len(queue') = 0
  BY DEF PopWait, Wait, empty
<1>3. At(Consumers, pc', Notifies) = At(Consumers, pc, Notifies)
  BY DEF IInv, TypeOK, PopWait, Wait, At, Notifies, Threads
<1>4. /\ At(Producers, pc', Awakes) = At(Producers, pc, Awakes)
      /\ \A p \in Producers : pc'[p] = pc[p]
  BY DEF IInv, TypeOK, PopWait, Wait, At, Awakes, Threads
<1>5. PlacesCovered'
  BY <1>3, <1>4 DEF IInv, PlacesCovered, PopWait, Wait
<1>6. /\ Cardinality(At(Producers, pc', Notifies)) \in Nat
      /\ Cardinality(At(Consumers, pc', Awakes)) \in Nat
  BY KeepCount
<1>7. ElementsCovered'
  BY <1>2, <1>6 DEF ElementsCovered
<1> QED
  BY <1>1, <1>5, <1>7 DEF IInv

-----------------------------------------------------------------------------
(* Storing an element at the end keeps "taken, then stored" in order.      *)
LEMMA StoreOrder ==
  ASSUME NEW S, NEW p \in Seq(S), NEW q \in Seq(S), NEW e \in S
  PROVE  Append(p \o q, e) = p \o Append(q, e)
<1>1. <<e>> \in Seq(S) /\ p \o q \in Seq(S)
  BY ConcatProperties
<1>2. /\ Append(p \o q, e) = (p \o q) \o <<e>>
      /\ Append(q, e) = q \o <<e>>
  BY <1>1, AppendIsConcat
<1> QED
  BY <1>1, <1>2, ConcatAssociative

(* Moving the oldest element from "stored" to "taken" keeps the order.     *)
LEMMA TakeOrder ==
  ASSUME NEW S, NEW p \in Seq(S), NEW q \in Seq(S), q # <<>>
  PROVE  Append(p, Head(q)) \o Tail(q) = p \o q
<1>1. Head(q) \in S /\ Tail(q) \in Seq(S)
  BY HeadTailProperties
<1>2. Append(p, Head(q)) = p \o <<Head(q)>> /\ <<Head(q)>> \in Seq(S)
  BY <1>1, AppendIsConcat
<1>3. <<Head(q)>> \o Tail(q) = q
  <2>1. /\ <<Head(q)>> \o Tail(q) \in Seq(S)
        /\ Len(<<Head(q)>> \o Tail(q)) = 1 + Len(Tail(q))
        /\ \A i \in 1 .. 1 + Len(Tail(q)) : (<<Head(q)>> \o Tail(q))[i] =
              IF i <= 1 THEN <<Head(q)>>[i] ELSE Tail(q)[i - 1]
    BY <1>1, <1>2, ConcatProperties, Len(<<Head(q)>>) = 1
  <2>2. /\ Len(q) \in Nat \ {0}
        /\ Len(Tail(q)) = Len(q) - 1
        /\ \A i \in 1 .. Len(Tail(q)) : Tail(q)[i] = q[i + 1]
        /\ Head(q) = q[1]
    BY HeadTailProperties, EmptySeq, LenProperties
  <2>3. \A i \in 1 .. Len(q) : (<<Head(q)>> \o Tail(q))[i] = q[i]
    BY <2>1, <2>2
  <2> QED
    BY <2>1, <2>2, <2>3, SeqEqual
<1> QED
  BY <1>1, <1>2, <1>3, ConcatAssociative

LEMMA PushStoreStep ==
  ASSUME IInv, NEW p \in Producers, PushStore(p)
  PROVE  IInv'
<1> USE CountedSets, CountedSetsNext, ThreadsAssumption, BoundsAssumption
<1> DEFINE e == Element(p, started[p])
<1>1. /\ e \in Values
      /\ Len(queue) \in Nat
      /\ queue' \in Seq(Values)
      /\ Len(queue') = Len(queue) + 1
      /\ pushed' \in Seq(Values)
  <2>1. e \in Values /\ queue \in Seq(Values) /\ pushed \in Seq(Values)
    BY DEF IInv, TypeOK, Values, Element, Threads
  <2>2. queue' = Append(queue, e) /\ pushed' = Append(pushed, e)
    BY DEF PushStore
  <2> QED
    BY <2>1, <2>2, AppendProperties, LenProperties
<1>2. TypeOK'
  BY <1>1 DEF IInv, TypeOK, PushStore
<1>3. MutualExclusion'
  BY DEF IInv, TypeOK, MutualExclusion, PushStore, Threads
<1>4. WithinCapacity'
  BY <1>1 DEF IInv, WithinCapacity, PushStore, full
<1>5. FifoOrder'
  BY <1>1, StoreOrder DEF IInv, TypeOK, FifoOrder, PushStore
<1>6. /\ p \in Threads
      /\ pc[p] = "check"
      /\ pc'[p] = "notify"
      /\ \A t \in Threads \ {p} : pc'[t] = pc[t]
  BY DEF IInv, TypeOK, PushStore, Threads
<1>7. /\ Cardinality(At(Producers, pc, Notifies)) \in Nat
      /\ Cardinality(At(Producers, pc', Notifies))
           = Cardinality(At(Producers, pc, Notifies)) + 1
  BY <1>6, EnterCount DEF Notifies, Threads
<1>8. /\ Cardinality(At(Producers, pc, Awakes)) \in Nat
      /\ Cardinality(At(Producers, pc', Awakes))
           = Cardinality(At(Producers, pc, Awakes)) - 1
  BY <1>6, LeaveCount DEF Awakes, Threads
<1>9. /\ \A c \in Consumers : pc'[c] = pc[c]
      /\ At(Consumers, pc', Awakes) = At(Consumers, pc, Awakes)
      /\ At(Consumers, pc', Notifies) = At(Consumers, pc, Notifies)
  BY <1>6 DEF At, Threads
<1>10. /\ Cardinality(At(Consumers, pc, Awakes)) \in Nat
       /\ Cardinality(At(Consumers, pc, Notifies)) \in Nat
  BY KeepCount
<1>11. ElementsCovered'
  BY <1>1, <1>7, <1>9, <1>10 DEF IInv, ElementsCovered
<1>12. PlacesCovered'
  BY <1>1, <1>6, <1>8, <1>9, <1>10 DEF IInv, PlacesCovered, Threads
<1> QED
  BY <1>2, <1>3, <1>4, <1>5, <1>11, <1>12 DEF IInv

LEMMA PopTakeStep ==
  ASSUME IInv, NEW c \in Consumers, PopTake(c)
  PROVE  IInv'
<1> USE CountedSets, CountedSetsNext, ThreadsAssumption, BoundsAssumption
<1>1. /\ Head(queue) \in Values
      /\ Len(queue) \in Nat
      /\ queue' \in Seq(Values)
      /\ Len(queue') = Len(queue) - 1
      /\ popped' \in Seq(Values)
  <2>1. queue \in Seq(Values) /\ queue # <<>> /\ popped \in Seq(Values)
    BY DEF IInv, TypeOK, PopTake, empty
  <2>2. queue' = Tail(queue) /\ popped' = Append(popped, Head(queue))
    BY DEF PopTake
  <2>3. Head(queue) \in Values
    BY <2>1, HeadTailProperties
  <2> QED
    BY <2>1, <2>2, <2>3, HeadTailProperties, AppendProperties, LenProperties
<1>2. TypeOK'
  BY <1>1 DEF IInv, TypeOK, PopTake
<1>3. MutualExclusion'
  BY DEF IInv, TypeOK, MutualExclusion, PopTake, Threads
<1>4. WithinCapacity'
  BY <1>1 DEF IInv, WithinCapacity
<1>5. FifoOrder'
  BY TakeOrder DEF IInv, TypeOK, FifoOrder, PopTake, empty
<1>6. /\ c \in Threads
      /\ pc[c] = "check"
      /\ pc'[c] = "notify"
      /\ \A t \in Threads \ {c} : pc'[t] = pc[t]
  BY DEF IInv, TypeOK, PopTake, Threads
<1>7. /\ Cardinality(At(Consumers, pc, Notifies)) \in Nat
      /\ Cardinality(At(Consumers, pc', Notifies))
           = Cardinality(At(Consumers, pc, Notifies)) + 1
  BY <1>6, EnterCount DEF Notifies, Threads
<1>8. /\ Cardinality(At(Consumers, pc, Awakes)) \in Nat
      /\ Cardinality(At(Consumers, pc', Awakes))
           = Cardinality(At(Consumers, pc, Awakes)) - 1
  BY <1>6, LeaveCount DEF Awakes, Threads
<1>9. /\ \A p \in Producers : pc'[p] = pc[p]
      /\ At(Producers, pc', Awakes) = At(Producers, pc, Awakes)
      /\ At(Producers, pc', Notifies) = At(Producers, pc, Notifies)
  BY <1>6 DEF At, Threads
<1>10. /\ Cardinality(At(Producers, pc, Awakes)) \in Nat
       /\ Cardinality(At(Producers, pc, Notifies)) \in Nat
  BY KeepCount
<1>11. ElementsCovered'
  BY <1>1, <1>6, <1>8, <1>9, <1>10 DEF IInv, ElementsCovered, Threads
<1>12. PlacesCovered'
  BY <1>1, <1>7, <1>9, <1>10 DEF IInv, PlacesCovered
<1> QED
  BY <1>2, <1>3, <1>4, <1>5, <1>11, <1>12 DEF IInv

-----------------------------------------------------------------------------
(* A notification touches control states only, of the caller and at most   *)
(* one sleeper.                                                            *)
LEMMA NotifyType ==
  ASSUME IInv, NEW t \in Threads, NEW S \in SUBSET Threads, NotifyOne(t, S)
  PROVE  TypeOK' /\ MutualExclusion' /\ WithinCapacity' /\ FifoOrder'
<1>1. TypeOK'
  BY DEF IInv, TypeOK, NotifyOne
<1>2. MutualExclusion'
  BY DEF IInv, TypeOK, MutualExclusion, NotifyOne
<1>3. WithinCapacity' /\ FifoOrder'
  BY DEF IInv, WithinCapacity, FifoOrder, NotifyOne
<1> QED
  BY <1>1, <1>2, <1>3

LEMMA PushNotifyStep ==
  ASSUME IInv, NEW p \in Producers, NotifyOne(p, Consumers)
  PROVE  IInv'
<1> USE CountedSets, CountedSetsNext, ThreadsAssumption, BoundsAssumption
<1>1. TypeOK' /\ MutualExclusion' /\ WithinCapacity' /\ FifoOrder'
  BY NotifyType DEF Threads
<1>2. queue' = queue /\ Len(queue) \in Nat /\ p \in Threads
  BY LenProperties DEF IInv, TypeOK, NotifyOne, Threads
<1>3. /\ \A t \in Producers \ {p} : pc'[t] = pc[t]
      /\ pc[p] = "notify" /\ pc'[p] = "idle"
  BY <1>2 DEF IInv, TypeOK, NotifyOne, Threads
<1>4. /\ Cardinality(At(Producers, pc, Notifies)) \in Nat
      /\ Cardinality(At(Producers, pc', Notifies))
           = Cardinality(At(Producers, pc, Notifies)) - 1
  BY <1>3, LeaveCount DEF Notifies
<1>5. At(Producers, pc', Awakes) = At(Producers, pc, Awakes)
  BY <1>3 DEF At, Awakes
<1>6. At(Consumers, pc', Notifies) = At(Consumers, pc, Notifies)
  BY DEF IInv, TypeOK, NotifyOne, At, Notifies, Threads
<1>7. PlacesCovered'
  BY <1>2, <1>3, <1>5, <1>6 DEF IInv, PlacesCovered
<1>8. CASE \A c \in Consumers : pc'[c] # "blocked"
  BY <1>1, <1>7, <1>8 DEF IInv, ElementsCovered
<1>9. CASE \E c \in Consumers : pc'[c] = "blocked"
  <2>1. PICK s \in Consumers :
          pc[s] = "blocked" /\ pc' = [pc EXCEPT ![p] = "idle", ![s] = "lock"]
    BY <1>9 DEF IInv, TypeOK, NotifyOne, Threads
  <2>2. /\ pc[s] = "blocked" /\ pc'[s] = "lock"
        /\ \A c \in Consumers \ {s} : pc'[c] = pc[c]
    BY <2>1 DEF IInv, TypeOK, Threads
  <2>3. /\ Cardinality(At(Consumers, pc, Awakes)) \in Nat
        /\ Cardinality(At(Consumers, pc', Awakes))
             = Cardinality(At(Consumers, pc, Awakes)) + 1
    BY <2>2, EnterCount DEF Awakes
  <2>4. /\ Len(queue) <= Cardinality(At(Producers, pc, Notifies))
              + Cardinality(At(Consumers, pc, Awakes))
    BY <2>2 DEF IInv, ElementsCovered
  <2>5. ElementsCovered'
    BY <1>2, <1>4, <2>3, <2>4 DEF ElementsCovered
  <2> QED
    BY <1>1, <1>7, <2>5 DEF IInv
<1> QED
  BY <1>8, <1>9

LEMMA PopNotifyStep ==
  ASSUME IInv, NEW c \in Consumers, NotifyOne(c, Producers)
  PROVE  IInv'
<1> USE CountedSets, CountedSetsNext, ThreadsAssumption, BoundsAssumption
<1>1. TypeOK' /\ MutualExclusion' /\ WithinCapacity' /\ FifoOrder'
  BY NotifyType DEF Threads
<1>2. queue' = queue /\ Len(queue) \in Nat /\ c \in Threads
  BY LenProperties DEF IInv, TypeOK, NotifyOne, Threads
<1>3. /\ \A t \in Consumers \ {c} : pc'[t] = pc[t]
      /\ pc[c] = "notify" /\ pc'[c] = "idle"
  BY <1>2 DEF IInv, TypeOK, NotifyOne, Threads
<1>4. /\ Cardinality(At(Consumers, pc, Notifies)) \in Nat
      /\ Cardinality(At(Consumers, pc', Notifies))
           = Cardinality(At(Consumers, pc, Notifies)) - 1
  BY <1>3, LeaveCount DEF Notifies
<1>5. At(Consumers, pc', Awakes) = At(Consumers, pc, Awakes)
  BY <1>3 DEF At, Awakes
<1>6. At(Producers, pc', Notifies) = At(Producers, pc, Notifies)
  BY DEF IInv, TypeOK, NotifyOne, At, Notifies, Threads
<1>7. ElementsCovered'
  BY <1>2, <1>3, <1>5, <1>6 DEF IInv, ElementsCovered
<1>8. CASE \A p \in Producers : pc'[p] # "blocked"
  BY <1>1, <1>7, <1>8 DEF IInv, PlacesCovered
<1>9. CASE \E p \in Producers : pc'[p] = "blocked"
  <2>1. PICK s \in Producers :
          pc[s] = "blocked" /\ pc' = [pc EXCEPT ![c] = "idle", ![s] = "lock"]
    BY <1>9 DEF IInv, TypeOK, NotifyOne, Threads
  <2>2. /\ pc[s] = "blocked" /\ pc'[s] = "lock"
        /\ \A p \in Producers \ {s} : pc'[p] = pc[p]
    BY <2>1 DEF IInv, TypeOK, Threads
  <2>3. /\ Cardinality(At(Producers, pc, Awakes)) \in Nat
        /\ Cardinality(At(Producers, pc', Awakes))
             = Cardinality(At(Producers, pc, Awakes)) + 1
    BY <2>2, EnterCount DEF Awakes
  <2>4. /\ Capacity - Len(queue) <= Cardinality(At(Consumers, pc, Notifies))
              + Cardinality(At(Producers, pc, Awakes))
        /\ Capacity # -1
    BY <2>2 DEF IInv, PlacesCovered
  <2>5. PlacesCovered'
    BY <1>2, <1>4, <2>3, <2>4 DEF PlacesCovered
  <2> QED
    BY <1>1, <1>7, <2>5 DEF IInv
<1> QED
  BY <1>8, <1>9

-----------------------------------------------------------------------------
LEMMA NextInv == IInv /\ [Next]_vars => IInv'
<1> SUFFICES ASSUME IInv, [Next]_vars PROVE IInv'
  OBVIOUS
<1>1. ASSUME NEW p \in Producers, push(p) PROVE IInv'
  <2>1. p \in Threads /\ NumPush \in Nat
    BY BoundsAssumption DEF Threads
  <2> QED
    BY <1>1, <2>1, CallStep, AcquireStep, PushWaitStep, PushStoreStep,
       PushNotifyStep DEF push
<1>2. ASSUME NEW c \in Consumers, pop(c) PROVE IInv'
  <2>1. c \in Threads /\ NumPop \in Nat
    BY BoundsAssumption DEF Threads
  <2> QED
    BY <1>2, <2>1, CallStep, AcquireStep, PopWaitStep, PopTakeStep,
       PopNotifyStep DEF pop
<1>3. ASSUME NEW t \in Threads, SpuriousWake(t) PROVE IInv'
  BY <1>3, SpuriousWakeStep
<1>4. CASE UNCHANGED vars
  BY <1>4 DEF vars, IInv, TypeOK, MutualExclusion, WithinCapacity, FifoOrder,
     ElementsCovered, PlacesCovered, Awake, Notifying
<1> QED
  BY <1>1, <1>2, <1>3, <1>4 DEF Next

(* The inductive invariant holds in every reachable state, for any threads,*)
(* capacity and number of calls and of spurious wake-ups.                  *)
THEOREM InductiveInvariant == Spec => []IInv
<1> QED
  BY InitInv, NextInv, PTL DEF Spec, Safe

(* Every variable of the queue keeps its type.                             *)
THEOREM TypeCorrect == Spec => []TypeOK
<1>1. IInv => TypeOK
  BY DEF IInv
<1> QED
  BY <1>1, InductiveInvariant, PTL

(* A bounded queue is never filled beyond its capacity.                    *)
THEOREM CapacityRespected == Spec => []WithinCapacity
<1>1. IInv => WithinCapacity
  BY DEF IInv
<1> QED
  BY <1>1, InductiveInvariant, PTL

(* Elements leave the queue in the order they entered, each exactly once.  *)
THEOREM FirstInFirstOut == Spec => []FifoOrder
<1>1. IInv => FifoOrder
  BY DEF IInv
<1> QED
  BY <1>1, InductiveInvariant, PTL

(* notify_one after unlock loses no wake-up: a thread sleeps while it      *)
(* could proceed only if somebody awake will look at the queue or notify.  *)
THEOREM WakeupsKept == Spec => []NoLostWakeup
<1>1. IInv => NoLostWakeup
  <2> SUFFICES ASSUME IInv PROVE NoLostWakeup
    OBVIOUS
  <2>1. Len(queue) \in Nat /\ (~empty => Len(queue) > 0)
    BY EmptySeq, LenProperties DEF IInv, TypeOK, empty
  <2>2. Cardinality({}) = 0
    BY FS_EmptySet
  <2>3. ASSUME \E c \in Consumers : pc[c] = "blocked", ~empty
        PROVE  Notifying(Producers) \cup Awake(Consumers) # {}
    <3> SUFFICES ASSUME Notifying(Producers) = {} /\ Awake(Consumers) = {}
                 PROVE  FALSE
      BY DEF Notifying, Awake
    <3>1. Len(queue) <= 0
      BY <2>2, <2>3 DEF IInv, ElementsCovered
    <3> QED
      BY <2>1, <2>3, <3>1
  <2>4. ASSUME \E p \in Producers : pc[p] = "blocked", ~full
        PROVE  Notifying(Consumers) \cup Awake(Producers) # {}
    <3> SUFFICES ASSUME Notifying(Consumers) = {} /\ Awake(Producers) = {}
                 PROVE  FALSE
      BY DEF Notifying, Awake
    <3>1. Capacity # -1 /\ Capacity - Len(queue) <= 0
      BY <2>2, <2>4 DEF IInv, PlacesCovered
    <3> QED
      BY <2>1, <2>4, <3>1, BoundsAssumption DEF full
  <2> QED
    BY <2>3, <2>4 DEF NoLostWakeup
<1> QED
  BY <1>1, InductiveInvariant, PTL

-----------------------------------------------------------------------------
(* The monitor's control states, as BoundedFifo sees them.                 *)
Phases == [t \in Threads |-> Phase(t)]

(* A step that does not change the queue changes the phases of the threads *)
(* alone; this is when nobody's phase changes.                             *)
LEMMA StutterStep ==
  ASSUME \A t \in Threads : Phase(t)' = Phase(t),
         UNCHANGED <<queue, started, pushed, popped, rc>>
  PROVE  UNCHANGED BF!vars
  BY DEF BF!vars

(* What the phases become when one thread's control state changes.         *)
LEMMA PhaseOfStep ==
  ASSUME TypeOK, NEW t \in Threads, NEW x, pc' = [pc EXCEPT ![t] = x]
  PROVE  Phases' = [Phases EXCEPT ![t] =
                      CASE x = "idle" -> "idle"
                        [] x = "notify" -> "done"
                        [] OTHER -> "called"]
  BY DEF TypeOK, Phases, Phase

LEMMA CallRefines ==
  ASSUME TypeOK, NEW t \in Threads, NEW quota, Call(t, quota)
  PROVE  BF!Call(t, quota)
<1>1. Phases' = [Phases EXCEPT ![t] = "called"]
  BY DEF TypeOK, Call, Phases, Phase
<1>2. Phases[t] = "idle"
  BY DEF Call, Phases, Phase
<1> QED
  BY <1>1, <1>2 DEF BF!Call, Call, Phases

LEMMA StoreRefines ==
  ASSUME TypeOK, NEW p \in Producers, PushStore(p)
  PROVE  BF!Put(p)
<1>1. p \in Threads
  BY DEF Threads
<1>2. Phases' = [Phases EXCEPT ![p] = "done"]
  BY <1>1, PhaseOfStep DEF PushStore
<1>3. Phases[p] = "called"
  BY <1>1 DEF PushStore, Phases, Phase
<1> QED
  BY <1>2, <1>3
     DEF BF!Put, BF!FullAt, BF!Bounded, BF!Element, PushStore, full, Element,
         Phases

LEMMA TakeRefines ==
  ASSUME TypeOK, NEW c \in Consumers, PopTake(c)
  PROVE  BF!Take(c)
<1>1. c \in Threads
  BY DEF Threads
<1>2. Phases' = [Phases EXCEPT ![c] = "done"]
  BY <1>1, PhaseOfStep DEF PopTake
<1>3. Phases[c] = "called"
  BY <1>1 DEF PopTake, Phases, Phase
<1> QED
  BY <1>2, <1>3 DEF BF!Take, PopTake, empty, Phases

LEMMA NotifyRefines ==
  ASSUME TypeOK, NEW t \in Threads, NEW S \in SUBSET Threads, NotifyOne(t, S)
  PROVE  BF!Return(t)
<1>1. Phases' = [Phases EXCEPT ![t] = "idle"]
  BY DEF TypeOK, NotifyOne, Phases, Phase
<1>2. Phases[t] = "done"
  BY DEF NotifyOne, Phases, Phase
<1> QED
  BY <1>1, <1>2 DEF BF!Return, NotifyOne, Phases

LEMMA NextRefines == TypeOK /\ [Next]_vars => [BF!Next]_BF!vars
<1> SUFFICES ASSUME TypeOK, [Next]_vars PROVE BF!Next \/ UNCHANGED BF!vars
  OBVIOUS
<1>1. ASSUME NEW t \in Threads, Acquire(t) \/ SpuriousWake(t) \/
             (pc[t] = "check" /\ Wait(t))
      PROVE  UNCHANGED BF!vars
  BY <1>1, StutterStep
     DEF TypeOK, Acquire, SpuriousWake, Wait, Phase
<1>2. ASSUME NEW p \in Producers, push(p)
      PROVE  BF!Next \/ UNCHANGED BF!vars
  <2>1. p \in Threads /\ Consumers \in SUBSET Threads
    BY DEF Threads
  <2>2. CASE Acquire(p) \/ PushWait(p)
    BY <1>1, <2>1, <2>2 DEF PushWait
  <2>3. CASE Call(p, NumPush) \/ PushStore(p) \/ NotifyOne(p, Consumers)
    BY <2>1, <2>3, CallRefines, StoreRefines, NotifyRefines DEF BF!Next
  <2> QED
    BY <1>2, <2>2, <2>3 DEF push
<1>3. ASSUME NEW c \in Consumers, pop(c)
      PROVE  BF!Next \/ UNCHANGED BF!vars
  <2>1. c \in Threads /\ Producers \in SUBSET Threads
    BY DEF Threads
  <2>2. CASE Acquire(c) \/ PopWait(c)
    BY <1>1, <2>1, <2>2 DEF PopWait
  <2>3. CASE Call(c, NumPop) \/ PopTake(c) \/ NotifyOne(c, Producers)
    BY <2>1, <2>3, CallRefines, TakeRefines, NotifyRefines DEF BF!Next
  <2> QED
    BY <1>3, <2>2, <2>3 DEF pop
<1>4. CASE UNCHANGED vars
  BY <1>4, StutterStep DEF vars, Phase
<1> QED
  BY <1>1, <1>2, <1>3, <1>4 DEF Next

(* Every behaviour of the monitor is one of the bounded FIFO: a call takes *)
(* effect at one instant, between its beginning and its return.            *)
THEOREM RefinesBoundedFifo == Spec => BF!Safe
<1>1. Init => BF!Init
  BY DEF Init, BF!Init, BF!Threads, Threads, Phase, BF!NoElement, NoElement
<1>2. TypeOK /\ [Next]_vars => [BF!Next]_BF!vars
  BY NextRefines
<1> QED
  BY <1>1, <1>2, TypeCorrect, PTL DEF Spec, Safe, BF!Safe
=============================================================================
