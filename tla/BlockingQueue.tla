--------------------------- MODULE BlockingQueue ---------------------------
(***************************************************************************)
(* util/blocking_queue.hpp: a std::deque guarded by a mutex, with one      *)
(* condition variable for "not empty" and one for "not full".  Between any *)
(* two of a thread's steps the other threads may run:                      *)
(*                                                                         *)
(*   idle -Call-> lock -Acquire-> check -Store/Take-> notify -Notify-> idle*)
(*                 ^                 |                                     *)
(*                 +-- woken -- blocked                                    *)
(*                                                                         *)
(* The notification is sent after the mutex has been released, so a thread *)
(* may observe and change the queue between the two.  The deque's back()   *)
(* is the first element of the sequence and push_front appends to it.      *)
(***************************************************************************)
EXTENDS Integers, Sequences, FiniteSets

CONSTANTS
  Producers,    \* threads that call push (Precompute)
  Consumers,    \* threads that call pop (GetTriple)
  Capacity,     \* d_capacity; -1 means unbounded
  NumPush,      \* bound: calls of push by each producer
  NumPop,       \* bound: calls of pop by each consumer
  MaxSpurious,  \* bound: wake-ups nobody asked for
  NoThread      \* the mutex is free

Threads == Producers \cup Consumers

ASSUME ThreadsAssumption ==
  /\ IsFiniteSet(Producers)
  /\ IsFiniteSet(Consumers)
  /\ Producers \cap Consumers = {}
  /\ NoThread \notin Threads

ASSUME BoundsAssumption ==
  /\ Capacity \in Int
  /\ NumPush \in Nat
  /\ NumPop \in Nat
  /\ MaxSpurious \in Nat

VARIABLES
  queue,     \* d_queue, back() first
  mutex,     \* the thread that holds d_mutex
  pc,        \* where each thread is in its call
  started,   \* calls each thread has made
  rc,        \* what each consumer's last pop moved out of the queue
  pushed,    \* history: every element stored, in order
  popped,    \* history: every element taken, in order
  spurious   \* spurious wake-ups so far

vars == <<queue, mutex, pc, started, rc, pushed, popped, spurious>>

(* The value of the k-th push of a producer.                               *)
Element(p, k) == <<p, k>>
NoElement == <<>>

Values == Producers \X Nat

empty == queue = <<>>
(* Fault: the capacity is exceeded by one.                                 *)
fullLate == Capacity # -1 /\ Len(queue) > Capacity
full == Capacity # -1 /\ Len(queue) >= Capacity

-----------------------------------------------------------------------------
Init ==
  /\ queue = <<>>
  /\ mutex = NoThread
  /\ pc = [t \in Threads |-> "idle"]
  /\ started = [t \in Threads |-> 0]
  /\ rc = [c \in Consumers |-> NoElement]
  /\ pushed = <<>>
  /\ popped = <<>>
  /\ spurious = 0

Call(t, quota) ==
  /\ pc[t] = "idle"
  /\ started[t] < quota
  /\ pc' = [pc EXCEPT ![t] = "lock"]
  /\ started' = [started EXCEPT ![t] = @ + 1]
  /\ UNCHANGED <<queue, mutex, rc, pushed, popped, spurious>>

(* Take the mutex: at the start of the call or on return from wait.        *)
Acquire(t) ==
  /\ pc[t] = "lock"
  /\ mutex = NoThread
  /\ mutex' = t
  /\ pc' = [pc EXCEPT ![t] = "check"]
  /\ UNCHANGED <<queue, started, rc, pushed, popped, spurious>>

(* condition_variable::wait releases the mutex and sleeps in one step.     *)
Wait(t) ==
  /\ pc' = [pc EXCEPT ![t] = "blocked"]
  /\ mutex' = NoThread
  /\ UNCHANGED <<queue, started, rc, pushed, popped, spurious>>

(* Fault: nobody is notified.                                              *)
NotifyNone(t, sleepers) ==
  /\ pc[t] = "notify"
  /\ pc' = [pc EXCEPT ![t] = "idle"]
  /\ UNCHANGED <<queue, mutex, started, rc, pushed, popped, spurious>>

(* notify_one: some sleeper of the condition goes for the mutex, if any.   *)
NotifyOne(t, sleepers) ==
  /\ pc[t] = "notify"
  /\ LET asleep == {s \in sleepers : pc[s] = "blocked"}
     IN  \/ /\ asleep = {}
            /\ pc' = [pc EXCEPT ![t] = "idle"]
         \/ \E s \in asleep :
              pc' = [pc EXCEPT ![t] = "idle", ![s] = "lock"]
  /\ UNCHANGED <<queue, mutex, started, rc, pushed, popped, spurious>>

(* A condition variable may wake a thread for no reason.                   *)
SpuriousWake(t) ==
  /\ pc[t] = "blocked"
  /\ spurious < MaxSpurious
  /\ spurious' = spurious + 1
  /\ pc' = [pc EXCEPT ![t] = "lock"]
  /\ UNCHANGED <<queue, mutex, started, rc, pushed, popped>>

PushWait(p) == pc[p] = "check" /\ full /\ Wait(p)

PushStore(p) ==
  /\ pc[p] = "check"
  /\ ~full
  /\ queue' = Append(queue, Element(p, started[p]))
  /\ pushed' = Append(pushed, Element(p, started[p]))
  /\ mutex' = NoThread
  /\ pc' = [pc EXCEPT ![p] = "notify"]
  /\ UNCHANGED <<started, rc, popped, spurious>>

PopWait(c) == pc[c] = "check" /\ empty /\ Wait(c)

(* Fault: the test is not repeated after the wait, and back() of an empty  *)
(* deque is no element.                                                    *)
PopTakeUntested(c) ==
  /\ pc[c] = "check"
  /\ LET back == IF empty THEN <<NoThread, 0>> ELSE Head(queue)
     IN  rc' = [rc EXCEPT ![c] = back] /\ popped' = Append(popped, back)
  /\ queue' = IF empty THEN <<>> ELSE Tail(queue)
  /\ mutex' = NoThread
  /\ pc' = [pc EXCEPT ![c] = "notify"]
  /\ UNCHANGED <<started, pushed, spurious>>

(* Fault: the newest element is taken.                                     *)
PopTakeNewest(c) ==
  /\ pc[c] = "check"
  /\ ~empty
  /\ rc' = [rc EXCEPT ![c] = queue[Len(queue)]]
  /\ queue' = SubSeq(queue, 1, Len(queue) - 1)
  /\ popped' = Append(popped, queue[Len(queue)])
  /\ mutex' = NoThread
  /\ pc' = [pc EXCEPT ![c] = "notify"]
  /\ UNCHANGED <<started, pushed, spurious>>

PopTake(c) ==
  /\ pc[c] = "check"
  /\ ~empty
  /\ rc' = [rc EXCEPT ![c] = Head(queue)]
  /\ queue' = Tail(queue)
  /\ popped' = Append(popped, Head(queue))
  /\ mutex' = NoThread
  /\ pc' = [pc EXCEPT ![c] = "notify"]
  /\ UNCHANGED <<started, pushed, spurious>>

push(p) ==
  \/ Call(p, NumPush)
  \/ Acquire(p)
  \/ PushWait(p)
  \/ PushStore(p)
  \/ NotifyOne(p, Consumers)

pop(c) ==
  \/ Call(c, NumPop)
  \/ Acquire(c)
  \/ PopWait(c)
  \/ PopTake(c)
  \/ NotifyOne(c, Producers)

Next ==
  \/ \E p \in Producers : push(p)
  \/ \E c \in Consumers : pop(c)
  \/ \E t \in Threads : SpuriousWake(t)

(* The operating system runs every thread that can run.                    *)
Fairness ==
  /\ \A p \in Producers : WF_vars(push(p))
  /\ \A c \in Consumers : WF_vars(pop(c))

Safe == Init /\ [][Next]_vars
Spec == Safe /\ Fairness

-----------------------------------------------------------------------------
(* Every variable has its type.                                            *)
TypeOK ==
  /\ queue \in Seq(Values)
  /\ mutex \in Threads \cup {NoThread}
  /\ pc \in [Threads -> {"idle", "lock", "check", "blocked", "notify"}]
  /\ started \in [Threads -> Nat]
  /\ rc \in [Consumers -> Values \cup {NoElement}]
  /\ pushed \in Seq(Values)
  /\ popped \in Seq(Values)
  /\ spurious \in 0 .. MaxSpurious

(* The code between lock and unlock runs in one thread at a time.          *)
MutualExclusion == \A t \in Threads : pc[t] = "check" <=> mutex = t

(* A bounded queue never holds more than its capacity, whatever the        *)
(* interleaving of the test and the insertion.                             *)
WithinCapacity == Capacity >= 0 => Len(queue) <= Capacity

(* Nothing is lost, duplicated or reordered: what was popped, followed by  *)
(* what is stored, is what was pushed.                                     *)
FifoOrder == pushed = popped \o queue

(* The threads of S that will look at the queue, and those that will wake  *)
(* a sleeper of the other side.                                            *)
Awake(S) == {t \in S : pc[t] \in {"lock", "check"}}
Notifying(S) == {t \in S : pc[t] = "notify"}

(* No lost wake-up, in the form that is inductive: while a consumer sleeps,*)
(* every element stored is matched by a notification on its way or by a    *)
(* consumer that is about to look.                                         *)
ElementsCovered ==
  (\E c \in Consumers : pc[c] = "blocked") =>
    Len(queue) <= Cardinality(Notifying(Producers)) + Cardinality(Awake(Consumers))

(* The same for the free places of a bounded queue while a producer sleeps.*)
PlacesCovered ==
  (\E p \in Producers : pc[p] = "blocked") =>
    /\ Capacity # -1
    /\ Capacity - Len(queue)
         <= Cardinality(Notifying(Consumers)) + Cardinality(Awake(Producers))

(* No lost wake-up: a consumer never sleeps on a non-empty queue, nor a    *)
(* producer on one with a free place, unless a thread that is awake will   *)
(* look at the queue or notify.                                            *)
NoLostWakeup ==
  /\ (\E c \in Consumers : pc[c] = "blocked") /\ ~empty =>
       Notifying(Producers) \cup Awake(Consumers) # {}
  /\ (\E p \in Producers : pc[p] = "blocked") /\ ~full =>
       Notifying(Consumers) \cup Awake(Producers) # {}

(* The parts that are inductive together.                                  *)
IInv ==
  /\ TypeOK
  /\ MutualExclusion
  /\ WithinCapacity
  /\ FifoOrder
  /\ ElementsCovered
  /\ PlacesCovered

-----------------------------------------------------------------------------
(* blocking_queue implements the bounded FIFO: a call takes effect when    *)
(* the element is stored or taken.                                         *)
Phase(t) == CASE pc[t] = "idle" -> "idle"
              [] pc[t] = "notify" -> "done"
              [] OTHER -> "called"

BF == INSTANCE BoundedFifo
        WITH fifo <- queue,
             op <- [t \in Threads |-> Phase(t)],
             accepted <- pushed,
             delivered <- popped

ImplementsFifo == BF!Spec
=============================================================================
