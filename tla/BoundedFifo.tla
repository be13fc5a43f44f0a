---------------------------- MODULE BoundedFifo ----------------------------
(***************************************************************************)
(* What blocking_queue promises to its callers: push and pop take effect   *)
(* at one instant between the call and the return, on a FIFO of at most    *)
(* Capacity elements (Capacity = -1: no bound), and a call that can take   *)
(* effect is not left waiting.                                             *)
(***************************************************************************)
EXTENDS Integers, Sequences

CONSTANTS
  Producers,  \* threads that call push
  Consumers,  \* threads that call pop
  Capacity,   \* the constructor's cap; -1 means unbounded
  NumPush,    \* calls of push by each producer (Precompute(num) makes num)
  NumPop      \* calls of pop by each consumer

VARIABLES
  fifo,       \* the elements stored, oldest first
  op,         \* op[t]: "idle", "called" (no effect yet) or "done" (not returned)
  started,    \* started[t]: calls t has made
  accepted,   \* history: every element stored, in order
  delivered,  \* history: every element taken, in order
  rc          \* rc[c]: what consumer c's last pop took

vars == <<fifo, op, started, accepted, delivered, rc>>

Threads == Producers \cup Consumers

(* The element of a producer's k-th call.                                  *)
Element(p, k) == <<p, k>>
NoElement == <<>>

Bounded == Capacity # -1
FullAt(q) == Bounded /\ Len(q) >= Capacity

Init ==
  /\ fifo = <<>>
  /\ op = [t \in Threads |-> "idle"]
  /\ started = [t \in Threads |-> 0]
  /\ accepted = <<>>
  /\ delivered = <<>>
  /\ rc = [c \in Consumers |-> NoElement]

Call(t, quota) ==
  /\ op[t] = "idle"
  /\ started[t] < quota
  /\ op' = [op EXCEPT ![t] = "called"]
  /\ started' = [started EXCEPT ![t] = @ + 1]
  /\ UNCHANGED <<fifo, accepted, delivered, rc>>

Put(p) ==
  /\ op[p] = "called"
  /\ ~FullAt(fifo)
  /\ op' = [op EXCEPT ![p] = "done"]
  /\ fifo' = Append(fifo, Element(p, started[p]))
  /\ accepted' = Append(accepted, Element(p, started[p]))
  /\ UNCHANGED <<started, delivered, rc>>

Take(c) ==
  /\ op[c] = "called"
  /\ fifo # <<>>
  /\ op' = [op EXCEPT ![c] = "done"]
  /\ fifo' = Tail(fifo)
  /\ delivered' = Append(delivered, Head(fifo))
  /\ rc' = [rc EXCEPT ![c] = Head(fifo)]
  /\ UNCHANGED <<started, accepted>>

Return(t) ==
  /\ op[t] = "done"
  /\ op' = [op EXCEPT ![t] = "idle"]
  /\ UNCHANGED <<fifo, started, accepted, delivered, rc>>

Next ==
  \/ \E p \in Producers : Call(p, NumPush) \/ Put(p) \/ Return(p)
  \/ \E c \in Consumers : Call(c, NumPop) \/ Take(c) \/ Return(c)

Progress ==
  /\ WF_vars(\E p \in Producers : Put(p))
  /\ WF_vars(\E c \in Consumers : Take(c))
  /\ \A t \in Threads : WF_vars(Return(t))

Safe == Init /\ [][Next]_vars
Spec == Safe /\ Progress
=============================================================================
