-------------------------- MODULE MCBlockingQueue --------------------------
(* Two producers and two consumers on a queue smaller than the number of   *)
(* pushes: each side has sleepers to wake and a rival that can overtake.   *)
EXTENDS BlockingQueue

ASSUME Balanced ==
  Cardinality(Producers) * NumPush = Cardinality(Consumers) * NumPop

(* As many pops as pushes are called: every one of them returns, with only *)
(* the assumption that threads are scheduled and spurious wake-ups finite. *)
Served ==
  /\ \A t \in Threads : pc[t] = "idle"
  /\ \A p \in Producers : started[p] = NumPush
  /\ \A c \in Consumers : started[c] = NumPop
AllServed == <>[]Served
=============================================================================
