------------------------- MODULE FakeTripleProvider -------------------------
(***************************************************************************)
(* FakeTripleProvider, offline/fake_triple_provider.tpp: a party runs its  *)
(* own provider, with its own generator and queue, and never talks to the  *)
(* other.  That the k-th triple of one party fits the k-th triple of the   *)
(* other rests on both generators starting from the same seed and being    *)
(* used in the same order.  Matrices are rows of blocks (m = n = 1).       *)
(***************************************************************************)
EXTENDS FakeTripleDraws, Sequences

CONSTANTS
  cap,          \* capacity of triples_; -1 means unbounded
  num,          \* argument of each call of Precompute
  Calls,        \* bound: calls of Precompute
  Concurrent    \* TRUE: GetTriple runs in another thread than Precompute

ASSUME ProviderAssumption ==
  /\ Concurrent \in BOOLEAN
  /\ cap \in Int
  /\ num \in Nat
  /\ Calls \in Nat
  /\ \A k \in 1 .. Calls * num * Draws : Stream[k] \in T

VARIABLES
  rng,      \* rng[r]: draws party r's generator has made
  calls,    \* calls[r]: calls of Precompute party r has completed
  i,        \* i[r]: the loop counter of the call in progress
  queue,    \* queue[r]: triples_, oldest first, each with where it was drawn
  got       \* got[r]: what GetTriple has returned to party r

vars == <<rng, calls, i, queue, got>>

full(r) == cap # -1 /\ Len(queue[r]) >= cap

Init ==
  /\ rng = [r \in Roles |-> 0]
  /\ calls = [r \in Roles |-> 0]
  /\ i = [r \in Roles |-> 0]
  /\ queue = [r \in Roles |-> <<>>]
  /\ got = [r \in Roles |-> <<>>]

(* Fault: the loop makes one turn too many.                                *)
PrecomputeStepMore(r) ==
  /\ calls[r] < Calls
  /\ i[r] <= num
  /\ ~full(r)
  /\ queue' = [queue EXCEPT ![r] = Append(@, [triple |-> TripleAt(r, rng[r]),
                                                at |-> rng[r]])]
  /\ rng' = [rng EXCEPT ![r] = @ + Draws]
  /\ i' = [i EXCEPT ![r] = @ + 1]
  /\ UNCHANGED <<calls, got>>

(* A turn of the loop blocks in push while the queue is full.              *)
PrecomputeStep(r) ==
  /\ calls[r] < Calls
  /\ i[r] < num
  /\ ~full(r)
  /\ queue' = [queue EXCEPT ![r] = Append(@, [triple |-> TripleAt(r, rng[r]),
                                                at |-> rng[r]])]
  /\ rng' = [rng EXCEPT ![r] = @ + Draws]
  /\ i' = [i EXCEPT ![r] = @ + 1]
  /\ UNCHANGED <<calls, got>>

(* Fault: every call starts with the generator as the constructor left it. *)
PrecomputeReturnReseed(r) ==
  /\ calls[r] < Calls
  /\ i[r] = num
  /\ calls' = [calls EXCEPT ![r] = @ + 1]
  /\ i' = [i EXCEPT ![r] = 0]
  /\ rng' = [rng EXCEPT ![r] = 0]
  /\ UNCHANGED <<queue, got>>

PrecomputeReturn(r) ==
  /\ calls[r] < Calls
  /\ i[r] = num
  /\ calls' = [calls EXCEPT ![r] = @ + 1]
  /\ i' = [i EXCEPT ![r] = 0]
  /\ UNCHANGED <<rng, queue, got>>

(* pop blocks while the queue is empty.  The experiments call Precompute   *)
(* first and GetTriple when it has returned, from one thread.              *)
GetTriple(r) ==
  /\ Concurrent \/ calls[r] = Calls
  /\ queue[r] # <<>>
  /\ got' = [got EXCEPT ![r] = Append(@, Head(queue[r]))]
  /\ queue' = [queue EXCEPT ![r] = Tail(@)]
  /\ UNCHANGED <<rng, calls, i>>

Next ==
  \E r \in Roles : PrecomputeStep(r) \/ PrecomputeReturn(r) \/ GetTriple(r)

Fairness ==
  \A r \in Roles : /\ WF_vars(PrecomputeStep(r) \/ PrecomputeReturn(r))
                   /\ WF_vars(GetTriple(r))

Spec == Init /\ [][Next]_vars /\ Fairness

-----------------------------------------------------------------------------
(* A triple in the queue, with where the generator was when it was made.   *)
Made == [triple : TripleType, at : Nat]

(* Every variable has its type.                                            *)
TypeOK ==
  /\ rng \in [Roles -> Nat]
  /\ calls \in [Roles -> 0 .. Calls]
  /\ i \in [Roles -> 0 .. num]
  /\ queue \in [Roles -> Seq(Made)]
  /\ got \in [Roles -> Seq(Made)]

(* However far one party is ahead of the other, the k-th triples the two   *)
(* parties are given are shares of one multiplication triple.              *)
TriplesFit ==
  \A k \in 1 .. Len(got[0]) :
    k <= Len(got[1]) => IsTriple(is_shared, got[0][k].triple, got[1][k].triple)

(* No triple is given out twice, in one call of Precompute or across       *)
(* several: a mask used twice would reveal the difference of two inputs.   *)
NoTripleReused ==
  \A r \in Roles : \A j, k \in 1 .. Len(got[r]) :
    j < k => got[r][j].at + Draws <= got[r][k].at

(* All the triples asked for are made and handed over.                     *)
AllDelivered == <>[](\A r \in Roles : Len(got[r]) = Calls * num)
=============================================================================
