-------------------------- MODULE OTTripleProvider --------------------------
(***************************************************************************)
(* OTTripleProvider, offline/ot_triple_provider.tpp: the two parties make  *)
(* triples together, in a thread of their own, with correlated oblivious   *)
(* transfers (COT), while another thread of each takes them to multiply.   *)
(* Both threads wait for the other party, on different channels, and for   *)
(* each other, on the queue.  Matrices have one word as entry (m = n = 1). *)
(***************************************************************************)
EXTENDS Triples, Sequences

CONSTANTS
  is_shared, \* whether both parties contribute to both factors
  Width,     \* bit_width
  cap,       \* capacity of triples_; -1 means unbounded
  num,       \* argument of Precompute
  URows,     \* what randomize_matrix may make of U
  VBlocks,   \* what randomize_matrix may make of V
  Pads       \* the pairs of words opt0 may hold

(* 1 << b; the last of them is the number of words.                        *)
Shifted[b \in 0 .. Width] == IF b = 0 THEN 1 ELSE 2 * Shifted[b - 1]

Word(a) == a % Shifted[Width]

(* What is asked of the constants: entries are unsigned words.             *)
WordsParameters ==
  /\ Width \in Nat \ {0}
  /\ T = 0 .. Shifted[Width] - 1 /\ Zero = 0
  /\ \A a, b \in T : /\ Plus(a, b) = Word(a + b)
                     /\ Minus(a, b) = Word(a - b)
                     /\ Times(a, b) = Word(a * b)

OTParameters ==
  /\ WordsParameters
  /\ is_shared \in BOOLEAN
  /\ cap \in Nat \cup {-1} /\ num \in Nat
  /\ rows > 0   \* Create refuses dimensions below 1
  /\ URows \subseteq [TripleRows -> T]
  /\ VBlocks \subseteq T
  /\ Pads \subseteq T \X T

VARIABLES
  pc,       \* pc[r]: where the thread in Precompute is
  i,        \* i[r]: its loop counter
  U, V,     \* U[r], V[r]: the factors it has drawn
  assign,   \* assign[r]: input_assign of its call of GilboaProduct
  at,       \* at[r]: COTs done in that call
  G,        \* G[r]: R of GilboaProduct
  R,        \* R[r]: R of Precompute
  queue,    \* queue[r]: triples_, oldest first
  taken,    \* taken[r]: triples GetTriple has returned
  last      \* last[r]: the last of them

vars == <<pc, i, U, V, assign, at, G, R, queue, taken, last>>

NoTriple == [U |-> ZeroRows, V |-> Zero, Z |-> ZeroRows]

Init ==
  /\ pc = [r \in Roles |-> "draw"]
  /\ i = [r \in Roles |-> 0]
  /\ U = [r \in Roles |-> ZeroRows]
  /\ V = [r \in Roles |-> Zero]
  /\ assign = [r \in Roles |-> TRUE]
  /\ at = [r \in Roles |-> 0]
  /\ G = [r \in Roles |-> ZeroRows]
  /\ R = [r \in Roles |-> ZeroRows]
  /\ queue = [r \in Roles |-> <<>>]
  /\ taken = [r \in Roles |-> 0]
  /\ last = [r \in Roles |-> NoTriple]

(* GilboaProduct: role 0 sends if input_assign is true.  COT number c is   *)
(* about bit BitOf(c) of V and about two rows of U.                        *)
sender(r) == IF assign[r] THEN 0 ELSE 1
stride == (rows + 1) \div 2
N == stride * Width
RowOf(c) == c \div Width + 1
BitOf(c) == c % Width

(* Enter GilboaProduct.                                                    *)
Multiply(r, input_assign) ==
  /\ assign' = [assign EXCEPT ![r] = input_assign]
  /\ at' = [at EXCEPT ![r] = 0]
  /\ G' = [G EXCEPT ![r] = ZeroRows]
  /\ pc' = [pc EXCEPT ![r] = "cot"]

(* Role 0 draws U and role 1 draws V; the other factor is zero.            *)
Draw(r) ==
  /\ pc[r] = "draw"
  /\ i[r] < num
  /\ \E u \in URows, v \in VBlocks :
       /\ U' = [U EXCEPT ![r] = IF r = 0 THEN u ELSE ZeroRows]
       /\ V' = [V EXCEPT ![r] = IF r = 0 THEN Zero ELSE v]
  /\ Multiply(r, TRUE)
  /\ UNCHANGED <<i, R, queue, taken, last>>

(* What the receiver gets of a word that the sender has padded: the pad,   *)
(* and the correlation if its choice bit is set.                           *)
Received(pad, delta, choice) == IF choice = 1 THEN Word(pad + delta) ELSE pad

(* COT number c of a call with pads pad, as the sender aggregates it into  *)
(* its share g and as the receiver does: the second pad is used if there   *)
(* is a row stride further on.                                             *)
PadOf(c, pad, j) == IF j = RowOf(c) THEN pad[1] ELSE pad[2]
(* Fault: the last row is left out.                                        *)
RowsOfShort(c) == {j \in {RowOf(c), RowOf(c) + stride} : j < rows}
RowsOf(c) == {j \in {RowOf(c), RowOf(c) + stride} : j <= rows}
SenderShare(g, c, pad) ==
  [j \in TripleRows |-> IF j \in RowsOf(c) THEN Word(g[j] - PadOf(c, pad, j)) ELSE g[j]]
ReceiverShare(g, c, pad, u, v) ==
  [j \in TripleRows |->
     IF j \in RowsOf(c)
       THEN Word(g[j] + Received(PadOf(c, pad, j), Word(Shifted[BitOf(c)] * u[j]),
                                 (v \div Shifted[BitOf(c)]) % 2))
       ELSE g[j]]

(* One COT: both parties take part, and agree which of them sends.         *)
Cot ==
  /\ \A r \in Roles : pc[r] = "cot" /\ at[r] < N
  /\ sender(0) = sender(1) /\ at[0] = at[1]
  /\ LET s == sender(0)
         t == 1 - s
     IN  \E pad \in Pads :
           G' = [G EXCEPT ![s] = SenderShare(@, at[s], pad),
                          ![t] = ReceiverShare(@, at[t], pad, U[s], V[t])]
  /\ at' = [r \in Roles |-> at[r] + 1]
  /\ UNCHANGED <<pc, i, U, V, assign, R, queue, taken, last>>

(* GilboaProduct returns.  For a shared triple the missing factors are     *)
(* drawn and the roles are reversed.                                       *)
Second(r) ==
  /\ pc[r] = "cot" /\ at[r] = N /\ assign[r] /\ is_shared
  /\ R' = [R EXCEPT ![r] = G[r]]
  /\ \E u \in URows, v \in VBlocks :
       IF r = 0 THEN V' = [V EXCEPT ![r] = v] /\ U' = U
                ELSE U' = [U EXCEPT ![r] = u] /\ V' = V
  /\ Multiply(r, FALSE)
  /\ UNCHANGED <<i, queue, taken, last>>

Finish(r) ==
  /\ pc[r] = "cot" /\ at[r] = N /\ assign[r] # is_shared
  /\ R' = [R EXCEPT ![r] =
             IF is_shared THEN PlusRows(@, PlusRows(TimesRows(U[r], V[r]), G[r]))
                          ELSE G[r]]
  /\ pc' = [pc EXCEPT ![r] = "push"]
  /\ UNCHANGED <<i, U, V, assign, at, G, queue, taken, last>>

(* Fault: one place of the queue is never used.                            *)
fullEarly(r) == cap # -1 /\ Len(queue[r]) >= cap - 1
(* push blocks while the queue is full.                                    *)
full(r) == cap # -1 /\ Len(queue[r]) >= cap
Push(r) ==
  /\ pc[r] = "push"
  /\ ~full(r)
  /\ queue' = [queue EXCEPT ![r] = Append(@, [U |-> U[r], V |-> V[r], Z |-> R[r]])]
  /\ i' = [i EXCEPT ![r] = @ + 1]
  /\ pc' = [pc EXCEPT ![r] = "draw"]
  /\ UNCHANGED <<U, V, assign, at, G, R, taken, last>>

(* The caller is matrix_multiplication_dense: it comes back for a triple   *)
(* when it has the other party's messages for the chunk before, and these  *)
(* were made with the other party's triple.                                *)
CallerReady(r) == taken[r] <= taken[1 - r]

GetTriple(r) ==
  /\ CallerReady(r)
  /\ queue[r] # <<>>
  /\ last' = [last EXCEPT ![r] = Head(queue[r])]
  /\ queue' = [queue EXCEPT ![r] = Tail(@)]
  /\ taken' = [taken EXCEPT ![r] = @ + 1]
  /\ UNCHANGED <<pc, i, U, V, assign, at, G, R>>

Precompute(r) == Draw(r) \/ Second(r) \/ Finish(r) \/ Push(r)

Next == Cot \/ \E r \in Roles : Precompute(r) \/ GetTriple(r)

Fairness ==
  WF_vars(Cot) /\ \A r \in Roles : WF_vars(Precompute(r)) /\ WF_vars(GetTriple(r))

Spec == Init /\ [][Next]_vars /\ Fairness

-----------------------------------------------------------------------------
(* Every variable has its type.                                            *)
TypeOK ==
  /\ pc \in [Roles -> {"draw", "cot", "push"}]
  /\ i \in [Roles -> 0 .. num]
  /\ U \in [Roles -> [TripleRows -> T]] /\ V \in [Roles -> T]
  /\ assign \in [Roles -> BOOLEAN]
  /\ at \in [Roles -> 0 .. N]
  /\ G \in [Roles -> [TripleRows -> T]] /\ R \in [Roles -> [TripleRows -> T]]
  /\ queue \in [Roles -> Seq(TripleType)]
  /\ taken \in [Roles -> 0 .. num]
  /\ last \in [Roles -> TripleType]

(* Role r's k-th triple, while the model still has it.                     *)
KthTriple(r, k) ==
  IF k = taken[r] THEN last[r] ELSE queue[r][k - taken[r]]
Kept(r) == (IF taken[r] = 0 THEN 1 ELSE taken[r]) .. taken[r] + Len(queue[r])

(* The k-th triples of the two parties are shares of one multiplication    *)
(* triple, whichever of them is ahead with pushing or taking.              *)
TriplesFit ==
  \A k \in Kept(0) \cap Kept(1) : IsTriple(is_shared, KthTriple(0, k), KthTriple(1, k))

(* A full queue at one party and an empty one at the other never stop both *)
(* for good, for any positive capacity: every triple is made and taken.    *)
AllTaken == <>[](\A r \in Roles : taken[r] = num)
=============================================================================
