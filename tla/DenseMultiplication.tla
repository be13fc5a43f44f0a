------------------------- MODULE DenseMultiplication -------------------------
(***************************************************************************)
(* matrix_multiplication_dense (matrix_multiplication/dense.hpp): two      *)
(* parties turn A and B into additive shares of AB, chunk_size rows of A   *)
(* at a time, with one multiplication triple for each chunk.  Messages are *)
(* raw matrices: the receiver knows what it holds by the order alone.      *)
(* Matrices have blocks as entries: A is l x 1, B is 1 x 1.                *)
(***************************************************************************)
EXTENDS Triples, Sequences

CONSTANTS
  l,              \* rows of A
  chunk_size_in,  \* -1: one chunk of l rows
  Triple,         \* Triple[b][r][k]: the k-th triple a provider returns to
                  \* party r, if is_shared is b
  Supply,         \* bound: triples each party precomputes
  AInputs,        \* what A can be: functions from 1 .. l to T
  BInputs,        \* what B can be
  Dims            \* first dimensions the triple providers may be made with

Other(r) == 1 - r
chunk_size == IF chunk_size_in = -1 THEN l ELSE chunk_size_in
Rows == 1 .. l

ASSUME SizesAssumption ==
  /\ l \in Nat
  /\ chunk_size_in \in Nat \cup {-1}
  /\ chunk_size > 0
  /\ rows = chunk_size
  /\ Supply \in Nat
  /\ AInputs \subseteq [Rows -> T]
  /\ BInputs \subseteq T
  /\ Dims \subseteq Nat

(* What TripleProvider promises of the k-th triples of the two parties.    *)
ASSUME TriplesAssumption ==
  /\ Triple \in [BOOLEAN -> [Roles -> [1 .. Supply -> TripleType]]]
  /\ \A b \in BOOLEAN, k \in 1 .. Supply :
       IsTriple(b, Triple[b][0][k], Triple[b][1][k])

VARIABLES
  is_shared,  \* whether both parties contribute to both factors
  A, B,    \* A[r], B[r]: the arguments of party r
  dim,     \* dim[r]: first dimension of the triples of party r's provider
  pc,      \* pc[r]: where party r is
  i,       \* i[r]: index of its chunk, from 0
  made,    \* made[r]: triples its provider has precomputed
  taken,   \* taken[r]: triples it has taken
  E, F,    \* its shares of the masked factors of the chunk
  first,   \* first[r]: what it received in the first exchange of the chunk
  chan,    \* chan[r]: messages on their way to party r
  result   \* result[r]: its share of the product, row by row

args == <<is_shared, A, B, dim>>
vars == <<is_shared, A, B, dim, pc, i, made, taken, E, F, first, chan, result>>

Init ==
  /\ is_shared \in BOOLEAN
  /\ A \in [Roles -> AInputs]
  /\ B \in [Roles -> BInputs]
  /\ dim \in [Roles -> Dims]
  /\ pc = [r \in Roles |-> "start"]
  /\ i = [r \in Roles |-> 0]
  /\ made = [r \in Roles |-> 0]
  /\ taken = [r \in Roles |-> 0]
  /\ E = [r \in Roles |-> ZeroRows]
  /\ F = [r \in Roles |-> Zero]
  /\ first = [r \in Roles |-> IF r = 0 THEN Zero ELSE ZeroRows]
  /\ chan = [r \in Roles |-> <<>>]
  /\ result = [r \in Roles |-> [j \in Rows |-> Zero]]

(* Fault: the first message goes out before the check.                     *)
StartSending(r) ==
  /\ pc[r] = "start"
  /\ pc' = [pc EXCEPT ![r] = IF dim[r] # chunk_size THEN "threw" ELSE "mask"]
  /\ chan' = [chan EXCEPT ![Other(r)] = Append(@, B[r])]
  /\ UNCHANGED <<args, i, made, taken, E, F, first, result>>

(* The dimension check comes before anything is sent; there is no chunk if *)
(* A has no rows.                                                          *)
Start(r) ==
  /\ pc[r] = "start"
  /\ pc' = [pc EXCEPT ![r] = IF dim[r] # chunk_size THEN "threw"
                             ELSE IF l = 0 THEN "done" ELSE "mask"]
  /\ UNCHANGED <<args, i, made, taken, E, F, first, chan, result>>

(* Fault: one triple more than there is room for.                          *)
PrecomputeMore(r) ==
  /\ made[r] <= Supply
  /\ made' = [made EXCEPT ![r] = @ + 1]
  /\ UNCHANGED <<args, pc, i, taken, E, F, first, chan, result>>

(* The provider, precomputing in another thread.                           *)
Precompute(r) ==
  /\ made[r] < Supply
  /\ made' = [made EXCEPT ![r] = @ + 1]
  /\ UNCHANGED <<args, pc, i, taken, E, F, first, chan, result>>

(* The rows of chunk i[r].  A last chunk that is too short is added to a   *)
(* longer zero matrix: what lands in the rows beyond is undefined.         *)
ChunkOf(r, garbage) ==
  [j \in TripleRows |-> IF i[r] * chunk_size + j <= l
                         THEN A[r][i[r] * chunk_size + j] ELSE garbage[j]]

Mask(r) ==
  /\ pc[r] = "mask"
  /\ taken[r] < made[r]
  /\ taken' = [taken EXCEPT ![r] = @ + 1]
  /\ LET t == Triple[is_shared][r][taken[r] + 1]
     IN  /\ \E garbage \in [{j \in TripleRows : i[r] * chunk_size + j > l} -> T] :
              E' = [E EXCEPT ![r] =
                      IF is_shared \/ r = 0
                        THEN MinusRows(ChunkOf(r, garbage), t.U) ELSE ZeroRows]
         /\ F' = [F EXCEPT ![r] =
                    IF is_shared \/ r = 1 THEN Minus(B[r], t.V) ELSE Zero]
  /\ pc' = [pc EXCEPT ![r] = "send1"]
  /\ UNCHANGED <<args, i, made, first, chan, result>>

Send(r, m) == chan' = [chan EXCEPT ![Other(r)] = Append(@, m)]
Receive(r) == chan' = [chan EXCEPT ![r] = Tail(@)]

(* channel.send_recv: role 0 starts with E, role 1 with F.                 *)
Send1(r) ==
  /\ pc[r] = "send1"
  /\ Send(r, IF r = 0 THEN E[r] ELSE F[r])
  /\ pc' = [pc EXCEPT ![r] = "recv1"]
  /\ UNCHANGED <<args, i, made, taken, E, F, first, result>>

(* Fault: both parties wait for the second message before they send theirs.*)
Recv1Waiting(r) ==
  /\ pc[r] = "recv1"
  /\ chan[r] # <<>>
  /\ first' = [first EXCEPT ![r] = Head(chan[r])]
  /\ Receive(r)
  /\ pc' = [pc EXCEPT ![r] = IF is_shared THEN "recv2" ELSE "combine"]
  /\ UNCHANGED <<args, i, made, taken, E, F, result>>

(* If both factors are shared the other two masked factors follow.         *)
Recv1(r) ==
  /\ pc[r] = "recv1"
  /\ chan[r] # <<>>
  /\ first' = [first EXCEPT ![r] = Head(chan[r])]
  /\ Receive(r)
  /\ pc' = [pc EXCEPT ![r] = IF is_shared THEN "send2" ELSE "combine"]
  /\ UNCHANGED <<args, i, made, taken, E, F, result>>

Send2(r) ==
  /\ pc[r] = "send2"
  /\ Send(r, IF r = 0 THEN F[r] ELSE E[r])
  /\ pc' = [pc EXCEPT ![r] = "recv2"]
  /\ UNCHANGED <<args, i, made, taken, E, F, first, result>>

Recv2(r) ==
  /\ pc[r] = "recv2"
  /\ chan[r] # <<>>
  /\ IF r = 0 THEN E' = [E EXCEPT ![r] = PlusRows(@, Head(chan[r]))] /\ F' = F
              ELSE F' = [F EXCEPT ![r] = Plus(@, Head(chan[r]))] /\ E' = E
  /\ Receive(r)
  /\ pc' = [pc EXCEPT ![r] = "combine"]
  /\ UNCHANGED <<args, i, made, taken, first, result>>

(* Fault: both parties add the product of the masked factors.              *)
ShareOfRowTwice(r, e, f, t, j) ==
  Plus(Times(e[j], f), Plus(Plus(Times(e[j], t.V), Times(t.U[j], f)), t.Z[j]))

(* A row of the party's share of the chunk's product.                      *)
ShareOfRow(r, e, f, t, j) ==
  LET share == Plus(Plus(Times(e[j], t.V), Times(t.U[j], f)), t.Z[j])
  IN  IF r = 0 THEN share ELSE Plus(Times(e[j], f), share)

Combine(r) ==
  /\ pc[r] = "combine"
  /\ LET e == IF r = 0 THEN E[r] ELSE PlusRows(E[r], first[r])
         f == IF r = 0 THEN Plus(F[r], first[r]) ELSE F[r]
         t == Triple[is_shared][r][taken[r]]
     IN  result' = [result EXCEPT ![r] =
           [j \in Rows |->
              IF j \in i[r] * chunk_size + 1 .. (i[r] + 1) * chunk_size
                THEN ShareOfRow(r, e, f, t, j - i[r] * chunk_size)
                ELSE result[r][j]]]
  /\ i' = [i EXCEPT ![r] = @ + 1]
  /\ pc' = [pc EXCEPT ![r] =
              IF (i[r] + 1) * chunk_size < l THEN "mask" ELSE "done"]
  /\ UNCHANGED <<args, made, taken, E, F, first, chan>>

Party(r) ==
  \/ Start(r) \/ Mask(r) \/ Send1(r) \/ Recv1(r) \/ Send2(r) \/ Recv2(r)
  \/ Combine(r)

Next == \E r \in Roles : Party(r) \/ Precompute(r)

Fairness ==
  \A r \in Roles : WF_vars(Party(r)) /\ WF_vars(Precompute(r))

Spec == Init /\ [][Next]_vars /\ Fairness

-----------------------------------------------------------------------------
(* Every variable has its type; a message is a column of rows or a block,  *)
(* and what a party has received first is of the kind its role expects.    *)
TypeOK ==
  /\ is_shared \in BOOLEAN
  /\ A \in [Roles -> [Rows -> T]] /\ B \in [Roles -> T]
  /\ dim \in [Roles -> Dims]
  /\ pc \in [Roles -> {"start", "threw", "mask", "send1", "recv1", "send2",
                       "recv2", "combine", "done"}]
  /\ i \in [Roles -> Nat]
  /\ made \in [Roles -> 0 .. Supply] /\ taken \in [Roles -> 0 .. Supply]
  /\ E \in [Roles -> [TripleRows -> T]] /\ F \in [Roles -> T]
  /\ DOMAIN first = Roles /\ first[0] \in T /\ first[1] \in [TripleRows -> T]
  /\ result \in [Roles -> [Rows -> T]]

(* The product the two parties want.                                       *)
Product(j) ==
  IF is_shared
    THEN Times(Reveal(A[0][j], A[1][j]), Reveal(B[0], B[1]))
    ELSE Times(A[0][j], B[1])

(* A row both parties are done with is shared correctly, for whatever is   *)
(* in the rows beyond the end of A and however far one party is ahead.     *)
ProductShared ==
  \A j \in Rows :
    (\A r \in Roles : j <= i[r] * chunk_size) =>
      Reveal(result[0][j], result[1][j]) = Product(j)

(* When both have returned nothing is left in either channel for the next  *)
(* protocol to read, and a party that throws has sent nothing.  What the   *)
(* other party sends to one that has thrown stays in its channel.          *)
ChannelLeftClean ==
  /\ (\A r \in Roles : pc[r] = "done") => \A r \in Roles : chan[r] = <<>>
  /\ \A r \in Roles : pc[r] = "threw" => chan[Other(r)] = <<>>

(* A party that waits for a message, and what the dense protocol sends it. *)
Reads(r) == pc[r] \in {"recv1", "recv2"}
Expected(r) == IF r = 0 <=> pc[r] = "recv2" THEN [TripleRows -> T] ELSE T

(* With the right triples, and enough of them, both parties finish, though *)
(* each waits for the other twice in every chunk.                          *)
Finishes ==
  (\A r \in Roles : dim[r] = chunk_size) =>
    <>(\A r \in Roles : pc[r] = "done")
=============================================================================
