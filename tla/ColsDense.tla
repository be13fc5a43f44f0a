------------------------------ MODULE ColsDense ------------------------------
(***************************************************************************)
(* matrix_multiplication_cols_dense (matrix_multiplication/cols-dense.hpp):*)
(* role 0 has a matrix A_in with few nonzero columns, role 1 a dense B_in. *)
(* An oblivious map gives the parties shares of the rows of B_in at those  *)
(* columns, and the dense protocol multiplies shares.  Each map answers as *)
(* its own module has it, and all parts use one channel: what the dense    *)
(* protocol sends to r is chan[r], and stands behind what the other parts  *)
(* send, front[r].  An element of T is a row or a column of up to MaxK     *)
(* entries.                                                                *)
(***************************************************************************)
EXTENDS DenseMultiplication, FiniteSets, Functions

CONSTANTS
  MaxK,           \* bound: nonzero columns of A_in
  Columns,        \* columns of A_in and rows of B_in
  Entry,          \* the entries of a matrix
  AIns, BIns,     \* what A_in and B_in can be
  MapShares,      \* what role 1 may draw as its share of the rows of B_in
  MapMessage,     \* a map's vector or polynomial
  CircuitMessage, \* what a party sends in a map's garbled circuit
  RowTimes(_, _)  \* the product of a row of A_in and B_in

Maps == {"basic", "poly", "sorting"}

NonzeroColumns(a) == {x \in Columns : \E j \in Rows : a[j][x] # 0}

(* The orders in which the hash set may have them.                         *)
Orders(a) == Injection(1 .. Cardinality(NonzeroColumns(a)), NonzeroColumns(a))

(* The entries of f at the columns picked.                                 *)
Picked(picked, f) == [c \in 1 .. MaxK |-> IF c <= Len(picked) THEN f[picked[c]] ELSE 0]

(* What is asked of the constants: A_in has at most MaxK nonzero columns,  *)
(* and the product of one of its rows and B_in needs only these, in any    *)
(* order.                                                                  *)
ColsDenseParameters ==
  /\ MaxK \in Nat /\ Columns \subseteq Nat /\ IsFiniteSet(Columns)
  /\ 0 \in Entry /\ T = [1 .. MaxK -> Entry] /\ Zero = [c \in 1 .. MaxK |-> 0]
  /\ AIns \subseteq [Rows -> [Columns -> Entry]] /\ BIns \subseteq [Columns -> Entry]
  /\ MapShares \subseteq T
  /\ \A a \in AIns :
       /\ Cardinality(NonzeroColumns(a)) <= MaxK
       /\ \A order \in Orders(a), b \in BIns, j \in Rows :
            Times(Picked(order, a[j]), Picked(order, b)) = RowTimes(a[j], b)

VARIABLES
  prot,        \* which map both parties use
  A_in, B_in,  \* the matrices of role 0 and role 1
  k_A,         \* k_A[r]: as party r knows it; -1: not yet
  inner,       \* role 0: inner_indices
  phase,       \* phase[r]: which part of the protocol party r is in
  front        \* front[r]: the messages of the other parts on their way to r

cdvars == <<vars, prot, A_in, B_in, k_A, inner, phase, front>>

(* A k_A that is passed is the number of nonzero columns: of a larger one  *)
(* the code would read inner_indices beyond their end.  The polynomial map *)
(* needs a key.                                                            *)
CInit ==
  /\ Init /\ is_shared
  /\ prot \in Maps
  /\ A_in \in AIns /\ B_in \in BIns
  /\ prot = "poly" => NonzeroColumns(A_in) # {}
  /\ \E k \in {-1, Cardinality(NonzeroColumns(A_in))} : k_A = [r \in Roles |-> k]
  /\ inner = <<>>
  /\ phase = [r \in Roles |-> "start"]
  /\ front = [r \in Roles |-> <<>>]

Unmoved == <<is_shared, dim, pc, i, made, taken, E, F, first, chan, result, prot, A_in, B_in>>

(* Fault: k_A is sent though role 1 knows it.                              *)
SendSizeAlways(k) == front' = [front EXCEPT ![1] = Append(@, k)]
SendSize(k) == front' = IF k_A[0] = -1 THEN [front EXCEPT ![1] = Append(@, k)] ELSE front

(* Role 0: the nonzero columns in the order of the hash set, and k_A.      *)
Indices ==
  /\ phase[0] = "start"
  /\ LET k == Cardinality(NonzeroColumns(A_in))
     IN  /\ inner' \in Orders(A_in)
         /\ k_A' = [k_A EXCEPT ![0] = k]
         /\ SendSize(k)
  /\ phase' = [phase EXCEPT ![0] = "map"]
  /\ UNCHANGED <<Unmoved, A, B>>

(* Role 1: k_A, if it is not passed; its A is zero.                        *)
RecvK ==
  /\ phase[1] = "start"
  /\ IF k_A[1] = -1
       THEN /\ front[1] # <<>>
            /\ k_A' = [k_A EXCEPT ![1] = Head(front[1])]
            /\ front' = [front EXCEPT ![1] = Tail(@)]
       ELSE UNCHANGED <<k_A, front>>
  /\ A' = [A EXCEPT ![1] = [j \in Rows |-> Zero]]
  /\ phase' = [phase EXCEPT ![1] = "map"]
  /\ UNCHANGED <<Unmoved, B, inner>>

(* The first k entries of t.                                               *)
FirstOf(t, k) == [c \in 1 .. MaxK |-> IF c <= k THEN t[c] ELSE 0]

(* run_server: role 1 has drawn its share, the defaults of the map, sends  *)
(* what the map sends, and goes into the garbled circuit.                  *)
RunServer ==
  /\ phase[1] = "map"
  /\ \E m \in MapShares : B' = [B EXCEPT ![1] = FirstOf(m, k_A[1])]
  /\ front' = [front EXCEPT ![0] = IF prot = "sorting" THEN Append(@, CircuitMessage)
                                   ELSE Append(Append(@, MapMessage), CircuitMessage)]
  /\ phase' = [phase EXCEPT ![1] = "circuit"]
  /\ UNCHANGED <<Unmoved, A, k_A, inner>>

(* run_client: role 0 waits for what the map sends.                        *)
RunClient ==
  /\ phase[0] = "map"
  /\ prot # "sorting" => front[0] # <<>>
  /\ front' = [front EXCEPT ![0] = IF prot = "sorting" THEN @ ELSE Tail(@),
                            ![1] = Append(@, CircuitMessage)]
  /\ phase' = [phase EXCEPT ![0] = "circuit"]
  /\ UNCHANGED <<Unmoved, A, B, k_A, inner>>

(* The rows of B_in the map has: the basic one loses key 0, which is first.*)
Served == IF prot = "basic" THEN [x \in Columns |-> IF x = 0 THEN 0 ELSE B_in[x]] ELSE B_in

(* Where in inner_indices the default is that masks the c-th answer.       *)
Place(c) ==
  IF prot = "sorting" THEN Cardinality({m \in DOMAIN inner : inner[m] <= inner[c]}) ELSE c
Masking(defaults) ==
  [c \in 1 .. MaxK |-> IF c <= Len(inner) THEN defaults[Place(c)] ELSE 0]

(* The end of the circuit: role 0 gets the rows at its indices, masked.    *)
Circuit(r) ==
  /\ phase[r] = "circuit"
  /\ front[r] # <<>>
  /\ front' = [front EXCEPT ![r] = Tail(@)]
  /\ IF r = 0
       THEN /\ A' = [A EXCEPT ![0] = [j \in Rows |-> Picked(inner, A_in[j])]]
            /\ B' = [B EXCEPT ![0] = Minus(Picked(inner, Served), Masking(B[1]))]
       ELSE UNCHANGED <<A, B>>
  /\ phase' = [phase EXCEPT ![r] = "dense"]
  /\ UNCHANGED <<Unmoved, k_A, inner>>

Dense(r) ==
  /\ phase[r] = "dense"
  /\ Party(r)
  /\ phase' = [phase EXCEPT ![r] = IF pc'[r] = "done" THEN "returned" ELSE @]
  /\ UNCHANGED <<prot, A_in, B_in, k_A, inner, front>>

Provide(r) == Precompute(r) /\ UNCHANGED <<prot, A_in, B_in, k_A, inner, phase, front>>

CParty(r) ==
  \/ r = 0 /\ (Indices \/ RunClient)
  \/ r = 1 /\ (RecvK \/ RunServer)
  \/ Circuit(r) \/ Dense(r)
CNext == \E r \in Roles : CParty(r) \/ Provide(r)

CFairness == \A r \in Roles : WF_cdvars(CParty(r)) /\ WF_cdvars(Provide(r))

CSpec == CInit /\ [][CNext]_cdvars /\ CFairness

-----------------------------------------------------------------------------
(* The variables that are not of the dense protocol have their types.      *)
CTypeOK ==
  /\ prot \in Maps /\ A_in \in AIns /\ B_in \in BIns
  /\ k_A \in [Roles -> -1 .. MaxK]
  /\ inner \in Seq(Columns)
  /\ phase \in [Roles -> {"start", "map", "circuit", "dense", "returned"}]
  /\ DOMAIN front = Roles

(* When the map masks each answer with the share that role 1 keeps for it: *)
(* the basic map does not for column 0, nor the sorting map for columns    *)
(* that the hash set does not have in ascending order.                     *)
MapKeeps ==
  /\ prot = "basic" => 0 \notin NonzeroColumns(A_in)
  /\ prot = "sorting" => \A x, y \in DOMAIN inner : x < y => inner[x] < inner[y]

(* cols-dense.hpp: what the two parties return are shares of the product   *)
(* of A_in and B_in, however k_A was agreed on, and though neither party   *)
(* has B_in's rows in the clear when they multiply: with the polynomial map*)
(* in whatever order the columns were looked up, with the others if the map*)
(* keeps what the caller relies on.                                        *)
ColumnsProduct ==
  (\A r \in Roles : phase[r] = "returned") /\ MapKeeps =>
    \A j \in Rows : Reveal(result[0][j], result[1][j]) = RowTimes(A_in[j], B_in)

(* A party that waits for a message of the parts before the dense protocol,*)
(* and what it should be.                                                  *)
Waits(r) ==
  \/ r = 1 /\ phase[r] = "start" /\ k_A[r] = -1
  \/ r = 0 /\ phase[r] = "map" /\ prot # "sorting"
  \/ phase[r] = "circuit"
Due(r) ==
  IF phase[r] = "start" THEN Cardinality(NonzeroColumns(A_in))
  ELSE IF phase[r] = "map" THEN MapMessage ELSE CircuitMessage

(* The parts follow each other on one channel, and one party may be parts  *)
(* ahead: a party reads the number, the map's message and the circuit's    *)
(* when they are due, with no later one in front; when it is in the dense  *)
(* protocol none of them is left; and past the start they agree on k_A.    *)
MessagesInTurn ==
  /\ \A r \in Roles :
       /\ Waits(r) => IF front[r] = <<>> THEN chan[r] = <<>> ELSE Head(front[r]) = Due(r)
       /\ phase[r] \in {"dense", "returned"} => front[r] = <<>>
  /\ (\A r \in Roles : phase[r] # "start") => k_A[0] = k_A[1] /\ k_A[0] = Len(inner)

(* With the right triples both parties return.                             *)
ColsReturn ==
  (\A r \in Roles : dim[r] = chunk_size) => <>(\A r \in Roles : phase[r] = "returned")
=============================================================================
