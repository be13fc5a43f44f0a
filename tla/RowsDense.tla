----------------------------- MODULE RowsDense -----------------------------
(***************************************************************************)
(* matrix_multiplication_rows_dense (matrix_multiplication/rows-dense.hpp):*)
(* role 0 has a matrix A_in with few nonzero rows, role 1 a dense B.  The  *)
(* parties multiply the nonzero rows with the dense protocol, and bring    *)
(* the rows of the product to their places with the zero sharing.  All of  *)
(* it runs on one channel: what the zero sharing sends to r is zchan[r],   *)
(* and stands behind what is sent before, chan[r].  The product has l rows *)
(* here, which is k_A.                                                     *)
(***************************************************************************)
EXTENDS DenseMultiplication, FiniteSets, Functions

CONSTANTS
  n,          \* rows of A_in
  AIns,       \* what A_in can be: functions from 1 .. n to T
  ShareVals,  \* what the client of the zero sharing may draw
  TransferMessage, CircuitMessage   \* what it sends

(* What is asked of the constants.  A k_A that is passed is at most n.     *)
RowsDenseParameters ==
  /\ n \in Nat /\ l <= n
  /\ AIns \subseteq [1 .. n -> T]
  /\ ShareVals \subseteq T

VARIABLES
  A_in,     \* role 0: the sparse matrix
  given,    \* whether the callers pass k_A
  inner,    \* role 0: inner_indices
  phase,    \* phase[r]: which part of the protocol party r is in
  zpc, s, ot, t, zchan   \* the zero sharing

zvars == <<zpc, s, ot, t, zchan>>
rdvars == <<vars, A_in, given, inner, phase, zvars>>

ZS == INSTANCE ZeroSharing WITH v <- result, I <- inner

(* ComputeInnerIndices.                                                    *)
Nonzero == {x \in 1 .. n : A_in[x] # Zero}

(* S with the first numbers it lacks, until it has l elements.             *)
Extended(S) ==
  S \cup 1 .. CHOOSE m \in 0 .. n :
                /\ Cardinality(S \cup 1 .. m) >= l
                /\ \A q \in 0 .. m - 1 : Cardinality(S \cup 1 .. q) < l

(* A k_A that is passed is at least the number of nonzero rows.            *)
RInit ==
  /\ Init /\ ~is_shared
  /\ A_in \in AIns
  /\ given \in BOOLEAN
  /\ Cardinality(Nonzero) \in IF given THEN 0 .. l ELSE {0, l}
  /\ inner = <<>>
  /\ phase = [r \in Roles |-> "start"]
  /\ ZS!ZInit

SendSize(k) == IF given THEN chan' = chan ELSE Send(0, k)

(* Role 0: the nonzero rows in the order of the hash set, k_A, and the     *)
(* early return if there are none.                                         *)
Indices ==
  /\ phase[0] = "start"
  /\ LET rows_of_A == IF given THEN Extended(Nonzero) ELSE Nonzero
         k == Cardinality(rows_of_A)
     IN  /\ \E order \in [1 .. k -> rows_of_A] :
              /\ Range(order) = rows_of_A
              /\ inner' = order
              /\ A' = IF k = l THEN [A EXCEPT ![0] = [j \in Rows |-> A_in[order[j]]]]
                               ELSE A
         /\ phase' = [phase EXCEPT ![0] = IF k = 0 THEN "returned" ELSE "dense"]
         /\ SendSize(k)
  /\ UNCHANGED <<is_shared, B, dim, pc, i, made, taken, E, F, first, result,
                 A_in, given, zvars>>

(* Role 1: k_A, if it is not given.                                        *)
RecvK ==
  /\ phase[1] = "start"
  /\ given \/ chan[1] # <<>>
  /\ LET k == IF given THEN l ELSE Head(chan[1])
     IN  phase' = [phase EXCEPT ![1] = IF k = 0 THEN "returned" ELSE "dense"]
  /\ IF given THEN chan' = chan ELSE Receive(1)
  /\ UNCHANGED <<args, pc, i, made, taken, E, F, first, result, A_in, given,
                 inner, zvars>>

Dense(r) ==
  /\ phase[r] = "dense"
  /\ Party(r)
  /\ phase' = [phase EXCEPT ![r] = IF pc'[r] = "done" THEN "zero" ELSE "dense"]
  /\ UNCHANGED <<A_in, given, inner, zvars>>

Provide(r) == Precompute(r) /\ UNCHANGED <<A_in, given, inner, phase, zvars>>

(* zero_sharing_server and zero_sharing_client.                            *)
Side(r) == IF r = 0 THEN "server" ELSE "client"
ZeroShare(r) ==
  /\ phase[r] = "zero"
  /\ IF r = 0 THEN ZS!zero_sharing_server ELSE ZS!zero_sharing_client
  /\ phase' = [phase EXCEPT ![r] = IF zpc'[Side(r)] = "done" THEN "returned" ELSE "zero"]
  /\ UNCHANGED <<vars, A_in, given, inner>>

RParty(r) == (IF r = 0 THEN Indices ELSE RecvK) \/ Dense(r) \/ ZeroShare(r)

RNext == \E r \in Roles : RParty(r) \/ Provide(r)

RFairness == \A r \in Roles : WF_rdvars(RParty(r)) /\ WF_rdvars(Provide(r))

RSpec == RInit /\ [][RNext]_rdvars /\ RFairness

-----------------------------------------------------------------------------
(* The variables that are not of the dense protocol have their types.      *)
RTypeOK ==
  /\ A_in \in AIns /\ given \in BOOLEAN
  /\ inner \in Seq(1 .. n)
  /\ phase \in [Roles -> {"start", "dense", "zero", "returned"}]
  /\ zpc["server"] \in {"choose", "ot", "unpack", "yao", "done"}
  /\ zpc["client"] \in {"draw", "ot", "yao", "done"}
  /\ s \in [Roles -> [1 .. n -> T]]
  /\ DOMAIN ot \in {{}, 1 .. n} /\ DOMAIN t \in {{}, DOMAIN inner}

(* rows-dense.hpp: what the two parties return are shares of the product   *)
(* of A_in and B, in the order of A_in's rows, whatever the order the rows *)
(* were multiplied in and however k_A was agreed on.                       *)
ProductPlaced ==
  (\A r \in Roles : phase[r] = "returned") =>
    \A x \in 1 .. n : Reveal(s[0][x], s[1][x]) = Times(A_in[x], B[1])

(* The parts of the protocol follow each other on one channel, and one     *)
(* party may be in the zero sharing while the other still multiplies: k_A  *)
(* is not taken for a matrix, nor a matrix for k_A; a party that waits for *)
(* a matrix has one in front of any message of the zero sharing; one in the*)
(* zero sharing has no matrix in front of it and reads what is due; and    *)
(* nothing is left for a party that has returned.                          *)
PhasesApart ==
  /\ phase[1] = "start" /\ ~given =>
       IF phase[0] = "start" THEN chan[1] = <<>> /\ zchan[1] = <<>>
       ELSE chan[1] # <<>> /\ Head(chan[1]) = Len(inner)
  /\ \A r \in Roles :
       /\ phase[r] = "dense" /\ Reads(r) =>
            IF chan[r] = <<>> THEN zchan[r] = <<>> ELSE Head(chan[r]) \in Expected(r)
       /\ phase[r] = "zero" => chan[r] = <<>>
       /\ phase[r] = "zero" /\ zpc[Side(r)] \in {"ot", "yao"} /\ zchan[r] # <<>> =>
            Head(zchan[r]) = IF zpc[Side(r)] = "ot" THEN TransferMessage ELSE CircuitMessage
       /\ phase[r] = "returned" => chan[r] = <<>> /\ zchan[r] = <<>>

(* With the right triples both parties return.                             *)
BothReturn ==
  (\A r \in Roles : dim[r] = chunk_size) => <>(\A r \in Roles : phase[r] = "returned")
=============================================================================
