---------------------------- MODULE Multiplications ----------------------------
(***************************************************************************)
(* matrix_multiplication_dense as it is called: by itself, by              *)
(* matrix_multiplication_cols_dense with shared factors, or by             *)
(* matrix_multiplication_rows_dense with one factor at each party.  caller *)
(* says which function the two parties have called; the variables of the   *)
(* other ones are not used.                                                *)
(***************************************************************************)
EXTENDS ColsDense

CONSTANTS
  n,          \* rows of A_in in rows_dense
  RowAIns,    \* what A_in can be there: functions from 1 .. n to T
  ShareVals,  \* what the client of the zero sharing may draw
  TransferMessage   \* what a party sends in its oblivious transfers

VARIABLES
  caller,                       \* "dense", "cols_dense" or "rows_dense"
  given, zpc, s, ot, t, zchan   \* the other variables of rows_dense

RD == INSTANCE RowsDense WITH AIns <- RowAIns

rowsvars == <<given, zpc, s, ot, t, zchan>>
mvars == <<cdvars, rowsvars, caller>>

None == <<>>
ColsIdle == prot = None /\ B_in = None /\ k_A = None /\ front = None
RowsIdle == given = None /\ zpc = None /\ s = None /\ ot = None /\ t = None /\ zchan = None
CallersIdle == A_in = None /\ inner = None /\ phase = [r \in Roles |-> None]

MInit ==
  \/ caller = "dense" /\ Init /\ CallersIdle /\ ColsIdle /\ RowsIdle
  \/ caller = "cols_dense" /\ CInit /\ RowsIdle
  \/ caller = "rows_dense" /\ RD!RInit /\ ColsIdle

(* A step of a party that has called one of the functions.                 *)
colsvars == <<prot, B_in, k_A, front>>
InDense(step) ==
  caller = "dense" /\ step /\ UNCHANGED <<A_in, inner, phase, colsvars, rowsvars, caller>>
InColsDense(step) == caller = "cols_dense" /\ step /\ UNCHANGED <<rowsvars, caller>>
InRowsDense(step) == caller = "rows_dense" /\ step /\ UNCHANGED <<colsvars, caller>>

MNext == InDense(Next) \/ InColsDense(CNext) \/ InRowsDense(RD!RNext)

(* The fairness of each of the three specifications.                       *)
MFairness ==
  \A r \in Roles :
    /\ WF_mvars(InDense(Party(r))) /\ WF_mvars(InDense(Precompute(r)))
    /\ WF_mvars(InColsDense(CParty(r))) /\ WF_mvars(InColsDense(Provide(r)))
    /\ WF_mvars(InRowsDense(RD!RParty(r))) /\ WF_mvars(InRowsDense(RD!Provide(r)))

MSpec == MInit /\ [][MNext]_mvars /\ MFairness

-----------------------------------------------------------------------------
(* dense.hpp and its callers: every variable has its type.                 *)
TypesOK ==
  /\ TypeOK
  /\ caller = "cols_dense" => CTypeOK
  /\ caller = "rows_dense" => RD!RTypeOK

(* rows-dense.hpp: the rows of the product are in their places, wherever   *)
(* they were multiplied.  cols-dense.hpp: what is returned are shares of   *)
(* A_in times B_in, if the map keeps what the caller relies on.            *)
ProductReturned ==
  /\ caller = "rows_dense" => RD!ProductPlaced
  /\ caller = "cols_dense" => ColumnsProduct

(* rows-dense.hpp and cols-dense.hpp: the agreement on k_A, the map with   *)
(* its circuit, the dense protocol and the zero sharing with its transfers *)
(* and its circuit use one channel without tags, and never read each       *)
(* other's messages, however many parts one party is ahead.                *)
PhasesApart ==
  /\ \A r \in Roles : Reads(r) /\ chan[r] # <<>> => Head(chan[r]) \in Expected(r)
  /\ caller = "rows_dense" => RD!PhasesApart
  /\ caller = "cols_dense" => MessagesInTurn

(* With triples of the right size both parties return from each function.  *)
AllReturn ==
  /\ caller = "dense" => Finishes
  /\ caller = "cols_dense" => ColsReturn
  /\ caller = "rows_dense" => RD!BothReturn
=============================================================================
