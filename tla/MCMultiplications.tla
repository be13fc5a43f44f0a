------------------------- MODULE MCMultiplications -------------------------
(* The dense protocol by itself, with shared factors or not, and as        *)
(* cols_dense and rows_dense call it.  Three rows of two two-bit integers  *)
(* each, in chunks of two, so that the last chunk is one row short.        *)
EXTENDS Multiplications

(* Rows and columns of two entries: a product is a row of one.             *)
MCEntry == 0 .. 3
MCT == [1 .. 2 -> MCEntry]
MCPlus(a, b) == [c \in 1 .. 2 |-> (a[c] + b[c]) % 4]
MCMinus(a, b) == [c \in 1 .. 2 |-> (a[c] - b[c]) % 4]
MCTimes(a, b) == <<(a[1] * b[1] + a[2] * b[2]) % 4, 0>>
MCZero == <<0, 0>>
MCRowTimes(a, b) == <<(a[0] * b[0] + a[1] * b[1] + a[2] * b[2]) % 4, 0>>

(* The triples of the fake provider, from a generator with these draws.    *)
Draws4 == [k \in Nat |-> (k * k + (k \div 3) + 1) % 4]
Pairs4 == [k \in Nat |-> <<Draws4[k], Draws4[k + 1]>>]
Fake == INSTANCE FakeTripleDraws WITH Stream <- Pairs4, is_shared <- TRUE
FakeUnshared == INSTANCE FakeTripleDraws WITH Stream <- Pairs4, is_shared <- FALSE
MCTriple ==
  [b \in BOOLEAN |-> [r \in {0, 1} |-> [k \in 1 .. 2 |->
     IF b THEN Fake!TripleAt(r, (k - 1) * Fake!Draws)
          ELSE FakeUnshared!TripleAt(r, (k - 1) * FakeUnshared!Draws)]]]

MCAInputs == {<< <<1, 2>>, <<2, 0>>, <<3, 3>> >>, << <<3, 0>>, <<0, 1>>, <<2, 3>> >>}
MCBInputs == {<<2, 3>>}
Entries(a, b, c) == [x \in 0 .. 2 |-> IF x = 0 THEN a ELSE IF x = 1 THEN b ELSE c]
MCAIns == {<<Entries(1, 0, 3), Entries(0, 0, 2), Entries(3, 0, 1)>>,
           <<Entries(0, 2, 0), Entries(0, 1, 0), Entries(0, 3, 0)>>,
           <<Entries(0, 0, 0), Entries(0, 0, 0), Entries(0, 0, 0)>>}
MCBIns == {Entries(2, 3, 1)}
MCShares == {<<1, 3>>}
MCRowsOfA == {<< <<1, 2>>, <<0, 0>>, <<3, 0>>, <<2, 3>> >>,
              << <<0, 0>>, <<0, 3>>, <<0, 0>>, <<1, 1>> >>,
              << <<0, 0>>, <<0, 0>>, <<0, 0>>, <<0, 0>> >>}

ASSUME CallersAssumption == ColsDenseParameters /\ RD!RowsDenseParameters

(* Called by one of the others, role 0 has triples of the right size:      *)
(* otherwise its dense protocol throws when k_A is sent already.  And what *)
(* the caller replaces does not vary.                                      *)
MCInit ==
  /\ MInit
  /\ caller # "dense" => dim[0] = rows
  /\ caller = "cols_dense" => A[0] = A[1]

MCSpec == MCInit /\ [][MNext]_mvars /\ MFairness
=============================================================================
