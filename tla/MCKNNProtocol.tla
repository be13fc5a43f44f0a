--------------------------- MODULE MCKNNProtocol ---------------------------
(* Five documents in batches of three, multiplied in pieces of two; any    *)
(* similarities, norms that make two of them equal; the words of a batch   *)
(* are counted or entered.                                                *)
EXTENDS KNNProtocol

MCPlus(a, b) == (a + b) % 4
MCMinus(a, b) == (a - b) % 4
MCTimes(a, b) == (a * b) % 4
MCEntered == {-1, 3}
MCInputs ==
  [words : {<<{1}, {2}, {1, 2}, {3}, {1, 2, 3}>>, <<{1, 2}, {2, 3}, {}, {1}, {1}>>},
   sims : [1 .. 5 -> {0, 1, 2, 3}], norms : {<<1, 1, 1, 1, 1>>, <<1, 2, 1, 3, 1>>},
   norm : {1}]
=============================================================================
