------------------------------- MODULE MCSGD -------------------------------
(* Words of five bits, of which two are after the point.  Halves of up to  *)
(* three rows in batches of one or two, so that the last batch is shorter  *)
(* in one case; one document, with no rows for either party; two epochs.   *)
EXTENDS SGD

MCCase(n, size, epochs) == [l |-> n, batch_size |-> size, num_epochs |-> epochs]
MCCases == {MCCase(6, 2, 1), MCCase(5, 1, 2), MCCase(1, 2, 1)}
MCData == [q \in SGDParties |-> IF q = 0 THEN <<5, 12, 3>> ELSE <<20, 7, 9>>]
MCLabels == [q \in SGDParties |-> q]
=============================================================================
