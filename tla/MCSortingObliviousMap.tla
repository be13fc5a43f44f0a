----------------------- MODULE MCSortingObliviousMap -----------------------
(* Two pairs and two keys, in either order, of which none, one or both     *)
(* match; one pair and three keys whose order is not its own inverse; and  *)
(* keys with which the circuit's halves are not in order or are not its    *)
(* own: one -1, and a repeated -1.  For the contract: keys that are proper.*)
EXTENDS SortingObliviousMap

MCPlus(a, b) == (a + b) % 4
MCMinus(a, b) == (a - b) % 4
MCTimes(a, b) == (a * b) % 4

MCProperJobs ==
  [pairs : {<<<<2, 1>>, <<0, 3>>>>, <<<<1, 2>>>>}, defaults : {<<2, 3>>},
   keys : {<<0, 2>>, <<2, 1>>}, shared : BOOLEAN]
  \cup
  [pairs : {<<<<1, 2>>>>}, defaults : {<<1, 2, 3>>}, keys : {<<2, 0, 1>>},
   shared : BOOLEAN]
MCJobs ==
  MCProperJobs
  \cup
  [pairs : {<<<<1, 2>>>>}, defaults : {<<2, 3>>}, keys : {<<1, -1>>}, shared : BOOLEAN]
  \cup
  [pairs : {<<<<1, 2>>>>}, defaults : {<<1, 2, 3>>}, keys : {<<1, -1, -1>>}, shared : {FALSE}]
MCKeysBeyond == {1, 3}
=============================================================================
