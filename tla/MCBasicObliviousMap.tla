------------------------ MODULE MCBasicObliviousMap ------------------------
(* Two runs on one pair of objects, on keys 0 to 3 in every order.         *)
EXTENDS BasicObliviousMap

MCPlus(a, b) == (a + b) % 4
MCMinus(a, b) == (a - b) % 4
MCTimes(a, b) == (a * b) % 4

PairSeqs ==
  {<<>>, <<<<0, 1>>>>, <<<<2, 1>>>>, <<<<0, 1>>, <<1, 2>>>>, <<<<1, 2>>, <<0, 1>>>>,
   <<<<2, 3>>, <<1, 2>>>>, <<<<1, 0>>, <<2, 3>>>>}
MCJobs ==
  [pairs : PairSeqs, defaults : {<<2, 3>>}, keys : {<<0, 1>>, <<2, 2>>, <<3, -1>>},
   shared : BOOLEAN]
=============================================================================
