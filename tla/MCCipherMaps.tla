---------------------------- MODULE MCCipherMaps ----------------------------
(***************************************************************************)
(* The two maps that encrypt under counters, for one and the same kind of  *)
(* jobs: a behaviour is one of the polynomial map, three runs on one pair  *)
(* of objects where keys come again with other values, or one of the basic *)
(* map, two runs with its keys in every order.  The map that is not used   *)
(* stays as it was created.  Keys that the server does not have, repeated  *)
(* keys and the -1 of cols_rows are looked up, and the polynomial map may  *)
(* have more defaults than keys.                                           *)
(***************************************************************************)
EXTENDS PolyObliviousMap

MCPlus(a, b) == (a + b) % 4
MCMinus(a, b) == (a - b) % 4
MCTimes(a, b) == (a * b) % 4

MCJobs ==
  [pairs : {<<<<0, 1>>>>, <<<<0, 0>>, <<2, 3>>>>}, defaults : {<<2, 3>>},
   keys : {<<0, -1>>, <<2, 2>>, <<2>>}, shared : BOOLEAN]

PairSeqs ==
  {<<>>, <<<<0, 1>>>>, <<<<2, 1>>>>, <<<<0, 1>>, <<1, 2>>>>, <<<<1, 2>>, <<0, 1>>>>,
   <<<<2, 3>>, <<1, 2>>>>, <<<<1, 0>>, <<2, 3>>>>}
BasicJobs ==
  [pairs : PairSeqs, defaults : {<<2, 3>>},
   keys : {<<0, 1>>, <<2, 2>>, <<3, -1>>}, shared : BOOLEAN]

VARIABLES
  map,   \* the map that is used: "basic" or "poly"
  basicJob, basicPc, basicRun, vec, stored, basicKey, basicChan,
  indexes, selected, basicResult, basicOut

Basic == INSTANCE BasicObliviousMap
           WITH Jobs <- BasicJobs, NumRuns <- 2, job <- basicJob, pc <- basicPc,
                run <- basicRun, key <- basicKey, chan <- basicChan,
                result <- basicResult, out <- basicOut

BasicJobsAssumption == Basic!JobsAssumption
ASSUME BasicJobsAssumption

basicVars ==
  <<basicJob, basicPc, basicRun, vec, stored, basicKey, basicChan, indexes,
    selected, basicResult, basicOut>>
mapsVars == <<map, vars, basicVars>>

SomeJob(jobs) == CHOOSE j \in jobs : TRUE

MapsInit ==
  /\ \/ map = "poly" /\ basicJob = [n \in 1 .. 2 |-> SomeJob(BasicJobs)]
     \/ map = "basic" /\ job = [n \in 1 .. NumRuns |-> SomeJob(Jobs)]
  /\ Init /\ Basic!Init

PolyServer == map = "poly" /\ run_server /\ UNCHANGED <<map, basicVars>>
PolyClient == map = "poly" /\ run_client /\ UNCHANGED <<map, basicVars>>
PolyYao == map = "poly" /\ Yao /\ UNCHANGED <<map, basicVars>>

BasicServer == map = "basic" /\ Basic!run_server /\ UNCHANGED <<map, vars>>
BasicClient == map = "basic" /\ Basic!run_client /\ UNCHANGED <<map, vars>>
BasicYao == map = "basic" /\ Basic!Yao /\ UNCHANGED <<map, vars>>

MapsNext == \/ PolyServer \/ PolyClient \/ PolyYao
            \/ BasicServer \/ BasicClient \/ BasicYao

MapsSpec ==
  /\ MapsInit /\ [][MapsNext]_mapsVars
  /\ WF_mapsVars(PolyServer) /\ WF_mapsVars(PolyClient) /\ WF_mapsVars(PolyYao)
  /\ WF_mapsVars(BasicServer) /\ WF_mapsVars(BasicClient) /\ WF_mapsVars(BasicYao)

-----------------------------------------------------------------------------
(* Every variable of the basic map has its type.                           *)
BasicTypeOK == map \in {"basic", "poly"} /\ Basic!TypeOK

(* The parties of the basic map may be one run apart, never more: a vector *)
(* is selected from in the run it was sent for, though the two reuse their *)
(* objects and one cipher key (basic_oblivious_map.tpp:45-67).             *)
BasicVectorsMatchRuns == Basic!VectorsMatchRuns

(* The map that is used answers each job as oblivious_map.hpp:11-13 says   *)
(* (for the basic map: but for a first key 0), and both parties return from*)
(* every run; the one that is not used does nothing.                       *)
PolyImplementsMap == OM!Safe /\ (map = "poly" => OM!Fairness)
BasicImplementsMap == Basic!OM!Safe /\ (map = "basic" => Basic!OM!Fairness)
=============================================================================
