------------------------------ MODULE MapJobs ------------------------------
(***************************************************************************)
(* What the two parties of an oblivious map bring to it, and what          *)
(* oblivious_map/oblivious_map.hpp promises the client in return.  The two *)
(* run a sequence of jobs on one pair of objects.                          *)
(***************************************************************************)
EXTENDS Ring, Integers, Sequences

CONSTANTS
  Jobs,      \* the jobs that may be run
  NumRuns    \* bound: jobs run on one pair of objects

(* The server has pairs and defaults, the client has keys; both have the   *)
(* same flag.  The keys of pairs are distinct, and there is a default for  *)
(* each key looked up.  The client's keys may repeat, and may be negative: *)
(* cols_rows pads them with -1.                                            *)
JobType == [pairs : Seq(Nat \X T), defaults : Seq(T), keys : Seq(Int),
            shared : BOOLEAN]

ASSUME JobsAssumption ==
  /\ NumRuns \in Nat
  /\ Jobs \subseteq JobType
  /\ \A j \in Jobs :
       /\ Len(j.keys) <= Len(j.defaults)
       /\ \A p, q \in DOMAIN j.pairs :
            j.pairs[p][1] = j.pairs[q][1] => p = q

Has(j, k) == \E p \in DOMAIN j.pairs : j.pairs[p][1] = k
ValueOf(j, k) == j.pairs[CHOOSE p \in DOMAIN j.pairs : j.pairs[p][1] = k][2]

(* server_in[client_in[n]] if it exists, or what stands for it otherwise:  *)
(* defaults[n], or zero if the output is shared.                           *)
Lookup(j, n) ==
  IF Has(j, j.keys[n]) THEN ValueOf(j, j.keys[n])
  ELSE IF j.shared THEN Zero
  ELSE j.defaults[n]

(* client_out; of a shared output the server's share is defaults.          *)
Answer(j) ==
  [n \in DOMAIN j.keys |->
     IF j.shared THEN Minus(Lookup(j, n), j.defaults[n]) ELSE Lookup(j, n)]
=============================================================================
