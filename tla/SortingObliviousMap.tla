------------------------ MODULE SortingObliviousMap ------------------------
(***************************************************************************)
(* sorting_oblivious_map (the name SCS in the experiments: sort, compare,  *)
(* shuffle).  A garbled circuit merges the server's pairs with the client's*)
(* keys, each with a default, moves values between neighbours of one key,  *)
(* shuffles, and reveals to the client the pairs marked as its own.        *)
(***************************************************************************)
EXTENDS MapJobs, FiniteSets

CONSTANT KeysBeyond   \* what may be read as keys beyond the end of a std::map

ASSUME KeysBeyondAssumption == KeysBeyond \subseteq Int /\ KeysBeyond # {}

Parties == {"server", "client"}
Opairs == [key : Int, value : T, client : BOOLEAN]

VARIABLES
  job,      \* job[n]: the arguments of the n-th runs of both parties
  pc, run,  \* where each party is, and in which run
  input,    \* input[p]: what party p will feed: pairs and keys, sorted
  circuit,  \* where the circuit is; "off" when there is none
  opairs,   \* the pairs in the circuit
  i,        \* the circuit's loop counter
  result,   \* client: result_keys and result_values
  out       \* client: the outputs of its runs

vars == <<job, pc, run, input, circuit, opairs, i, result, out>>

Init ==
  /\ job \in [1 .. NumRuns -> Jobs]
  /\ pc = [p \in Parties |-> "idle"]
  /\ run = [p \in Parties |-> 0]
  /\ input = [p \in Parties |-> <<>>]
  /\ circuit = "off"
  /\ opairs = <<>>
  /\ i = 0
  /\ result = <<>>
  /\ out = <<>>

Job(p) == job[run[p]]

Orders(S) ==
  {f \in [1 .. Cardinality(S) -> S] : \A x, y \in DOMAIN f : f[x] = f[y] => x = y}

(* The places in S in ascending order of the keys there, which differ.     *)
Ascending(keys, S) ==
  CHOOSE f \in Orders(S) :
    \A x, y \in 1 .. Cardinality(S) : x < y => keys[f[x]] < keys[f[y]]
SortedPairs(pairs) ==
  LET f == Ascending([x \in DOMAIN pairs |-> pairs[x][1]], DOMAIN pairs)
  IN  [x \in DOMAIN pairs |-> pairs[f[x]]]

(* input_map: each key once, in ascending order of signed integers, with   *)
(* the place it came at first.  As many keys are read from it as there are *)
(* in the client's input: if some are repeated, the last ones beyond it.   *)
Firsts(keys) == {n \in DOMAIN keys : \A m \in 1 .. n - 1 : keys[m] # keys[n]}
(* Fault: the client does not sort.                                        *)
SortedKeysNot(keys, beyond) == keys
SortedKeys(keys, beyond) ==
  [x \in DOMAIN keys |-> IF x <= Cardinality(Firsts(keys))
                           THEN keys[Ascending(keys, Firsts(keys))[x]]
                           ELSE beyond[x]]

ServerCall ==
  /\ pc["server"] = "idle"
  /\ run["server"] < NumRuns
  /\ run' = [run EXCEPT !["server"] = @ + 1]
  /\ input' = [input EXCEPT !["server"] = SortedPairs(job[run["server"] + 1].pairs)]
  /\ pc' = [pc EXCEPT !["server"] = "yao"]
  /\ UNCHANGED <<job, circuit, opairs, i, result, out>>

ClientCall ==
  /\ pc["client"] = "idle"
  /\ run["client"] < NumRuns
  /\ run' = [run EXCEPT !["client"] = @ + 1]
  /\ LET keys == job[run["client"] + 1].keys
     IN  \E beyond \in [DOMAIN keys -> KeysBeyond] :
           input' = [input EXCEPT !["client"] = SortedKeys(keys, beyond)]
  /\ pc' = [pc EXCEPT !["client"] = "yao"]
  /\ UNCHANGED <<job, circuit, opairs, i, result, out>>

len1 == Len(input["server"])
len2 == Len(input["client"])
(* Fault: a negated default is not reduced to the width of V.              *)
NegUnreduced(a) == -a
Neg(a) == Minus(Zero, a)

(* What is fed: the server's pairs, then the client's keys, the r-th with  *)
(* the r-th default, negated if the output is shared.                      *)
Fed(defaults, shared) ==
  [x \in 1 .. len1 + len2 |->
     IF x <= len1
       THEN [key |-> input["server"][x][1], value |-> input["server"][x][2],
             client |-> FALSE]
       ELSE [key |-> input["client"][x - len1],
             value |-> IF shared THEN Neg(defaults[x - len1]) ELSE defaults[x - len1],
             client |-> TRUE]]

(* cmp_pair_by_key compares unsigned: the negative keys are the highest.   *)
UpTo(k, l) == IF (k < 0) = (l < 0) THEN k <= l ELSE l < 0
AscendingIn(s, a, b) == \A x \in a .. b - 1 : UpTo(s[x].key, s[x + 1].key)

(* omerge_batcher: two halves in ascending order are merged, two others end*)
(* up in some order.                                                       *)
Merge ==
  /\ \A p \in Parties : pc[p] = "yao"
  /\ circuit = "off"
  /\ LET fed == Fed(Job("server").defaults, Job("client").shared)
         n == len1 + len2
     IN  \E f \in Orders(1 .. n) :
           LET merged == [x \in 1 .. n |-> fed[f[x]]]
           IN  /\ AscendingIn(fed, 1, len1) /\ AscendingIn(fed, len1 + 1, n)
                    => AscendingIn(merged, 1, n)
               /\ opairs' = merged
  /\ i' = 1
  /\ circuit' = "compare"
  /\ UNCHANGED <<job, pc, run, input, result, out>>

(* Fault: the owner is copied and not swapped.                             *)
MovedOwner(x, y, shared) ==
  IF shared
    THEN LET sum == Plus(x.value, y.value)
         IN  <<[x EXCEPT !.value = sum], [y EXCEPT !.value = sum]>>
    ELSE <<[x EXCEPT !.client = y.client], y>>

(* Neighbours x and y of one key: the client's pair gets the server's value*)
(* by swapping the owners, or both get the sum of their values.            *)
Moved(x, y, shared) ==
  IF shared
    THEN LET sum == Plus(x.value, y.value)
         IN  <<[x EXCEPT !.value = sum], [y EXCEPT !.value = sum]>>
    ELSE <<[x EXCEPT !.client = y.client], [y EXCEPT !.client = x.client]>>

Compare ==
  /\ circuit = "compare"
  /\ i < len1 + len2
  /\ LET x == opairs[i]
         y == opairs[i + 1]
         moved == Moved(x, y, Job("client").shared)
     IN  opairs' = IF x.key = y.key
                     THEN [opairs EXCEPT ![i] = moved[1], ![i + 1] = moved[2]]
                     ELSE opairs
  /\ i' = i + 1
  /\ UNCHANGED <<job, pc, run, input, circuit, result, out>>

Marked == {x \in DOMAIN opairs : opairs[x].client}

(* The marked pairs are revealed in the order of a random shuffle.         *)
ShuffleReveal ==
  /\ circuit = "compare"
  /\ i >= len1 + len2
  /\ \E f \in Orders(Marked) : result' = [x \in DOMAIN f |-> opairs[f[x]]]
  /\ circuit' = "off"
  /\ opairs' = <<>>
  /\ pc' = [server |-> "idle", client |-> "reply"]
  /\ UNCHANGED <<job, run, input, i, out>>

(* Where input_map has a key; looking up another key puts it in, with 0.   *)
IndexOf(keys, key) ==
  IF \E n \in Firsts(keys) : keys[n] = key
    THEN CHOOSE n \in Firsts(keys) : keys[n] = key ELSE 1

(* Each value revealed goes where input_map has its key, the last one wins.*)
ClientReturn ==
  /\ pc["client"] = "reply"
  /\ LET keys == Job("client").keys
         at(n) == {x \in DOMAIN result : IndexOf(keys, result[x].key) = n}
     IN  out' = Append(out, [n \in DOMAIN keys |->
                               IF at(n) = {} THEN Zero
                               ELSE result[CHOOSE x \in at(n) : \A y \in at(n) : y <= x].value])
  /\ pc' = [pc EXCEPT !["client"] = "idle"]
  /\ UNCHANGED <<job, run, input, circuit, opairs, i, result>>

pir_scs_oblivc == Merge \/ Compare \/ ShuffleReveal

Next == ServerCall \/ ClientCall \/ pir_scs_oblivc \/ ClientReturn

Fairness ==
  /\ WF_vars(ServerCall)
  /\ WF_vars(ClientCall \/ ClientReturn)
  /\ WF_vars(pir_scs_oblivc)
Safe == Init /\ [][Next]_vars
Spec == Safe /\ Fairness

-----------------------------------------------------------------------------
(* Every variable has its type.                                            *)
TypeOK ==
  /\ job \in [1 .. NumRuns -> Jobs]
  /\ pc \in [Parties -> {"idle", "yao", "reply"}] /\ pc["server"] # "reply"
  /\ run \in [Parties -> 0 .. NumRuns]
  /\ DOMAIN input = Parties
  /\ input["server"] \in Seq(Nat \X T) /\ input["client"] \in Seq(Int)
  /\ circuit \in {"off", "compare"}
  /\ opairs \in Seq(Opairs)
  /\ i \in Nat
  /\ result \in Seq(Opairs)
  /\ out \in Seq(Seq(T))

(* sorting_oblivious_map.oc:138-143: there are as many marked pairs as keys*)
(* of the client, whatever was moved and whatever the keys are; and they   *)
(* are those of the keys it fed.                                           *)
ClientPairsKept ==
  circuit = "compare" =>
    /\ Cardinality(Marked) = len2
    /\ {opairs[x].key : x \in Marked} = {input["client"][n] : n \in 1 .. len2}

(* oblivious_map.hpp:9-13, of every job that has been run.  The code does  *)
(* not keep it: the circuit takes the defaults in the order of the keys.   *)
Contract == \A n \in DOMAIN out : out[n] = Answer(job[n])

(* What the circuit asks of its caller: no key twice, and no negative one. *)
Proper(j) == \A m, n \in DOMAIN j.keys : j.keys[m] >= 0 /\ (j.keys[m] = j.keys[n] => m = n)

(* The job as the circuit takes it: a key gets the default of its rank.    *)
RankOf(keys, n) == Cardinality({m \in DOMAIN keys : keys[m] <= keys[n]})
RankJob(j) ==
  [j EXCEPT !.defaults = [n \in DOMAIN j.keys |-> j.defaults[RankOf(j.keys, n)]]]

(* Not the contract of oblivious_map.hpp, but what the code keeps of it for*)
(* proper jobs, whatever the shuffle: a key the server has gets its value, *)
(* and another the default of its rank among the client's keys, not that of*)
(* its index (the same if the keys are in ascending order); with a shared  *)
(* output each is less the default of the key's rank.  Of the outputs of   *)
(* jobs that are not proper it says nothing.                               *)
Returned(p) == IF pc[p] = "idle" THEN run[p] ELSE run[p] - 1
RM == INSTANCE ObliviousMap
        WITH Jobs <- {RankJob(j) : j \in Jobs},
             job <- [n \in 1 .. NumRuns |-> RankJob(job[n])],
             called <- run,
             returned <- [p \in Parties |-> Returned(p)],
             out <- [n \in DOMAIN out |-> IF Proper(job[n]) THEN out[n]
                                          ELSE Answer(RankJob(job[n]))]
ImplementsRankedMap == RM!Spec
=============================================================================
