------------------------- MODULE BasicObliviousMap -------------------------
(***************************************************************************)
(* basic_oblivious_map: the server writes its values into a dense vector,  *)
(* encrypts every entry under a counter that is its key, and sends it; the *)
(* client picks the entries it wants, and a garbled circuit decrypts them. *)
(***************************************************************************)
EXTENDS MapJobs

CONSTANTS
  CipherKeys,  \* what gcry_randomize may return
  NoKey        \* the empty key vector

Parties == {"server", "client"}

(* An entry of the dense vector is a value and the byte that marks it.     *)
Entries == [value : T, set : {0, 1}]
Unset == [value |-> Zero, set |-> 0]
Ciphertexts == [key : CipherKeys, ctr : Nat, plain : Entries]
Blank == [key |-> NoKey, ctr |-> 0, plain |-> Unset]

VARIABLES
  job,        \* job[n]: the arguments of the n-th runs of both parties
  pc, run,    \* where each party is, and in which run
  vec,        \* server: input_bytes, entry by entry; entry 1 is that of key 0
  stored,     \* server: pairs written into it
  key,        \* server: kept from run to run
  chan,       \* messages on their way to the client
  indexes,    \* client: the keys with their valid flag
  selected,   \* client: the ciphertexts picked
  result,     \* client: result_bytes
  out         \* client: the outputs of its runs

vars == <<job, pc, run, vec, stored, key, chan, indexes, selected, result, out>>

Init ==
  /\ job \in [1 .. NumRuns -> Jobs]
  /\ pc = [p \in Parties |-> "idle"]
  /\ run = [p \in Parties |-> 0]
  /\ vec = <<>>
  /\ stored = 0
  /\ key = NoKey
  /\ chan = <<>>
  /\ indexes = <<>>
  /\ selected = <<>>
  /\ result = <<>>
  /\ out = <<>>

Job(p) == job[run[p]]

ServerCall ==
  /\ pc["server"] = "idle"
  /\ run["server"] < NumRuns
  /\ run' = [run EXCEPT !["server"] = @ + 1]
  /\ pc' = [pc EXCEPT !["server"] = "store"]
  /\ vec' = <<>>
  /\ stored' = 0
  /\ UNCHANGED <<job, key, chan, indexes, selected, result, out>>

(* The vector with room for key k.  max_key starts at 0, so the vector is  *)
(* not resized for key 0; new entries are zero.                            *)
max_key == IF vec = <<>> THEN 0 ELSE Len(vec) - 1
Resized(k) ==
  IF k > max_key
    THEN [x \in 1 .. k + 1 |-> IF x <= Len(vec) THEN vec[x] ELSE Unset]
    ELSE vec

(* A turn of the loop over input.  A write beyond the size goes to memory  *)
(* that is reserved only: it is neither kept by a resize nor sent.         *)
ServerStore ==
  /\ pc["server"] = "store"
  /\ stored < Len(Job("server").pairs)
  /\ LET pair == Job("server").pairs[stored + 1]
     IN  vec' = [x \in 1 .. Len(Resized(pair[1])) |->
                   IF x = pair[1] + 1 THEN [value |-> pair[2], set |-> 1]
                                      ELSE Resized(pair[1])[x]]
  /\ stored' = stored + 1
  /\ UNCHANGED <<job, pc, run, key, chan, indexes, selected, result, out>>

Encrypted(k) ==
  [x \in 1 .. Len(vec) |-> [key |-> k, ctr |-> x - 1, plain |-> vec[x]]]

(* Fault: a server without pairs returns when it has sent its vector.      *)
ServerSendReturning ==
  /\ pc["server"] = "store"
  /\ stored = Len(Job("server").pairs)
  /\ key' \in IF key = NoKey THEN CipherKeys ELSE {key}
  /\ chan' = Append(chan, Encrypted(key'))
  /\ pc' = [pc EXCEPT !["server"] = IF stored = 0 THEN "idle" ELSE "yao"]
  /\ UNCHANGED <<job, run, vec, stored, indexes, selected, result, out>>

(* A key is drawn for the first run of the object.                         *)
ServerSend ==
  /\ pc["server"] = "store"
  /\ stored = Len(Job("server").pairs)
  /\ key' \in IF key = NoKey THEN CipherKeys ELSE {key}
  /\ chan' = Append(chan, Encrypted(key'))
  /\ pc' = [pc EXCEPT !["server"] = "yao"]
  /\ UNCHANGED <<job, run, vec, stored, indexes, selected, result, out>>

ClientCall ==
  /\ pc["client"] = "idle"
  /\ run["client"] < NumRuns
  /\ run' = [run EXCEPT !["client"] = @ + 1]
  /\ pc' = [pc EXCEPT !["client"] = "recv"]
  /\ UNCHANGED <<job, vec, stored, key, chan, indexes, selected, result, out>>

(* A negative key is a large unsigned number in the comparison.            *)
ClientSelect ==
  /\ pc["client"] = "recv"
  /\ chan # <<>>
  /\ LET all_ciphertexts == Head(chan)
         keys == Job("client").keys
         valid(n) == keys[n] \in 0 .. Len(all_ciphertexts) - 1
     IN  /\ indexes' = [n \in DOMAIN keys |-> [index |-> keys[n], valid |-> valid(n)]]
         /\ selected' = [n \in DOMAIN keys |->
                           IF valid(n) THEN all_ciphertexts[keys[n] + 1] ELSE Blank]
  /\ chan' = Tail(chan)
  /\ pc' = [pc EXCEPT !["client"] = "yao"]
  /\ UNCHANGED <<job, run, vec, stored, key, result, out>>

(* The n-th ciphertext under the key that is fed to the circuit: what it   *)
(* was made from only if key and counter are those it was made with.       *)
Decrypted(n, noise) ==
  IF selected[n].key = key /\ selected[n].ctr = indexes[n].index
    THEN selected[n].plain ELSE noise

(* Faults: a share that is not reduced to the width of V; a missing value  *)
(* that is the default although the output is shared.                      *)
OutputUnreduced(n, entry, default, shared) ==
  LET v == IF entry.set = 1 /\ indexes[n].valid THEN entry.value
           ELSE IF shared THEN Zero ELSE default
  IN  IF shared THEN v - default ELSE v
OutputDefault(n, entry, default, shared) ==
  LET v == IF entry.set = 1 /\ indexes[n].valid THEN entry.value ELSE default
  IN  IF shared THEN Minus(v, default) ELSE v

(* One turn of the circuit's loop, pir_basic_oblivc.                       *)
Output(n, entry, default, shared) ==
  LET v == IF entry.set = 1 /\ indexes[n].valid THEN entry.value
           ELSE IF shared THEN Zero ELSE default
  IN  IF shared THEN Minus(v, default) ELSE v

(* Yao's protocol waits for both parties.  Each builds the circuit for its *)
(* own length: with more defaults than keys they do not end together.      *)
Yao ==
  /\ \A p \in Parties : pc[p] = "yao"
  /\ Len(Job("server").defaults) = Len(Job("client").keys)
  /\ \E noise \in Entries :
       result' = [n \in DOMAIN Job("client").keys |->
                    Output(n, Decrypted(n, noise), Job("server").defaults[n],
                           Job("client").shared)]
  /\ pc' = [server |-> "idle", client |-> "reply"]
  /\ UNCHANGED <<job, run, vec, stored, key, chan, indexes, selected, out>>

ClientReturn ==
  /\ pc["client"] = "reply"
  /\ out' = Append(out, result)
  /\ pc' = [pc EXCEPT !["client"] = "idle"]
  /\ UNCHANGED <<job, run, vec, stored, key, chan, indexes, selected, result>>

run_server == ServerCall \/ ServerStore \/ ServerSend
run_client == ClientCall \/ ClientSelect \/ ClientReturn

Next == run_server \/ run_client \/ Yao

Fairness == WF_vars(run_server) /\ WF_vars(run_client) /\ WF_vars(Yao)
Safe == Init /\ [][Next]_vars
Spec == Safe /\ Fairness

-----------------------------------------------------------------------------
(* Every variable has its type.                                            *)
TypeOK ==
  /\ job \in [1 .. NumRuns -> Jobs]
  /\ pc \in [Parties -> {"idle", "store", "recv", "yao", "reply"}]
  /\ pc["server"] \in {"idle", "store", "yao"}
  /\ pc["client"] \in {"idle", "recv", "yao", "reply"}
  /\ run \in [Parties -> 0 .. NumRuns]
  /\ vec \in Seq(Entries)
  /\ stored \in Nat
  /\ key \in CipherKeys \cup {NoKey}
  /\ chan \in Seq(Seq(Ciphertexts))
  /\ indexes \in Seq([index : Int, valid : BOOLEAN])
  /\ selected \in Seq(Ciphertexts \cup {Blank})
  /\ result \in Seq(T)
  /\ out \in Seq(Seq(T))

(* oblivious_map.hpp: client_out[i] = server_in[client_in[i]] if it exists,*)
(* and defaults[i] otherwise.                                              *)
Contract == \A n \in DOMAIN out : out[n] = Answer(job[n])

(* Key 0 is lost if it is the first.                                       *)
KeptJob(j) ==
  [j EXCEPT !.pairs = IF @ # <<>> /\ @[1][1] = 0 THEN Tail(@) ELSE @]

(* The parties may be one run apart, never more: a vector is selected from *)
(* in the run it was sent for, and there is at most one on its way.        *)
VectorsMatchRuns ==
  /\ run["server"] - run["client"] \in -1 .. 1
  /\ Len(chan) <= 1
  /\ chan # <<>> => pc["server"] = "yao"
                    /\ \A x \in DOMAIN chan[1] : chan[1][x].key = key
  /\ pc["client"] = "yao" => pc["server"] = "yao" /\ run["server"] = run["client"]

(* basic_oblivious_map implements the contract, but for a key 0 that the   *)
(* server has and lost while it filled its vector, which is answered as if *)
(* it did not have it:                                                     *)
(* run_server takes effect at the end of the garbled circuit, run_client   *)
(* when it has its output.                                                 *)
Returned(p) == IF pc[p] = "idle" THEN run[p] ELSE run[p] - 1
OM == INSTANCE ObliviousMap
        WITH Jobs <- {KeptJob(j) : j \in Jobs},
             job <- [n \in 1 .. NumRuns |-> KeptJob(job[n])],
             called <- run,
             returned <- [p \in Parties |-> Returned(p)]
ImplementsMap == OM!Spec
=============================================================================
