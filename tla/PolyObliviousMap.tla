-------------------------- MODULE PolyObliviousMap --------------------------
(***************************************************************************)
(* poly_oblivious_map: the server encrypts each value under a counter made *)
(* of its key and of a nonce, and sends a polynomial through the points    *)
(* (key, ciphertext); the client evaluates it at the keys it wants, and a  *)
(* garbled circuit decrypts, and tells the values that were on the curve   *)
(* from the others by a padding of zeros.  Both parties count the runs to  *)
(* have the same nonce; the nonce is never sent.                           *)
(***************************************************************************)
EXTENDS MapJobs

CONSTANTS
  CipherKeys,  \* what gcry_randomize may return
  NoKey        \* the empty key vector

(* Interpolation and evaluation are called with the number of points less  *)
(* one: no run is without pairs or keys.                                   *)
ASSUME NoEmptyJob == \A j \in Jobs : j.pairs # <<>> /\ j.keys # <<>>

Parties == {"server", "client"}

(* A block is decrypted to a value and its padding, of which only matters  *)
(* whether it is zero.                                                     *)
Plaintexts == [value : T, zeros : BOOLEAN]
Counters == [element : Int, nonce : Nat]
Ciphertexts == [key : CipherKeys, ctr : Counters, plain : Plaintexts]
OffCurve == [key |-> NoKey, ctr |-> [element |-> 0, nonce |-> 0],
             plain |-> [value |-> Zero, zeros |-> FALSE]]

VARIABLES
  job,          \* job[n]: the arguments of the n-th runs of both parties
  pc, run,      \* where each party is, and in which run
  nonce,        \* nonce[p]: party p's nonce
  key,          \* server: kept from run to run
  chan,         \* polynomials on their way to the client, as points
  ciphertexts,  \* client: ciphertexts_client, each with its counter
  result,       \* client: the result of the circuit
  out,          \* client: the outputs of its runs
  used          \* history: the keys and counters of earlier runs

vars == <<job, pc, run, nonce, key, chan, ciphertexts, result, out, used>>

Init ==
  /\ job \in [1 .. NumRuns -> Jobs]
  /\ pc = [p \in Parties |-> "idle"]
  /\ run = [p \in Parties |-> 0]
  /\ nonce = [p \in Parties |-> 0]
  /\ key = NoKey
  /\ chan = <<>>
  /\ ciphertexts = <<>>
  /\ result = <<>>
  /\ out = <<>>
  /\ used = {}

Job(p) == job[run[p]]

(* Fault: only the server counts its runs.                                 *)
CallUncounted(p, next) ==
  /\ pc[p] = "idle"
  /\ run[p] < NumRuns
  /\ run' = [run EXCEPT ![p] = @ + 1]
  /\ nonce' = [nonce EXCEPT !["server"] = IF p = "server" THEN @ + 1 ELSE @]
  /\ pc' = [pc EXCEPT ![p] = next]
  /\ UNCHANGED <<job, key, chan, ciphertexts, result, out, used>>

(* A run starts by counting itself.                                        *)
Call(p, next) ==
  /\ pc[p] = "idle"
  /\ run[p] < NumRuns
  /\ run' = [run EXCEPT ![p] = @ + 1]
  /\ nonce' = [nonce EXCEPT ![p] = @ + 1]
  /\ pc' = [pc EXCEPT ![p] = next]
  /\ UNCHANGED <<job, key, chan, ciphertexts, result, out, used>>

(* Fault: the counter is the key alone.                                    *)
CounterOfKey(p, k) == [element |-> k, nonce |-> 0]
Counter(p, k) == [element |-> k, nonce |-> nonce[p]]

(* The value is shifted over a padding of zeros before it is encrypted.    *)
Point(pair, k) ==
  [at |-> pair[1],
   cipher |-> [key |-> k, ctr |-> Counter("server", pair[1]),
               plain |-> [value |-> pair[2], zeros |-> TRUE]]]

(* A key is drawn for the first run of the object.                         *)
ServerSend ==
  /\ pc["server"] = "send"
  /\ key' \in IF key = NoKey THEN CipherKeys ELSE {key}
  /\ LET pairs == Job("server").pairs
         points == {Point(pairs[n], key') : n \in DOMAIN pairs}
     IN  /\ chan' = Append(chan, points)
         /\ used' = used \cup {<<key', pt.cipher.ctr>> : pt \in points}
  /\ pc' = [pc EXCEPT !["server"] = "yao"]
  /\ UNCHANGED <<job, run, nonce, ciphertexts, result, out>>

(* The polynomial has the ciphertext at the server's keys and an unrelated *)
(* value elsewhere.                                                        *)
Evaluate(points, k) ==
  IF \E pt \in points : pt.at = k
    THEN (CHOOSE pt \in points : pt.at = k).cipher ELSE OffCurve

ClientEvaluate ==
  /\ pc["client"] = "recv"
  /\ chan # <<>>
  /\ LET keys == Job("client").keys
     IN  ciphertexts' = [n \in DOMAIN keys |->
                           [cipher |-> Evaluate(Head(chan), keys[n]),
                            ctr |-> Counter("client", keys[n])]]
  /\ chan' = Tail(chan)
  /\ pc' = [pc EXCEPT !["client"] = "yao"]
  /\ UNCHANGED <<job, run, nonce, key, result, out, used>>

(* With another key or counter than it was made with, a ciphertext becomes *)
(* a random block, whose padding is not zero (but for a probability of     *)
(* 2^-statistical_security, which is left out).                            *)
Decrypted(c, noise) ==
  IF c.cipher.key = key /\ c.cipher.ctr = c.ctr THEN c.cipher.plain
  ELSE [value |-> noise, zeros |-> FALSE]

(* Faults: a share that is not reduced to the width of V; the padding is   *)
(* not looked at.                                                          *)
OutputUnreduced(block, default, shared) ==
  LET v == IF block.zeros THEN block.value
           ELSE IF shared THEN Zero ELSE default
  IN  IF shared THEN v - default ELSE v
OutputUnpadded(block, default, shared) ==
  IF shared THEN Minus(block.value, default) ELSE block.value

(* One turn of the circuit's loop, pir_poly_oblivc.                        *)
Output(block, default, shared) ==
  LET v == IF block.zeros THEN block.value
           ELSE IF shared THEN Zero ELSE default
  IN  IF shared THEN Minus(v, default) ELSE v

(* Yao's protocol waits for both parties; the client's input gives the     *)
(* number of ciphertexts, and as many of the defaults are fed.             *)
Yao ==
  /\ \A p \in Parties : pc[p] = "yao"
  /\ Len(ciphertexts) <= Len(Job("server").defaults)
  /\ \E noise \in T :
       result' = [n \in DOMAIN ciphertexts |->
                    Output(Decrypted(ciphertexts[n], noise),
                           Job("server").defaults[n], Job("client").shared)]
  /\ pc' = [server |-> "idle", client |-> "reply"]
  /\ UNCHANGED <<job, run, nonce, key, chan, ciphertexts, out, used>>

ClientReturn ==
  /\ pc["client"] = "reply"
  /\ out' = Append(out, result)
  /\ pc' = [pc EXCEPT !["client"] = "idle"]
  /\ UNCHANGED <<job, run, nonce, key, chan, ciphertexts, result, used>>

run_server == Call("server", "send") \/ ServerSend
run_client == Call("client", "recv") \/ ClientEvaluate \/ ClientReturn

Next == run_server \/ run_client \/ Yao

Fairness == WF_vars(run_server) /\ WF_vars(run_client) /\ WF_vars(Yao)
Safe == Init /\ [][Next]_vars
Spec == Safe /\ Fairness

-----------------------------------------------------------------------------
(* Every variable has its type.                                            *)
TypeOK ==
  /\ job \in [1 .. NumRuns -> Jobs]
  /\ pc \in [Parties -> {"idle", "send", "recv", "yao", "reply"}]
  /\ pc["server"] \notin {"recv", "reply"} /\ pc["client"] # "send"
  /\ run \in [Parties -> 0 .. NumRuns]
  /\ nonce \in [Parties -> Nat]
  /\ key \in CipherKeys \cup {NoKey}
  /\ chan \in Seq(SUBSET [at : Nat, cipher : Ciphertexts])
  /\ ciphertexts \in Seq([cipher : Ciphertexts \cup {OffCurve}, ctr : Counters])
  /\ result \in Seq(T)
  /\ out \in Seq(Seq(T))
  /\ used \subseteq CipherKeys \X Counters

(* A polynomial is evaluated with the nonce it was made with: the client's *)
(* is that of the server whenever one is on its way or in the circuit.     *)
NoncesInStep ==
  /\ chan # <<>> /\ pc["client"] = "recv" => nonce["client"] = nonce["server"]
  /\ pc["client"] = "yao" => /\ nonce["client"] = nonce["server"]
                             /\ run["client"] = run["server"]

(* Whenever a polynomial is sent, none of its points is encrypted under a  *)
(* key and counter of an earlier run.  The key is kept from run to run, so *)
(* this rests on the nonce (poly_oblivious_map.hpp:24 has it that the nonce*)
(* is unnecessary because the key is drawn anew).                          *)
CountersFresh ==
  [][Len(chan') > Len(chan) =>
       \A pt \in chan'[Len(chan')] : <<pt.cipher.key, pt.cipher.ctr>> \notin used]_vars

(* poly_oblivious_map implements the contract of oblivious_map.hpp in every*)
(* run of the two objects: client_out[i] = server_in[client_in[i]] if it   *)
(* exists, and defaults[i] otherwise.                                      *)
Returned(p) == IF pc[p] = "idle" THEN run[p] ELSE run[p] - 1
OM == INSTANCE ObliviousMap
        WITH called <- run, returned <- [p \in Parties |-> Returned(p)]
ImplementsMap == OM!Spec
=============================================================================
