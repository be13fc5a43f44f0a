----------------------- MODULE PolyObliviousMapProofs -----------------------
(* poly_oblivious_map for any jobs and any number of runs: the nonces the  *)
(* parties count for themselves are in step, no counter is used twice, and *)
(* every run returns what oblivious_map.hpp promises.                      *)
EXTENDS PolyObliviousMap, SequenceTheorems, TLAPS

PointType == [at : Nat, cipher : Ciphertexts]
BlockType == [cipher : Ciphertexts \cup {OffCurve}, ctr : Counters]

(* The runs of party p that have been through the circuit.                 *)
Decoded(p) == IF pc[p] \in {"send", "recv", "yao"} THEN run[p] - 1 ELSE run[p]

(* The parties go through the circuit together, and the client waits for it*)
(* only after the server does.                                             *)
InStep ==
  /\ \A p \in Parties : nonce[p] = run[p]
  /\ \A p \in Parties : pc[p] # "idle" => run[p] >= 1
  /\ Decoded("server") = Decoded("client")
  /\ pc["client"] = "yao" => pc["server"] = "yao"

(* No counter has a nonce of a run that has not sent its polynomial.       *)
UsedBefore ==
  \A u \in used : /\ u[2].nonce <= nonce["server"]
                  /\ pc["server"] = "send" => u[2].nonce < nonce["server"]

(* The polynomial of job j under key k in run r.                           *)
PairPoint(j, q, k, r) ==
  [at |-> j.pairs[q][1],
   cipher |-> [key |-> k, ctr |-> [element |-> j.pairs[q][1], nonce |-> r],
               plain |-> [value |-> j.pairs[q][2], zeros |-> TRUE]]]
PolyOf(j, k, r) == {PairPoint(j, q, k, r) : q \in DOMAIN j.pairs}

(* What the client makes of it.                                            *)
BlocksOf(j, k, r) ==
  [n \in DOMAIN j.keys |->
     [cipher |-> Evaluate(PolyOf(j, k, r), j.keys[n]),
      ctr |-> [element |-> j.keys[n], nonce |-> r]]]

(* What is on its way, in the circuit or in the reply belongs to the run   *)
(* both parties are in.                                                    *)
Current ==
  /\ chan = IF pc["server"] = "yao" /\ pc["client"] # "yao"
              THEN <<PolyOf(Job("server"), key, run["server"])>> ELSE <<>>
  /\ pc["client"] = "yao" =>
       ciphertexts = BlocksOf(Job("client"), key, run["client"])
  /\ pc["client"] = "reply" => result = Answer(Job("client"))

IInv == TypeOK /\ InStep /\ UsedBefore /\ Current

LEMMA InitInv == Init => IInv
<1> SUFFICES ASSUME Init PROVE IInv
  OBVIOUS
<1> USE DEF Init, Parties
<1>1. TypeOK
  <2>1. NumRuns \in Nat
    BY JobsAssumption
  <2>2. run \in [Parties -> 0 .. NumRuns]
    BY <2>1
  <2> QED
    BY <2>2 DEF TypeOK
<1>2. InStep
  BY DEF InStep, Decoded
<1>3. UsedBefore
  BY DEF UsedBefore
<1>4. Current
  BY DEF Current
<1> QED
  BY <1>1, <1>2, <1>3, <1>4 DEF IInv

(* A function on the places of a sequence is a sequence.                   *)
LEMMA SameLength ==
  ASSUME NEW X, NEW s \in Seq(X), NEW S, NEW f, f = [n \in DOMAIN s |-> f[n]],
         \A n \in DOMAIN s : f[n] \in S
  PROVE  f \in Seq(S) /\ Len(f) = Len(s)
<1>1. Len(s) \in Nat /\ DOMAIN s = 1 .. Len(s)
  BY LenProperties
<1>2. f \in [1 .. Len(s) -> S]
  BY <1>1
<1> QED
  BY <1>1, <1>2, SeqDef, LenProperties

(* The jobs the parties are in, and how far they can be apart.             *)
LEMMA JobFacts ==
  ASSUME IInv, NEW p \in Parties, pc[p] # "idle"
  PROVE  /\ Job(p) \in Jobs
         /\ Job(p).pairs \in Seq(Nat \X T)
         /\ Job(p).defaults \in Seq(T)
         /\ Job(p).keys \in Seq(Int)
         /\ Job(p).shared \in BOOLEAN
         /\ Len(Job(p).keys) <= Len(Job(p).defaults)
         /\ \A m, n \in DOMAIN Job(p).pairs :
              Job(p).pairs[m][1] = Job(p).pairs[n][1] => m = n
<1>1. run[p] \in 1 .. NumRuns
  BY JobsAssumption DEF IInv, TypeOK, InStep
<1>2. Job(p) \in Jobs
  BY <1>1 DEF IInv, TypeOK, Job
<1>3. Job(p) \in JobType
  BY <1>2, JobsAssumption
<1> QED
  BY <1>2, <1>3, JobsAssumption DEF JobType

(* The runs in which the parties are.                                      *)
LEMMA RunFacts ==
  ASSUME IInv
  PROVE  /\ run["server"] \in Nat /\ run["client"] \in Nat
         /\ pc["server"] \in {"idle", "send", "yao"}
         /\ pc["client"] \in {"idle", "recv", "yao", "reply"}
         /\ pc["client"] = "reply" => run["client"] <= run["server"]
         /\ pc["server"] = "yao" /\ pc["client"] \in {"recv", "yao"} =>
              run["client"] = run["server"]
<1>1. run["server"] \in Nat /\ run["client"] \in Nat
  BY JobsAssumption DEF IInv, TypeOK, Parties
<1>2. /\ pc["server"] \in {"idle", "send", "yao"}
      /\ pc["client"] \in {"idle", "recv", "yao", "reply"}
  BY DEF IInv, TypeOK, Parties
<1>3. Decoded("server") = Decoded("client")
  BY DEF IInv, InStep
<1>4. ASSUME pc["client"] = "reply" PROVE run["client"] <= run["server"]
  BY <1>1, <1>2, <1>3, <1>4 DEF Decoded
<1>5. ASSUME pc["server"] = "yao", pc["client"] \in {"recv", "yao"}
      PROVE  run["client"] = run["server"]
  BY <1>1, <1>3, <1>5 DEF Decoded
<1> QED
  BY <1>1, <1>2, <1>4, <1>5

LEMMA CallStep ==
  ASSUME NEW p \in Parties, NEW next,
         next = IF p = "server" THEN "send" ELSE "recv"
  PROVE  IInv /\ Call(p, next) => IInv'
<1> SUFFICES ASSUME IInv, Call(p, next) PROVE IInv'
  OBVIOUS
<1>0. \/ p = "server" /\ next = "send"
      \/ p = "client" /\ next = "recv"
  BY DEF Parties
<1>1. /\ p \in Parties /\ pc[p] = "idle" /\ run[p] \in 0 .. NumRuns /\ run[p] < NumRuns
      /\ pc \in [Parties -> {"idle", "send", "recv", "yao", "reply"}]
      /\ run \in [Parties -> 0 .. NumRuns] /\ nonce \in [Parties -> Nat]
  BY <1>0 DEF IInv, TypeOK, Call, Parties
<1>2. /\ run'[p] = run[p] + 1 /\ nonce'[p] = nonce[p] + 1 /\ pc'[p] = next
      /\ \A q \in Parties \ {p} : run'[q] = run[q] /\ nonce'[q] = nonce[q] /\ pc'[q] = pc[q]
  BY <1>1 DEF Call
<1>3. /\ run' \in [Parties -> 0 .. NumRuns] /\ nonce' \in [Parties -> Nat]
      /\ pc' \in [Parties -> {"idle", "send", "recv", "yao", "reply"}]
  <2>1. run[p] + 1 \in 0 .. NumRuns /\ nonce[p] + 1 \in Nat
    BY <1>1, JobsAssumption
  <2> QED
    BY <1>1, <2>1 DEF Call
<1>4. /\ job' = job /\ key' = key /\ chan' = chan /\ ciphertexts' = ciphertexts
      /\ result' = result /\ out' = out /\ used' = used
  BY DEF Call
<1>5. TypeOK'
  BY <1>2, <1>3, <1>4 DEF IInv, TypeOK, Parties
<1>6. InStep'
  <2>1. \A q \in Parties : nonce'[q] = run'[q]
    BY <1>1, <1>2 DEF IInv, InStep
  <2>2. \A q \in Parties : pc'[q] # "idle" => run'[q] >= 1
    BY <1>1, <1>2 DEF IInv, InStep
  <2>3. \A q \in Parties : Decoded(q)' = Decoded(q)
    BY <1>1, <1>2 DEF Decoded
  <2>4. pc'["client"] = "yao" => pc'["server"] = "yao"
    BY <1>1, <1>2 DEF IInv, InStep, Parties
  <2> QED
    BY <2>1, <2>2, <2>3, <2>4 DEF IInv, InStep, Parties
<1>7. UsedBefore'
  <2> SUFFICES ASSUME NEW u \in used
               PROVE  /\ u[2].nonce <= nonce'["server"]
                      /\ pc'["server"] = "send" => u[2].nonce < nonce'["server"]
    BY <1>4 DEF UsedBefore
  <2>1. u[2].nonce \in Nat
    BY DEF IInv, TypeOK, Counters
  <2>2. nonce["server"] \in Nat /\ u[2].nonce <= nonce["server"]
    BY <1>1 DEF IInv, UsedBefore, Parties
  <2>3. CASE p = "server"
    BY <1>2, <2>1, <2>2, <2>3
  <2>4. CASE p = "client"
    BY <1>2, <2>4 DEF IInv, UsedBefore, Parties
  <2> QED
    BY <1>0, <2>3, <2>4
<1>8. Current'
  <2>1. CASE p = "server"
    <3>1. pc["client"] # "yao" /\ chan = <<>>
      BY <1>1, <2>1 DEF IInv, InStep, Current
    <3>2. pc'["client"] = pc["client"] /\ run'["client"] = run["client"] /\ pc'["server"] = "send"
      BY <1>2, <2>1 DEF Parties
    <3> QED
      BY <1>4, <3>1, <3>2 DEF IInv, Current, Job
  <2>2. CASE p = "client"
    <3>1. pc'["server"] = pc["server"] /\ run'["server"] = run["server"] /\ pc'["client"] = "recv"
      BY <1>2, <2>2 DEF Parties
    <3> QED
      BY <1>1, <1>4, <2>2, <3>1 DEF IInv, Current, Job
  <2> QED
    BY <1>0, <2>1, <2>2
<1> QED
  BY <1>5, <1>6, <1>7, <1>8 DEF IInv

(* The server's points are the polynomial of its run.                      *)
LEMMA ServerPoints ==
  ASSUME IInv, pc["server"] = "send", NEW k \in CipherKeys
  PROVE  /\ PolyOf(Job("server"), k, run["server"]) \in SUBSET PointType
         /\ {Point(Job("server").pairs[n], k) : n \in DOMAIN Job("server").pairs}
              = PolyOf(Job("server"), k, run["server"])
<1> DEFINE j == Job("server")
<1>1. j.pairs \in Seq(Nat \X T)
  BY JobFacts DEF Parties
<1>2. nonce["server"] = run["server"] /\ run["server"] \in Nat
  BY RunFacts DEF IInv, InStep, Parties
<1>3. \A n \in DOMAIN j.pairs : j.pairs[n][1] \in Nat /\ j.pairs[n][2] \in T
  BY <1>1
<1>4. \A n \in DOMAIN j.pairs : Point(j.pairs[n], k) = PairPoint(j, n, k, run["server"])
  BY <1>2 DEF Point, PairPoint, Counter
<1>5. \A n \in DOMAIN j.pairs : PairPoint(j, n, k, run["server"]) \in PointType
  BY <1>2, <1>3 DEF PairPoint, PointType, Ciphertexts, Counters, Plaintexts
<1> QED
  BY <1>4, <1>5 DEF PolyOf

LEMMA ServerSendStep == IInv /\ ServerSend => IInv'
<1> SUFFICES ASSUME IInv, ServerSend PROVE IInv'
  OBVIOUS
<1> DEFINE j == Job("server")
           r == run["server"]
           poly == PolyOf(j, key', r)
<1>1. /\ pc["server"] = "send" /\ key' \in CipherKeys /\ pc' = [pc EXCEPT !["server"] = "yao"]
      /\ UNCHANGED <<job, run, nonce, ciphertexts, result, out>>
      /\ chan' = Append(chan, {Point(j.pairs[n], key') : n \in DOMAIN j.pairs})
      /\ used' = used \cup {<<key', pt.cipher.ctr>> : pt \in {Point(j.pairs[n], key') : n \in DOMAIN j.pairs}}
  BY DEF ServerSend, IInv, TypeOK
<1>2. poly \in SUBSET PointType /\ {Point(j.pairs[n], key') : n \in DOMAIN j.pairs} = poly
  BY <1>1, ServerPoints
<1>3. pc["client"] # "yao" /\ chan = <<>>
  BY <1>1 DEF IInv, InStep, Current
<1>4. chan' = <<poly>> /\ used' = used \cup {<<key', pt.cipher.ctr>> : pt \in poly}
  <2> HIDE DEF poly
  <2> QED
    BY <1>1, <1>2, <1>3
<1>5. /\ pc' \in [Parties -> {"idle", "send", "recv", "yao", "reply"}]
      /\ pc'["server"] = "yao" /\ pc'["client"] = pc["client"]
  BY <1>1 DEF IInv, TypeOK, Parties
<1>6. \A pt \in poly : pt.cipher.ctr \in Counters /\ pt.cipher.ctr.nonce = r
  <2>1. \A pt \in poly : pt.cipher.ctr \in Counters
    BY <1>2 DEF PointType, Ciphertexts
  <2>2. \A pt \in poly : pt.cipher.ctr.nonce = r
    BY DEF PolyOf, PairPoint
  <2> QED
    BY <2>1, <2>2
<1>7. TypeOK'
  <2>1. chan' \in Seq(SUBSET [at : Nat, cipher : Ciphertexts])
    <3> HIDE DEF poly
    <3> QED
      BY <1>2, <1>4 DEF PointType
  <2>2. used' \subseteq CipherKeys \X Counters
    <3>1. used \subseteq CipherKeys \X Counters
      BY DEF IInv, TypeOK
    <3>2. \A pt \in poly : <<key', pt.cipher.ctr>> \in CipherKeys \X Counters
      BY <1>1, <1>6
    <3> HIDE DEF poly
    <3> QED
      BY <1>4, <3>1, <3>2
  <2> QED
    BY <1>1, <1>5, <2>1, <2>2 DEF IInv, TypeOK
<1>8. InStep'
  <2>1. \A q \in Parties : pc'[q] # "idle" => run'[q] >= 1
    BY <1>1, <1>5 DEF IInv, InStep, Parties
  <2>2. Decoded("server")' = Decoded("server") /\ Decoded("client")' = Decoded("client")
    BY <1>1, <1>5 DEF Decoded
  <2> QED
    BY <1>1, <1>5, <2>1, <2>2 DEF IInv, InStep
<1>9. UsedBefore'
  <2>1. nonce'["server"] = r /\ nonce["server"] = r /\ r \in Nat
    BY <1>1, RunFacts DEF IInv, InStep, Parties
  <2>2. \A u \in used : u[2].nonce <= r
    BY <2>1 DEF IInv, UsedBefore
  <2>3. \A u \in used' : u[2].nonce <= r
    <3> HIDE DEF poly, r
    <3> QED
      BY <1>4, <1>6, <2>1, <2>2
  <2> QED
    BY <1>5, <2>1, <2>3 DEF UsedBefore
<1>10. Current'
  <2>1. Job("server")' = j /\ run'["server"] = r /\ Job("client")' = Job("client")
    BY <1>1 DEF Job
  <2> QED
    BY <1>1, <1>3, <1>4, <1>5, <2>1 DEF IInv, Current
<1> QED
  BY <1>7, <1>8, <1>9, <1>10 DEF IInv

LEMMA ClientEvaluateStep == IInv /\ ClientEvaluate => IInv'
<1> SUFFICES ASSUME IInv, ClientEvaluate PROVE IInv'
  OBVIOUS
<1> DEFINE j == Job("client")
           r == run["client"]
           poly == PolyOf(Job("server"), key, run["server"])
<1>1. /\ pc["client"] = "recv" /\ chan # <<>> /\ chan' = Tail(chan)
      /\ pc' = [pc EXCEPT !["client"] = "yao"]
      /\ UNCHANGED <<job, run, nonce, key, result, out, used>>
      /\ ciphertexts' = [n \in DOMAIN j.keys |->
                           [cipher |-> Evaluate(Head(chan), j.keys[n]),
                            ctr |-> Counter("client", j.keys[n])]]
  BY DEF ClientEvaluate
<1>2. pc["server"] = "yao" /\ chan = <<poly>>
  BY <1>1 DEF IInv, Current
<1>3. r = run["server"] /\ r \in Nat /\ nonce["client"] = r
  BY <1>1, <1>2, RunFacts DEF IInv, InStep, Parties
<1>4. chan' = <<>> /\ Head(chan) = poly
  <2> HIDE DEF poly
  <2> QED
    BY <1>1, <1>2
<1>5. poly = PolyOf(j, key, r)
  BY <1>3 DEF Job
<1>6. ciphertexts' = BlocksOf(j, key, r)
  <2> HIDE DEF poly
  <2> QED
    BY <1>1, <1>3, <1>4, <1>5 DEF BlocksOf, Counter
<1>7. /\ pc' \in [Parties -> {"idle", "send", "recv", "yao", "reply"}]
      /\ pc'["client"] = "yao" /\ pc'["server"] = pc["server"]
  BY <1>1 DEF IInv, TypeOK, Parties
<1>8. j.keys \in Seq(Int)
  BY <1>1, JobFacts DEF Parties
<1>9. ciphertexts' \in Seq(BlockType)
  <2>1. poly \in SUBSET PointType
    <3>1. chan \in Seq(SUBSET PointType)
      BY DEF IInv, TypeOK, PointType
    <3> HIDE DEF poly
    <3> QED
      BY <1>2, <1>4, <3>1
  <2>2. \A k \in Int : Evaluate(poly, k) \in Ciphertexts \cup {OffCurve}
    <3> HIDE DEF poly
    <3> SUFFICES ASSUME NEW k \in Int, \E pt \in poly : pt.at = k
                 PROVE  (CHOOSE pt \in poly : pt.at = k).cipher \in Ciphertexts
      BY DEF Evaluate
    <3>1. (CHOOSE pt \in poly : pt.at = k) \in poly
      OBVIOUS
    <3> QED
      BY <2>1, <3>1 DEF PointType
  <2>3. \A n \in DOMAIN j.keys :
          [cipher |-> Evaluate(poly, j.keys[n]), ctr |-> Counter("client", j.keys[n])] \in BlockType
    <3> HIDE DEF poly
    <3> QED
      BY <1>3, <1>8, <2>2 DEF BlockType, Counter, Counters
  <2>4. /\ ciphertexts' = [n \in DOMAIN j.keys |-> ciphertexts'[n]]
        /\ \A n \in DOMAIN j.keys : ciphertexts'[n] \in BlockType
    <3> HIDE DEF poly, j
    <3> QED
      BY <1>1, <1>4, <2>3
  <2> QED
    BY <1>8, <2>4, SameLength
<1>10. TypeOK'
  <2>1. chan' \in Seq(SUBSET [at : Nat, cipher : Ciphertexts])
    BY <1>4
  <2> QED
    BY <1>1, <1>2, <1>7, <1>9, <2>1 DEF IInv, TypeOK, BlockType
<1>11. InStep'
  <2>1. \A q \in Parties : pc'[q] # "idle" => run'[q] >= 1
    BY <1>1, <1>7 DEF IInv, InStep, Parties
  <2>2. Decoded("server")' = Decoded("server") /\ Decoded("client")' = Decoded("client")
    BY <1>1, <1>7 DEF Decoded
  <2> QED
    BY <1>1, <1>2, <1>7, <2>1, <2>2 DEF IInv, InStep
<1>12. UsedBefore'
  BY <1>1, <1>7 DEF IInv, UsedBefore
<1>13. Current'
  <2>1. Job("client")' = j /\ run'["client"] = r /\ key' = key
    BY <1>1 DEF Job
  <2> QED
    BY <1>4, <1>6, <1>7, <2>1 DEF Current
<1> QED
  BY <1>10, <1>11, <1>12, <1>13 DEF IInv

(* A block of a polynomial of the same key and run is decrypted to the     *)
(* value of the pair if there is one, and to no padding otherwise.         *)
LEMMA BlockOpens ==
  ASSUME NEW j \in Jobs, NEW r, NEW n \in DOMAIN j.keys, NEW noise \in T
  PROVE  LET block == Decrypted(BlocksOf(j, key, r)[n], noise)
         IN  /\ Has(j, j.keys[n]) =>
                  block.zeros /\ block.value = ValueOf(j, j.keys[n])
             /\ ~Has(j, j.keys[n]) => ~block.zeros
<1> DEFINE k == j.keys[n]
           poly == PolyOf(j, key, r)
           c == [cipher |-> Evaluate(poly, k), ctr |-> [element |-> k, nonce |-> r]]
<1>1. BlocksOf(j, key, r)[n] = c
  BY DEF BlocksOf
<1>2. CASE Has(j, k)
  <2>1. PICK q \in DOMAIN j.pairs : j.pairs[q][1] = k
    BY <1>2 DEF Has
  <2>2. \A p \in DOMAIN j.pairs : j.pairs[p][1] = k => p = q
    BY <2>1, JobsAssumption
  <2>3. ValueOf(j, k) = j.pairs[q][2]
    BY <2>1, <2>2 DEF ValueOf
  <2>4. PairPoint(j, q, key, r) \in poly /\ PairPoint(j, q, key, r).at = k
    BY <2>1 DEF PolyOf, PairPoint
  <2>5. \A pt \in poly : pt.at = k => pt = PairPoint(j, q, key, r)
    BY <2>2 DEF PolyOf, PairPoint
  <2>6. Evaluate(poly, k) = PairPoint(j, q, key, r).cipher
    <3> HIDE DEF poly, k
    <3> QED
      BY <2>4, <2>5 DEF Evaluate
  <2>7. /\ Evaluate(poly, k).key = key
        /\ Evaluate(poly, k).ctr = [element |-> k, nonce |-> r]
        /\ Evaluate(poly, k).plain = [value |-> j.pairs[q][2], zeros |-> TRUE]
    <3>1. PairPoint(j, q, key, r).cipher =
            [key |-> key, ctr |-> [element |-> k, nonce |-> r],
             plain |-> [value |-> j.pairs[q][2], zeros |-> TRUE]]
      BY <2>1 DEF PairPoint
    <3> HIDE DEF poly, k
    <3> QED
      BY <2>6, <3>1
  <2>8. Decrypted(c, noise) = [value |-> j.pairs[q][2], zeros |-> TRUE]
    <3> HIDE DEF poly, k
    <3> QED
      BY <2>7 DEF Decrypted
  <2> QED
    BY <1>1, <1>2, <2>3, <2>8
<1>3. CASE ~Has(j, k)
  <2>1. \A pt \in poly : pt.at # k
    BY <1>3 DEF Has, PolyOf, PairPoint
  <2>2. Evaluate(poly, k) = OffCurve
    <3> HIDE DEF poly, k
    <3> QED
      BY <2>1 DEF Evaluate
  <2>3. ~Decrypted(c, noise).zeros
    <3> HIDE DEF poly, k
    <3> QED
      BY <2>2 DEF Decrypted, OffCurve
  <2> QED
    BY <1>1, <1>3, <2>3
<1> QED
  BY <1>2, <1>3

(* So the circuit computes what the contract promises.                     *)
LEMMA CircuitAnswers ==
  ASSUME NEW j \in Jobs, NEW r, NEW noise \in T
  PROVE  LET answer == [n \in DOMAIN BlocksOf(j, key, r) |->
                          Output(Decrypted(BlocksOf(j, key, r)[n], noise),
                                 j.defaults[n], j.shared)]
         IN  answer = Answer(j) /\ answer \in Seq(T)
<1> DEFINE answer == [n \in DOMAIN BlocksOf(j, key, r) |->
                        Output(Decrypted(BlocksOf(j, key, r)[n], noise),
                               j.defaults[n], j.shared)]
<1>1. /\ j.pairs \in Seq(Nat \X T) /\ j.defaults \in Seq(T) /\ j.keys \in Seq(Int)
      /\ j.shared \in BOOLEAN /\ Len(j.keys) <= Len(j.defaults)
  BY JobsAssumption DEF JobType
<1>2. DOMAIN BlocksOf(j, key, r) = DOMAIN j.keys
  BY DEF BlocksOf
<1>3. \A n \in DOMAIN j.keys : n \in DOMAIN j.defaults
  BY <1>1
<1>4. ASSUME NEW n \in DOMAIN j.keys
      PROVE  Lookup(j, n) \in T /\ answer[n] = Answer(j)[n] /\ Answer(j)[n] \in T
  <2> DEFINE block == Decrypted(BlocksOf(j, key, r)[n], noise)
  <2>1. j.defaults[n] \in T
    BY <1>1, <1>3
  <2>2. Has(j, j.keys[n]) => ValueOf(j, j.keys[n]) \in T
    <3>1. \A p \in DOMAIN j.pairs : j.pairs[p][2] \in T
      BY <1>1
    <3> QED
      BY <3>1 DEF Has, ValueOf
  <2>3. Lookup(j, n) \in T
    BY <2>1, <2>2, RingClosed DEF Lookup
  <2>4. /\ Has(j, j.keys[n]) => block.zeros /\ block.value = ValueOf(j, j.keys[n])
        /\ ~Has(j, j.keys[n]) => ~block.zeros
    BY BlockOpens
  <2>5. answer[n] = Output(block, j.defaults[n], j.shared)
    BY <1>2
  <2> HIDE DEF block, answer
  <2>6. Answer(j)[n] = IF j.shared THEN Minus(Lookup(j, n), j.defaults[n]) ELSE Lookup(j, n)
    BY DEF Answer
  <2>7. (IF block.zeros THEN block.value ELSE IF j.shared THEN Zero ELSE j.defaults[n])
          = Lookup(j, n)
    BY <2>4 DEF Lookup
  <2>8. answer[n] = Answer(j)[n]
    BY <2>5, <2>6, <2>7 DEF Output
  <2> QED
    BY <2>1, <2>3, <2>6, <2>8, RingClosed
<1>5. answer = [n \in DOMAIN j.keys |-> answer[n]] /\ Answer(j) = [n \in DOMAIN j.keys |-> Answer(j)[n]]
  BY <1>2 DEF Answer
<1>6. answer = Answer(j)
  <2> HIDE DEF answer
  <2> QED
    BY <1>4, <1>5
<1>7. answer \in Seq(T)
  <2> HIDE DEF answer
  <2> QED
    BY <1>1, <1>4, <1>5, SameLength
<1> QED
  BY <1>6, <1>7

LEMMA YaoStep == IInv /\ Yao => IInv'
<1> SUFFICES ASSUME IInv, Yao PROVE IInv'
  OBVIOUS
<1> DEFINE j == Job("client")
           r == run["client"]
<1>1. /\ pc["server"] = "yao" /\ pc["client"] = "yao"
      /\ pc' = [server |-> "idle", client |-> "reply"]
      /\ UNCHANGED <<job, run, nonce, key, chan, ciphertexts, out, used>>
  BY DEF Yao, Parties
<1>2. r = run["server"] /\ r \in Nat /\ Job("server") = j
  BY <1>1, RunFacts DEF Job
<1>3. PICK noise \in T :
        result' = [n \in DOMAIN ciphertexts |->
                     Output(Decrypted(ciphertexts[n], noise), j.defaults[n], j.shared)]
  BY <1>2 DEF Yao
<1>4. ciphertexts = BlocksOf(j, key, r) /\ j \in Jobs
  BY <1>1, JobFacts DEF IInv, Current, Parties
<1>5. result' = Answer(j) /\ result' \in Seq(T)
  <2> HIDE DEF j, r
  <2> QED
    BY <1>3, <1>4, CircuitAnswers
<1>6. /\ pc' \in [Parties -> {"idle", "send", "recv", "yao", "reply"}]
      /\ pc'["server"] = "idle" /\ pc'["client"] = "reply"
  BY <1>1 DEF Parties
<1>7. TypeOK'
  BY <1>1, <1>5, <1>6 DEF IInv, TypeOK
<1>8. InStep'
  <2>1. \A q \in Parties : pc'[q] # "idle" => run'[q] >= 1
    BY <1>1, <1>6 DEF IInv, InStep, Parties
  <2>2. Decoded("server")' = run["server"] /\ Decoded("client")' = run["client"]
    BY <1>1, <1>6 DEF Decoded
  <2> QED
    BY <1>1, <1>2, <1>6, <2>1, <2>2 DEF IInv, InStep
<1>9. UsedBefore'
  BY <1>1, <1>6 DEF IInv, UsedBefore
<1>10. Current'
  <2>1. chan' = <<>> /\ Job("client")' = j
    BY <1>1 DEF IInv, Current, Job
  <2> QED
    BY <1>5, <1>6, <2>1 DEF Current
<1> QED
  BY <1>7, <1>8, <1>9, <1>10 DEF IInv

LEMMA ClientReturnStep == IInv /\ ClientReturn => IInv'
<1> SUFFICES ASSUME IInv, ClientReturn PROVE IInv'
  OBVIOUS
<1>1. /\ pc["client"] = "reply" /\ pc' = [pc EXCEPT !["client"] = "idle"]
      /\ out' = Append(out, result)
      /\ UNCHANGED <<job, run, nonce, key, chan, ciphertexts, result, used>>
  BY DEF ClientReturn
<1>2. /\ pc' \in [Parties -> {"idle", "send", "recv", "yao", "reply"}]
      /\ pc'["server"] = pc["server"] /\ pc'["client"] = "idle"
  BY <1>1 DEF IInv, TypeOK, Parties
<1>3. TypeOK'
  <2>1. out' \in Seq(Seq(T))
    BY <1>1 DEF IInv, TypeOK
  <2> QED
    BY <1>1, <1>2, <2>1 DEF IInv, TypeOK
<1>4. InStep'
  <2>1. \A q \in Parties : pc'[q] # "idle" => run'[q] >= 1
    BY <1>1, <1>2 DEF IInv, InStep, Parties
  <2>2. Decoded("server")' = Decoded("server") /\ Decoded("client")' = Decoded("client")
    BY <1>1, <1>2 DEF Decoded
  <2> QED
    BY <1>1, <1>2, <2>1, <2>2 DEF IInv, InStep
<1>5. UsedBefore'
  BY <1>1, <1>2 DEF IInv, UsedBefore
<1>6. Current'
  <2>1. Job("server")' = Job("server")
    BY <1>1 DEF Job
  <2> QED
    BY <1>1, <1>2, <2>1 DEF IInv, Current
<1> QED
  BY <1>3, <1>4, <1>5, <1>6 DEF IInv

LEMMA NextInv == IInv /\ [Next]_vars => IInv'
<1> SUFFICES ASSUME IInv, [Next]_vars PROVE IInv'
  OBVIOUS
<1>1. CASE run_server
  <2>1. CASE Call("server", "send")
    BY <2>1, CallStep DEF Parties
  <2>2. CASE ServerSend
    BY <2>2, ServerSendStep
  <2> QED
    BY <1>1, <2>1, <2>2 DEF run_server
<1>2. CASE run_client
  <2>1. CASE Call("client", "recv")
    BY <2>1, CallStep DEF Parties
  <2>2. CASE ClientEvaluate
    BY <2>2, ClientEvaluateStep
  <2>3. CASE ClientReturn
    BY <2>3, ClientReturnStep
  <2> QED
    BY <1>2, <2>1, <2>2, <2>3 DEF run_client
<1>3. CASE Yao
  BY <1>3, YaoStep
<1>4. CASE UNCHANGED vars
  BY <1>4 DEF vars, IInv, TypeOK, InStep, Decoded, UsedBefore, Current, Job
<1> QED
  BY <1>1, <1>2, <1>3, <1>4 DEF Next

(* The invariant: types, the parties' runs in step, counters of past runs  *)
(* only, and what is under way belongs to the run both parties are in.     *)
THEOREM RunsInStep == Spec => []IInv
<1> QED
  BY InitInv, NextInv, PTL DEF Spec, Safe

(* Every variable of poly_oblivious_map keeps its type.                    *)
THEOREM PolyTypeCorrect == Spec => []TypeOK
<1>1. IInv => TypeOK
  BY DEF IInv
<1> QED
  BY <1>1, RunsInStep, PTL

(* The nonces, which poly_oblivious_map.tpp never sends, are equal whenever*)
(* a polynomial is evaluated and decrypted, after any number of runs.      *)
THEOREM NoncesAgree == Spec => []NoncesInStep
<1>1. IInv => NoncesInStep
  <2> SUFFICES ASSUME IInv PROVE NoncesInStep
    OBVIOUS
  <2>1. chan # <<>> => pc["server"] = "yao"
    BY DEF IInv, Current
  <2>2. nonce["client"] = run["client"] /\ nonce["server"] = run["server"]
    BY DEF IInv, InStep, Parties
  <2>3. pc["client"] = "yao" => pc["server"] = "yao"
    BY DEF IInv, InStep
  <2> QED
    BY <2>1, <2>2, <2>3, RunFacts DEF NoncesInStep
<1> QED
  BY <1>1, RunsInStep, PTL

(* run_server never encrypts two values under one key and counter in two   *)
(* of its runs, though it draws the key only once.                         *)
THEOREM CountersNeverRepeat == Spec => CountersFresh
<1> DEFINE Fresh == Len(chan') > Len(chan) =>
                      \A pt \in chan'[Len(chan')] : <<pt.cipher.key, pt.cipher.ctr>> \notin used
<1>1. IInv /\ [Next]_vars => [Fresh]_vars
  <2> SUFFICES ASSUME IInv, Next, Len(chan') > Len(chan) PROVE Fresh
    OBVIOUS
  <2>1. ServerSend
    <3>1. CASE chan' = chan
      <4>1. Len(chan) \in Nat
        BY DEF IInv, TypeOK
      <4> QED
        BY <3>1, <4>1
    <3>2. CASE ClientEvaluate
      <4>1. chan \in Seq(SUBSET [at : Nat, cipher : Ciphertexts]) /\ chan # <<>>
        BY <3>2 DEF IInv, TypeOK, ClientEvaluate
      <4>2. Len(Tail(chan)) = Len(chan) - 1 /\ Len(chan) \in Nat
        BY <4>1
      <4> QED
        BY <3>2, <4>2 DEF ClientEvaluate
    <3> QED
      BY <3>1, <3>2 DEF Next, run_server, run_client, Call, Yao, ClientReturn
  <2> DEFINE points == {Point(Job("server").pairs[n], key') : n \in DOMAIN Job("server").pairs}
  <2>2. pc["server"] = "send" /\ chan' = Append(chan, points)
    BY <2>1 DEF ServerSend
  <2>3. chan = <<>>
    BY <2>2 DEF IInv, Current
  <2>4. chan'[Len(chan')] = points
    <3> HIDE DEF points
    <3> QED
      BY <2>2, <2>3
  <2>5. \A pt \in points : pt.cipher.ctr.nonce = nonce["server"]
    BY DEF Point, Counter
  <2>6. \A u \in used : u[2].nonce < nonce["server"] /\ u[2].nonce \in Nat
    BY <2>2 DEF IInv, UsedBefore, TypeOK, Counters
  <2>7. nonce["server"] \in Nat
    BY DEF IInv, TypeOK, Parties
  <2>8. ASSUME NEW pt \in points, <<pt.cipher.key, pt.cipher.ctr>> \in used PROVE FALSE
    BY <2>5, <2>6, <2>7, <2>8
  <2> HIDE DEF points
  <2> QED
    BY <2>4, <2>8
<1> QED
  BY <1>1, RunsInStep, PTL DEF Spec, Safe, CountersFresh

-----------------------------------------------------------------------------
(* The values that called and returned of the contract have.               *)
returnedOM == [p \in Parties |-> Returned(p)]

(* A step that only a party takes part in changes its Returned alone.      *)
LEMMA ReturnedSame ==
  ASSUME IInv, pc' \in [Parties -> {"idle", "send", "recv", "yao", "reply"}],
         NEW p \in Parties, pc[p] # "idle", pc'[p] # "idle", run' = run,
         \A q \in Parties \ {p} : pc'[q] = pc[q]
  PROVE  returnedOM' = returnedOM
<1>1. \A q \in Parties : Returned(q)' = Returned(q)
  BY DEF Returned
<1> QED
  BY <1>1 DEF returnedOM

LEMMA CallRefines ==
  ASSUME IInv, NEW p \in Parties, NEW next, next # "idle", Call(p, next)
  PROVE  OM!Call(p)
<1>1. /\ pc[p] = "idle" /\ run[p] < NumRuns /\ run' = [run EXCEPT ![p] = @ + 1]
      /\ pc' = [pc EXCEPT ![p] = next] /\ job' = job /\ out' = out
  BY DEF Call
<1>2. /\ pc \in [Parties -> {"idle", "send", "recv", "yao", "reply"}]
      /\ run \in [Parties -> 0 .. NumRuns]
  BY DEF IInv, TypeOK
<1>3. run[p] \in Nat /\ run'[p] = run[p] + 1 /\ pc'[p] = next
  BY <1>1, <1>2, JobsAssumption
<1>4. Returned(p) = run[p] /\ Returned(p)' = run[p]
  BY <1>1, <1>3 DEF Returned
<1>5. \A q \in Parties \ {p} : Returned(q)' = Returned(q)
  BY <1>1, <1>2 DEF Returned
<1>6. returnedOM' = returnedOM
  BY <1>4, <1>5 DEF returnedOM
<1>7. returnedOM[p] = run[p]
  BY <1>4 DEF returnedOM
<1> QED
  BY <1>1, <1>6, <1>7 DEF OM!Call, returnedOM

(* The server returns in the step of the circuit.                          *)
LEMMA YaoRefines == IInv /\ Yao => OM!Return("server")
<1> SUFFICES ASSUME IInv, Yao PROVE OM!Return("server")
  OBVIOUS
<1>1. /\ pc["server"] = "yao" /\ pc["client"] = "yao"
      /\ pc' = [server |-> "idle", client |-> "reply"]
      /\ UNCHANGED <<job, run, out>>
  BY DEF Yao, Parties
<1>2. /\ run["server"] \in Nat /\ run["client"] = run["server"]
      /\ run["server"] >= 1
  BY <1>1, RunFacts DEF IInv, InStep, Parties
<1>3. /\ Returned("server") = run["server"] - 1 /\ Returned("server")' = run["server"]
      /\ Returned("client")' = Returned("client")
  BY <1>1 DEF Returned
<1>4. returnedOM["server"] = run["server"] - 1
  BY <1>3 DEF returnedOM, Parties
<1>5. returnedOM' = [returnedOM EXCEPT !["server"] = @ + 1]
  <2>1. returnedOM["server"] + 1 = run["server"]
    BY <1>2, <1>4
  <2>2. [returnedOM EXCEPT !["server"] = @ + 1]
          = [p \in Parties |-> IF p = "server" THEN run["server"] ELSE Returned(p)]
    BY <2>1 DEF returnedOM
  <2>3. returnedOM' = [p \in Parties |-> IF p = "server" THEN run["server"] ELSE Returned(p)]
    BY <1>3 DEF returnedOM, Parties
  <2> QED
    BY <2>2, <2>3
<1>6. returnedOM["server"] < run["server"] /\ \A q \in Parties : returnedOM["server"] < run[q]
  BY <1>2, <1>4 DEF Parties
<1> QED
  BY <1>1, <1>5, <1>6 DEF OM!Return, OM!CanReturn, OM!Parties, Parties, returnedOM

(* The answers are the same in both modules.                               *)
LEMMA AnswerSame == ASSUME NEW j PROVE OM!Answer(j) = Answer(j)
<1> QED
  BY DEF OM!Answer, Answer, OM!Lookup, Lookup, OM!Has, Has, OM!ValueOf, ValueOf

LEMMA ClientReturnRefines == IInv /\ ClientReturn => OM!Return("client")
<1> SUFFICES ASSUME IInv, ClientReturn PROVE OM!Return("client")
  OBVIOUS
<1>1. /\ pc["client"] = "reply" /\ pc' = [pc EXCEPT !["client"] = "idle"]
      /\ out' = Append(out, result) /\ UNCHANGED <<job, run>>
  BY DEF ClientReturn
<1>2. /\ run["client"] \in Nat /\ run["server"] \in Nat
      /\ run["client"] >= 1 /\ run["client"] <= run["server"]
  BY <1>1, RunFacts DEF IInv, InStep, Parties
<1>3. pc'["client"] = "idle" /\ pc'["server"] = pc["server"]
  BY <1>1 DEF IInv, TypeOK, Parties
<1>4. /\ Returned("client") = run["client"] - 1 /\ Returned("client")' = run["client"]
      /\ Returned("server")' = Returned("server")
  BY <1>1, <1>3 DEF Returned
<1>5. returnedOM["client"] = run["client"] - 1
  BY <1>4 DEF returnedOM, Parties
<1>6. returnedOM' = [returnedOM EXCEPT !["client"] = @ + 1]
  <2>1. returnedOM["client"] + 1 = run["client"]
    BY <1>2, <1>5
  <2>2. [returnedOM EXCEPT !["client"] = @ + 1]
          = [p \in Parties |-> IF p = "client" THEN run["client"] ELSE Returned(p)]
    BY <2>1 DEF returnedOM
  <2>3. returnedOM' = [p \in Parties |-> IF p = "client" THEN run["client"] ELSE Returned(p)]
    BY <1>4 DEF returnedOM, Parties
  <2> QED
    BY <2>2, <2>3
<1>7. returnedOM["client"] < run["client"] /\ \A q \in Parties : returnedOM["client"] < run[q]
  BY <1>2, <1>5 DEF Parties
<1>8. result = Answer(job[run["client"]])
  BY <1>1 DEF IInv, Current, Job
<1>9. result = OM!Answer(job[run["client"]])
  BY <1>8, AnswerSame
<1> QED
  BY <1>1, <1>6, <1>7, <1>9 DEF OM!Return, OM!CanReturn, OM!Parties, Parties, returnedOM

LEMMA NextRefines == IInv /\ [Next]_vars => [OM!Next]_OM!vars
<1> SUFFICES ASSUME IInv, [Next]_vars PROVE OM!Next \/ UNCHANGED OM!vars
  OBVIOUS
<1>1. CASE Call("server", "send")
  BY <1>1, CallRefines DEF OM!Next, OM!Parties, Parties
<1>2. CASE Call("client", "recv")
  BY <1>2, CallRefines DEF OM!Next, OM!Parties, Parties
<1>3. CASE ServerSend
  <2>1. /\ pc["server"] = "send" /\ pc' = [pc EXCEPT !["server"] = "yao"]
        /\ UNCHANGED <<job, run, out>>
    BY <1>3 DEF ServerSend
  <2>2. /\ pc' \in [Parties -> {"idle", "send", "recv", "yao", "reply"}]
        /\ pc'["server"] = "yao" /\ pc'["client"] = pc["client"]
    BY <2>1 DEF IInv, TypeOK, Parties
  <2>3. returnedOM' = returnedOM
    BY <2>1, <2>2, ReturnedSame DEF Parties
  <2> QED
    BY <2>1, <2>3 DEF OM!vars, returnedOM
<1>4. CASE ClientEvaluate
  <2>1. /\ pc["client"] = "recv" /\ pc' = [pc EXCEPT !["client"] = "yao"]
        /\ UNCHANGED <<job, run, out>>
    BY <1>4 DEF ClientEvaluate
  <2>2. /\ pc' \in [Parties -> {"idle", "send", "recv", "yao", "reply"}]
        /\ pc'["client"] = "yao" /\ pc'["server"] = pc["server"]
    BY <2>1 DEF IInv, TypeOK, Parties
  <2>3. returnedOM' = returnedOM
    BY <2>1, <2>2, ReturnedSame DEF Parties
  <2> QED
    BY <2>1, <2>3 DEF OM!vars, returnedOM
<1>5. CASE Yao
  BY <1>5, YaoRefines DEF OM!Next, OM!Parties
<1>6. CASE ClientReturn
  BY <1>6, ClientReturnRefines DEF OM!Next, OM!Parties
<1>7. CASE UNCHANGED vars
  BY <1>7 DEF vars, OM!vars, Returned
<1> QED
  BY <1>1, <1>2, <1>3, <1>4, <1>5, <1>6, <1>7 DEF Next, run_server, run_client

(* In every run of the two objects poly_oblivious_map returns to the client*)
(* what oblivious_map.hpp promises, and neither party returns before both  *)
(* have called: the safety part of ImplementsMap.                          *)
THEOREM RefinesObliviousMap == Spec => OM!Safe
<1>1. Init => OM!Init
  BY DEF Init, OM!Init, OM!Parties, Parties, Returned
<1> QED
  BY <1>1, NextRefines, RunsInStep, PTL DEF Spec, Safe, OM!Safe
=============================================================================
