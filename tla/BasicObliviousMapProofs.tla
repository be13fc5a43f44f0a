---------------------- MODULE BasicObliviousMapProofs ----------------------
(* basic_oblivious_map for any jobs and any number of runs: the dense      *)
(* vector holds the pairs but for a key 0 that comes first, a vector is    *)
(* decrypted in the run it was sent for, and every run returns what        *)
(* oblivious_map.hpp promises of the pairs the vector holds.               *)
EXTENDS BasicObliviousMap, SequenceTheorems, TLAPS

(* The runs of party p that have been through the circuit.                 *)
Decoded(p) == IF pc[p] \in {"store", "recv", "yao"} THEN run[p] - 1 ELSE run[p]

(* The parties go through the circuit together, and the client waits for it*)
(* only after the server does, which has a key by then.                    *)
InStep ==
  /\ \A p \in Parties : pc[p] # "idle" => run[p] >= 1
  /\ Decoded("server") = Decoded("client")
  /\ pc["client"] = "yao" => pc["server"] = "yao"
  /\ pc["server"] = "yao" => key \in CipherKeys

(* Pair p of job j is kept, and v holds the first s pairs: those kept where*)
(* their key says, and zeros elsewhere.  It never has room for key 0 alone.*)
Keeps(j, p) == j.pairs[p][1] > 0 \/ p > 1
IsFilled(v, j, s) ==
  /\ Len(v) # 1
  /\ s = 0 => v = <<>>
  /\ \A p \in 1 .. s : Keeps(j, p) =>
       /\ j.pairs[p][1] + 1 \in 1 .. Len(v)
       /\ v[j.pairs[p][1] + 1] = [value |-> j.pairs[p][2], set |-> 1]
  /\ \A x \in 1 .. Len(v) :
       (\A p \in 1 .. s : Keeps(j, p) => j.pairs[p][1] # x - 1) => v[x] = Unset

Filled ==
  /\ pc["server"] \in {"store", "yao"} =>
       /\ stored <= Len(Job("server").pairs)
       /\ IsFilled(vec, Job("server"), stored)
  /\ pc["server"] = "yao" => stored = Len(Job("server").pairs)

(* What is on its way, in the circuit or in the reply belongs to the run   *)
(* both parties are in.                                                    *)
IndexesOf(j) ==
  [n \in DOMAIN j.keys |-> [index |-> j.keys[n], valid |-> j.keys[n] \in 0 .. Len(vec) - 1]]
SelectedOf(j) ==
  [n \in DOMAIN j.keys |->
     IF j.keys[n] \in 0 .. Len(vec) - 1 THEN Encrypted(key)[j.keys[n] + 1] ELSE Blank]
Current ==
  /\ chan = IF pc["server"] = "yao" /\ pc["client"] # "yao" THEN <<Encrypted(key)>> ELSE <<>>
  /\ pc["client"] = "yao" => /\ indexes = IndexesOf(Job("client"))
                             /\ selected = SelectedOf(Job("client"))
  /\ pc["client"] = "reply" => result = Answer(KeptJob(Job("client")))

IInv == TypeOK /\ InStep /\ Filled /\ Current

LEMMA InitInv == Init => IInv
<1> SUFFICES ASSUME Init PROVE IInv
  OBVIOUS
<1>1. TypeOK
  <2>1. run \in [Parties -> 0 .. NumRuns]
    BY JobsAssumption DEF Init
  <2>2. /\ vec \in Seq(Entries) /\ chan \in Seq(Seq(Ciphertexts))
        /\ indexes \in Seq([index : Int, valid : BOOLEAN])
        /\ selected \in Seq(Ciphertexts \cup {Blank})
        /\ result \in Seq(T) /\ out \in Seq(Seq(T))
    BY DEF Init
  <2> QED
    BY <2>1, <2>2 DEF Init, TypeOK, Parties
<1>2. InStep
  BY DEF Init, InStep, Decoded, Parties
<1>3. Filled /\ Current
  BY DEF Init, Filled, Current, Parties
<1> QED
  BY <1>1, <1>2, <1>3 DEF IInv

(* A function on the places of a sequence is a sequence.                   *)
LEMMA SameLength ==
  ASSUME NEW X, NEW s \in Seq(X), NEW S, NEW f, f = [n \in DOMAIN s |-> f[n]],
         \A n \in DOMAIN s : f[n] \in S
  PROVE  f \in Seq(S) /\ Len(f) = Len(s)
<1>1. Len(s) \in Nat /\ DOMAIN s = 1 .. Len(s)
  BY LenProperties
<1>2. f \in [1 .. Len(s) -> S]
  BY <1>1
<1> QED
  BY <1>1, <1>2, SeqDef, LenProperties

LEMMA Tabulated ==
  ASSUME NEW n \in Nat, NEW S, NEW f, f = [x \in 1 .. n |-> f[x]], \A x \in 1 .. n : f[x] \in S
  PROVE  f \in Seq(S) /\ Len(f) = n
<1>1. f \in [1 .. n -> S]
  OBVIOUS
<1> QED
  BY <1>1, SeqDef, LenProperties

(* The jobs the parties are in, and how far they can be apart.             *)
LEMMA JobFacts ==
  ASSUME IInv, NEW p \in Parties, pc[p] # "idle"
  PROVE  /\ Job(p) \in Jobs
         /\ Job(p).pairs \in Seq(Nat \X T)
         /\ Job(p).defaults \in Seq(T)
         /\ Job(p).keys \in Seq(Int)
         /\ Job(p).shared \in BOOLEAN
         /\ Len(Job(p).keys) <= Len(Job(p).defaults)
         /\ \A m, n \in DOMAIN Job(p).pairs :
              Job(p).pairs[m][1] = Job(p).pairs[n][1] => m = n
<1>1. run[p] \in 1 .. NumRuns
  BY JobsAssumption DEF IInv, TypeOK, InStep
<1>2. Job(p) \in Jobs
  BY <1>1 DEF IInv, TypeOK, Job
<1>3. Job(p) \in JobType
  BY <1>2, JobsAssumption
<1> QED
  BY <1>2, <1>3, JobsAssumption DEF JobType

Phases == {"idle", "store", "recv", "yao", "reply"}

LEMMA RunFacts ==
  ASSUME IInv
  PROVE  /\ run["server"] \in Nat /\ run["client"] \in Nat
         /\ pc["server"] \in {"idle", "store", "yao"}
         /\ pc["client"] \in {"idle", "recv", "yao", "reply"}
         /\ pc \in [Parties -> Phases]
         /\ pc["client"] = "reply" => run["client"] <= run["server"]
         /\ pc["server"] = "yao" /\ pc["client"] \in {"recv", "yao"} =>
              run["client"] = run["server"]
<1>1. run["server"] \in Nat /\ run["client"] \in Nat
  BY JobsAssumption DEF IInv, TypeOK, Parties
<1>2. /\ pc["server"] \in {"idle", "store", "yao"}
      /\ pc["client"] \in {"idle", "recv", "yao", "reply"}
      /\ pc \in [Parties -> Phases]
  BY DEF IInv, TypeOK, Parties, Phases
<1>3. Decoded("server") = Decoded("client")
  BY DEF IInv, InStep
<1>4. ASSUME pc["client"] = "reply" PROVE run["client"] <= run["server"]
  BY <1>1, <1>2, <1>3, <1>4 DEF Decoded
<1>5. ASSUME pc["server"] = "yao", pc["client"] \in {"recv", "yao"}
      PROVE  run["client"] = run["server"]
  BY <1>1, <1>3, <1>5 DEF Decoded
<1> QED
  BY <1>1, <1>2, <1>4, <1>5

LEMMA ServerCallStep == IInv /\ ServerCall => IInv'
<1> SUFFICES ASSUME IInv, ServerCall PROVE IInv'
  OBVIOUS
<1>1. /\ pc["server"] = "idle" /\ run["server"] < NumRuns /\ vec' = <<>> /\ stored' = 0
      /\ run' = [run EXCEPT !["server"] = @ + 1] /\ pc' = [pc EXCEPT !["server"] = "store"]
      /\ UNCHANGED <<job, key, chan, indexes, selected, result, out>>
  BY DEF ServerCall
<1>2. /\ pc \in [Parties -> Phases] /\ run \in [Parties -> 0 .. NumRuns]
      /\ "server" \in Parties /\ "client" \in Parties /\ "server" # "client"
      /\ run["server"] \in Nat
  BY RunFacts DEF IInv, TypeOK, Parties
<1>3. /\ pc'["server"] = "store" /\ pc'["client"] = pc["client"] /\ DOMAIN pc' = Parties
      /\ run'["server"] = run["server"] + 1 /\ run'["client"] = run["client"]
  BY <1>1, <1>2
<1>4. pc["client"] # "yao" /\ chan = <<>>
  BY <1>1 DEF IInv, InStep, Current
<1>5. TypeOK'
  <2>1. run["server"] + 1 \in 0 .. NumRuns
    BY <1>1, <1>2, JobsAssumption
  <2>2. run' \in [Parties -> 0 .. NumRuns]
    BY <1>1, <1>2, <2>1
  <2>3. vec' \in Seq(Entries) /\ stored' \in Nat
    BY <1>1
  <2> QED
    BY <1>1, <1>3, <2>2, <2>3 DEF IInv, TypeOK
<1>6. InStep'
  BY <1>1, <1>2, <1>3 DEF IInv, InStep, Decoded, Parties
<1>7. Filled'
  <2>1. pc["server"] = "idle" /\ (Job("server") \in Jobs)'
    BY <1>1, <1>2, <1>3, JobsAssumption DEF IInv, TypeOK, Job
  <2>2. (0 <= Len(Job("server").pairs))'
    BY <2>1, JobsAssumption, LenProperties DEF JobType
  <2>3. (IsFilled(<<>>, Job("server"), 0))'
    BY DEF IsFilled
  <2> QED
    BY <1>1, <1>3, <2>2, <2>3 DEF Filled
<1>8. Current'
  BY <1>1, <1>3, <1>4 DEF IInv, Current, Job
<1> QED
  BY <1>5, <1>6, <1>7, <1>8 DEF IInv

(* The vector with room for the next key: the entries stay, new ones are   *)
(* unset, and there is room unless it is key 0 in an empty vector.         *)
LEMMA ResizedIs ==
  ASSUME vec \in Seq(Entries), Len(vec) # 1, NEW k \in Nat
  PROVE  /\ Resized(k) \in Seq(Entries)
         /\ Len(Resized(k)) \in Nat /\ Len(Resized(k)) >= Len(vec) /\ Len(Resized(k)) # 1
         /\ \A x \in 1 .. Len(Resized(k)) :
              Resized(k)[x] = IF x <= Len(vec) THEN vec[x] ELSE Unset
         /\ k + 1 > Len(Resized(k)) => k = 0 /\ Len(Resized(k)) = 0
<1>1. Len(vec) \in Nat /\ Unset \in Entries /\ \A x \in 1 .. Len(vec) : vec[x] \in Entries
  BY LenProperties, ElementOfSeq, RingClosed DEF Unset, Entries
<1>2. \/ vec = <<>> /\ Len(vec) = 0 /\ max_key = 0
      \/ Len(vec) >= 2 /\ max_key = Len(vec) - 1
  <2>1. CASE vec = <<>>
    BY <2>1 DEF max_key
  <2>2. CASE vec # <<>>
    <3>1. Len(vec) # 0
      BY <2>2, EmptySeq
    <3> DEFINE l == Len(vec)
    <3>2. l >= 2
      <4>1. l \in Nat /\ l # 0 /\ l # 1
        BY <1>1, <3>1
      <4> HIDE DEF l
      <4> QED
        BY <4>1
    <3>3. max_key = Len(vec) - 1
      BY <2>2 DEF max_key
    <3> QED
      BY <3>2, <3>3
  <2> QED
    BY <2>1, <2>2
<1>3. CASE k > max_key
  <2> DEFINE R == [x \in 1 .. k + 1 |-> IF x <= Len(vec) THEN vec[x] ELSE Unset]
  <2>1. Resized(k) = R
    BY <1>3 DEF Resized
  <2>2. \A x \in 1 .. k + 1 : R[x] \in Entries
    BY <1>1
  <2>3. R \in Seq(Entries) /\ Len(R) = k + 1
    BY <2>2, Tabulated
  <2>4. k + 1 >= Len(vec) /\ k + 1 # 1
    BY <1>1, <1>2, <1>3
  <2>5. \A x \in 1 .. k + 1 : R[x] = IF x <= Len(vec) THEN vec[x] ELSE Unset
    OBVIOUS
  <2> HIDE DEF R
  <2> QED
    BY <2>1, <2>3, <2>4, <2>5
<1>4. CASE ~(k > max_key)
  <2>1. Resized(k) = vec
    BY <1>4 DEF Resized
  <2> QED
    BY <1>1, <1>2, <1>4, <2>1
<1> QED
  BY <1>3, <1>4

(* A turn of the loop over the input keeps the vector filled.              *)
LEMMA StoreFills ==
  ASSUME IInv, ServerStore
  PROVE  vec' \in Seq(Entries) /\ IsFilled(vec', Job("server"), stored + 1)
<1> DEFINE j == Job("server")
           s == stored
           k == j.pairs[s + 1][1]
           w == j.pairs[s + 1][2]
           R == Resized(k)
           N == Len(R)
<1>1. /\ pc["server"] = "store" /\ s < Len(j.pairs) /\ s \in Nat /\ vec \in Seq(Entries)
      /\ IsFilled(vec, j, s)
      /\ vec' = [x \in 1 .. N |-> IF x = k + 1 THEN [value |-> w, set |-> 1] ELSE R[x]]
  BY DEF ServerStore, IInv, TypeOK, Filled
<1>2. /\ j.pairs \in Seq(Nat \X T) /\ Len(j.pairs) \in Nat
      /\ DOMAIN j.pairs = 1 .. Len(j.pairs)
      /\ \A m, n \in 1 .. Len(j.pairs) : j.pairs[m][1] = j.pairs[n][1] => m = n
  <2>1. pc["server"] # "idle" /\ "server" \in Parties
    BY <1>1 DEF Parties
  <2>2. /\ j.pairs \in Seq(Nat \X T)
        /\ \A m, n \in DOMAIN j.pairs : j.pairs[m][1] = j.pairs[n][1] => m = n
    BY <2>1, JobFacts
  <2> QED
    BY <2>2, LenProperties
<1>3. /\ s + 1 \in 1 .. Len(j.pairs) /\ 1 .. s \subseteq 1 .. Len(j.pairs)
      /\ \A p \in 1 .. Len(j.pairs) : j.pairs[p][1] \in Nat /\ j.pairs[p][2] \in T
  <2>1. \A p \in 1 .. Len(j.pairs) : j.pairs[p] \in Nat \X T
    BY <1>2, ElementOfSeq
  <2> QED
    BY <1>1, <1>2, <2>1
<1>4. k \in Nat /\ w \in T
  BY <1>3
<1>5. /\ R \in Seq(Entries) /\ N \in Nat /\ N >= Len(vec) /\ N # 1 /\ Len(vec) \in Nat
      /\ \A x \in 1 .. N : R[x] = IF x <= Len(vec) THEN vec[x] ELSE Unset
      /\ k + 1 > N => k = 0 /\ N = 0
  BY <1>1, <1>4, ResizedIs, LenProperties DEF IsFilled
<1> HIDE DEF R, N, k, w
<1>6. \A x \in 1 .. N : R[x] \in Entries
  BY <1>5, ElementOfSeq DEF N
<1>7. vec' \in Seq(Entries) /\ Len(vec') = N
  <2>1. [value |-> w, set |-> 1] \in Entries
    BY <1>4 DEF Entries
  <2> DEFINE V == [x \in 1 .. N |-> IF x = k + 1 THEN [value |-> w, set |-> 1] ELSE R[x]]
  <2>2. \A x \in 1 .. N : V[x] \in Entries
    BY <1>6, <2>1
  <2>3. V \in Seq(Entries) /\ Len(V) = N
    BY <1>5, <2>2, Tabulated
  <2> QED
    BY <1>1, <2>3
<1>8. ASSUME NEW p \in 1 .. s + 1, Keeps(j, p)
      PROVE  /\ j.pairs[p][1] + 1 \in 1 .. N
             /\ vec'[j.pairs[p][1] + 1] = [value |-> j.pairs[p][2], set |-> 1]
  <2>1. CASE p \in 1 .. s
    <3> DEFINE x == j.pairs[p][1] + 1
    <3>1. x \in 1 .. Len(vec) /\ vec[x] = [value |-> j.pairs[p][2], set |-> 1]
      BY <1>1, <1>8, <2>1 DEF IsFilled
    <3>2. j.pairs[p][1] # k /\ j.pairs[p][1] \in Nat
      BY <1>1, <1>2, <1>3, <2>1 DEF k
    <3>3. x # k + 1
      BY <1>4, <3>2
    <3> HIDE DEF x
    <3>4. x \in 1 .. N /\ x <= Len(vec)
      BY <1>5, <3>1
    <3> QED
      BY <1>1, <1>5, <3>1, <3>3, <3>4 DEF x
  <2>2. CASE p = s + 1
    <3>1. k + 1 \in 1 .. N
      <4> SUFFICES ASSUME k + 1 > N PROVE FALSE
        BY <1>4, <1>5
      <4>1. k = 0 /\ N = 0 /\ Len(vec) = 0
        BY <1>5
      <4>2. s >= 1
        BY <1>1, <1>8, <2>2, <4>1 DEF Keeps, k
      <4>3. 1 \in 1 .. s /\ j.pairs[1][1] # k /\ j.pairs[1][1] \in Nat
        BY <1>1, <1>2, <1>3, <4>2 DEF k
      <4>4. Keeps(j, 1)
        BY <4>1, <4>3 DEF Keeps
      <4>5. j.pairs[1][1] + 1 \in 1 .. Len(vec)
        BY <1>1, <4>3, <4>4 DEF IsFilled
      <4> QED
        BY <4>1, <4>5
    <3> QED
      BY <1>1, <2>2, <3>1 DEF k, w
  <2> QED
    BY <1>1, <2>1, <2>2
<1>9. ASSUME NEW x \in 1 .. N, \A p \in 1 .. s + 1 : Keeps(j, p) => j.pairs[p][1] # x - 1
      PROVE  vec'[x] = Unset
  <2>1. x # k + 1
    <3> SUFFICES ASSUME x = k + 1 PROVE FALSE
      OBVIOUS
    <3>1. s + 1 \in 1 .. s + 1 /\ k = x - 1
      BY <1>1, <1>4
    <3>2. ~Keeps(j, s + 1)
      BY <1>9, <3>1 DEF k
    <3>3. k = 0 /\ s = 0
      BY <1>1, <1>4, <3>2 DEF Keeps, k
    <3>4. vec = <<>>
      BY <1>1, <3>3 DEF IsFilled
    <3>5. max_key = 0 /\ R = vec
      BY <3>3, <3>4 DEF max_key, R, Resized
    <3> QED
      BY <1>5, <3>4, <3>5 DEF N
  <2>2. x <= Len(vec) => vec[x] = Unset
    <3>1. \A p \in 1 .. s : p \in 1 .. s + 1
      BY <1>1
    <3>2. \A p \in 1 .. s : Keeps(j, p) => j.pairs[p][1] # x - 1
      BY <1>9, <3>1
    <3> QED
      BY <1>1, <1>5, <3>2 DEF IsFilled
  <2> QED
    BY <1>1, <1>5, <2>1, <2>2
<1> QED
  BY <1>1, <1>5, <1>7, <1>8, <1>9 DEF IsFilled

LEMMA ServerStoreStep == IInv /\ ServerStore => IInv'
<1> SUFFICES ASSUME IInv, ServerStore PROVE IInv'
  OBVIOUS
<1>1. /\ pc["server"] = "store" /\ stored' = stored + 1 /\ stored < Len(Job("server").pairs)
      /\ UNCHANGED <<job, pc, run, key, chan, indexes, selected, result, out>>
  BY DEF ServerStore
<1>2. vec' \in Seq(Entries) /\ IsFilled(vec', Job("server"), stored + 1)
  BY StoreFills
<1>3. pc["client"] # "yao"
  BY <1>1 DEF IInv, InStep
<1>4. stored \in Nat /\ Len(Job("server").pairs) \in Nat
  BY <1>1, JobFacts, LenProperties DEF IInv, TypeOK, Parties
<1>5. TypeOK'
  BY <1>1, <1>2, <1>4 DEF IInv, TypeOK
<1>6. InStep'
  BY <1>1 DEF IInv, InStep, Decoded
<1>7. Filled'
  <2>1. Job("server")' = Job("server")
    BY <1>1 DEF Job
  <2> QED
    BY <1>1, <1>2, <1>4, <2>1 DEF Filled
<1>8. Current'
  BY <1>1, <1>3 DEF IInv, Current, Job
<1> QED
  BY <1>5, <1>6, <1>7, <1>8 DEF IInv

(* The vector that is sent: an entry under each counter.                   *)
LEMMA EncryptedIs ==
  ASSUME vec \in Seq(Entries), NEW k \in CipherKeys
  PROVE  Encrypted(k) \in Seq(Ciphertexts) /\ Len(Encrypted(k)) = Len(vec)
<1>1. Len(vec) \in Nat /\ \A x \in 1 .. Len(vec) : vec[x] \in Entries
  BY LenProperties, ElementOfSeq
<1>2. \A x \in 1 .. Len(vec) : [key |-> k, ctr |-> x - 1, plain |-> vec[x]] \in Ciphertexts
  BY <1>1 DEF Ciphertexts
<1> DEFINE V == [x \in 1 .. Len(vec) |-> [key |-> k, ctr |-> x - 1, plain |-> vec[x]]]
<1>3. V \in Seq(Ciphertexts) /\ Len(V) = Len(vec)
  BY <1>1, <1>2, Tabulated
<1> QED
  BY <1>3 DEF Encrypted

LEMMA ServerSendStep == IInv /\ ServerSend => IInv'
<1> SUFFICES ASSUME IInv, ServerSend PROVE IInv'
  OBVIOUS
<1>1. /\ pc["server"] = "store" /\ stored = Len(Job("server").pairs)
      /\ key' \in CipherKeys /\ pc' = [pc EXCEPT !["server"] = "yao"]
      /\ chan' = Append(chan, Encrypted(key'))
      /\ UNCHANGED <<job, run, vec, stored, indexes, selected, result, out>>
  BY DEF ServerSend, IInv, TypeOK
<1>2. /\ pc \in [Parties -> Phases] /\ "server" \in Parties /\ "client" \in Parties
      /\ vec \in Seq(Entries)
  BY RunFacts DEF IInv, TypeOK, Parties
<1>3. pc'["server"] = "yao" /\ pc'["client"] = pc["client"] /\ pc' \in [Parties -> Phases]
  BY <1>1, <1>2 DEF Phases
<1>4. pc["client"] # "yao" /\ chan = <<>>
  BY <1>1 DEF IInv, InStep, Current
<1>5. Encrypted(key') \in Seq(Ciphertexts) /\ chan' = <<Encrypted(key')>>
  BY <1>1, <1>2, <1>4, EncryptedIs
<1>6. TypeOK'
  <2>1. chan' \in Seq(Seq(Ciphertexts))
    BY <1>5
  <2> QED
    BY <1>1, <1>3, <2>1 DEF IInv, TypeOK, Phases
<1>7. InStep'
  <2>1. \A p \in Parties : pc'[p] # "idle" => run'[p] >= 1
    BY <1>1, <1>3 DEF IInv, InStep, Parties
  <2>2. Decoded("server")' = Decoded("server") /\ Decoded("client")' = Decoded("client")
    BY <1>1, <1>3 DEF Decoded
  <2> QED
    BY <1>1, <1>3, <2>1, <2>2 DEF IInv, InStep
<1>8. Filled'
  BY <1>1, <1>3 DEF IInv, Filled, Job
<1>9. Current'
  <2>1. Encrypted(key') = Encrypted(key)'
    BY <1>1 DEF Encrypted
  <2> QED
    BY <1>1, <1>3, <1>4, <1>5, <2>1 DEF IInv, Current, Job
<1> QED
  BY <1>6, <1>7, <1>8, <1>9 DEF IInv

LEMMA ClientCallStep == IInv /\ ClientCall => IInv'
<1> SUFFICES ASSUME IInv, ClientCall PROVE IInv'
  OBVIOUS
<1>1. /\ pc["client"] = "idle" /\ run["client"] < NumRuns
      /\ run' = [run EXCEPT !["client"] = @ + 1] /\ pc' = [pc EXCEPT !["client"] = "recv"]
      /\ UNCHANGED <<job, vec, stored, key, chan, indexes, selected, result, out>>
  BY DEF ClientCall
<1>2. /\ pc \in [Parties -> Phases] /\ run \in [Parties -> 0 .. NumRuns]
      /\ "server" \in Parties /\ "client" \in Parties /\ "server" # "client"
      /\ run["client"] \in Nat
  BY RunFacts DEF IInv, TypeOK, Parties
<1>3. /\ pc'["client"] = "recv" /\ pc'["server"] = pc["server"] /\ pc' \in [Parties -> Phases]
      /\ run'["client"] = run["client"] + 1 /\ run'["server"] = run["server"]
  BY <1>1, <1>2 DEF Phases
<1>4. TypeOK'
  <2>1. run["client"] + 1 \in 0 .. NumRuns
    BY <1>1, <1>2, JobsAssumption
  <2>2. run' \in [Parties -> 0 .. NumRuns]
    BY <1>1, <1>2, <2>1
  <2> QED
    BY <1>1, <1>3, <2>2 DEF IInv, TypeOK, Phases
<1>5. InStep'
  BY <1>1, <1>2, <1>3 DEF IInv, InStep, Decoded, Parties
<1>6. Filled'
  BY <1>1, <1>3 DEF IInv, Filled, Job
<1>7. Current'
  BY <1>1, <1>3 DEF IInv, Current, Job, Encrypted
<1> QED
  BY <1>4, <1>5, <1>6, <1>7 DEF IInv

LEMMA ClientSelectStep == IInv /\ ClientSelect => IInv'
<1> SUFFICES ASSUME IInv, ClientSelect PROVE IInv'
  OBVIOUS
<1> DEFINE j == Job("client")
           all == Encrypted(key)
<1>1. /\ pc["client"] = "recv" /\ chan # <<>> /\ chan' = Tail(chan)
      /\ pc' = [pc EXCEPT !["client"] = "yao"]
      /\ UNCHANGED <<job, run, vec, stored, key, result, out>>
  BY DEF ClientSelect
<1>2. pc["server"] = "yao" /\ chan = <<all>> /\ key \in CipherKeys /\ vec \in Seq(Entries)
  BY <1>1 DEF IInv, InStep, Current, TypeOK
<1>3. /\ pc \in [Parties -> Phases] /\ "server" \in Parties /\ "client" \in Parties
      /\ pc'["client"] = "yao" /\ pc'["server"] = "yao" /\ pc' \in [Parties -> Phases]
  BY <1>1, <1>2, RunFacts DEF Parties, Phases
<1>4. /\ all \in Seq(Ciphertexts) /\ Len(all) = Len(vec) /\ Len(vec) \in Nat
      /\ \A x \in 1 .. Len(vec) : all[x] \in Ciphertexts
  <2>1. all \in Seq(Ciphertexts) /\ Len(all) = Len(vec)
    BY <1>2, EncryptedIs
  <2> HIDE DEF all
  <2> QED
    BY <1>2, <2>1, ElementOfSeq, LenProperties
<1>5. Head(chan) = all /\ chan' = <<>>
  <2> HIDE DEF all
  <2> QED
    BY <1>1, <1>2
<1>6. j.keys \in Seq(Int) /\ \A n \in DOMAIN j.keys : j.keys[n] \in Int
  <2>1. j.keys \in Seq(Int)
    BY <1>1, JobFacts DEF Parties
  <2> QED
    BY <2>1, ElementOfSeq, LenProperties
<1>7. indexes' = IndexesOf(j) /\ selected' = SelectedOf(j)
  BY <1>4, <1>5 DEF ClientSelect, IndexesOf, SelectedOf
<1>8. IndexesOf(j) \in Seq([index : Int, valid : BOOLEAN])
  <2>1. \A n \in DOMAIN j.keys :
          [index |-> j.keys[n], valid |-> j.keys[n] \in 0 .. Len(vec) - 1] \in [index : Int, valid : BOOLEAN]
    BY <1>6
  <2> DEFINE I == [n \in DOMAIN j.keys |->
                     [index |-> j.keys[n], valid |-> j.keys[n] \in 0 .. Len(vec) - 1]]
  <2>2. I \in Seq([index : Int, valid : BOOLEAN])
    BY <1>6, <2>1, SameLength
  <2> QED
    BY <2>2 DEF IndexesOf
<1>9. SelectedOf(j) \in Seq(Ciphertexts \cup {Blank})
  <2>1. ASSUME NEW n \in DOMAIN j.keys, j.keys[n] \in 0 .. Len(vec) - 1
        PROVE  all[j.keys[n] + 1] \in Ciphertexts
    <3>1. j.keys[n] + 1 \in 1 .. Len(vec)
      BY <1>4, <1>6, <2>1
    <3> QED
      BY <1>4, <3>1
  <2> HIDE DEF all
  <2> DEFINE S == [n \in DOMAIN j.keys |->
                     IF j.keys[n] \in 0 .. Len(vec) - 1 THEN all[j.keys[n] + 1] ELSE Blank]
  <2>2. \A n \in DOMAIN j.keys : S[n] \in Ciphertexts \cup {Blank}
    BY <2>1
  <2>3. S = [n \in DOMAIN j.keys |-> S[n]]
    OBVIOUS
  <2>4. S \in Seq(Ciphertexts \cup {Blank})
    <3> HIDE DEF S
    <3> QED
      BY <1>6, <2>2, <2>3, SameLength
  <2> QED
    BY <2>4 DEF SelectedOf, all
<1>10. TypeOK'
  BY <1>1, <1>3, <1>5, <1>7, <1>8, <1>9 DEF IInv, TypeOK, Phases
<1>11. InStep'
  <2>1. \A p \in Parties : pc'[p] # "idle" => run'[p] >= 1
    BY <1>1, <1>2, <1>3 DEF IInv, InStep, Parties
  <2>2. Decoded("server")' = Decoded("server") /\ Decoded("client")' = Decoded("client")
    BY <1>1, <1>2, <1>3 DEF Decoded
  <2> QED
    BY <1>1, <1>2, <1>3, <2>1, <2>2 DEF IInv, InStep
<1>12. Filled'
  BY <1>1, <1>2, <1>3 DEF IInv, Filled, Job
<1>13. Current'
  <2>1. (Job("client") = j)' /\ IndexesOf(j)' = IndexesOf(j) /\ SelectedOf(j)' = SelectedOf(j)
    BY <1>1 DEF Job, IndexesOf, SelectedOf, Encrypted
  <2> QED
    BY <1>1, <1>3, <1>5, <1>7, <2>1 DEF Current, Job
<1> QED
  BY <1>10, <1>11, <1>12, <1>13 DEF IInv

(* What a job keeps of its pairs, place by place: those of Keeps.          *)
LEMMA KeptPairs ==
  ASSUME NEW j \in Jobs
  PROVE  /\ \A p \in DOMAIN j.pairs : Keeps(j, p) =>
              \E q \in DOMAIN KeptJob(j).pairs : KeptJob(j).pairs[q] = j.pairs[p]
         /\ \A q \in DOMAIN KeptJob(j).pairs :
              \E p \in DOMAIN j.pairs : Keeps(j, p) /\ KeptJob(j).pairs[q] = j.pairs[p]
<1> DEFINE s == j.pairs
           K == KeptJob(j).pairs
<1>1. /\ s \in Seq(Nat \X T) /\ Len(s) \in Nat /\ DOMAIN s = 1 .. Len(s)
      /\ \A p, q \in 1 .. Len(s) : s[p][1] = s[q][1] => p = q
      /\ \A p \in 1 .. Len(s) : s[p][1] \in Nat
  <2>1. s \in Seq(Nat \X T)
    BY JobsAssumption DEF JobType
  <2>2. Len(s) \in Nat /\ DOMAIN s = 1 .. Len(s)
    BY <2>1, LenProperties
  <2>3. \A p \in 1 .. Len(s) : s[p] \in Nat \X T
    BY <2>1, ElementOfSeq
  <2> QED
    BY <2>1, <2>2, <2>3, JobsAssumption
<1>2. K = IF s # <<>> /\ s[1][1] = 0 THEN Tail(s) ELSE s
  BY JobsAssumption DEF KeptJob, JobType
<1>3. CASE s # <<>> /\ s[1][1] = 0
  <2>1. K = Tail(s) /\ Len(s) >= 1
    BY <1>1, <1>2, <1>3, EmptySeq
  <2>2. Len(K) = Len(s) - 1 /\ DOMAIN K = 1 .. Len(s) - 1 /\ \A q \in 1 .. Len(s) - 1 : K[q] = s[q + 1]
    BY <1>1, <1>3, <2>1, HeadTailProperties, LenProperties
  <2> HIDE DEF s, K
  <2>3. ASSUME NEW p \in 1 .. Len(s), Keeps(j, p)
        PROVE  \E q \in DOMAIN K : K[q] = s[p]
    <3>1. p # 1
      BY <1>3, <2>3 DEF Keeps, s
    <3>2. p - 1 \in 1 .. Len(s) - 1 /\ (p - 1) + 1 = p
      BY <1>1, <3>1
    <3> QED
      BY <2>2, <3>2
  <2>4. ASSUME NEW q \in DOMAIN K
        PROVE  \E p \in 1 .. Len(s) : Keeps(j, p) /\ K[q] = s[p]
    <3>1. q + 1 \in 1 .. Len(s) /\ q + 1 > 1 /\ K[q] = s[q + 1]
      BY <1>1, <2>2
    <3> QED
      BY <3>1 DEF Keeps
  <2> QED
    BY <1>1, <2>3, <2>4 DEF s, K
<1>4. CASE ~(s # <<>> /\ s[1][1] = 0)
  <2>1. K = s
    BY <1>2, <1>4
  <2>2. \A p \in 1 .. Len(s) : Keeps(j, p)
    <3> SUFFICES ASSUME NEW p \in 1 .. Len(s), s[p][1] = 0, p = 1 PROVE FALSE
      BY <1>1 DEF Keeps
    <3>1. s # <<>>
      BY <1>1, EmptySeq
    <3> QED
      BY <1>4, <3>1
  <2> QED
    BY <1>1, <2>1, <2>2
<1> QED
  BY <1>3, <1>4

(* A key is found in what is kept if a pair that is kept has it, and its   *)
(* value is the value of that pair.                                        *)
LEMMA KeptLookup ==
  ASSUME NEW j \in Jobs, NEW k
  PROVE  /\ Has(KeptJob(j), k) <=> \E p \in DOMAIN j.pairs : Keeps(j, p) /\ j.pairs[p][1] = k
         /\ \A p \in DOMAIN j.pairs : Keeps(j, p) /\ j.pairs[p][1] = k =>
              ValueOf(KeptJob(j), k) = j.pairs[p][2]
<1> DEFINE K == KeptJob(j).pairs
<1>1. /\ \A p \in DOMAIN j.pairs : Keeps(j, p) => \E q \in DOMAIN K : K[q] = j.pairs[p]
      /\ \A q \in DOMAIN K : \E p \in DOMAIN j.pairs : Keeps(j, p) /\ K[q] = j.pairs[p]
  BY KeptPairs
<1> HIDE DEF K
<1>2. \A p, q \in DOMAIN j.pairs : j.pairs[p][1] = j.pairs[q][1] => p = q
  BY JobsAssumption
<1>3. ASSUME NEW p \in DOMAIN j.pairs, Keeps(j, p), j.pairs[p][1] = k
      PROVE  ValueOf(KeptJob(j), k) = j.pairs[p][2]
  <2> DEFINE c == CHOOSE q \in DOMAIN K : K[q][1] = k
  <2>1. \E q \in DOMAIN K : K[q][1] = k
    BY <1>1, <1>3
  <2>2. c \in DOMAIN K /\ K[c][1] = k
    BY <2>1
  <2>3. ValueOf(KeptJob(j), k) = K[c][2]
    BY DEF ValueOf, K
  <2> HIDE DEF c
  <2>4. PICK o \in DOMAIN j.pairs : K[c] = j.pairs[o]
    BY <1>1, <2>2
  <2>5. o = p
    BY <1>2, <1>3, <2>2, <2>4
  <2> QED
    BY <2>3, <2>4, <2>5
<1>4. Has(KeptJob(j), k) <=> \E p \in DOMAIN j.pairs : Keeps(j, p) /\ j.pairs[p][1] = k
  BY <1>1 DEF Has, K
<1> QED
  BY <1>3, <1>4

(* What the circuit does with the n-th ciphertext of a vector that is full.*)
LEMMA EntryOpens ==
  ASSUME NEW j \in Jobs, IsFilled(vec, j, Len(j.pairs)), vec \in Seq(Entries),
         indexes = IndexesOf(j), selected = SelectedOf(j),
         NEW noise, NEW n \in DOMAIN j.keys
  PROVE  LET entry == Decrypted(n, noise)
             found == entry.set = 1 /\ indexes[n].valid
         IN  /\ found <=> Has(KeptJob(j), j.keys[n])
             /\ found => entry.value = ValueOf(KeptJob(j), j.keys[n]) /\ entry.value \in T
<1> DEFINE k == j.keys[n]
           entry == Decrypted(n, noise)
           found == entry.set = 1 /\ indexes[n].valid
           holds(p) == Keeps(j, p) /\ j.pairs[p][1] = k
<1>1. /\ j.pairs \in Seq(Nat \X T) /\ Len(j.pairs) \in Nat /\ DOMAIN j.pairs = 1 .. Len(j.pairs)
      /\ k \in Int /\ Len(vec) \in Nat
      /\ \A p \in 1 .. Len(j.pairs) : j.pairs[p][2] \in T
  <2>1. j.pairs \in Seq(Nat \X T) /\ j.keys \in Seq(Int)
    BY JobsAssumption DEF JobType
  <2>2. \A p \in 1 .. Len(j.pairs) : j.pairs[p] \in Nat \X T
    BY <2>1, ElementOfSeq
  <2>3. k \in Int
    BY <2>1, ElementOfSeq, LenProperties
  <2> QED
    BY <2>1, <2>2, <2>3, LenProperties
<1>2. /\ \A p \in 1 .. Len(j.pairs) : Keeps(j, p) =>
           /\ j.pairs[p][1] + 1 \in 1 .. Len(vec)
           /\ vec[j.pairs[p][1] + 1] = [value |-> j.pairs[p][2], set |-> 1]
      /\ \A x \in 1 .. Len(vec) :
           (\A p \in 1 .. Len(j.pairs) : Keeps(j, p) => j.pairs[p][1] # x - 1) => vec[x] = Unset
  BY DEF IsFilled
<1>3. /\ Has(KeptJob(j), k) <=> \E p \in 1 .. Len(j.pairs) : holds(p)
      /\ \A p \in 1 .. Len(j.pairs) : holds(p) => ValueOf(KeptJob(j), k) = j.pairs[p][2]
  <2> DEFINE kk == k
  <2>1. /\ Has(KeptJob(j), kk) <=> \E p \in DOMAIN j.pairs : Keeps(j, p) /\ j.pairs[p][1] = kk
        /\ \A p \in DOMAIN j.pairs : Keeps(j, p) /\ j.pairs[p][1] = kk =>
             ValueOf(KeptJob(j), kk) = j.pairs[p][2]
    <3> HIDE DEF kk
    <3> QED
      BY KeptLookup
  <2> QED
    BY <1>1, <2>1
<1>4. indexes[n] = [index |-> k, valid |-> k \in 0 .. Len(vec) - 1] /\ (indexes[n].valid <=> k \in 0 .. Len(vec) - 1)
  <2> DEFINE i == indexes[n]
  <2>1. i = [index |-> k, valid |-> k \in 0 .. Len(vec) - 1]
    BY DEF IndexesOf
  <2> HIDE DEF i, k
  <2>2. i.valid <=> k \in 0 .. Len(vec) - 1
    BY <2>1
  <2> QED
    BY <2>1, <2>2 DEF i
<1>5. ASSUME k \in 0 .. Len(vec) - 1 PROVE entry = vec[k + 1]
  <2>1. k + 1 \in 1 .. Len(vec)
    BY <1>1, <1>5
  <2>2. selected[n] = Encrypted(key)[k + 1]
    BY <1>5 DEF SelectedOf
  <2>3. Encrypted(key)[k + 1] = [key |-> key, ctr |-> (k + 1) - 1, plain |-> vec[k + 1]]
    BY <2>1 DEF Encrypted
  <2>4. (k + 1) - 1 = k
    BY <1>1
  <2> QED
    BY <1>4, <2>2, <2>3, <2>4 DEF Decrypted
<1> HIDE DEF k, entry
<1>6. ASSUME NEW p \in 1 .. Len(j.pairs), holds(p)
      PROVE  found /\ Has(KeptJob(j), k) /\ entry.value = ValueOf(KeptJob(j), k) /\ entry.value \in T
  <2>1. k + 1 \in 1 .. Len(vec) /\ vec[k + 1] = [value |-> j.pairs[p][2], set |-> 1]
    BY <1>2, <1>6
  <2>2. k \in 0 .. Len(vec) - 1
    BY <1>1, <2>1
  <2>3. entry = [value |-> j.pairs[p][2], set |-> 1]
    BY <1>5, <2>1, <2>2
  <2>4. found
    BY <1>4, <2>2, <2>3
  <2>5. Has(KeptJob(j), k) /\ ValueOf(KeptJob(j), k) = j.pairs[p][2]
    BY <1>3, <1>6
  <2> QED
    BY <1>1, <2>3, <2>4, <2>5
<1>7. ASSUME \A p \in 1 .. Len(j.pairs) : ~holds(p)
      PROVE  ~found /\ ~Has(KeptJob(j), k)
  <2>1. ASSUME k \in 0 .. Len(vec) - 1 PROVE ~found
    <3>1. k + 1 \in 1 .. Len(vec) /\ (k + 1) - 1 = k
      BY <1>1, <2>1
    <3>2. vec[k + 1] = Unset
      BY <1>2, <1>7, <3>1
    <3>3. entry.set = 0
      BY <1>5, <2>1, <3>2 DEF Unset
    <3> QED
      BY <3>3
  <2>2. ASSUME ~(k \in 0 .. Len(vec) - 1) PROVE ~found
    BY <1>4, <2>2
  <2>3. ~Has(KeptJob(j), k)
    BY <1>3, <1>7
  <2> QED
    BY <2>1, <2>2, <2>3
<1> QED
  BY <1>6, <1>7 DEF k, entry

(* So the circuit computes what the contract promises of the pairs kept.   *)
LEMMA CircuitAnswers ==
  ASSUME NEW j \in Jobs, IsFilled(vec, j, Len(j.pairs)), vec \in Seq(Entries),
         indexes = IndexesOf(j), selected = SelectedOf(j), NEW noise
  PROVE  LET answer == [n \in DOMAIN j.keys |->
                          Output(n, Decrypted(n, noise), j.defaults[n], j.shared)]
         IN  answer = Answer(KeptJob(j)) /\ answer \in Seq(T)
<1> DEFINE answer == [n \in DOMAIN j.keys |->
                        Output(n, Decrypted(n, noise), j.defaults[n], j.shared)]
           K == KeptJob(j)
<1>1. /\ j.defaults \in Seq(T) /\ j.keys \in Seq(Int) /\ \A n \in DOMAIN j.keys : n \in DOMAIN j.defaults
      /\ \A n \in DOMAIN j.keys : j.defaults[n] \in T
  BY JobsAssumption DEF JobType
<1>2. K.keys = j.keys /\ K.defaults = j.defaults /\ K.shared = j.shared
  <2>1. j \in JobType
    BY JobsAssumption
  <2> DEFINE pairs == IF j.pairs # <<>> /\ j.pairs[1][1] = 0 THEN Tail(j.pairs) ELSE j.pairs
  <2>2. K = [j EXCEPT !.pairs = pairs]
    BY <2>1 DEF KeptJob, JobType
  <2> HIDE DEF pairs, K
  <2> QED
    BY <2>1, <2>2 DEF JobType
<1> HIDE DEF K
<1>3. ASSUME NEW n \in DOMAIN j.keys
      PROVE  answer[n] = Answer(K)[n] /\ answer[n] \in T
  <2> DEFINE entry == Decrypted(n, noise)
             found == entry.set = 1 /\ indexes[n].valid
             v == IF found THEN entry.value ELSE IF j.shared THEN Zero ELSE j.defaults[n]
  <2>1. /\ found <=> Has(K, j.keys[n])
        /\ found => entry.value = ValueOf(K, j.keys[n]) /\ entry.value \in T
    BY EntryOpens DEF K
  <2>2. answer[n] = IF j.shared THEN Minus(v, j.defaults[n]) ELSE v
    BY DEF Output
  <2>3. Answer(K)[n] = IF j.shared THEN Minus(Lookup(K, n), j.defaults[n]) ELSE Lookup(K, n)
    BY <1>2 DEF Answer
  <2> HIDE DEF entry, answer
  <2>4. v = Lookup(K, n)
    BY <1>2, <2>1 DEF Lookup
  <2>5. v \in T
    BY <1>1, <2>1, RingClosed
  <2> QED
    BY <1>1, <2>2, <2>3, <2>4, <2>5, RingClosed
<1>4. answer = [n \in DOMAIN j.keys |-> answer[n]] /\ Answer(K) = [n \in DOMAIN j.keys |-> Answer(K)[n]]
  BY <1>2 DEF Answer
<1>5. answer = Answer(K)
  <2> HIDE DEF answer
  <2> QED
    BY <1>3, <1>4
<1>6. answer \in Seq(T)
  <2> HIDE DEF answer
  <2> QED
    BY <1>1, <1>3, <1>4, SameLength
<1> QED
  BY <1>5, <1>6 DEF K

LEMMA YaoStep == IInv /\ Yao => IInv'
<1> SUFFICES ASSUME IInv, Yao PROVE IInv'
  OBVIOUS
<1> DEFINE j == Job("client")
<1>1. /\ pc["server"] = "yao" /\ pc["client"] = "yao"
      /\ pc' = [server |-> "idle", client |-> "reply"]
      /\ UNCHANGED <<job, run, vec, stored, key, chan, indexes, selected, out>>
  BY DEF Yao, Parties
<1>2. run["client"] = run["server"] /\ Job("server") = j
  BY <1>1, RunFacts DEF Job
<1>3. PICK noise \in Entries :
        result' = [n \in DOMAIN j.keys |->
                     Output(n, Decrypted(n, noise), j.defaults[n], j.shared)]
  BY <1>2 DEF Yao
<1>4. /\ indexes = IndexesOf(j) /\ selected = SelectedOf(j) /\ vec \in Seq(Entries)
      /\ j \in Jobs /\ IsFilled(vec, j, Len(j.pairs))
  <2>1. j \in Jobs
    BY <1>1, JobFacts DEF Parties
  <2>2. indexes = IndexesOf(j) /\ selected = SelectedOf(j)
    BY <1>1 DEF IInv, Current
  <2>3. vec \in Seq(Entries) /\ IsFilled(vec, j, Len(j.pairs))
    BY <1>1, <1>2 DEF IInv, TypeOK, Filled
  <2> QED
    BY <2>1, <2>2, <2>3
<1>5. result' = Answer(KeptJob(j)) /\ result' \in Seq(T)
  <2> HIDE DEF j
  <2> QED
    BY <1>3, <1>4, CircuitAnswers
<1>6. pc' \in [Parties -> Phases] /\ pc'["server"] = "idle" /\ pc'["client"] = "reply"
  BY <1>1 DEF Parties, Phases
<1>7. TypeOK'
  BY <1>1, <1>5, <1>6 DEF IInv, TypeOK, Phases
<1>8. InStep'
  <2>1. \A q \in Parties : pc'[q] # "idle" => run'[q] >= 1
    BY <1>1, <1>6 DEF IInv, InStep, Parties
  <2>2. Decoded("server")' = run["server"] /\ Decoded("client")' = run["client"]
    BY <1>1, <1>6 DEF Decoded
  <2> QED
    BY <1>1, <1>2, <1>6, <2>1, <2>2 DEF IInv, InStep
<1>9. Filled'
  BY <1>6 DEF Filled
<1>10. Current'
  <2>1. Job("client")' = j
    BY <1>1 DEF Job
  <2>2. chan = <<>>
    BY <1>1 DEF IInv, Current
  <2> QED
    BY <1>1, <1>5, <1>6, <2>1, <2>2 DEF Current
<1> QED
  BY <1>7, <1>8, <1>9, <1>10 DEF IInv

LEMMA ClientReturnStep == IInv /\ ClientReturn => IInv'
<1> SUFFICES ASSUME IInv, ClientReturn PROVE IInv'
  OBVIOUS
<1>1. /\ pc["client"] = "reply" /\ pc' = [pc EXCEPT !["client"] = "idle"]
      /\ out' = Append(out, result)
      /\ UNCHANGED <<job, run, vec, stored, key, chan, indexes, selected, result>>
  BY DEF ClientReturn
<1>2. /\ pc'["client"] = "idle" /\ pc'["server"] = pc["server"] /\ pc' \in [Parties -> Phases]
  BY <1>1, RunFacts DEF Parties, Phases
<1>3. TypeOK'
  <2>1. out' \in Seq(Seq(T))
    BY <1>1 DEF IInv, TypeOK
  <2> QED
    BY <1>1, <1>2, <2>1 DEF IInv, TypeOK, Phases
<1>4. InStep'
  BY <1>1, <1>2 DEF IInv, InStep, Decoded, Parties
<1>5. Filled'
  BY <1>1, <1>2 DEF IInv, Filled, Job
<1>6. Current'
  BY <1>1, <1>2 DEF IInv, Current, Job, Encrypted
<1> QED
  BY <1>3, <1>4, <1>5, <1>6 DEF IInv

LEMMA NextInv == IInv /\ [Next]_vars => IInv'
<1> SUFFICES ASSUME IInv, [Next]_vars PROVE IInv'
  OBVIOUS
<1>1. CASE ServerCall
  BY <1>1, ServerCallStep
<1>2. CASE ServerStore
  BY <1>2, ServerStoreStep
<1>3. CASE ServerSend
  BY <1>3, ServerSendStep
<1>4. CASE ClientCall
  BY <1>4, ClientCallStep
<1>5. CASE ClientSelect
  BY <1>5, ClientSelectStep
<1>6. CASE Yao
  BY <1>6, YaoStep
<1>7. CASE ClientReturn
  BY <1>7, ClientReturnStep
<1>8. CASE UNCHANGED vars
  <2>1. UNCHANGED <<job, pc, run, vec, stored, key, chan, indexes, selected, result, out>>
    BY <1>8 DEF vars
  <2>2. TypeOK' /\ InStep'
    BY <2>1 DEF IInv, TypeOK, InStep, Decoded
  <2>3. Filled'
    BY <2>1 DEF IInv, Filled, Job
  <2>4. Current'
    BY <2>1 DEF IInv, Current, Job, Encrypted, IndexesOf, SelectedOf
  <2> QED
    BY <2>2, <2>3, <2>4 DEF IInv
<1> QED
  BY <1>1, <1>2, <1>3, <1>4, <1>5, <1>6, <1>7, <1>8 DEF Next, run_server, run_client

(* The parties stay in step, the vector holds the pairs that are kept and  *)
(* nothing else, and what is on its way is of the run both are in.         *)
THEOREM InvHolds == Spec => []IInv
  BY InitInv, NextInv, PTL DEF Spec, Safe

(* Every variable keeps its type, for any jobs and any number of runs.     *)
THEOREM TypeCorrect == Spec => []TypeOK
<1>1. IInv => TypeOK
  BY DEF IInv
<1> QED
  BY <1>1, InvHolds, PTL

(* The parties are at most one run apart, and a vector is selected from in *)
(* the run it was sent for: the client does not wait for the server in     *)
(* run_client, only the vector and the circuit keep them together.         *)
THEOREM VectorsAlwaysMatch == Spec => []VectorsMatchRuns
<1>1. ASSUME IInv PROVE VectorsMatchRuns
  <2>1. run["server"] - run["client"] \in -1 .. 1
    <3>1. Decoded("server") = Decoded("client")
      BY <1>1 DEF IInv, InStep
    <3>2. \A p \in Parties : run[p] \in Nat /\ Decoded(p) \in {run[p] - 1, run[p]}
      BY <1>1, JobsAssumption DEF IInv, TypeOK, Decoded
    <3> QED
      BY <3>1, <3>2 DEF Parties
  <2>2. Len(chan) <= 1 /\ (chan # <<>> => pc["server"] = "yao" /\ chan[1] = Encrypted(key))
    BY <1>1 DEF IInv, Current
  <2>3. \A x \in DOMAIN Encrypted(key) : Encrypted(key)[x].key = key
    BY DEF Encrypted
  <2>4. pc["client"] = "yao" => pc["server"] = "yao" /\ run["server"] = run["client"]
    BY <1>1, RunFacts DEF IInv, InStep
  <2> QED
    BY <2>1, <2>2, <2>3, <2>4 DEF VectorsMatchRuns
<1> QED
  BY <1>1, InvHolds, PTL

-----------------------------------------------------------------------------
(* The jobs and the returns of the contract.                               *)
jobOM == [n \in 1 .. NumRuns |-> KeptJob(job[n])]
returnedOM == [p \in Parties |-> Returned(p)]

(* A step that only a party takes part in changes its Returned alone.      *)
LEMMA ReturnedSame ==
  ASSUME IInv, NEW p \in Parties, pc[p] # "idle", pc'[p] # "idle", run' = run,
         \A q \in Parties \ {p} : pc'[q] = pc[q]
  PROVE  returnedOM' = returnedOM
<1>1. \A q \in Parties : Returned(q)' = Returned(q)
  BY DEF Returned
<1> QED
  BY <1>1 DEF returnedOM

LEMMA CallRefines ==
  ASSUME IInv, NEW p \in Parties, NEW next, next # "idle",
         pc[p] = "idle", run[p] < NumRuns, run' = [run EXCEPT ![p] = @ + 1],
         pc' = [pc EXCEPT ![p] = next], job' = job, out' = out
  PROVE  OM!Call(p)
<1>1. pc \in [Parties -> Phases] /\ run \in [Parties -> 0 .. NumRuns]
  BY RunFacts DEF IInv, TypeOK
<1>2. run[p] \in Nat /\ run'[p] = run[p] + 1 /\ pc'[p] = next
  BY <1>1, JobsAssumption
<1>3. Returned(p) = run[p] /\ Returned(p)' = run[p]
  BY <1>2 DEF Returned
<1>4. \A q \in Parties \ {p} : Returned(q)' = Returned(q)
  BY <1>1 DEF Returned
<1>5. returnedOM' = returnedOM
  BY <1>3, <1>4 DEF returnedOM
<1>6. returnedOM[p] = run[p]
  BY <1>3 DEF returnedOM
<1> QED
  BY <1>5, <1>6 DEF OM!Call, returnedOM, jobOM

(* The server returns in the step of the circuit.                          *)
LEMMA YaoRefines == IInv /\ Yao => OM!Return("server")
<1> SUFFICES ASSUME IInv, Yao PROVE OM!Return("server")
  OBVIOUS
<1>1. /\ pc["server"] = "yao" /\ pc["client"] = "yao"
      /\ pc' = [server |-> "idle", client |-> "reply"]
      /\ UNCHANGED <<job, run, out>>
  BY DEF Yao, Parties
<1>2. /\ run["server"] \in Nat /\ run["client"] = run["server"]
      /\ run["server"] >= 1
  BY <1>1, RunFacts DEF IInv, InStep, Parties
<1>3. /\ Returned("server") = run["server"] - 1 /\ Returned("server")' = run["server"]
      /\ Returned("client")' = Returned("client")
  BY <1>1 DEF Returned
<1>4. returnedOM["server"] = run["server"] - 1
  BY <1>3 DEF returnedOM, Parties
<1>5. returnedOM' = [returnedOM EXCEPT !["server"] = @ + 1]
  <2>1. returnedOM["server"] + 1 = run["server"]
    BY <1>2, <1>4
  <2>2. [returnedOM EXCEPT !["server"] = @ + 1]
          = [p \in Parties |-> IF p = "server" THEN run["server"] ELSE Returned(p)]
    BY <2>1 DEF returnedOM
  <2>3. returnedOM' = [p \in Parties |-> IF p = "server" THEN run["server"] ELSE Returned(p)]
    BY <1>3 DEF returnedOM, Parties
  <2> QED
    BY <2>2, <2>3
<1>6. returnedOM["server"] < run["server"] /\ \A q \in Parties : returnedOM["server"] < run[q]
  BY <1>2, <1>4 DEF Parties
<1> QED
  BY <1>1, <1>5, <1>6 DEF OM!Return, OM!CanReturn, OM!Parties, Parties, returnedOM, jobOM

(* The answers are the same in both modules.                               *)
LEMMA AnswerSame == ASSUME NEW j PROVE OM!Answer(j) = Answer(j)
<1> QED
  BY DEF OM!Answer, Answer, OM!Lookup, Lookup, OM!Has, Has, OM!ValueOf, ValueOf

LEMMA ClientReturnRefines == IInv /\ ClientReturn => OM!Return("client")
<1> SUFFICES ASSUME IInv, ClientReturn PROVE OM!Return("client")
  OBVIOUS
<1>1. /\ pc["client"] = "reply" /\ pc' = [pc EXCEPT !["client"] = "idle"]
      /\ out' = Append(out, result) /\ UNCHANGED <<job, run>>
  BY DEF ClientReturn
<1>2. /\ run["client"] \in Nat /\ run["server"] \in Nat
      /\ run["client"] >= 1 /\ run["client"] <= run["server"]
  BY <1>1, RunFacts DEF IInv, InStep, Parties
<1>3. pc'["client"] = "idle" /\ pc'["server"] = pc["server"]
  BY <1>1, RunFacts DEF Parties
<1>4. /\ Returned("client") = run["client"] - 1 /\ Returned("client")' = run["client"]
      /\ Returned("server")' = Returned("server")
  BY <1>1, <1>3 DEF Returned
<1>5. returnedOM["client"] = run["client"] - 1
  BY <1>4 DEF returnedOM, Parties
<1>6. returnedOM' = [returnedOM EXCEPT !["client"] = @ + 1]
  <2>1. returnedOM["client"] + 1 = run["client"]
    BY <1>2, <1>5
  <2>2. [returnedOM EXCEPT !["client"] = @ + 1]
          = [p \in Parties |-> IF p = "client" THEN run["client"] ELSE Returned(p)]
    BY <2>1 DEF returnedOM
  <2>3. returnedOM' = [p \in Parties |-> IF p = "client" THEN run["client"] ELSE Returned(p)]
    BY <1>4 DEF returnedOM, Parties
  <2> QED
    BY <2>2, <2>3
<1>7. returnedOM["client"] < run["client"] /\ \A q \in Parties : returnedOM["client"] < run[q]
  BY <1>2, <1>5 DEF Parties
<1>8. result = Answer(KeptJob(job[run["client"]]))
  BY <1>1 DEF IInv, Current, Job
<1>9. jobOM[run["client"]] = KeptJob(job[run["client"]])
  <2>1. run["client"] \in 1 .. NumRuns
    BY <1>2, JobsAssumption DEF IInv, TypeOK, Parties
  <2> QED
    BY <2>1 DEF jobOM
<1>10. result = OM!Answer(jobOM[run["client"]]) /\ jobOM' = jobOM
  BY <1>1, <1>8, <1>9, AnswerSame DEF jobOM
<1> QED
  BY <1>1, <1>6, <1>7, <1>10 DEF OM!Return, OM!CanReturn, OM!Parties, Parties, returnedOM, jobOM

LEMMA NextRefines == IInv /\ [Next]_vars => [OM!Next]_OM!vars
<1> SUFFICES ASSUME IInv, [Next]_vars PROVE OM!Next \/ UNCHANGED OM!vars
  OBVIOUS
<1>1. CASE ServerCall
  <2>1. OM!Call("server")
    BY <1>1, CallRefines DEF ServerCall, Parties
  <2> QED
    BY <2>1 DEF OM!Next, OM!Parties
<1>2. CASE ClientCall
  <2>1. OM!Call("client")
    BY <1>2, CallRefines DEF ClientCall, Parties
  <2> QED
    BY <2>1 DEF OM!Next, OM!Parties
<1>3. CASE ServerStore
  BY <1>3 DEF ServerStore, OM!vars, Returned
<1>4. CASE ServerSend
  <2>1. /\ pc["server"] = "store" /\ pc' = [pc EXCEPT !["server"] = "yao"]
        /\ UNCHANGED <<job, run, out>>
    BY <1>4 DEF ServerSend
  <2>2. pc'["server"] = "yao" /\ pc'["client"] = pc["client"]
    BY <2>1, RunFacts DEF Parties
  <2>3. returnedOM' = returnedOM
    BY <2>1, <2>2, ReturnedSame DEF Parties
  <2> QED
    BY <2>1, <2>3 DEF OM!vars, returnedOM
<1>5. CASE ClientSelect
  <2>1. /\ pc["client"] = "recv" /\ pc' = [pc EXCEPT !["client"] = "yao"]
        /\ UNCHANGED <<job, run, out>>
    BY <1>5 DEF ClientSelect
  <2>2. pc'["client"] = "yao" /\ pc'["server"] = pc["server"]
    BY <2>1, RunFacts DEF Parties
  <2>3. returnedOM' = returnedOM
    BY <2>1, <2>2, ReturnedSame DEF Parties
  <2> QED
    BY <2>1, <2>3 DEF OM!vars, returnedOM
<1>6. CASE Yao
  BY <1>6, YaoRefines DEF OM!Next, OM!Parties
<1>7. CASE ClientReturn
  BY <1>7, ClientReturnRefines DEF OM!Next, OM!Parties
<1>8. CASE UNCHANGED vars
  BY <1>8 DEF vars, OM!vars, Returned
<1> QED
  BY <1>1, <1>2, <1>3, <1>4, <1>5, <1>6, <1>7, <1>8 DEF Next, run_server, run_client

(* In every run of the two objects basic_oblivious_map returns to the      *)
(* client what oblivious_map.hpp promises of the pairs that are kept, and  *)
(* neither party returns before both have called: the safety part of       *)
(* ImplementsMap.                                                          *)
THEOREM RefinesObliviousMap == Spec => OM!Safe
<1>1. Init => OM!Init
  <2> SUFFICES ASSUME Init PROVE OM!Init
    OBVIOUS
  <2>1. jobOM \in [1 .. NumRuns -> {KeptJob(j) : j \in Jobs}]
    BY DEF Init, jobOM
  <2>2. returnedOM = [p \in Parties |-> 0]
    BY DEF Init, Returned, returnedOM
  <2> QED
    BY <2>1, <2>2 DEF Init, OM!Init, OM!Parties, Parties, jobOM, returnedOM
<1> QED
  BY <1>1, NextRefines, InvHolds, PTL DEF Spec, Safe, OM!Safe
=============================================================================
