-------------------------- MODULE ApplicationProofs --------------------------
(***************************************************************************)
(* k nearest neighbours for any documents, batch size, number of slots and *)
(* ring: every batch fits what the parties have agreed on and what they    *)
(* have precomputed, the circuit sees the similarities themselves, and the *)
(* first document returned is the nearest.  Then gradient descent for any  *)
(* data, sizes and width of the words: which rows are used how often, what *)
(* dividing the shares does, and what the sigmoid circuit returns.         *)
(***************************************************************************)
EXTENDS KNNProtocol, SGD, FiniteSetTheorems, SequenceTheorems, WellFoundedInduction, TLAPS

Counted == -1 .. Cardinality(Words)
Phases == {"construct", "multiply", "topk", "returned"}
Covers(n) == \A c \in Counts : c <= n

(* What the parties know of the number of words, from construction on.     *)
Agreed ==
  /\ pc[0] = "construct" =>
       /\ chan = <<>> /\ num_nonzeros[0] = num_nonzeros[1]
       /\ num_nonzeros[0] = -1 \/ Covers(num_nonzeros[0])
       /\ pc[1] # "construct" => num_nonzeros[1] >= 0
  /\ pc[0] # "construct" =>
       /\ Covers(num_nonzeros[0])
       /\ IF pc[1] = "construct" /\ num_nonzeros[1] < 0
            THEN chan = <<num_nonzeros[0]>>
            ELSE chan = <<>> /\ num_nonzeros[0] = num_nonzeros[1]

(* Both are at the start of the same batch; the documents before have been *)
(* shared, and none beyond the last are.                                   *)
Multiplied ==
  /\ row[0] = row[1] /\ row[0] % chunk_size = 0
  /\ \A p \in Parties : triples[p] = 0
  /\ \A p \in Parties : pc[p] \in {"topk", "returned"} => row[p] >= num_documents
  /\ \A d \in Docs : d <= row[0] => Plus(result[0][d], result[1][d]) = in.sims[d]

(* The circuit starts when both have fed it.                               *)
CircuitEntered ==
  i > 0 => \A p \in Parties : pc[p] \in {"topk", "returned"}

(* The first slot holds the nearest document so far, the first of several. *)
FirstNearest ==
  num_selected > 0 =>
    \A d \in 1 .. i :
      /\ Similarity(d) <= slots[1].value
      /\ slots[1].value > 0 /\ Similarity(d) = slots[1].value => slots[1].index <= d

Revealed ==
  \A p \in Parties : pc[p] = "returned" =>
    /\ \A q \in Parties : pc[q] = "returned"
    /\ i = num_documents
    /\ outputs[p] = [j \in 1 .. num_selected |-> slots[j].index]

IInv ==
  /\ TypeOK /\ Agreed /\ Multiplied /\ CircuitEntered
  /\ SlotsDescend /\ FirstNearest /\ Revealed

-----------------------------------------------------------------------------
(* Numbers.                                                                *)
LEMMA NatLeast ==
  ASSUME NEW S \in SUBSET Nat, S # {}
  PROVE  \E x \in S : \A y \in S : x <= y
<1> DEFINE R == OpToRel(<, Nat)
<1>1. IsWellFoundedOn(R, Nat)
  BY NatLessThanWellFounded
<1>2. \A x, y \in Nat : y < x => <<y, x>> \in R
  BY DEF OpToRel
<1> HIDE DEF R
<1>3. PICK x \in S : \A y \in S : ~(<<y, x>> \in R)
  BY <1>1, WFMin
<1>4. \A y \in S : ~(y < x)
  BY <1>2, <1>3
<1> QED
  BY <1>4

(* A nonempty set of integers that is bounded has a greatest element.      *)
LEMMA Greatest ==
  ASSUME NEW n \in Nat, NEW S, S \subseteq -1 .. n, S # {}
  PROVE  \E c \in S : \A e \in S : e <= c
<1> DEFINE Below == {n - e : e \in S}
<1>1. Below \in SUBSET Nat /\ Below # {}
  <2>1. ASSUME NEW e \in S PROVE n - e \in Nat /\ e \in Int
    OBVIOUS
  <2> QED
    BY <2>1
<1>2. PICK x \in Below : \A y \in Below : x <= y
  <2> HIDE DEF Below
  <2> QED
    BY <1>1, NatLeast
<1>3. PICK c \in S : x = n - c
  BY <1>2
<1>4. ASSUME NEW e \in S PROVE e <= c
  <2>1. n - c <= n - e
    BY <1>2, <1>3
  <2>2. c \in Int /\ e \in Int
    OBVIOUS
  <2> QED
    BY <2>1, <2>2
<1> QED
  BY <1>4

LEMMA Division ==
  ASSUME NEW a \in Nat, NEW d \in Nat \ {0}
  PROVE  /\ (a \div d) \in Nat
         /\ (a % d) \in 0 .. d - 1
         /\ a = d * (a \div d) + (a % d)
  OBVIOUS

LEMMA MultipleIs ==
  ASSUME NEW q \in Nat, NEW d \in Nat \ {0}
  PROVE  (q * d) % d = 0 /\ q * d \in Nat
  OBVIOUS

LEMMA Blocks ==
  ASSUME NEW a \in Nat, NEW b \in Nat, NEW d \in Nat, a < b
  PROVE  a * d + d <= b * d
<1>1. PICK c \in Nat : b = a + 1 + c
  <2>1. b - a - 1 \in Nat /\ b = a + 1 + (b - a - 1)
    OBVIOUS
  <2> QED
    BY <2>1
<1>2. b * d = a * d + d + c * d
  BY <1>1
<1>3. c * d \in Nat /\ a * d \in Nat
  OBVIOUS
<1> QED
  BY <1>2, <1>3

(* There are as many multiples of d below b as pieces of d that cover b.   *)
LEMMA Multiples ==
  ASSUME NEW b \in Nat \ {0}, NEW d \in Nat \ {0}
  PROVE  Cardinality({x \in 0 .. b - 1 : x % d = 0}) = (b + d - 1) \div d
<1> DEFINE S == {x \in 0 .. b - 1 : x % d = 0}
           n == (b + d - 1) \div d
           f == [k \in 1 .. n |-> (k - 1) * d]
<1>1. b + d - 1 \in Nat /\ n \in Nat
  OBVIOUS
<1>2. n * d <= b + d - 1 /\ b + d - 1 < n * d + d /\ n * d \in Nat
  BY <1>1, Division
<1> HIDE DEF n
<1>3. ASSUME NEW k \in 1 .. n PROVE (k - 1) * d \in S
  <2>1. k - 1 \in Nat /\ k - 1 < n
    BY <1>1
  <2>2. (k - 1) * d + d <= n * d /\ (k - 1) * d \in Nat /\ ((k - 1) * d) % d = 0
    BY <1>1, <2>1, Blocks, MultipleIs
  <2>3. (k - 1) * d <= b - 1
    BY <1>2, <2>2
  <2> QED
    BY <2>2, <2>3
<1>4. ASSUME NEW k \in 1 .. n, NEW m \in 1 .. n, (k - 1) * d = (m - 1) * d
      PROVE  k = m
  <2>1. k - 1 \in Nat /\ m - 1 \in Nat /\ (k - 1) * d \in Nat
    BY <1>1
  <2>2. ~(k - 1 < m - 1)
    <3> SUFFICES ASSUME k - 1 < m - 1 PROVE FALSE
      OBVIOUS
    <3>1. (k - 1) * d + d <= (m - 1) * d
      BY <2>1, Blocks
    <3> QED
      BY <1>4, <2>1, <3>1
  <2>3. ~(m - 1 < k - 1)
    <3> SUFFICES ASSUME m - 1 < k - 1 PROVE FALSE
      OBVIOUS
    <3>1. (m - 1) * d + d <= (k - 1) * d
      BY <2>1, Blocks
    <3> QED
      BY <1>4, <2>1, <3>1
  <2> QED
    BY <1>1, <2>2, <2>3
<1>5. ASSUME NEW x \in S PROVE \E k \in 1 .. n : (k - 1) * d = x
  <2> DEFINE q == x \div d
  <2>1. q \in Nat /\ x = d * q + (x % d) /\ x % d = 0 /\ x <= b - 1 /\ x \in Nat
    BY Division
  <2> HIDE DEF q
  <2>2. q * d = x
    BY <2>1
  <2>3. q < n
    <3> SUFFICES ASSUME n <= q PROVE FALSE
      BY <1>1, <2>1
    <3>1. n * d <= q * d
      <4>1. CASE n = q
        BY <1>2, <4>1
      <4>2. CASE n < q
        <5>1. n * d + d <= q * d
          BY <1>1, <2>1, <4>2, Blocks
        <5> QED
          BY <1>2, <2>1, <2>2, <5>1
      <4> QED
        BY <1>1, <2>1, <4>1, <4>2
    <3> QED
      BY <1>2, <2>1, <2>2, <3>1
  <2>4. q + 1 \in 1 .. n /\ (q + 1) - 1 = q
    BY <1>1, <2>1, <2>3
  <2>5. \E k \in 1 .. n : k - 1 = q
    BY <2>4
  <2> QED
    BY <2>2, <2>5
<1>6. f \in Bijection(1 .. n, S)
  <2> HIDE DEF S
  <2> QED
    BY <1>3, <1>4, <1>5 DEF Bijection, Injection, IsInjective, Surjection
<1>7. ExistsBijection(1 .. n, S)
  <2> HIDE DEF f, S
  <2> QED
    BY <1>6 DEF ExistsBijection
<1>8. IsFiniteSet(1 .. n) /\ Cardinality(1 .. n) = n
  BY <1>1, FS_Interval
<1>9. Cardinality(S) = n
  <2> HIDE DEF S
  <2> QED
    BY <1>7, <1>8, FS_Bijection
<1> QED
  BY <1>9 DEF n

-----------------------------------------------------------------------------
(* The constants, the documents and the batches.                           *)
LEMMA Sizes ==
  /\ num_documents \in Nat /\ chunk_size \in Nat \ {0} /\ num_selected \in Nat
  /\ MaxDense \in Nat /\ SplitDense \in Nat \ {0}
  /\ Cardinality(Words) \in Nat /\ IsFiniteSet(Words)
  /\ Entered \subseteq Counted /\ T \subseteq Nat /\ Shares \subseteq T
<1>1. Cardinality(Words) \in Nat
  BY KNNAssumption, FS_CardinalityType
<1> QED
  BY <1>1, KNNAssumption DEF Counted

LEMMA InputTypes ==
  ASSUME in \in Inputs
  PROVE  /\ in.words \in [Docs -> SUBSET Words]
         /\ in.sims \in [Docs -> T]
         /\ in.norms \in [Docs -> T \ {0}] /\ in.norm \in T \ {0}
         /\ \A d \in Docs : Similarity(d) \in Nat
<1>1. /\ in.words \in [Docs -> SUBSET Words]
      /\ in.sims \in [Docs -> T]
      /\ in.norms \in [Docs -> T \ {0}] /\ in.norm \in T \ {0}
  BY KNNAssumption
<1>2. ASSUME NEW d \in Docs PROVE Similarity(d) \in Nat
  <2>1. in.sims[d] \in Nat /\ in.norms[d] \in Nat \ {0} /\ in.norm \in Nat \ {0}
    BY <1>1, Sizes
  <2>2. (in.sims[d] \div in.norms[d]) \in Nat
    BY <2>1
  <2> QED
    BY <2>1, <2>2 DEF Similarity
<1> QED
  BY <1>1, <1>2

LEMMA BatchIs ==
  ASSUME NEW r \in Nat, r < num_documents
  PROVE  /\ BatchSize(r) \in Nat \ {0}
         /\ Batch(r) \subseteq Docs
         /\ \A d \in Docs : d \in Batch(r) <=> r < d /\ d <= r + chunk_size
<1>1. num_documents \in Nat /\ chunk_size \in Nat \ {0}
  BY Sizes
<1> QED
  BY <1>1 DEF BatchSize, Batch, Lesser, Docs

LEMMA CountedWords ==
  ASSUME in \in Inputs
  PROVE  Counts \subseteq Counted /\ Counts # {}
<1>1. ASSUME NEW r \in Starts PROVE Cardinality(WordsOf(r)) \in Counted
  <2>1. r \in Nat /\ r < num_documents
    BY Sizes DEF Starts
  <2>2. \A d \in Batch(r) : in.words[d] \subseteq Words
    BY <2>1, BatchIs, InputTypes
  <2>3. WordsOf(r) \in SUBSET Words
    BY <2>2 DEF WordsOf
  <2>4. /\ Cardinality(WordsOf(r)) <= Cardinality(Words)
        /\ Cardinality(WordsOf(r)) \in Nat
    BY <2>3, Sizes, FS_Subset, FS_CardinalityType
  <2> QED
    BY <2>4, Sizes DEF Counted
<1>2. -1 \in Counted
  BY Sizes DEF Counted
<1> QED
  BY <1>1, <1>2 DEF Counts

(* What is precomputed for a batch is what the multiplication takes.       *)
LEMMA PiecesFit ==
  ASSUME NEW r \in Nat, r < num_documents
  PROVE  Precomputed(r) = Taken(r) /\ Precomputed(r) \in Int
<1>1. BatchSize(r) \in Nat \ {0} /\ DenseSize(r) \in Nat \ {0}
  BY BatchIs, Sizes DEF DenseSize
<1>2. BatchSize(r) + DenseSize(r) - 1 \in Nat
  BY <1>1
<1>3. ASSUME NEW b \in Nat \ {0}, NEW d \in Nat \ {0}, BatchSize(r) = b, DenseSize(r) = d
      PROVE  Precomputed(r) = Taken(r)
  <2>1. Taken(r) = Cardinality({x \in 0 .. b - 1 : x % d = 0})
    BY <1>3 DEF Taken
  <2>2. Precomputed(r) = (b + d - 1) \div d
    BY <1>3 DEF Precomputed
  <2> QED
    BY <2>1, <2>2, Multiples
<1>4. Precomputed(r) \in Int
  BY <1>1, <1>2 DEF Precomputed
<1> QED
  BY <1>1, <1>3, <1>4

(* The next batch starts where a batch starts.                             *)
LEMMA NextAligned ==
  ASSUME NEW r \in Nat, r % chunk_size = 0
  PROVE  (r + chunk_size) % chunk_size = 0
<1>1. chunk_size \in Nat \ {0}
  BY Sizes
<1>2. PICK q \in Nat : r = q * chunk_size
  <2>1. r = chunk_size * (r \div chunk_size) + (r % chunk_size)
        /\ (r \div chunk_size) \in Nat
    BY <1>1, Division
  <2>2. r = (r \div chunk_size) * chunk_size
    BY <1>1, <2>1
  <2> QED
    BY <2>1, <2>2
<1>3. r + chunk_size = (q + 1) * chunk_size /\ q + 1 \in Nat
  BY <1>1, <1>2
<1> QED
  BY <1>1, <1>3, MultipleIs

(* What depends on the matrices alone.                                     *)
LEMMA InKept ==
  ASSUME in' = in
  PROVE  /\ \A d : Similarity(d)' = Similarity(d)
         /\ \A n : Covers(n)' <=> Covers(n)
  BY DEF Similarity, Covers, Counts, WordsOf

LEMMA CircuitKept ==
  ASSUME IInv, UNCHANGED <<in, i, slots, outputs>>,
         \A p \in Parties : pc[p] \in {"topk", "returned"} => pc'[p] = pc[p],
         \A p \in Parties : pc'[p] = "returned" => pc[p] = "returned"
  PROVE  CircuitEntered' /\ SlotsDescend' /\ FirstNearest' /\ Revealed'
<1>1. CircuitEntered' /\ Revealed'
  BY DEF IInv, CircuitEntered, Revealed
<1>2. SlotsDescend' /\ FirstNearest'
  BY InKept DEF IInv, SlotsDescend, FirstNearest
<1> QED
  BY <1>1, <1>2

LEMMA InitInv == Init => IInv
<1> SUFFICES ASSUME Init PROVE IInv
  OBVIOUS
<1>1. in \in Inputs /\ 0 \in Parties /\ 1 \in Parties
  BY DEF Init, Parties
<1>2. PICK given \in Entered :
        /\ given = -1 \/ Covers(given)
        /\ num_nonzeros = [p \in Parties |-> given]
  BY DEF Init, Covers
<1>3. TypeOK
  <2>1. num_nonzeros \in [Parties -> Counted]
    BY <1>2, Sizes
  <2>2. slots \in [1 .. num_selected -> [index : Indices, value : Nat]]
    BY DEF Init, NoSlots, Indices
  <2>3. result \in [Parties -> [Docs -> T]]
    BY RingClosed DEF Init
  <2>4. i \in 0 .. num_documents
    BY Sizes DEF Init
  <2>5. chan \in Seq(Counted) /\ outputs \in [Parties -> Seq(Indices)]
    BY DEF Init
  <2> QED
    BY <2>1, <2>2, <2>3, <2>4, <2>5 DEF Init, TypeOK, Counted
<1>4. Agreed
  BY <1>1, <1>2 DEF Init, Agreed
<1>5. Multiplied
  <2>1. 0 % chunk_size = 0
    BY Sizes
  <2>2. \A d \in Docs : ~(d <= 0)
    BY DEF Docs
  <2> QED
    BY <1>1, <2>1, <2>2 DEF Init, Multiplied
<1>6. CircuitEntered /\ Revealed
  BY DEF Init, CircuitEntered, Revealed
<1>7. SlotsDescend /\ FirstNearest
  BY DEF Init, NoSlots, SlotsDescend, FirstNearest
<1> QED
  BY <1>3, <1>4, <1>5, <1>6, <1>7 DEF IInv

LEMMA CountNonzerosStep == IInv /\ CountNonzeros => IInv'
<1> SUFFICES ASSUME IInv, CountNonzeros PROVE IInv'
  OBVIOUS
<1>1. /\ pc[0] = "construct" /\ pc' = [pc EXCEPT ![0] = "multiply"]
      /\ UNCHANGED <<in, row, triples, result, i, slots, outputs>>
  BY DEF CountNonzeros
<1>2. 0 \in Parties /\ 1 \in Parties
  BY DEF Parties
<1>3. /\ pc' \in [Parties -> Phases] /\ pc'[0] = "multiply" /\ pc'[1] = pc[1]
      /\ in \in Inputs /\ num_nonzeros \in [Parties -> Counted]
  BY <1>1, <1>2 DEF IInv, TypeOK, Phases, Counted
<1>4. /\ num_nonzeros' \in [Parties -> Counted] /\ chan' \in Seq(Counted)
      /\ Covers(num_nonzeros'[0]) /\ num_nonzeros'[1] = num_nonzeros[1]
      /\ IF num_nonzeros[1] < 0
           THEN chan' = <<num_nonzeros'[0]>> /\ pc[1] = "construct"
           ELSE chan' = <<>> /\ num_nonzeros'[0] = num_nonzeros[1]
  <2>1. /\ chan = <<>> /\ num_nonzeros[0] = num_nonzeros[1]
        /\ num_nonzeros[0] = -1 \/ Covers(num_nonzeros[0])
        /\ pc[1] # "construct" => num_nonzeros[1] >= 0
    BY <1>1 DEF IInv, Agreed
  <2>2. num_nonzeros[0] \in Int /\ num_nonzeros[1] \in Int
    BY <1>2, <1>3, Sizes DEF Counted
  <2>3. CASE num_nonzeros[0] < 0
    <3> DEFINE most == CHOOSE c \in Counts : \A e \in Counts : e <= c
    <3>1. \E c \in Counts : \A e \in Counts : e <= c
      BY <1>3, CountedWords, Greatest, Sizes DEF Counted
    <3>2. most \in Counts /\ \A e \in Counts : e <= most
      BY <3>1
    <3>3. most \in Counted
      BY <1>3, <3>2, CountedWords
    <3>4. num_nonzeros' = [num_nonzeros EXCEPT ![0] = most] /\ chan' = Append(chan, most)
      BY <2>3 DEF CountNonzeros
    <3> HIDE DEF most
    <3>5. chan' = <<most>>
      BY <2>1, <3>4
    <3>6. /\ num_nonzeros' \in [Parties -> Counted] /\ num_nonzeros'[0] = most
          /\ num_nonzeros'[1] = num_nonzeros[1]
      BY <1>2, <1>3, <3>3, <3>4
    <3>7. Covers(most)
      BY <3>2 DEF Covers
    <3>8. <<most>> \in Seq(Counted)
      BY <3>3
    <3>9. num_nonzeros[1] < 0 /\ pc[1] = "construct"
      BY <2>1, <2>2, <2>3
    <3> QED
      BY <3>5, <3>6, <3>7, <3>8, <3>9
  <2>4. CASE ~(num_nonzeros[0] < 0)
    <3>1. UNCHANGED <<num_nonzeros, chan>>
      BY <2>4 DEF CountNonzeros
    <3>2. Covers(num_nonzeros[0])
      BY <2>1, <2>4
    <3> QED
      BY <1>3, <2>1, <2>4, <3>1, <3>2 DEF IInv, TypeOK, Counted
  <2> QED
    BY <2>3, <2>4
<1>5. TypeOK'
  BY <1>1, <1>3, <1>4 DEF IInv, TypeOK, Phases, Counted
<1>6. Agreed'
  <2>2. (Covers(num_nonzeros[0]))'
    BY <1>1, <1>4 DEF Covers, Counts, WordsOf
  <2> QED
    BY <1>3, <1>4, <2>2 DEF Agreed
<1>7. Multiplied'
  BY <1>1, <1>2, <1>3 DEF IInv, Multiplied, Parties
<1>8. CircuitEntered' /\ SlotsDescend' /\ FirstNearest' /\ Revealed'
  BY <1>1, <1>3, CircuitKept DEF Parties
<1> QED
  BY <1>5, <1>6, <1>7, <1>8 DEF IInv

LEMMA RecvNonzerosStep == IInv /\ RecvNonzeros => IInv'
<1> SUFFICES ASSUME IInv, RecvNonzeros PROVE IInv'
  OBVIOUS
<1>1. /\ pc[1] = "construct" /\ pc' = [pc EXCEPT ![1] = "multiply"]
      /\ UNCHANGED <<in, row, triples, result, i, slots, outputs>>
  BY DEF RecvNonzeros
<1>2. 0 \in Parties /\ 1 \in Parties
  BY DEF Parties
<1>3. /\ pc' \in [Parties -> Phases] /\ pc'[1] = "multiply" /\ pc'[0] = pc[0]
      /\ num_nonzeros \in [Parties -> Counted] /\ chan \in Seq(Counted)
  BY <1>1, <1>2 DEF IInv, TypeOK, Phases, Counted
<1>4. num_nonzeros[0] \in Counted /\ num_nonzeros[0] \in Int /\ num_nonzeros[1] \in Int
  BY <1>2, <1>3, Sizes DEF Counted
<1>5. /\ num_nonzeros' \in [Parties -> Counted] /\ num_nonzeros'[0] = num_nonzeros[0]
      /\ chan' = <<>> /\ num_nonzeros'[1] = num_nonzeros[0]
      /\ pc[0] = "construct" => num_nonzeros[1] >= 0
  <2>1. CASE num_nonzeros[1] < 0
    <3>1. /\ chan # <<>> /\ num_nonzeros' = [num_nonzeros EXCEPT ![1] = Head(chan)]
          /\ chan' = Tail(chan)
      BY <2>1 DEF RecvNonzeros
    <3>2. pc[0] # "construct" /\ chan = <<num_nonzeros[0]>>
      BY <1>1, <2>1, <3>1 DEF IInv, Agreed
    <3>3. Head(chan) = num_nonzeros[0] /\ Tail(chan) = <<>>
      BY <3>2
    <3> QED
      BY <1>2, <1>3, <1>4, <3>1, <3>2, <3>3
  <2>2. CASE ~(num_nonzeros[1] < 0)
    <3>1. UNCHANGED <<num_nonzeros, chan>>
      BY <2>2 DEF RecvNonzeros
    <3>2. chan = <<>> /\ num_nonzeros[0] = num_nonzeros[1]
      BY <2>2 DEF IInv, Agreed
    <3> QED
      BY <1>3, <1>4, <2>2, <3>1, <3>2
  <2> QED
    BY <2>1, <2>2
<1>6. TypeOK'
  BY <1>1, <1>3, <1>5 DEF IInv, TypeOK, Phases, Counted
<1>7. Agreed'
  <2>1. /\ pc[0] = "construct" => num_nonzeros[0] = -1 \/ Covers(num_nonzeros[0])
        /\ pc[0] = "construct" => num_nonzeros[0] = num_nonzeros[1]
        /\ pc[0] # "construct" => Covers(num_nonzeros[0])
    BY DEF IInv, Agreed
  <2>2. Covers(num_nonzeros[0])' <=> Covers(num_nonzeros[0])
    BY <1>1, <1>5 DEF Covers, Counts, WordsOf
  <2> QED
    BY <1>3, <1>5, <2>1, <2>2 DEF Agreed
<1>8. Multiplied'
  BY <1>1, <1>2, <1>3 DEF IInv, Multiplied, Parties
<1>9. CircuitEntered' /\ SlotsDescend' /\ FirstNearest' /\ Revealed'
  BY <1>1, <1>3, CircuitKept DEF Parties
<1> QED
  BY <1>6, <1>7, <1>8, <1>9 DEF IInv

(* A share and what is left of the value add up to the value.              *)
LEMMA ShareSum ==
  ASSUME NEW a \in T, NEW b \in T
  PROVE  Plus(b, Minus(a, b)) = a /\ Minus(a, b) \in T
<1>1. Minus(a, b) \in T
  BY RingClosed
<1>2. Plus(b, Minus(a, b)) = Plus(Minus(a, b), b) /\ Plus(Minus(a, b), b) = a
  BY <1>1, RingGroup
<1> QED
  BY <1>1, <1>2

LEMMA MultiplyBatchStep == IInv /\ MultiplyBatch => IInv'
<1> SUFFICES ASSUME IInv, MultiplyBatch PROVE IInv'
  OBVIOUS
<1> DEFINE r == row[0]
<1>1. /\ \A p \in Parties : pc[p] = "multiply" /\ row[p] = r
      /\ r < num_documents
      /\ UNCHANGED <<in, pc, num_nonzeros, chan, i, slots, outputs>>
      /\ row' = [p \in Parties |-> row[p] + chunk_size]
      /\ triples' = [p \in Parties |-> triples[p] + Precomputed(row[p]) - Taken(row[p])]
  BY DEF MultiplyBatch, Parties
<1>2. PICK share \in [Batch(r) -> Shares] :
        result' = [p \in Parties |->
                     [d \in Docs |->
                        IF d \notin Batch(row[p]) THEN result[p][d]
                        ELSE IF p = 0 THEN share[d]
                        ELSE Minus(in.sims[d], share[d])]]
  BY DEF MultiplyBatch
<1>3. /\ r \in Nat /\ in \in Inputs /\ result \in [Parties -> [Docs -> T]]
      /\ 0 \in Parties /\ 1 \in Parties /\ r % chunk_size = 0
      /\ chunk_size \in Nat \ {0} /\ num_documents \in Nat
  BY Sizes DEF IInv, TypeOK, Multiplied, Parties
<1>4. ASSUME NEW d \in Batch(r)
      PROVE  d \in Docs /\ share[d] \in T /\ in.sims[d] \in T
             /\ Minus(in.sims[d], share[d]) \in T
             /\ Plus(share[d], Minus(in.sims[d], share[d])) = in.sims[d]
  <2>1. d \in Docs /\ share[d] \in T /\ in.sims[d] \in T
    BY <1>1, <1>3, BatchIs, InputTypes, Sizes
  <2> QED
    BY <2>1, ShareSum
<1>5. \A p \in Parties : triples'[p] = 0
  <2>1. Precomputed(r) = Taken(r) /\ Precomputed(r) \in Int
    BY <1>1, <1>3, PiecesFit
  <2> QED
    BY <1>1, <2>1 DEF IInv, Multiplied
<1>6. TypeOK'
  <2>1. result' \in [Parties -> [Docs -> T]]
    BY <1>1, <1>2, <1>3, <1>4
  <2>2. row' \in [Parties -> Nat]
    BY <1>1, <1>3
  <2>3. triples' \in [Parties -> Int]
    BY <1>1, <1>5
  <2> QED
    BY <1>1, <2>1, <2>2, <2>3 DEF IInv, TypeOK
<1>7. Agreed'
  BY <1>1, InKept DEF IInv, Agreed
<1>8. Multiplied'
  <2>1. row'[0] = row'[1] /\ row'[0] % chunk_size = 0 /\ row'[0] = r + chunk_size
    BY <1>1, <1>3, NextAligned
  <2>2. ASSUME NEW d \in Docs, d <= r + chunk_size
        PROVE  Plus(result'[0][d], result'[1][d]) = in.sims[d]
    <3>1. CASE d \in Batch(r)
      <4>1. result'[0][d] = share[d] /\ result'[1][d] = Minus(in.sims[d], share[d])
        BY <1>1, <1>2, <1>3, <3>1
      <4> QED
        BY <1>4, <3>1, <4>1
    <3>2. CASE d \notin Batch(r)
      <4>1. result'[0][d] = result[0][d] /\ result'[1][d] = result[1][d]
        BY <1>1, <1>2, <1>3, <3>2
      <4>2. d <= r
        BY <1>1, <1>3, <2>2, <3>2, BatchIs DEF Docs
      <4> QED
        BY <4>1, <4>2 DEF IInv, Multiplied
    <3> QED
      BY <3>1, <3>2
  <2> QED
    BY <1>1, <1>5, <2>1, <2>2 DEF Multiplied
<1>9. CircuitEntered' /\ SlotsDescend' /\ FirstNearest' /\ Revealed'
  BY <1>1, CircuitKept
<1> QED
  BY <1>6, <1>7, <1>8, <1>9 DEF IInv

LEMMA EnterTopKStep == ASSUME NEW p \in Parties PROVE IInv /\ EnterTopK(p) => IInv'
<1> SUFFICES ASSUME IInv, EnterTopK(p) PROVE IInv'
  OBVIOUS
<1>1. /\ pc[p] = "multiply" /\ row[p] >= num_documents /\ pc' = [pc EXCEPT ![p] = "topk"]
      /\ UNCHANGED <<in, num_nonzeros, chan, row, triples, result, i, slots, outputs>>
  BY DEF EnterTopK
<1>2. pc' \in [Parties -> Phases] /\ pc'[p] = "topk" /\ \A q \in Parties \ {p} : pc'[q] = pc[q]
  BY <1>1 DEF IInv, TypeOK, Phases
<1>3. TypeOK'
  BY <1>1, <1>2 DEF IInv, TypeOK, Phases
<1>4. Agreed'
  <2>1. \A q \in Parties : pc'[q] = "construct" <=> pc[q] = "construct"
    BY <1>1, <1>2
  <2> QED
    BY <1>1, <2>1, InKept DEF IInv, Agreed, Parties
<1>5. Multiplied'
  BY <1>1, <1>2 DEF IInv, Multiplied
<1>6. CircuitEntered' /\ SlotsDescend' /\ FirstNearest' /\ Revealed'
  BY <1>1, <1>2, CircuitKept
<1> QED
  BY <1>3, <1>4, <1>5, <1>6 DEF IInv

(* Once both are in the circuit, all shares are there.                     *)
LEMMA InputIsSimilarity ==
  ASSUME IInv, \A p \in Parties : pc[p] = "topk", NEW d \in Docs
  PROVE  Input(d) = Similarity(d)
<1>1. row[0] >= num_documents /\ row[0] \in Nat
  BY DEF IInv, TypeOK, Multiplied, Parties
<1>2. d <= row[0]
  BY <1>1, Sizes DEF Docs
<1>3. Plus(result[0][d], result[1][d]) = in.sims[d]
  BY <1>2 DEF IInv, Multiplied
<1> QED
  BY <1>3 DEF Input, Similarity

(* At most one slot changes: the first that is less near.                  *)
LEMMA SelectChanges ==
  ASSUME IInv, Select
  PROVE  /\ i + 1 \in Docs /\ Similarity(i + 1) \in Nat
         /\ \/ /\ slots' = slots
               /\ \A j \in 1 .. num_selected : slots[j].value >= Similarity(i + 1)
            \/ \E m \in 1 .. num_selected :
                 /\ slots[m].value < Similarity(i + 1)
                 /\ \A j \in 1 .. m - 1 : slots[j].value >= Similarity(i + 1)
                 /\ slots' = [slots EXCEPT ![m] =
                                [index |-> i + 1, value |-> Similarity(i + 1)]]
<1> DEFINE v == Similarity(i + 1)
           nearer == {j \in 1 .. num_selected : slots[j].value < v}
<1>1. i \in Nat /\ i < num_documents /\ num_documents \in Nat /\ num_selected \in Nat
  BY Sizes DEF IInv, TypeOK, Select
<1>2. i + 1 \in Docs /\ v \in Nat
  <2>1. i + 1 \in Docs
    BY <1>1 DEF Docs
  <2> QED
    BY <2>1, InputTypes DEF IInv, TypeOK
<1>3. Input(i + 1) = v
  BY <1>2, InputIsSimilarity DEF Select
<1>4. slots' = [j \in 1 .. num_selected |->
                  IF Replaced(j, nearer) THEN [index |-> i + 1, value |-> v] ELSE slots[j]]
  BY <1>3 DEF Select
<1>5. /\ slots \in [1 .. num_selected -> [index : Indices, value : Nat]]
      /\ \A j \in 1 .. num_selected : slots[j].value \in Nat
  BY DEF IInv, TypeOK
<1> HIDE DEF v
<1>6. CASE nearer = {}
  <2>1. \A j \in 1 .. num_selected : ~(slots[j].value < v)
    BY <1>6
  <2>2. \A j \in 1 .. num_selected : ~Replaced(j, nearer)
    BY <1>6 DEF Replaced
  <2>3. slots' = slots
    BY <1>4, <1>5, <2>2
  <2>4. \A j \in 1 .. num_selected : slots[j].value >= v
    BY <1>2, <1>5, <2>1
  <2> QED
    BY <1>2, <2>3, <2>4 DEF v
<1>7. CASE nearer # {}
  <2>1. PICK m \in nearer : \A q \in nearer : m <= q
    <3>1. nearer \in SUBSET Nat
      OBVIOUS
    <3> HIDE DEF nearer
    <3> QED
      BY <1>7, <3>1, NatLeast
  <2>2. m \in 1 .. num_selected /\ m \in Nat /\ slots[m].value < v
    OBVIOUS
  <2>3. ASSUME NEW j \in 1 .. num_selected PROVE Replaced(j, nearer) <=> j = m
    <3>1. Replaced(j, nearer) => j <= m /\ m <= j
      BY <2>1 DEF Replaced
    <3>2. Replaced(m, nearer)
      BY <2>1 DEF Replaced
    <3> QED
      BY <2>2, <3>1, <3>2
  <2>4. slots' = [slots EXCEPT ![m] = [index |-> i + 1, value |-> v]]
    <3> HIDE DEF nearer
    <3> QED
      BY <1>4, <1>5, <2>2, <2>3
  <2>5. ASSUME NEW j \in 1 .. m - 1 PROVE slots[j].value >= v
    <3>1. j \in 1 .. num_selected /\ ~(m <= j)
      BY <1>1, <2>2
    <3>2. j \notin nearer
      BY <2>1, <3>1
    <3>3. ~(slots[j].value < v)
      BY <3>1, <3>2
    <3> QED
      BY <1>2, <1>5, <3>1, <3>3
  <2> QED
    BY <1>2, <2>2, <2>4, <2>5 DEF v
<1> QED
  BY <1>6, <1>7

LEMMA SelectStep == IInv /\ Select => IInv'
<1> SUFFICES ASSUME IInv, Select PROVE IInv'
  OBVIOUS
<1> DEFINE v == Similarity(i + 1)
           n == num_selected
<1>1. /\ \A p \in Parties : pc[p] = "topk"
      /\ i < num_documents /\ i' = i + 1
      /\ UNCHANGED <<in, pc, num_nonzeros, chan, row, triples, result, outputs>>
  BY DEF Select
<1>2. i \in Nat /\ num_documents \in Nat /\ n \in Nat /\ i' \in 0 .. num_documents
  BY <1>1, Sizes DEF IInv, TypeOK
<1>3. Indices \subseteq Nat /\ slots \in [1 .. n -> [index : Indices, value : Nat]]
  BY Sizes DEF Indices, Docs, IInv, TypeOK
<1>4. i + 1 \in Docs /\ i + 1 \in Indices /\ v \in Nat
  BY SelectChanges DEF Indices
<1>5. \/ slots' = slots /\ \A j \in 1 .. n : slots[j].value >= v
      \/ \E m \in 1 .. n : /\ slots[m].value < v
                           /\ \A j \in 1 .. m - 1 : slots[j].value >= v
                           /\ slots' = [slots EXCEPT ![m] = [index |-> i + 1, value |-> v]]
  BY SelectChanges
<1> HIDE DEF v
<1>6. \A j \in 1 .. n : slots[j].value \in Nat /\ slots[j].index \in Nat
  BY <1>3
<1>7. \A j \in 1 .. n :
        slots[j].value > 0 => /\ slots[j].index <= i
                              /\ slots[j].value = Similarity(slots[j].index)
  BY DEF IInv, SlotsDescend
<1>8. \A j, q \in 1 .. n :
        j < q => /\ slots[j].value >= slots[q].value
                 /\ slots[q].value > 0 => slots[j].index # slots[q].index
  BY DEF IInv, SlotsDescend
<1>9. /\ slots' \in [1 .. n -> [index : Indices, value : Nat]]
      /\ \A j, q \in 1 .. n :
           j < q => /\ slots'[j].value >= slots'[q].value
                    /\ slots'[q].value > 0 => slots'[j].index # slots'[q].index
      /\ \A j \in 1 .. n :
           slots'[j].value > 0 => /\ slots'[j].index <= i + 1
                                  /\ slots'[j].value = Similarity(slots'[j].index)
  <2>1. CASE slots' = slots
    <3>1. \A j \in 1 .. n : slots[j].value > 0 => slots[j].index <= i + 1
      BY <1>2, <1>6, <1>7
    <3> QED
      BY <1>3, <1>7, <1>8, <2>1, <3>1
  <2>2. ASSUME NEW m \in 1 .. n, slots[m].value < v,
               \A j \in 1 .. m - 1 : slots[j].value >= v,
               slots' = [slots EXCEPT ![m] = [index |-> i + 1, value |-> v]]
        PROVE  <1>9!:
    <3>1. /\ slots'[m].index = i + 1 /\ slots'[m].value = v
          /\ \A j \in 1 .. n \ {m} : slots'[j] = slots[j]
      BY <1>3, <2>2
    <3>2. i + 1 \in Indices /\ v > 0
      BY <1>4, <1>6, <2>2
    <3>3. slots' \in [1 .. n -> [index : Indices, value : Nat]]
      BY <1>3, <1>4, <2>2, <3>2
    <3>4. ASSUME NEW j \in 1 .. n, NEW q \in 1 .. n, j < q
          PROVE  /\ slots'[j].value >= slots'[q].value
                 /\ slots'[q].value > 0 => slots'[j].index # slots'[q].index
      <4>1. CASE q = m
        <5>1. j \in 1 .. m - 1 /\ j # m
          BY <1>2, <3>4, <4>1
        <5>2. slots'[j] = slots[j] /\ slots[j].value >= v
          BY <2>2, <3>1, <5>1
        <5>3. slots[j].value > 0 /\ slots[j].index <= i /\ slots[j].index \in Nat
          BY <1>4, <1>6, <1>7, <3>2, <5>2
        <5> QED
          BY <1>2, <3>1, <4>1, <5>2, <5>3
      <4>2. CASE j = m
        <5>1. slots'[q] = slots[q] /\ slots[m].value >= slots[q].value
          BY <1>2, <1>8, <3>1, <3>4, <4>2
        <5>2. v >= slots[q].value
          BY <1>4, <1>6, <2>2, <5>1
        <5>3. slots[q].value > 0 => slots[q].index <= i /\ slots[q].index \in Nat
          BY <1>6, <1>7
        <5> QED
          BY <1>2, <3>1, <4>2, <5>1, <5>2, <5>3
      <4>3. CASE j # m /\ q # m
        BY <1>8, <3>1, <3>4, <4>3
      <4> QED
        BY <4>1, <4>2, <4>3
    <3>5. ASSUME NEW j \in 1 .. n, slots'[j].value > 0
          PROVE  slots'[j].index <= i + 1 /\ slots'[j].value = Similarity(slots'[j].index)
      <4>1. CASE j = m
        BY <1>2, <3>1, <4>1 DEF v
      <4>2. CASE j # m
        <5>1. slots'[j] = slots[j]
          BY <3>1, <4>2
        <5>2. slots[j].index \in Nat /\ slots[j].index <= i
              /\ slots[j].value = Similarity(slots[j].index)
          BY <1>6, <1>7, <3>5, <5>1
        <5> QED
          BY <1>2, <5>1, <5>2
      <4> QED
        BY <4>1, <4>2
    <3> QED
      BY <3>3, <3>4, <3>5
  <2> QED
    BY <1>5, <2>1, <2>2
<1>10. TypeOK'
  BY <1>1, <1>2, <1>9 DEF IInv, TypeOK
<1>11. Agreed' /\ Multiplied' /\ CircuitEntered'
  BY <1>1, InKept DEF IInv, Agreed, Multiplied, CircuitEntered
<1>12. SlotsDescend'
  BY <1>1, <1>9, InKept DEF SlotsDescend
<1>13. FirstNearest'
  <2> SUFFICES ASSUME n > 0, NEW d \in 1 .. i + 1
               PROVE  /\ Similarity(d) <= slots'[1].value
                      /\ slots'[1].value > 0 /\ Similarity(d) = slots'[1].value =>
                           slots'[1].index <= d
    BY <1>1, InKept DEF FirstNearest
  <2>1. 1 \in 1 .. n /\ slots[1].value \in Nat /\ slots[1].index \in Nat
    BY <1>2, <1>6
  <2>2. d \in 1 .. i => /\ Similarity(d) <= slots[1].value /\ Similarity(d) \in Nat
                        /\ slots[1].value > 0 /\ Similarity(d) = slots[1].value =>
                             slots[1].index <= d
    <3>1. d \in 1 .. i => Similarity(d) \in Nat
      BY <1>1, <1>2, InputTypes DEF IInv, TypeOK, Docs
    <3> QED
      BY <2>1, <3>1 DEF IInv, FirstNearest
  <2>3. d \in 1 .. i \/ (d = i + 1 /\ Similarity(d) = v)
    BY <1>2 DEF v
  <2>4. CASE slots'[1] = slots[1] /\ slots[1].value >= v
    <3>1. slots[1].value > 0 => slots[1].index <= i
      BY <1>7, <2>1
    <3> QED
      BY <1>2, <1>4, <2>1, <2>2, <2>3, <2>4, <3>1
  <2>5. CASE slots'[1] = [index |-> i + 1, value |-> v] /\ slots[1].value < v
    BY <1>2, <1>4, <2>1, <2>2, <2>3, <2>5
  <2>6. \/ slots'[1] = slots[1] /\ slots[1].value >= v
        \/ slots'[1] = [index |-> i + 1, value |-> v] /\ slots[1].value < v
    <3>1. CASE slots' = slots /\ \A j \in 1 .. n : slots[j].value >= v
      BY <2>1, <3>1
    <3>2. ASSUME NEW m \in 1 .. n, slots[m].value < v,
                 \A j \in 1 .. m - 1 : slots[j].value >= v,
                 slots' = [slots EXCEPT ![m] = [index |-> i + 1, value |-> v]]
          PROVE  <2>6!:
      <4>1. CASE m = 1
        BY <1>3, <2>1, <3>2, <4>1
      <4>2. CASE m # 1
        <5>1. 1 \in 1 .. m - 1
          BY <1>2, <4>2
        <5> QED
          BY <1>3, <2>1, <3>2, <4>2, <5>1
      <4> QED
        BY <4>1, <4>2
    <3> QED
      BY <1>5, <3>1, <3>2
  <2> QED
    BY <2>4, <2>5, <2>6
<1>14. Revealed'
  BY <1>1 DEF IInv, Revealed
<1> QED
  BY <1>10, <1>11, <1>12, <1>13, <1>14 DEF IInv

LEMMA RevealSlotsStep == IInv /\ RevealSlots => IInv'
<1> SUFFICES ASSUME IInv, RevealSlots PROVE IInv'
  OBVIOUS
<1>1. /\ \A p \in Parties : pc[p] = "topk"
      /\ i = num_documents
      /\ outputs' = [p \in Parties |-> [j \in 1 .. num_selected |-> slots[j].index]]
      /\ pc' = [p \in Parties |-> "returned"]
      /\ UNCHANGED <<in, num_nonzeros, chan, row, triples, result, i, slots>>
  BY DEF RevealSlots
<1>2. [j \in 1 .. num_selected |-> slots[j].index] \in Seq(Indices)
  <2>1. [j \in 1 .. num_selected |-> slots[j].index] \in [1 .. num_selected -> Indices]
    BY DEF IInv, TypeOK
  <2> QED
    BY <2>1, Sizes, SeqDef
<1>3. TypeOK'
  BY <1>1, <1>2 DEF IInv, TypeOK
<1>4. Agreed' /\ Multiplied' /\ CircuitEntered'
  BY <1>1, InKept DEF IInv, Agreed, Multiplied, CircuitEntered, Parties
<1>5. SlotsDescend' /\ FirstNearest'
  BY <1>1, InKept DEF IInv, SlotsDescend, FirstNearest
<1>6. Revealed'
  BY <1>1 DEF Revealed
<1> QED
  BY <1>3, <1>4, <1>5, <1>6 DEF IInv

LEMMA NextInv == IInv /\ [Next]_vars => IInv'
<1> SUFFICES ASSUME IInv, [Next]_vars PROVE IInv'
  OBVIOUS
<1>1. CASE CountNonzeros
  BY <1>1, CountNonzerosStep
<1>2. CASE RecvNonzeros
  BY <1>2, RecvNonzerosStep
<1>3. CASE Together
  BY <1>3, MultiplyBatchStep, SelectStep, RevealSlotsStep DEF Together
<1>4. ASSUME NEW p \in Parties, EnterTopK(p) PROVE IInv'
  BY <1>4, EnterTopKStep
<1>5. CASE UNCHANGED vars
  <2>1. UNCHANGED <<in, pc, num_nonzeros, chan, row, triples, result, i, slots, outputs>>
    BY <1>5 DEF vars
  <2>2. TypeOK' /\ Agreed' /\ Multiplied'
    BY <2>1, InKept DEF IInv, TypeOK, Agreed, Multiplied
  <2>3. CircuitEntered' /\ SlotsDescend' /\ FirstNearest' /\ Revealed'
    BY <2>1, CircuitKept
  <2> QED
    BY <2>2, <2>3 DEF IInv
<1> QED
  BY <1>1, <1>2, <1>3, <1>4, <1>5 DEF Next

-----------------------------------------------------------------------------
(* The counting of the words, the loop over the batches and the circuit    *)
(* keep IInv.                                                              *)
THEOREM InvHolds == Spec => []IInv
<1>1. Init => IInv
  BY InitInv
<1>2. IInv /\ [Next]_vars => IInv'
  BY NextInv
<1> QED
  BY <1>1, <1>2, PTL DEF Spec

(* Every variable of KNNProtocol keeps its type.                           *)
THEOREM TypeCorrect == Spec => []TypeOK
<1>1. IInv => TypeOK
  BY DEF IInv
<1> QED
  BY <1>1, InvHolds, PTL

(* No batch uses more words than the two parties have agreed on, entered   *)
(* or counted, and none leaves a triple over or lacks one.                 *)
THEOREM BatchesAlwaysFit == Spec => []BatchesFit
<1>1. IInv => BatchesFit
  <2> SUFFICES ASSUME IInv, \A p \in Parties : pc[p] = "multiply"
               PROVE  /\ num_nonzeros[0] = num_nonzeros[1]
                      /\ row[0] = row[1]
                      /\ row[0] < num_documents => Cardinality(WordsOf(row[0])) <= num_nonzeros[0]
                      /\ \A p \in Parties : triples[p] = 0
    BY DEF BatchesFit
  <2>1. pc[0] = "multiply" /\ pc[1] = "multiply" /\ row[0] \in Nat
    BY DEF Parties, IInv, TypeOK
  <2>2. num_nonzeros[0] = num_nonzeros[1] /\ Covers(num_nonzeros[0])
    BY <2>1 DEF IInv, Agreed
  <2>3. row[0] < num_documents => row[0] \in Starts
    BY <2>1, Sizes DEF IInv, Multiplied, Starts
  <2>4. row[0] < num_documents => Cardinality(WordsOf(row[0])) <= num_nonzeros[0]
    BY <2>2, <2>3 DEF Covers, Counts
  <2> QED
    BY <2>2, <2>4 DEF IInv, Multiplied
<1> QED
  BY <1>1, InvHolds, PTL

(* The circuit's slots descend, hold no document twice, and hold each with *)
(* its similarity: the shares of every batch are in the circuit's inputs.  *)
THEOREM SlotsStayInOrder == Spec => []SlotsDescend
<1>1. IInv => SlotsDescend
  BY DEF IInv
<1> QED
  BY <1>1, InvHolds, PTL

(* Both parties return the same documents, the nearest one first.          *)
THEOREM NearestIsFirst == Spec => []NearestFirst
<1>1. IInv => NearestFirst
  <2> SUFFICES ASSUME IInv, \A p \in Parties : pc[p] = "returned",
                      num_documents > 0, num_selected > 0
               PROVE  /\ outputs[0] = outputs[1]
                      /\ Similarity(Nearest) > 0 => outputs[0][1] = Nearest
    BY DEF NearestFirst
  <2>1. /\ num_documents \in Nat /\ num_selected \in Nat /\ 1 \in 1 .. num_selected
        /\ i = num_documents /\ Docs = 1 .. i /\ 1 \in Docs
        /\ outputs[0] = [j \in 1 .. num_selected |-> slots[j].index]
        /\ outputs[1] = [j \in 1 .. num_selected |-> slots[j].index]
    BY Sizes DEF IInv, Revealed, Docs, Parties
  <2>2. \A d \in Docs : Similarity(d) \in Nat
    BY InputTypes DEF IInv, TypeOK
  <2> DEFINE s == slots[1]
             IsNearest(d) == \A e \in Docs :
               Similarity(e) < Similarity(d) \/ (Similarity(e) = Similarity(d) /\ d <= e)
  <2>3. s.value \in Nat /\ s.index \in Indices
    BY <2>1 DEF IInv, TypeOK
  <2>4. \A d \in Docs : /\ Similarity(d) <= s.value
                        /\ s.value > 0 /\ Similarity(d) = s.value => s.index <= d
    BY <2>1 DEF IInv, FirstNearest
  <2>5. ASSUME NEW d \in Docs, IsNearest(d), NEW e \in Docs, IsNearest(e) PROVE d = e
    <3>1. Similarity(d) = Similarity(e) /\ d \in Nat /\ e \in Nat
      BY <2>1, <2>2, <2>5 DEF Docs
    <3> QED
      BY <2>2, <2>5, <3>1
  <2>6. CASE s.value > 0
    <3>1. s.index \in Docs /\ Similarity(s.index) = s.value
      <4>1. s.index <= i /\ s.value = Similarity(s.index)
        BY <2>1, <2>6 DEF IInv, SlotsDescend
      <4> QED
        BY <2>1, <2>3, <4>1 DEF Indices
    <3>2. IsNearest(s.index)
      BY <2>2, <2>3, <2>4, <2>6, <3>1
    <3>3. Nearest \in Docs /\ IsNearest(Nearest)
      BY <3>1, <3>2 DEF Nearest
    <3>4. Nearest = s.index
      <4> HIDE DEF IsNearest
      <4> QED
        BY <2>5, <3>1, <3>2, <3>3
    <3> QED
      BY <2>1, <3>4
  <2>7. CASE s.value = 0
    <3>1. \A d \in Docs : Similarity(d) = 0
      BY <2>2, <2>4, <2>7
    <3>2. IsNearest(1)
      BY <2>1, <3>1
    <3>3. Nearest \in Docs
      BY <2>1, <3>2 DEF Nearest
    <3> QED
      BY <2>1, <3>1, <3>3
  <2> QED
    BY <2>3, <2>6, <2>7
<1> QED
  BY <1>1, InvHolds, PTL
-----------------------------------------------------------------------------
(* Gradient descent.                                                       *)
(* A batch has been started, or has been counted among the uses.           *)
InBatch(p) == at[p] \in {"forward", "sigmoid", "labels", "backward", "update"}
Fetched(p) == at[p] \in {"sigmoid", "labels", "backward", "update"}

(* The smaller of a batch and what is left of the rows.                    *)
LastBatch == IF Half % conf.batch_size = 0 THEN conf.batch_size ELSE Half % conf.batch_size

(* Party 0 is a batch ahead of party 1 when it is party 1's turn, and has  *)
(* no more rows when less than a full batch is left for it.                *)
InTurn(p) ==
  LET r == row_index[p]
      b == conf.batch_size
  IN  /\ r[1] % b = 0 /\ ~done[p][1]
      /\ Half = 0 => r[0] = 0 /\ active_party[p] = 0
      /\ Half > 0 => r[1] < Half
      /\ active_party[p] = 0 => r[0] = r[1] /\ ~done[p][0]
      /\ active_party[p] = 1 =>
           IF r[1] + b < Half THEN r[0] = r[1] + b /\ ~done[p][0]
                              ELSE r[0] = Half /\ done[p][0]
      /\ InBatch(p) => ~done[p][0] /\ this_batch_size[p] = ThisBatchSize(p)

(* uses is what the loop variables of either party say.                    *)
Before(p, q, x) == IF q = 0 \/ x <= Half - LastBatch THEN epoch[p] ELSE 0
Reached(p, q) ==
  row_index[p][q] + IF Fetched(p) /\ q = active_party[p] THEN this_batch_size[p] ELSE 0
UsesOf(p) ==
  uses = [q \in SGDParties |-> [x \in 1 .. Half |->
            Before(p, q, x) + IF x <= Reached(p, q) THEN 1 ELSE 0]]

Filled(p) ==
  at[p] \in {"sigmoid", "labels", "backward"} =>
    activations[p] \in [1 .. this_batch_size[p] -> UInt]

Divided ==
  /\ DOMAIN raw[0] = DOMAIN raw[1]
  /\ \A p \in SGDParties : /\ DOMAIN scaled[p] = DOMAIN raw[p]
                           /\ \A x \in DOMAIN raw[p] : scaled[p][x] = Rescaled(raw[p][x])

SGDInv ==
  /\ SGDTypeOK
  /\ \A p \in SGDParties : InTurn(p) /\ UsesOf(p) /\ Filled(p)
  /\ Divided /\ SigmoidOfFed

-----------------------------------------------------------------------------
(* Functions that are defined by recursion over numbers: there are such    *)
(* functions, or there were a least number up to which there is none.      *)
Follows(f, m, base, a, g) ==
  \A n \in 0 .. m : f[n] = IF n = 0 THEN base ELSE a * f[n - 1] + g[n]

LEMMA RecursionExists ==
  ASSUME NEW m \in Nat, NEW base \in Int, NEW a \in Int, NEW g \in [Nat -> Int]
  PROVE  \E f \in [0 .. m -> Int] : Follows(f, m, base, a, g)
<1> DEFINE Is(n) == \E f \in [0 .. n -> Int] : Follows(f, n, base, a, g)
           Without == {n \in Nat : ~Is(n)}
<1>1. Is(0)
  <2> DEFINE f == [n \in 0 .. 0 |-> base]
  <2>1. f \in [0 .. 0 -> Int] /\ Follows(f, 0, base, a, g)
    BY DEF Follows
  <2> HIDE DEF f
  <2> QED
    BY <2>1
<1>2. ASSUME NEW n \in Nat, NEW f \in [0 .. n -> Int], Follows(f, n, base, a, g)
      PROVE  Is(n + 1)
  <2> DEFINE h == [k \in 0 .. n + 1 |-> IF k = n + 1 THEN a * f[n] + g[n + 1] ELSE f[k]]
  <2>1. f[n] \in Int /\ g[n + 1] \in Int
    OBVIOUS
  <2>2. a * f[n] + g[n + 1] \in Int
    BY <2>1
  <2>3. \A k \in 0 .. n + 1 : k # n + 1 => k \in 0 .. n
    OBVIOUS
  <2>4. h \in [0 .. n + 1 -> Int]
    BY <2>2, <2>3
  <2>5. ASSUME NEW k \in 0 .. n + 1
        PROVE  h[k] = IF k = 0 THEN base ELSE a * h[k - 1] + g[k]
    <3>1. CASE k = n + 1
      <4>1. k # 0 /\ k - 1 = n /\ n \in 0 .. n + 1 /\ n # n + 1
        BY <3>1
      <4>2. h[n] = f[n] /\ h[k] = a * f[n] + g[n + 1]
        BY <3>1, <4>1
      <4> QED
        BY <3>1, <4>1, <4>2
    <3>2. CASE k # n + 1
      <4>1. k \in 0 .. n /\ (k # 0 => k - 1 \in 0 .. n)
        BY <3>2
      <4>2. h[k] = f[k] /\ (k # 0 => h[k - 1] = f[k - 1])
        BY <3>2, <4>1
      <4> QED
        BY <1>2, <4>1, <4>2 DEF Follows
    <3> QED
      BY <3>1, <3>2
  <2> HIDE DEF h
  <2>6. Follows(h, n + 1, base, a, g)
    BY <2>5 DEF Follows
  <2> QED
    BY <2>4, <2>6
<1>3. Without = {}
  <2> SUFFICES ASSUME Without # {} PROVE FALSE
    OBVIOUS
  <2>1. PICK n \in Without : \A y \in Without : n <= y
    <3> HIDE DEF Without
    <3>1. Without \in SUBSET Nat
      BY DEF Without
    <3> QED
      BY <3>1, NatLeast
  <2>2. n # 0 /\ n \in Nat
    BY <1>1, <2>1
  <2>3. n - 1 \in Nat /\ (n - 1) + 1 = n /\ ~(n <= n - 1)
    BY <2>2
  <2>4. Is(n - 1)
    BY <2>1, <2>3
  <2>5. Is((n - 1) + 1)
    <3> HIDE DEF Without
    <3> QED
      BY <1>2, <2>3, <2>4
  <2> QED
    BY <2>1, <2>3, <2>5
<1> QED
  BY <1>3

LEMMA RecursionInts ==
  ASSUME NEW m \in Nat, NEW base \in Int, NEW a \in Int, NEW g \in [Nat -> Int],
         NEW f, Follows(f, m, base, a, g)
  PROVE  \A n \in 0 .. m : f[n] \in Int
<1> DEFINE Bad == {n \in 0 .. m : f[n] \notin Int}
<1> SUFFICES ASSUME Bad # {} PROVE FALSE
  OBVIOUS
<1>1. PICK n \in Bad : \A y \in Bad : n <= y
  <2>1. Bad \in SUBSET Nat
    OBVIOUS
  <2> HIDE DEF Bad
  <2> QED
    BY <2>1, NatLeast
<1>2. n \in 0 .. m /\ f[n] \notin Int /\ f[n] = IF n = 0 THEN base ELSE a * f[n - 1] + g[n]
  BY DEF Follows
<1>3. n # 0 /\ n - 1 \in 0 .. m /\ ~(n <= n - 1)
  BY <1>2
<1>4. f[n - 1] \in Int /\ g[n] \in Int
  BY <1>1, <1>2, <1>3
<1> QED
  BY <1>2, <1>3, <1>4

(* 1 << b.                                                                 *)
LEMMA PowerFacts ==
  /\ Width \in Nat /\ precision \in 1 .. Width - 1
  /\ Power[0] = 1
  /\ \A b \in 0 .. Width - 1 : Power[b + 1] = 2 * Power[b]
  /\ \A b \in 0 .. Width : Power[b] \in Nat \ {0}
<1>1. Width \in Nat /\ precision \in 1 .. Width - 1
  BY SGDAssumption
<1> DEFINE none == [n \in Nat |-> 0]
           Is(f) == f = [b \in 0 .. Width |-> IF b = 0 THEN 1 ELSE 2 * f[b - 1]]
<1>2. PICK f \in [0 .. Width -> Int] : Follows(f, Width, 1, 2, none)
  <2>1. none \in [Nat -> Int] /\ 1 \in Int /\ 2 \in Int
    OBVIOUS
  <2> HIDE DEF none
  <2> QED
    BY <1>1, <2>1, RecursionExists
<1>3. \A b \in 0 .. Width : f[b] = IF b = 0 THEN 1 ELSE 2 * f[b - 1]
  <2> TAKE b \in 0 .. Width
  <2>1. b # 0 => f[b - 1] \in Int /\ none[b] = 0
    BY <1>1
  <2>2. f[b] = IF b = 0 THEN 1 ELSE 2 * f[b - 1] + none[b]
    BY <1>2 DEF Follows
  <2> HIDE DEF none
  <2> QED
    BY <2>1, <2>2
<1>4. Is(f)
  BY <1>3
<1>5. Is(Power)
  <2>1. Power = CHOOSE g : Is(g)
    BY DEF Power
  <2> HIDE DEF Is
  <2> QED
    BY <1>4, <2>1
<1> DEFINE P == Power
<1> HIDE DEF P
<1>6. \A b \in 0 .. Width : P[b] = IF b = 0 THEN 1 ELSE 2 * P[b - 1]
  BY <1>5 DEF P
<1>7. P[0] = 1
  BY <1>1, <1>6
<1>8. \A b \in 0 .. Width - 1 : P[b + 1] = 2 * P[b]
  <2>1. \A b \in 0 .. Width - 1 : b + 1 \in 0 .. Width /\ b + 1 # 0 /\ (b + 1) - 1 = b
    BY <1>1
  <2> QED
    BY <1>6, <2>1
<1>9. \A b \in 0 .. Width : P[b] \in Nat \ {0}
  <2> DEFINE Bad == {b \in 0 .. Width : P[b] \notin Nat \ {0}}
  <2> SUFFICES ASSUME Bad # {} PROVE FALSE
    OBVIOUS
  <2>1. PICK b \in Bad : \A y \in Bad : b <= y
    <3>1. Bad \in SUBSET Nat
      BY <1>1
    <3> HIDE DEF Bad
    <3> QED
      BY <3>1, NatLeast
  <2>2. b \in Nat /\ b <= Width /\ P[b] \notin Nat \ {0}
    BY <1>1, <2>1
  <2>3. b # 0
    BY <1>7, <2>2
  <2>4. b - 1 \in 0 .. Width /\ b - 1 \in 0 .. Width - 1 /\ ~(b <= b - 1) /\ (b - 1) + 1 = b
    BY <1>1, <2>2, <2>3
  <2>5. P[b - 1] \in Nat \ {0}
    BY <2>1, <2>4
  <2>6. P[b] = 2 * P[b - 1]
    BY <1>8, <2>4
  <2> QED
    BY <2>2, <2>5, <2>6
<1> QED
  BY <1>1, <1>7, <1>8, <1>9 DEF P

LEMMA PowerSum ==
  ASSUME NEW a \in 0 .. Width, NEW b \in 0 .. Width, a + b <= Width
  PROVE  Power[a + b] = Power[a] * Power[b]
<1> DEFINE P == Power
           Bad == {x \in 0 .. Width - a : P[a + x] # P[a] * P[x]}
<1>1. /\ Width \in Nat /\ P[0] = 1
      /\ \A x \in 0 .. Width - 1 : P[x + 1] = 2 * P[x]
      /\ \A x \in 0 .. Width : P[x] \in Nat \ {0}
  BY PowerFacts
<1> HIDE DEF P
<1>2. Bad = {}
  <2> SUFFICES ASSUME Bad # {} PROVE FALSE
    OBVIOUS
  <2>1. PICK x \in Bad : \A y \in Bad : x <= y
    <3>1. Bad \in SUBSET Nat
      BY <1>1
    <3> HIDE DEF Bad
    <3> QED
      BY <3>1, NatLeast
  <2>2. x \in 0 .. Width - a /\ P[a + x] # P[a] * P[x]
    BY <2>1
  <2>3. x # 0
    BY <1>1, <2>2
  <2> DEFINE y == x - 1
  <2>4. /\ y \in 0 .. Width - a /\ ~(x <= y) /\ x = y + 1 /\ a + x = (a + y) + 1
        /\ y \in 0 .. Width - 1 /\ y \in 0 .. Width /\ a + y \in 0 .. Width - 1
    BY <1>1, <2>2, <2>3
  <2>5. P[a + y] = P[a] * P[y]
    BY <2>1, <2>4
  <2> HIDE DEF y
  <2>6. P[x] = 2 * P[y] /\ P[a + x] = 2 * P[a + y]
    BY <1>1, <2>4
  <2>7. 2 * (P[a] * P[y]) = P[a] * (2 * P[y])
    <3> DEFINE u == P[a]
               w == P[y]
    <3>1. u \in Nat /\ w \in Nat
      BY <1>1, <2>4
    <3> HIDE DEF u, w
    <3>2. 2 * (u * w) = u * (2 * w)
      BY <3>1
    <3> QED
      BY <3>2 DEF u, w
  <2> QED
    BY <2>2, <2>5, <2>6, <2>7
<1>3. b \in 0 .. Width - a
  BY <1>1
<1> QED
  BY <1>2, <1>3 DEF P

-----------------------------------------------------------------------------
(* Division of whole numbers.                                              *)
LEMMA DivisionUnique ==
  ASSUME NEW q \in Int, NEW m \in Nat \ {0}, NEW d \in 0 .. m - 1
  PROVE  (m * q + d) % m = d /\ (m * q + d) \div m = q
<1>1. (m * q + d) % m = d
  OBVIOUS
<1>2. (m * q + d) \div m = q
  OBVIOUS
<1> QED
  BY <1>1, <1>2

LEMMA RestIs ==
  ASSUME NEW a \in Int, NEW m \in Nat \ {0}
  PROVE  /\ a \in 0 .. m - 1 => a % m = a
         /\ a - m \in 0 .. m - 1 => a % m = a - m
         /\ a + m \in 0 .. m - 1 => a % m = a + m
<1>1. a = m * 0 + a /\ a = m * 1 + (a - m) /\ a = m * (-1) + (a + m)
  OBVIOUS
<1>2. 0 \in Int /\ 1 \in Int /\ -1 \in Int
  OBVIOUS
<1>3. CASE a \in 0 .. m - 1
  BY <1>1, <1>2, <1>3, DivisionUnique
<1>4. CASE a - m \in 0 .. m - 1
  <2> DEFINE d == a - m
  <2>1. a = m * 1 + d /\ d \in 0 .. m - 1
    BY <1>4
  <2> HIDE DEF d
  <2>2. a % m = d
    BY <1>2, <2>1, DivisionUnique
  <2> QED
    BY <1>4, <2>2 DEF d
<1>5. CASE a + m \in 0 .. m - 1
  <2> DEFINE d == a + m
  <2>1. a = m * (-1) + d /\ d \in 0 .. m - 1
    BY <1>5
  <2> HIDE DEF d
  <2>2. a % m = d
    BY <1>2, <2>1, DivisionUnique
  <2> QED
    BY <1>5, <2>2 DEF d
<1> QED
  BY <1>3, <1>4, <1>5

LEMMA SumIs ==
  ASSUME NEW m \in Nat \ {0}, NEW a \in 0 .. m - 1, NEW b \in 0 .. m - 1
  PROVE  (a + b) % m = IF a + b < m THEN a + b ELSE a + b - m
<1> DEFINE x == a + b
<1>1. x \in Int /\ (x < m => x \in 0 .. m - 1) /\ (~(x < m) => x - m \in 0 .. m - 1)
  OBVIOUS
<1> HIDE DEF x
<1>2. x % m = IF x < m THEN x ELSE x - m
  BY <1>1, RestIs
<1> QED
  BY <1>2 DEF x

LEMMA DifferenceIs ==
  ASSUME NEW m \in Nat \ {0}, NEW a \in 0 .. m - 1, NEW b \in 0 .. m - 1
  PROVE  (a - b) % m = IF a >= b THEN a - b ELSE a - b + m
<1> DEFINE x == a - b
<1>1. x \in Int /\ (x >= 0 => x \in 0 .. m - 1) /\ (~(x >= 0) => x + m \in 0 .. m - 1)
  OBVIOUS
<1>2. x >= 0 <=> a >= b
  OBVIOUS
<1> HIDE DEF x
<1>3. x % m = IF x >= 0 THEN x ELSE x + m
  BY <1>1, RestIs
<1>4. x % m = IF a >= b THEN x ELSE x + m
  BY <1>2, <1>3
<1> QED
  BY <1>4 DEF x

(* A number between two multiples of p.                                    *)
LEMMA BetweenMultiples ==
  ASSUME NEW p \in Nat \ {0}, NEW k \in Int, NEW d \in Int,
         p * k = d, -(2 * p) < d, d < p
  PROVE  k \in {-1, 0}
<1>1. k < 1
  <2> SUFFICES ASSUME k >= 1 PROVE FALSE
    OBVIOUS
  <2>1. PICK c \in Nat : k = 1 + c
    <3>1. k - 1 \in Nat /\ k = 1 + (k - 1)
      OBVIOUS
    <3> QED
      BY <3>1
  <2>2. p * k = p + p * c /\ p * c \in Nat
    BY <2>1
  <2> QED
    BY <2>2
<1>2. k > -2
  <2> SUFFICES ASSUME k <= -2 PROVE FALSE
    OBVIOUS
  <2>1. PICK c \in Nat : k = -2 - c
    <3>1. -2 - k \in Nat /\ k = -2 - (-2 - k)
      OBVIOUS
    <3> QED
      BY <3>1
  <2>2. p * k = -(2 * p) - p * c /\ p * c \in Nat
    BY <2>1
  <2> QED
    BY <2>2
<1> QED
  BY <1>1, <1>2

(* The quotients of two shares add up to that of their sum, or to one less,*)
(* and to n more when the sum of the shares has wrapped around.            *)
LEMMA QuotientsOfShares ==
  ASSUME NEW p \in Nat \ {0}, NEW n \in Nat \ {0}, NEW m, m = p * n,
         NEW a \in 0 .. m - 1, NEW b \in 0 .. m - 1
  PROVE  LET v == (a + b) % m
         IN  (a \div p) + (b \div p) - (v \div p) - (IF a > v THEN n ELSE 0) \in {-1, 0}
<1>1. m \in Nat \ {0}
  OBVIOUS
<1> DEFINE v == (a + b) % m
           wrap == IF a > v THEN 1 ELSE 0
           qa == a \div p
           da == a % p
           qb == b \div p
           db == b % p
           qv == v \div p
           dv == v % p
           k == qa + qb - qv - wrap * n
<1>2. /\ v \in Nat /\ wrap \in {0, 1}
      /\ wrap = 0 => v = a + b
      /\ wrap = 1 => v = a + b - m
  <2>1. v = IF a + b < m THEN a + b ELSE a + b - m
    BY <1>1, SumIs
  <2>2. wrap = IF a > v THEN 1 ELSE 0
    OBVIOUS
  <2> HIDE DEF v, wrap
  <2> QED
    BY <1>1, <2>1, <2>2
<1>3. a \in Nat /\ b \in Nat
  BY <1>1
<1>4. (IF a > v THEN n ELSE 0) = wrap * n
  OBVIOUS
<1> HIDE DEF v, wrap
<1>5. a = p * qa + da /\ da \in 0 .. p - 1 /\ qa \in Nat
  BY <1>3, Division
<1>6. b = p * qb + db /\ db \in 0 .. p - 1 /\ qb \in Nat
  BY <1>3, Division
<1>7. v = p * qv + dv /\ dv \in 0 .. p - 1 /\ qv \in Nat
  BY <1>2, Division
<1>8. wrap * n \in Int /\ k \in Int
  BY <1>2, <1>5, <1>6, <1>7
<1> HIDE DEF qa, da, qb, db, qv, dv
<1>9. p * k = p * qa + p * qb - p * qv - p * (wrap * n)
  BY <1>5, <1>6, <1>7, <1>8
<1>10. p * (wrap * n) = IF wrap = 1 THEN m ELSE 0
  BY <1>2
<1>11. p * k = dv - da - db
  <2> DEFINE x == p * qa
             y == p * qb
             z == p * qv
  <2>1. x \in Int /\ y \in Int /\ z \in Int
    BY <1>5, <1>6, <1>7
  <2>2. p * k = x + y - z - (IF wrap = 1 THEN m ELSE 0)
    BY <1>9, <1>10
  <2>3. a = x + da /\ b = y + db /\ v = z + dv
    BY <1>5, <1>6, <1>7
  <2> HIDE DEF x, y, z, k
  <2>4. CASE wrap = 0
    BY <1>1, <1>2, <1>5, <1>6, <1>7, <2>1, <2>2, <2>3, <2>4
  <2>5. CASE wrap = 1
    BY <1>1, <1>2, <1>5, <1>6, <1>7, <2>1, <2>2, <2>3, <2>5
  <2> QED
    BY <1>2, <2>4, <2>5
<1>12. k \in {-1, 0}
  <2> DEFINE d == dv - da - db
  <2>1. d \in Int /\ -(2 * p) < d /\ d < p
    BY <1>5, <1>6, <1>7
  <2> HIDE DEF k, d
  <2>2. p * k = d
    BY <1>11 DEF d
  <2> QED
    BY <1>8, <2>1, <2>2, BetweenMultiples
<1> QED
  BY <1>4, <1>12 DEF qa, qb, qv, v

(* What is left for the last batch, when r rows went before it.            *)
LEMMA LastOf ==
  ASSUME NEW b \in Nat \ {0}, NEW h \in Nat, NEW r \in Nat, r % b = 0
  PROVE  /\ (r + b) % b = 0
         /\ r < h /\ h <= r + b => h - r = IF h % b = 0 THEN b ELSE h % b
<1> DEFINE q == r \div b
<1>1. r = b * q /\ q \in Nat
  BY Division
<1> HIDE DEF q
<1>2. r + b = b * (q + 1) + 0 /\ q + 1 \in Int /\ 0 \in 0 .. b - 1
  BY <1>1
<1>3. (r + b) % b = 0
  BY <1>2, DivisionUnique
<1>4. ASSUME r < h, h <= r + b PROVE h - r = IF h % b = 0 THEN b ELSE h % b
  <2>1. CASE h = r + b
    BY <1>3, <2>1
  <2>2. CASE h # r + b
    <3> DEFINE d == h - r
    <3>1. d \in 0 .. b - 1 /\ d # 0 /\ h = b * q + d
      BY <1>1, <1>4, <2>2
    <3> HIDE DEF d
    <3>2. h % b = d
      BY <1>1, <3>1, DivisionUnique
    <3> QED
      BY <3>1, <3>2 DEF d
  <2> QED
    BY <2>1, <2>2
<1> QED
  BY <1>3, <1>4

-----------------------------------------------------------------------------
(* Words.                                                                  *)
LEMMA WordTypes ==
  /\ Power[Width] \in Nat \ {0}
  /\ \A a \in Int : Word(a) \in UInt
  /\ \A a \in UInt : a \in Nat /\ a < Power[Width]
  /\ 0 \in UInt
<1>1. Power[Width] \in Nat \ {0}
  BY PowerFacts
<1>2. \A a \in Int : a % Power[Width] \in 0 .. Power[Width] - 1
  <2> DEFINE m == Power[Width]
  <2> HIDE DEF m
  <2>1. m \in Nat \ {0} => \A a \in Int : a % m \in 0 .. m - 1
    OBVIOUS
  <2> QED
    BY <1>1, <2>1 DEF m
<1> QED
  BY <1>1, <1>2 DEF Word, UInt

(* A word less than another, and the other added again.                    *)
LEMMA Unmasked ==
  ASSUME NEW s \in UInt, NEW r \in UInt
  PROVE  Opened(Word(s - r), r) = s
<1> DEFINE m == Power[Width]
           w == (s - r) % m
<1>1. m \in Nat \ {0} /\ s \in 0 .. m - 1 /\ r \in 0 .. m - 1
  BY WordTypes DEF UInt
<1> HIDE DEF m
<1>2. w = IF s >= r THEN s - r ELSE s - r + m
  BY <1>1, DifferenceIs
<1> HIDE DEF w
<1>3. (w + r) % m = s
  <2>1. w \in 0 .. m - 1
    BY <1>1, <1>2
  <2>2. (w + r) % m = IF w + r < m THEN w + r ELSE w + r - m
    BY <1>1, <2>1, SumIs
  <2> QED
    BY <1>1, <1>2, <2>2
<1> QED
  BY <1>3 DEF Opened, Word, w, m

(* The weights of the bits that the circuit looks at.                      *)
LEMMA BitWeights ==
  /\ Power[Width - 1] \in Nat \ {0}
  /\ Power[precision - 1] \in Nat \ {0}
  /\ Power[Width] = 2 * Power[Width - 1]
  /\ Power[precision] = 2 * Power[precision - 1]
  /\ Power[precision] <= Power[Width - 1]
  /\ Power[precision] \in Nat \ {0}
  /\ Power[Width - precision] \in Nat \ {0}
  /\ Power[Width] = Power[precision] * Power[Width - precision]
<1>1. Width \in Nat /\ precision \in 1 .. Width - 1
  BY PowerFacts
<1>2. /\ Width - 1 \in 0 .. Width - 1 /\ Width - 1 \in 0 .. Width /\ (Width - 1) + 1 = Width
      /\ precision - 1 \in 0 .. Width - 1 /\ precision - 1 \in 0 .. Width
      /\ (precision - 1) + 1 = precision /\ precision \in 0 .. Width
      /\ Width - precision \in 0 .. Width /\ precision + (Width - precision) = Width
      /\ Width - 1 - precision \in 0 .. Width
      /\ precision + (Width - 1 - precision) = Width - 1 /\ Width - 1 <= Width /\ Width <= Width
  BY <1>1
<1>3. /\ Power[Width] = 2 * Power[Width - 1]
      /\ Power[precision] = 2 * Power[precision - 1]
  BY <1>2, PowerFacts
<1>4. \A x \in 0 .. Width : Power[x] \in Nat \ {0}
  BY PowerFacts
<1>5. /\ Power[Width] = Power[precision] * Power[Width - precision]
      /\ Power[Width - 1] = Power[precision] * Power[Width - 1 - precision]
  BY <1>2, PowerSum
<1>6. Power[precision] <= Power[Width - 1]
  <2> DEFINE a == Power[precision]
             b == Power[Width - 1 - precision]
  <2>1. a \in Nat \ {0} /\ b \in Nat \ {0}
    BY <1>2, <1>4
  <2> HIDE DEF a, b
  <2>2. a <= a * b
    <3>1. PICK c \in Nat : b = c + 1
      <4>1. b - 1 \in Nat /\ b = (b - 1) + 1
        BY <2>1
      <4> QED
        BY <4>1
    <3>2. a * b = a + a * c /\ a * c \in Nat
      BY <2>1, <3>1
    <3> QED
      BY <2>1, <3>2
  <2> QED
    BY <1>5, <2>2 DEF a, b
<1> QED
  BY <1>2, <1>3, <1>4, <1>5, <1>6

(* sigmoid.oc: the comparisons of bits are those of signed numbers.        *)
LEMMA SigIsPiecewise ==
  ASSUME NEW v \in UInt
  PROVE  Sig(v) = Piecewise(v) /\ Sig(v) \in UInt
<1> DEFINE m == Power[Width]
           top == Power[Width - 1]
           half == Power[precision - 1]
           one == Power[precision]
           plus == (v + half) % m
<1>1. /\ top \in Nat \ {0} /\ half \in Nat \ {0} /\ m = 2 * top
      /\ one = 2 * half /\ one <= top /\ v \in 0 .. m - 1
  BY BitWeights DEF UInt
<1>2. Sig(v) = IF plus >= top THEN 0
                  ELSE IF v >= top \/ v < half THEN plus ELSE one
  BY DEF Sig, Word
<1>3. Piecewise(v) =
        LET signed == IF v < top THEN v ELSE v - m
        IN  IF signed < -half \/ signed + half >= top THEN 0
            ELSE IF signed <= half THEN signed + half ELSE 2 * half
  BY DEF Piecewise
<1> HIDE DEF m, top, half, one
<1>4. plus = IF v + half < m THEN v + half ELSE v + half - m
  <2>1. m \in Nat \ {0} /\ half \in 0 .. m - 1
    BY <1>1
  <2> QED
    BY <1>1, <2>1, SumIs
<1> HIDE DEF plus
<1>5. CASE v < top
  BY <1>1, <1>2, <1>3, <1>4, <1>5 DEF UInt, m
<1>6. CASE ~(v < top)
  BY <1>1, <1>2, <1>3, <1>4, <1>6 DEF UInt, m
<1> QED
  BY <1>5, <1>6

-----------------------------------------------------------------------------
(* The states of the two parties.                                          *)
LEMMA ConfFacts ==
  ASSUME conf \in Cases
  PROVE  /\ conf.batch_size \in Nat \ {0} /\ conf.num_epochs \in Nat \ {0}
         /\ Half \in Nat
         /\ \A q \in SGDParties : Data[q] \in Seq(UInt) /\ Half <= Len(Data[q])
<1>1. conf \in [l : Nat \ {0}, batch_size : Nat \ {0}, num_epochs : Nat \ {0}]
  BY SGDAssumption
<1>2. conf.l \in Nat
  BY <1>1
<1>3. conf.l \div 2 \in Nat
  <2> DEFINE n == conf.l
  <2>1. n \in Nat
    BY <1>2
  <2> HIDE DEF n
  <2>2. n \div 2 \in Nat
    BY <2>1
  <2> QED
    BY <2>2 DEF n
<1>4. \A q \in SGDParties : Data[q] \in Seq(UInt) /\ Half <= Len(Data[q])
  BY SGDAssumption DEF Half
<1> QED
  BY <1>1, <1>3, <1>4 DEF Half

LEMMA PartyTypes ==
  ASSUME SGDTypeOK, NEW p \in SGDParties
  PROVE  /\ epoch[p] \in 0 .. conf.num_epochs - 1
         /\ active_party[p] \in {0, 1}
         /\ row_index[p] \in [SGDParties -> 0 .. Half]
         /\ row_index[p][0] \in 0 .. Half /\ row_index[p][1] \in 0 .. Half
         /\ done[p] \in [SGDParties -> BOOLEAN]
         /\ this_batch_size[p] \in 0 .. conf.batch_size
         /\ model[p] \in UInt /\ gradient[p] \in UInt
         /\ activations[p] \in Seq(UInt) /\ raw[p] \in Seq(UInt)
         /\ scaled[p] \in Seq(UInt) /\ fed[p] \in Seq(UInt)
  BY DEF SGDTypeOK, SGDParties

LEMMA OtherParty ==
  /\ 0 \in SGDParties /\ 1 \in SGDParties
  /\ \A p \in SGDParties : 1 - p \in SGDParties /\ 1 - p # p
                           /\ \A q \in SGDParties : q = p \/ q = 1 - p
  BY DEF SGDParties

(* A party whose variables stay keeps what was said of them.               *)
LEMMA PartyKept ==
  ASSUME NEW q \in SGDParties, InTurn(q), UsesOf(q), Filled(q),
         conf' = conf, uses' = uses, at'[q] = at[q], epoch'[q] = epoch[q],
         active_party'[q] = active_party[q], row_index'[q] = row_index[q],
         done'[q] = done[q], this_batch_size'[q] = this_batch_size[q],
         activations'[q] = activations[q]
  PROVE  InTurn(q)' /\ UsesOf(q)' /\ Filled(q)'
<1>1. Half' = Half /\ LastBatch' = LastBatch
  BY DEF Half, LastBatch
<1>2. InTurn(q)'
  BY <1>1 DEF InTurn, InBatch, ThisBatchSize
<1>3. UsesOf(q)'
  <2>1. \A x, z : Before(q, x, z)' = Before(q, x, z)
    BY <1>1 DEF Before
  <2>2. \A x : Reached(q, x)' = Reached(q, x)
    BY DEF Reached, Fetched
  <2> QED
    BY <1>1, <2>1, <2>2 DEF UsesOf
<1>4. Filled(q)'
  BY DEF Filled, UInt
<1> QED
  BY <1>2, <1>3, <1>4

LEMMA SGDInitInv == SGDInit => SGDInv
<1> SUFFICES ASSUME SGDInit PROVE SGDInv
  OBVIOUS
<1>1. /\ conf.batch_size \in Nat \ {0} /\ conf.num_epochs \in Nat \ {0} /\ Half \in Nat
  BY ConfFacts DEF SGDInit
<1>2. 0 \in UInt /\ Models \subseteq UInt
  BY WordTypes, SGDAssumption
<1>3. NoBatch \in [SGDParties -> Seq(UInt)]
  BY DEF NoBatch
<1>4. SGDTypeOK
  <2>1. epoch \in [SGDParties -> 0 .. conf.num_epochs - 1]
    BY <1>1 DEF SGDInit
  <2>2. row_index \in [SGDParties -> [SGDParties -> 0 .. Half]]
    BY <1>1 DEF SGDInit
  <2>3. this_batch_size \in [SGDParties -> 0 .. conf.batch_size]
    BY <1>1 DEF SGDInit
  <2>4. uses \in [SGDParties -> [1 .. Half -> 0 .. conf.num_epochs]]
    BY <1>1 DEF SGDInit
  <2>5. {activations, raw, scaled, fed} \subseteq [SGDParties -> Seq(UInt)]
    BY <1>3 DEF SGDInit
  <2>6. model \in [SGDParties -> UInt] /\ gradient \in [SGDParties -> UInt]
    BY <1>2 DEF SGDInit
  <2> QED
    BY <2>1, <2>2, <2>3, <2>4, <2>5, <2>6 DEF SGDInit, SGDTypeOK, SGDParties
<1>5. ASSUME NEW p \in SGDParties PROVE InTurn(p) /\ UsesOf(p) /\ Filled(p)
  <2>1. /\ at[p] = "batch" /\ epoch[p] = 0 /\ active_party[p] = 0
        /\ row_index[p][0] = 0 /\ row_index[p][1] = 0 /\ ~done[p][0] /\ ~done[p][1]
    BY DEF SGDInit, SGDParties
  <2>2. 0 % conf.batch_size = 0
    <3> DEFINE b == conf.batch_size
    <3>1. b \in Nat \ {0}
      BY <1>1
    <3> HIDE DEF b
    <3>2. 0 % b = 0
      BY <3>1
    <3> QED
      BY <3>2 DEF b
  <2>3. InTurn(p)
    BY <1>1, <2>1, <2>2 DEF InTurn, InBatch
  <2>4. UsesOf(p)
    <3>1. \A q \in SGDParties : row_index[p][q] = 0
      BY DEF SGDInit
    <3>2. \A q \in SGDParties : Reached(p, q) = 0
      BY <2>1, <3>1 DEF Reached, Fetched
    <3>3. \A q, x : Before(p, q, x) = 0
      BY <2>1 DEF Before
    <3>4. \A q \in SGDParties : \A x \in 1 .. Half :
            Before(p, q, x) + (IF x <= Reached(p, q) THEN 1 ELSE 0) = 0
      BY <3>2, <3>3
    <3> QED
      BY <3>4 DEF UsesOf, SGDInit
  <2>5. Filled(p)
    BY <2>1 DEF Filled
  <2> QED
    BY <2>3, <2>4, <2>5
<1>6. Divided
  <2>1. \A p \in SGDParties : raw[p] = <<>> /\ scaled[p] = <<>>
    BY DEF SGDInit, NoBatch
  <2> QED
    BY <2>1, OtherParty DEF Divided
<1>7. SigmoidOfFed
  BY OtherParty DEF SGDInit, SigmoidOfFed, IsSigmoidOf
<1> QED
  BY <1>4, <1>5, <1>6, <1>7 DEF SGDInv

(* A step of one party leaves what is said of the other.                   *)
LEMMA LocalStep ==
  ASSUME SGDInv, NEW p \in SGDParties, SGDTypeOK',
         conf' = conf, uses' = uses, raw' = raw, scaled' = scaled, at'[p] # "labels",
         \A q \in SGDParties : q # p =>
           /\ at'[q] = at[q] /\ epoch'[q] = epoch[q] /\ active_party'[q] = active_party[q]
           /\ row_index'[q] = row_index[q] /\ done'[q] = done[q]
           /\ this_batch_size'[q] = this_batch_size[q] /\ activations'[q] = activations[q],
         InTurn(p)' /\ UsesOf(p)' /\ Filled(p)'
  PROVE  SGDInv'
<1>1. ASSUME NEW q \in SGDParties PROVE InTurn(q)' /\ UsesOf(q)' /\ Filled(q)'
  <2>1. CASE q = p
    BY <2>1
  <2>2. CASE q # p
    <3>1. InTurn(q) /\ UsesOf(q) /\ Filled(q)
      BY DEF SGDInv
    <3> QED
      BY <2>2, <3>1, PartyKept
  <2> QED
    BY <2>1, <2>2
<1>2. Divided'
  BY DEF SGDInv, Divided, Rescaled
<1>3. SigmoidOfFed'
  BY DEF SigmoidOfFed, IsSigmoidOf
<1>4. \A q \in SGDParties : (InTurn(q) /\ UsesOf(q) /\ Filled(q))'
  BY <1>1
<1> QED
  BY <1>2, <1>3, <1>4 DEF SGDInv

(* The sizes of batches, as the invariant has them.                        *)
LEMMA TurnFacts ==
  ASSUME SGDInv, NEW p \in SGDParties
  PROVE  /\ conf.batch_size \in Nat \ {0} /\ Half \in Nat
         /\ row_index[p][0] \in 0 .. Half /\ row_index[p][1] \in 0 .. Half
         /\ active_party[p] \in {0, 1}
         /\ row_index[p][1] % conf.batch_size = 0 /\ ~done[p][1]
         /\ Half = 0 => row_index[p][0] = 0 /\ active_party[p] = 0
         /\ Half > 0 => row_index[p][1] < Half
         /\ active_party[p] = 0 => row_index[p][0] = row_index[p][1] /\ ~done[p][0]
         /\ active_party[p] = 1 =>
              IF row_index[p][1] + conf.batch_size < Half
                THEN row_index[p][0] = row_index[p][1] + conf.batch_size /\ ~done[p][0]
                ELSE row_index[p][0] = Half /\ done[p][0]
         /\ InBatch(p) => ~done[p][0] /\ this_batch_size[p] = ThisBatchSize(p)
<1>1. SGDTypeOK /\ InTurn(p) /\ conf \in Cases
  BY DEF SGDInv, SGDTypeOK
<1> QED
  BY <1>1, ConfFacts, PartyTypes DEF InTurn

LEMMA BatchFits ==
  ASSUME SGDInv, NEW p \in SGDParties
  PROVE  /\ ThisBatchSize(p) \in 0 .. conf.batch_size
         /\ row_index[p][active_party[p]] + ThisBatchSize(p) <= Half
<1> DEFINE b == conf.batch_size
           r == row_index[p][active_party[p]]
           h == Half
<1>1. b \in Nat \ {0} /\ h \in Nat /\ r \in 0 .. h
  BY TurnFacts
<1>2. ThisBatchSize(p) = IF b > h - r THEN h - r ELSE b
  BY DEF ThisBatchSize
<1> HIDE DEF b, r, h
<1>3. ThisBatchSize(p) \in 0 .. b /\ r + ThisBatchSize(p) <= h
  BY <1>1, <1>2
<1> QED
  BY <1>3 DEF b, r, h

LEMMA NextBatchStep ==
  ASSUME SGDInv, NEW p \in SGDParties, NextBatch(p)
  PROVE  SGDInv'
<1>1. /\ conf' = conf /\ uses' = uses /\ raw' = raw /\ scaled' = scaled /\ fed' = fed
      /\ epoch' = epoch /\ active_party' = active_party /\ row_index' = row_index
      /\ done' = done /\ model' = model /\ gradient' = gradient /\ activations' = activations
      /\ at[p] = "batch" /\ ~done[p][0]
      /\ at' = [at EXCEPT ![p] = "forward"]
      /\ this_batch_size' = [this_batch_size EXCEPT ![p] = ThisBatchSize(p)]
  BY DEF NextBatch, Goto, GoesOn
<1>2. SGDTypeOK
  BY DEF SGDInv
<1>3. /\ at'[p] = "forward" /\ this_batch_size'[p] = ThisBatchSize(p)
      /\ \A q \in SGDParties : q # p => at'[q] = at[q] /\ this_batch_size'[q] = this_batch_size[q]
  BY <1>1, <1>2 DEF SGDTypeOK
<1>4. Half' = Half /\ LastBatch' = LastBatch /\ ThisBatchSize(p)' = ThisBatchSize(p)
  BY <1>1 DEF Half, LastBatch, ThisBatchSize
<1>5. SGDTypeOK'
  <2>1. this_batch_size' \in [SGDParties -> 0 .. conf.batch_size]
    BY <1>1, <1>2, BatchFits DEF SGDTypeOK
  <2>2. at' \in [SGDParties -> {"batch", "forward", "sigmoid", "labels", "backward", "update",
                                "done", "crashed"}]
    BY <1>1, <1>2 DEF SGDTypeOK
  <2>3. ASSUME NEW q \in SGDParties,
               at'[q] \in {"forward", "sigmoid", "labels", "backward", "update"}
        PROVE  row_index'[q][active_party'[q]] + this_batch_size'[q] <= Half'
    <3>1. CASE q = p
      BY <1>1, <1>3, <1>4, <3>1, BatchFits
    <3>2. CASE q # p
      BY <1>1, <1>2, <1>3, <1>4, <2>3, <3>2 DEF SGDTypeOK
    <3> QED
      BY <3>1, <3>2
  <2> QED
    BY <1>1, <1>2, <1>4, <2>1, <2>2, <2>3 DEF SGDTypeOK, UInt
<1>6. InTurn(p)'
  <2>1. InTurn(p)
    BY DEF SGDInv
  <2> QED
    BY <1>1, <1>3, <1>4, <2>1 DEF InTurn
<1>7. UsesOf(p)'
  <2>1. UsesOf(p)
    BY DEF SGDInv
  <2>2. \A q, x : Before(p, q, x)' = Before(p, q, x)
    BY <1>1, <1>4 DEF Before
  <2>3. \A q : Reached(p, q)' = Reached(p, q)
    BY <1>1, <1>3 DEF Reached, Fetched
  <2> QED
    BY <1>1, <1>4, <2>1, <2>2, <2>3 DEF UsesOf
<1>8. Filled(p)'
  BY <1>3 DEF Filled
<1> QED
  BY <1>1, <1>3, <1>5, <1>6, <1>7, <1>8, LocalStep

(* At the end of an epoch party 0 has used all rows, party 1 all but those *)
(* of its last batch.                                                      *)
LEMMA EpochEnds ==
  ASSUME SGDInv, NEW p \in SGDParties, done[p][0] \/ done[p][1]
  PROVE  /\ active_party[p] = 1 /\ ~InBatch(p)
         /\ row_index[p][0] = Half /\ row_index[p][1] = Half - LastBatch
         /\ \A q \in SGDParties : \A x \in 1 .. Half :
              uses[q][x] = IF q = 0 \/ x <= Half - LastBatch THEN epoch[p] + 1 ELSE 0
<1> DEFINE b == conf.batch_size
           h == Half
           r == row_index[p][1]
<1>1. /\ b \in Nat \ {0} /\ h \in Nat /\ r \in 0 .. h /\ r % b = 0 /\ done[p][0]
      /\ active_party[p] = 1 /\ ~InBatch(p) /\ row_index[p][0] = h
      /\ h > 0 /\ r < h /\ ~(r + b < h)
  BY TurnFacts
<1>2. LastBatch = IF h % b = 0 THEN b ELSE h % b
  BY DEF LastBatch
<1> HIDE DEF b, r, h
<1>3. r = h - LastBatch /\ LastBatch \in Int
  <2> DEFINE last == IF h % b = 0 THEN b ELSE h % b
  <2>1. r \in Nat /\ h <= r + b
    BY <1>1
  <2>2. h - r = last
    BY <1>1, <2>1, LastOf
  <2> HIDE DEF last
  <2>3. r = h - last /\ last \in Int
    BY <1>1, <2>2
  <2> QED
    BY <1>2, <2>3 DEF last
<1>4. SGDTypeOK /\ UsesOf(p)
  BY DEF SGDInv
<1>5. epoch[p] \in Nat
  BY <1>4, PartyTypes
<1>6. ASSUME NEW q \in SGDParties, NEW x \in 1 .. Half
      PROVE  uses[q][x] = IF q = 0 \/ x <= Half - LastBatch THEN epoch[p] + 1 ELSE 0
  <2>1. uses[q][x] = Before(p, q, x) + (IF x <= Reached(p, q) THEN 1 ELSE 0)
    BY <1>4 DEF UsesOf
  <2>2. Reached(p, q) = row_index[p][q] + 0
    BY <1>1 DEF Reached, Fetched, InBatch
  <2>3. CASE q = 0
    <3>1. Reached(p, q) = h
      BY <1>1, <2>2, <2>3
    <3>2. x <= h
      BY <1>1 DEF h
    <3> QED
      BY <1>5, <2>1, <2>3, <3>1, <3>2 DEF Before
  <2>4. CASE q = 1
    <3>1. Reached(p, q) = r
      BY <1>1, <2>2, <2>4 DEF r
    <3>2. x <= r <=> x <= Half - LastBatch
      BY <1>3 DEF h
    <3> QED
      BY <1>5, <2>1, <2>4, <3>1, <3>2 DEF Before
  <2> QED
    BY <2>3, <2>4 DEF SGDParties
<1> QED
  BY <1>1, <1>3, <1>6 DEF r, h

LEMMA NextEpochStep ==
  ASSUME SGDInv, NEW p \in SGDParties, NextEpoch(p)
  PROVE  SGDInv'
<1>1. /\ conf' = conf /\ uses' = uses /\ raw' = raw /\ scaled' = scaled /\ fed' = fed
      /\ this_batch_size' = this_batch_size
      /\ model' = model /\ gradient' = gradient /\ activations' = activations
      /\ at[p] = "batch" /\ (done[p][0] \/ done[p][1])
  <2>1. done[p] \in [SGDParties -> BOOLEAN]
    BY PartyTypes DEF SGDInv
  <2> QED
    BY <2>1, OtherParty DEF NextEpoch, GoesOn
<1>2. SGDTypeOK /\ InTurn(p) /\ UsesOf(p) /\ conf \in Cases
  BY DEF SGDInv, SGDTypeOK
<1>3. Half' = Half /\ LastBatch' = LastBatch
  BY <1>1 DEF Half, LastBatch
<1>4. Half \in Nat /\ conf.num_epochs \in Nat \ {0} /\ conf.batch_size \in Nat \ {0}
  BY <1>2, ConfFacts
<1>5. CASE epoch[p] + 1 < conf.num_epochs
  <2>1. /\ epoch' = [epoch EXCEPT ![p] = @ + 1]
        /\ active_party' = [active_party EXCEPT ![p] = 0]
        /\ row_index' = [row_index EXCEPT ![p] = [q \in SGDParties |-> 0]]
        /\ done' = [done EXCEPT ![p] = [q \in SGDParties |-> FALSE]]
        /\ at' = at
    BY <1>5 DEF NextEpoch
  <2>2. /\ epoch'[p] = epoch[p] + 1 /\ active_party'[p] = 0 /\ at'[p] = "batch"
        /\ \A q \in SGDParties : row_index'[p][q] = 0 /\ done'[p][q] = FALSE
        /\ \A q \in SGDParties : q # p =>
             /\ epoch'[q] = epoch[q] /\ active_party'[q] = active_party[q]
             /\ row_index'[q] = row_index[q] /\ done'[q] = done[q] /\ at'[q] = at[q]
    BY <1>1, <1>2, <2>1 DEF SGDTypeOK
  <2>3. SGDTypeOK'
    <3>1. epoch[p] + 1 \in 0 .. conf.num_epochs - 1
      BY <1>2, <1>4, <1>5, PartyTypes
    <3>2. epoch' \in [SGDParties -> 0 .. conf.num_epochs - 1]
      BY <1>2, <2>1, <3>1 DEF SGDTypeOK
    <3>3. /\ active_party' \in [SGDParties -> SGDParties]
          /\ row_index' \in [SGDParties -> [SGDParties -> 0 .. Half]]
          /\ done' \in [SGDParties -> [SGDParties -> BOOLEAN]]
      <4>1. [q \in SGDParties |-> 0] \in [SGDParties -> 0 .. Half]
        BY <1>4
      <4> QED
        BY <1>2, <2>1, <4>1, OtherParty DEF SGDTypeOK
    <3>4. ASSUME NEW q \in SGDParties,
                 at'[q] \in {"forward", "sigmoid", "labels", "backward", "update"}
          PROVE  row_index'[q][active_party'[q]] + this_batch_size'[q] <= Half'
      <4>1. q # p
        BY <2>2, <3>4
      <4> QED
        BY <1>1, <1>2, <1>3, <2>2, <3>4, <4>1 DEF SGDTypeOK
    <3> QED
      BY <1>1, <1>2, <1>3, <2>1, <3>2, <3>3, <3>4 DEF SGDTypeOK, UInt
  <2>4. InTurn(p)'
    <3>1. 0 % conf.batch_size = 0
      <4> DEFINE b == conf.batch_size
      <4>1. b \in Nat \ {0}
        BY <1>4
      <4> HIDE DEF b
      <4>2. 0 % b = 0
        BY <4>1
      <4> QED
        BY <4>2 DEF b
    <3> QED
      BY <1>1, <1>3, <1>4, <2>2, <3>1, OtherParty DEF InTurn, InBatch
  <2>5. UsesOf(p)'
    <3>1. ASSUME NEW q \in SGDParties, NEW x \in 1 .. Half
          PROVE  uses[q][x] = Before(p, q, x)' + (IF x <= Reached(p, q)' THEN 1 ELSE 0)
      <4>1. Reached(p, q)' = 0 + 0
        BY <2>2 DEF Reached, Fetched
      <4>2. ~(x <= Reached(p, q)')
        BY <1>4, <4>1
      <4>3. Before(p, q, x)' = IF q = 0 \/ x <= Half - LastBatch THEN epoch[p] + 1 ELSE 0
        BY <1>3, <2>2 DEF Before
      <4>4. epoch[p] \in Nat
        BY <1>2, PartyTypes
      <4> QED
        BY <1>1, <4>2, <4>3, <4>4, EpochEnds
    <3>2. uses = [q \in SGDParties |-> [x \in 1 .. Half |-> uses[q][x]]]
      BY <1>2 DEF SGDTypeOK
    <3> QED
      BY <1>1, <1>3, <3>1, <3>2 DEF UsesOf
  <2>6. Filled(p)'
    BY <2>2 DEF Filled
  <2> QED
    BY <1>1, <2>2, <2>3, <2>4, <2>5, <2>6, LocalStep
<1>6. CASE ~(epoch[p] + 1 < conf.num_epochs)
  <2>1. /\ epoch' = epoch /\ active_party' = active_party /\ row_index' = row_index
        /\ done' = done /\ at' = [at EXCEPT ![p] = "done"]
    BY <1>6 DEF NextEpoch, Goto
  <2>2. at'[p] = "done" /\ \A q \in SGDParties : q # p => at'[q] = at[q]
    BY <1>2, <2>1 DEF SGDTypeOK
  <2>3. SGDTypeOK'
    <3>1. ASSUME NEW q \in SGDParties,
                 at'[q] \in {"forward", "sigmoid", "labels", "backward", "update"}
          PROVE  row_index'[q][active_party'[q]] + this_batch_size'[q] <= Half'
      <4>1. q # p
        BY <2>2, <3>1
      <4> QED
        BY <1>1, <1>2, <1>3, <2>1, <2>2, <3>1, <4>1 DEF SGDTypeOK
    <3>2. at' \in [SGDParties -> {"batch", "forward", "sigmoid", "labels", "backward", "update",
                                  "done", "crashed"}]
      BY <1>2, <2>1 DEF SGDTypeOK
    <3> QED
      BY <1>1, <1>2, <1>3, <2>1, <3>1, <3>2 DEF SGDTypeOK, UInt
  <2>4. InTurn(p)'
    BY <1>1, <1>2, <1>3, <2>1, <2>2 DEF InTurn, InBatch
  <2>5. UsesOf(p)'
    <3>1. \A q, x : Before(p, q, x)' = Before(p, q, x)
      BY <1>3, <2>1 DEF Before
    <3>2. \A q : Reached(p, q)' = Reached(p, q)
      BY <1>1, <2>1, <2>2 DEF Reached, Fetched
    <3> QED
      BY <1>1, <1>2, <1>3, <3>1, <3>2 DEF UsesOf
  <2>6. Filled(p)'
    BY <2>2 DEF Filled
  <2> QED
    BY <1>1, <2>1, <2>2, <2>3, <2>4, <2>5, <2>6, LocalStep
<1> QED
  BY <1>5, <1>6

LEMMA CrashStep ==
  ASSUME SGDInv, NEW p \in SGDParties, Crash(p)
  PROVE  SGDInv'
<1>1. /\ conf' = conf /\ uses' = uses /\ raw' = raw /\ scaled' = scaled /\ fed' = fed
      /\ epoch' = epoch /\ active_party' = active_party /\ row_index' = row_index
      /\ done' = done /\ this_batch_size' = this_batch_size
      /\ model' = model /\ gradient' = gradient /\ activations' = activations
      /\ at[p] = "update" /\ this_batch_size[p] = 0
      /\ at' = [at EXCEPT ![p] = "crashed"]
  BY DEF Crash, Goto, loopvars
<1>2. SGDTypeOK /\ InTurn(p) /\ UsesOf(p)
  BY DEF SGDInv
<1>3. Half' = Half /\ LastBatch' = LastBatch
  BY <1>1 DEF Half, LastBatch
<1>4. at'[p] = "crashed" /\ \A q \in SGDParties : q # p => at'[q] = at[q]
  BY <1>1, <1>2 DEF SGDTypeOK
<1>5. SGDTypeOK'
  <2>1. ASSUME NEW q \in SGDParties,
               at'[q] \in {"forward", "sigmoid", "labels", "backward", "update"}
        PROVE  row_index'[q][active_party'[q]] + this_batch_size'[q] <= Half'
    <3>1. q # p
      BY <1>4, <2>1
    <3> QED
      BY <1>1, <1>2, <1>3, <1>4, <2>1, <3>1 DEF SGDTypeOK
  <2>2. at' \in [SGDParties -> {"batch", "forward", "sigmoid", "labels", "backward", "update",
                                "done", "crashed"}]
    BY <1>1, <1>2 DEF SGDTypeOK
  <2> QED
    BY <1>1, <1>2, <1>3, <2>1, <2>2 DEF SGDTypeOK, UInt
<1>6. InTurn(p)'
  BY <1>1, <1>2, <1>3, <1>4 DEF InTurn, InBatch
<1>7. UsesOf(p)'
  <2>1. \A q, x : Before(p, q, x)' = Before(p, q, x)
    BY <1>1, <1>3 DEF Before
  <2>2. \A q : Reached(p, q)' = Reached(p, q)
    BY <1>1, <1>4 DEF Reached, Fetched
  <2> QED
    BY <1>1, <1>2, <1>3, <2>1, <2>2 DEF UsesOf
<1>8. Filled(p)'
  BY <1>4 DEF Filled
<1> QED
  BY <1>1, <1>4, <1>5, <1>6, <1>7, <1>8, LocalStep

LEMMA SubtractLabelsStep ==
  ASSUME SGDInv, NEW p \in SGDParties, SubtractLabels(p)
  PROVE  SGDInv'
<1>1. /\ conf' = conf /\ uses' = uses /\ raw' = raw /\ scaled' = scaled /\ fed' = fed
      /\ epoch' = epoch /\ active_party' = active_party /\ row_index' = row_index
      /\ done' = done /\ this_batch_size' = this_batch_size
      /\ model' = model /\ gradient' = gradient
      /\ at[p] = "labels" /\ at' = [at EXCEPT ![p] = "backward"]
  BY DEF SubtractLabels, Goto, loopvars
<1>2. SGDTypeOK /\ InTurn(p) /\ UsesOf(p) /\ Filled(p)
  BY DEF SGDInv
<1>3. Half' = Half /\ LastBatch' = LastBatch
  BY <1>1 DEF Half, LastBatch
<1>4. at'[p] = "backward" /\ \A q \in SGDParties : q # p => at'[q] = at[q]
  BY <1>1, <1>2 DEF SGDTypeOK
<1>5. /\ activations' \in [SGDParties -> Seq(UInt)]
      /\ activations'[p] \in [1 .. this_batch_size[p] -> UInt]
      /\ \A q \in SGDParties : q # p => activations'[q] = activations[q]
  <2>1. /\ activations[p] \in [1 .. this_batch_size[p] -> UInt]
        /\ activations \in [SGDParties -> Seq(UInt)] /\ this_batch_size[p] \in Nat
    BY <1>1, <1>2, PartyTypes DEF Filled, SGDTypeOK
  <2>2. CASE active_party[p] # p
    BY <2>1, <2>2 DEF SubtractLabels
  <2>3. CASE active_party[p] = p
    <3> DEFINE new == [x \in DOMAIN activations[p] |-> Word(activations[p][x] - Labels[p])]
    <3>1. activations' = [activations EXCEPT ![p] = new]
      BY <2>3 DEF SubtractLabels
    <3>2. ASSUME NEW x \in 1 .. this_batch_size[p]
          PROVE  Word(activations[p][x] - Labels[p]) \in UInt
      <4>1. activations[p][x] \in UInt /\ Labels[p] \in UInt
        BY <2>1, SGDAssumption
      <4>2. activations[p][x] - Labels[p] \in Int
        BY <4>1, WordTypes
      <4> QED
        BY <4>2, WordTypes
    <3>3. DOMAIN activations[p] = 1 .. this_batch_size[p]
      BY <2>1
    <3>4. new \in [1 .. this_batch_size[p] -> UInt]
      BY <3>2, <3>3
    <3>5. new \in Seq(UInt)
      <4> HIDE DEF new
      <4> QED
        BY <2>1, <3>4
    <3> HIDE DEF new
    <3> QED
      BY <2>1, <3>1, <3>4, <3>5
  <2> QED
    BY <2>2, <2>3
<1>6. SGDTypeOK'
  <2>1. ASSUME NEW q \in SGDParties,
               at'[q] \in {"forward", "sigmoid", "labels", "backward", "update"}
        PROVE  row_index'[q][active_party'[q]] + this_batch_size'[q] <= Half'
    BY <1>1, <1>2, <1>3, <1>4, <2>1 DEF SGDTypeOK
  <2>2. at' \in [SGDParties -> {"batch", "forward", "sigmoid", "labels", "backward", "update",
                                "done", "crashed"}]
    BY <1>1, <1>2 DEF SGDTypeOK
  <2>3. {activations', raw', scaled', fed'} \subseteq [SGDParties -> Seq(UInt)]
    BY <1>1, <1>2, <1>5 DEF SGDTypeOK
  <2> QED
    BY <1>1, <1>2, <1>3, <2>1, <2>2, <2>3 DEF SGDTypeOK, UInt
<1>7. InTurn(p)'
  BY <1>1, <1>2, <1>3, <1>4 DEF InTurn, InBatch, ThisBatchSize
<1>8. UsesOf(p)'
  <2>1. \A q, x : Before(p, q, x)' = Before(p, q, x)
    BY <1>1, <1>3 DEF Before
  <2>2. \A q : Reached(p, q)' = Reached(p, q)
    BY <1>1, <1>4 DEF Reached, Fetched
  <2> QED
    BY <1>1, <1>2, <1>3, <2>1, <2>2 DEF UsesOf
<1>9. Filled(p)'
  BY <1>1, <1>5 DEF Filled, UInt
<1> QED
  BY <1>1, <1>4, <1>5, <1>6, <1>7, <1>8, <1>9, LocalStep

LEMMA QuotientType ==
  ASSUME NEW m \in Nat \ {0}, NEW a \in 0 .. m - 1, NEW d \in Nat \ {0}
  PROVE  a \div d \in 0 .. m - 1
<1> DEFINE q == a \div d
           r == a % d
<1>1. a = d * q + r /\ q \in Nat /\ r \in 0 .. d - 1
  <2>1. a \in Nat
    OBVIOUS
  <2> QED
    BY <2>1, Division
<1> HIDE DEF q, r
<1>2. q <= d * q
  <2>1. PICK c \in Nat : d = c + 1
    <3>1. d - 1 \in Nat /\ d = (d - 1) + 1
      OBVIOUS
    <3> QED
      BY <3>1
  <2>2. d * q = c * q + q /\ c * q \in Nat
    BY <1>1, <2>1
  <2> QED
    BY <1>1, <2>2
<1>3. q \in 0 .. m - 1
  <2> DEFINE x == d * q
  <2>1. x \in Nat /\ q <= x /\ a = x + r
    BY <1>1, <1>2
  <2> HIDE DEF x
  <2> QED
    BY <1>1, <2>1
<1> QED
  BY <1>3 DEF q

LEMMA RescaledType ==
  ASSUME NEW a \in UInt
  PROVE  Rescaled(a) \in UInt /\ \A n \in Nat \ {0} : Rescaled(a \div n) \in UInt
<1>1. Power[Width] \in Nat \ {0} /\ Power[precision] \in Nat \ {0}
  BY BitWeights, WordTypes
<1>2. \A x \in UInt : Rescaled(x) \in UInt
  BY <1>1, QuotientType DEF Rescaled, UInt
<1>3. \A n \in Nat \ {0} : a \div n \in UInt
  BY <1>1, QuotientType DEF UInt
<1> QED
  BY <1>2, <1>3

LEMMA UpdateStep ==
  ASSUME SGDInv, NEW p \in SGDParties, Update(p)
  PROVE  SGDInv'
<1> DEFINE n == this_batch_size[p]
           a == active_party[p]
           b == conf.batch_size
           h == Half
           r0 == row_index[p][0]
           r1 == row_index[p][1]
<1>1. /\ conf' = conf /\ uses' = uses /\ raw' = raw /\ scaled' = scaled /\ fed' = fed
      /\ epoch' = epoch /\ this_batch_size' = this_batch_size /\ activations' = activations
      /\ at[p] = "update" /\ n # 0 /\ at' = [at EXCEPT ![p] = "batch"]
      /\ gradient' = [gradient EXCEPT ![p] = Rescaled(@ \div n)]
      /\ model' = [model EXCEPT ![p] = Word(@ + gradient'[p])]
      /\ row_index' = [row_index EXCEPT ![p][a] = @ + n]
      /\ done' = [done EXCEPT ![p][a] = @ \/ AllUsed(p)]
      /\ active_party' = [active_party EXCEPT ![p] = IF done'[p][1 - a] THEN a ELSE 1 - a]
  BY DEF Update, Goto
<1>2. SGDTypeOK /\ InTurn(p) /\ UsesOf(p) /\ Filled(p)
  BY DEF SGDInv
<1>3. Half' = h /\ LastBatch' = LastBatch
  BY <1>1 DEF Half, LastBatch
<1>4. /\ b \in Nat \ {0} /\ h \in Nat /\ r0 \in 0 .. h /\ r1 \in 0 .. h /\ a \in {0, 1}
      /\ r1 % b = 0 /\ ~done[p][1] /\ ~done[p][0]
      /\ h = 0 => r0 = 0 /\ a = 0
      /\ h > 0 => r1 < h
      /\ a = 0 => r0 = r1
      /\ a = 1 => r1 + b < h /\ r0 = r1 + b
      /\ n \in 0 .. b
      /\ n = IF b > h - (IF a = 0 THEN r0 ELSE r1) THEN h - (IF a = 0 THEN r0 ELSE r1) ELSE b
  <2>1. InBatch(p) /\ this_batch_size[p] = ThisBatchSize(p) /\ ~done[p][0]
    BY <1>1, TurnFacts DEF InBatch
  <2>2. row_index[p][a] = IF a = 0 THEN r0 ELSE r1
    BY TurnFacts
  <2> QED
    BY <2>1, <2>2, TurnFacts, BatchFits DEF ThisBatchSize
<1>5. /\ at'[p] = "batch"
      /\ active_party'[p] = IF done'[p][1 - a] THEN a ELSE 1 - a
      /\ \A q \in SGDParties : row_index'[p][q] = row_index[p][q] + (IF q = a THEN n ELSE 0)
      /\ \A q \in SGDParties : q # a => done'[p][q] = done[p][q]
      /\ done'[p][a] <=> row_index'[p][a] = h
      /\ \A q \in SGDParties : q # p =>
           /\ at'[q] = at[q] /\ active_party'[q] = active_party[q]
           /\ row_index'[q] = row_index[q] /\ done'[q] = done[q]
  <2>1. at'[p] = "batch" /\ active_party'[p] = IF done'[p][1 - a] THEN a ELSE 1 - a
    BY <1>1, <1>2 DEF SGDTypeOK
  <2>2. \A q \in SGDParties : q # p =>
           /\ at'[q] = at[q] /\ active_party'[q] = active_party[q]
           /\ row_index'[q] = row_index[q] /\ done'[q] = done[q]
    BY <1>1, <1>2 DEF SGDTypeOK
  <2>3. /\ row_index[p] \in [SGDParties -> 0 .. h] /\ done[p] \in [SGDParties -> BOOLEAN]
        /\ a \in SGDParties
    BY <1>2, PartyTypes DEF SGDParties
  <2>4. row_index'[p] = [row_index[p] EXCEPT ![a] = @ + n]
    BY <1>1, <1>2 DEF SGDTypeOK
  <2>5. done'[p] = [done[p] EXCEPT ![a] = @ \/ AllUsed(p)]
    BY <1>1, <1>2 DEF SGDTypeOK
  <2>6. \A q \in SGDParties : row_index'[p][q] = row_index[p][q] + (IF q = a THEN n ELSE 0)
    <3>1. \A q \in SGDParties : row_index[p][q] \in Nat
      BY <1>4, <2>3
    <3> QED
      BY <2>3, <2>4, <3>1
  <2>7. ~done[p][a]
    BY <1>4
  <2>8. AllUsed(p) <=> row_index'[p][a] = h
    BY DEF AllUsed
  <2>9. /\ done'[p][a] = (done[p][a] \/ AllUsed(p))
        /\ \A q \in SGDParties : q # a => done'[p][q] = done[p][q]
    BY <2>3, <2>5
  <2> QED
    BY <2>1, <2>2, <2>6, <2>7, <2>8, <2>9
<1>6. InTurn(p)'
  <2>1. r1 % b = 0 /\ (r1 + b) % b = 0
    <3> HIDE DEF r1, b
    <3>1. r1 \in Nat
      BY <1>4
    <3> QED
      BY <1>4, <3>1, LastOf
  <2>2. /\ row_index'[p][0] = r0 + (IF 0 = a THEN n ELSE 0)
        /\ row_index'[p][1] = r1 + (IF 1 = a THEN n ELSE 0)
    BY <1>5, OtherParty
  <2>3. CASE a = 0
    <3> HIDE DEF n, a, b, h, r0, r1
    <3>1. /\ row_index'[p][0] = r0 + n /\ row_index'[p][1] = r1
          /\ done'[p][1] = done[p][1] /\ (done'[p][0] <=> r0 + n = h)
          /\ active_party'[p] = 1
      <4>1. row_index'[p][0] = r0 + n /\ row_index'[p][1] = r1
        BY <1>4, <2>2, <2>3
      <4>2. done'[p][1] = done[p][1] /\ (done'[p][0] <=> row_index'[p][0] = h)
        BY <1>5, <2>3, OtherParty
      <4>3. active_party'[p] = 1
        <5>1. 1 - a = 1 /\ ~done'[p][1]
          BY <1>4, <2>3, <4>2
        <5> QED
          BY <1>5, <5>1
      <4> QED
        BY <4>1, <4>2, <4>3
    <3>2. /\ r1 % b = 0 /\ ~done'[p][1] /\ h > 0
          /\ r1 < h
          /\ IF r1 + b < h THEN r0 + n = r1 + b /\ ~(r0 + n = h) ELSE r0 + n = h
      BY <1>1, <1>4, <2>1, <2>3, <3>1
    <3> QED
      BY <1>1, <1>3, <1>5, <3>1, <3>2 DEF InTurn, InBatch, h, b
  <2>4. CASE a = 1
    <3> HIDE DEF n, a, b, h, r0, r1
    <3>1. /\ row_index'[p][0] = r0 /\ row_index'[p][1] = r1 + n
          /\ done'[p][0] = done[p][0] /\ (done'[p][1] <=> r1 + n = h)
          /\ active_party'[p] = 0
      <4>1. row_index'[p][0] = r0 /\ row_index'[p][1] = r1 + n
        BY <1>4, <2>2, <2>4
      <4>2. done'[p][0] = done[p][0] /\ (done'[p][1] <=> row_index'[p][1] = h)
        BY <1>5, <2>4, OtherParty
      <4>3. active_party'[p] = 0
        <5>1. 1 - a = 0 /\ ~done'[p][0]
          BY <1>4, <2>4, <4>2
        <5> QED
          BY <1>5, <5>1
      <4> QED
        BY <4>1, <4>2, <4>3
    <3>2. n = b /\ r1 + b < h /\ r0 = r1 + b /\ h > 0
      BY <1>4, <2>4
    <3>3. /\ (r1 + n) % b = 0 /\ ~done'[p][1] /\ ~done'[p][0] /\ r0 = r1 + n /\ r1 + n < h
      BY <1>4, <2>1, <3>1, <3>2
    <3> QED
      BY <1>1, <1>3, <1>5, <3>1, <3>2, <3>3 DEF InTurn, InBatch, h, b
  <2> QED
    BY <1>4, <2>3, <2>4
<1>7. SGDTypeOK'
  <2>1. at' \in [SGDParties -> {"batch", "forward", "sigmoid", "labels", "backward", "update",
                                "done", "crashed"}]
    BY <1>1, <1>2 DEF SGDTypeOK
  <2>2. active_party' \in [SGDParties -> SGDParties]
    <3>1. 1 - a \in SGDParties /\ a \in SGDParties
      BY <1>4, OtherParty DEF SGDParties
    <3> HIDE DEF a
    <3> QED
      BY <1>1, <1>2, <3>1 DEF SGDTypeOK
  <2>3. row_index' \in [SGDParties -> [SGDParties -> 0 .. h]]
    <3>1. row_index[p][a] + n \in 0 .. h
      <4>1. row_index[p][a] = IF a = 0 THEN r0 ELSE r1
        BY <1>4
      <4> HIDE DEF n, a, b, h, r0, r1
      <4> QED
        BY <1>4, <4>1
    <3> HIDE DEF n, a, h
    <3> QED
      BY <1>1, <1>2, <3>1 DEF SGDTypeOK, h
  <2>4. done' \in [SGDParties -> [SGDParties -> BOOLEAN]]
    <3> HIDE DEF a
    <3>1. (done[p][a] \/ AllUsed(p)) \in BOOLEAN
      OBVIOUS
    <3> DEFINE all == done[p][a] \/ AllUsed(p)
    <3>2. done' = [done EXCEPT ![p][a] = all]
      BY <1>1
    <3> HIDE DEF all
    <3> QED
      BY <1>2, <3>1, <3>2 DEF SGDTypeOK, all
  <2>5. /\ gradient' \in [SGDParties -> UInt] /\ gradient'[p] \in UInt
    <3>1. gradient[p] \in UInt /\ n \in Nat \ {0}
      BY <1>1, <1>2, <1>4, PartyTypes
    <3>2. Rescaled(gradient[p] \div n) \in UInt
      BY <3>1, RescaledType
    <3> HIDE DEF n
    <3> QED
      BY <1>1, <1>2, <3>2 DEF SGDTypeOK
  <2>6. model' \in [SGDParties -> UInt]
    <3>1. model[p] \in Nat /\ gradient'[p] \in Nat
      BY <1>2, <2>5, PartyTypes, WordTypes
    <3>2. Word(model[p] + gradient'[p]) \in UInt
      BY <3>1, WordTypes
    <3> QED
      BY <1>1, <1>2, <3>2 DEF SGDTypeOK
  <2>7. ASSUME NEW q \in SGDParties,
               at'[q] \in {"forward", "sigmoid", "labels", "backward", "update"}
        PROVE  row_index'[q][active_party'[q]] + this_batch_size'[q] <= Half'
    <3>1. q # p
      BY <1>5, <2>7
    <3> QED
      BY <1>1, <1>2, <1>3, <1>5, <2>7, <3>1 DEF SGDTypeOK
  <2> HIDE DEF n, a
  <2> QED
    BY <1>1, <1>2, <1>3, <2>1, <2>2, <2>3, <2>4, <2>5, <2>6, <2>7 DEF SGDTypeOK, UInt
<1>8. UsesOf(p)'
  <2>1. \A q, x : Before(p, q, x)' = Before(p, q, x)
    BY <1>1, <1>3 DEF Before
  <2>2. \A q \in SGDParties : Reached(p, q)' = Reached(p, q)
    <3> TAKE q \in SGDParties
    <3>1. Reached(p, q) = row_index[p][q] + IF q = a THEN n ELSE 0
      BY <1>1 DEF Reached, Fetched
    <3>2. Reached(p, q)' = (row_index[p][q] + IF q = a THEN n ELSE 0) + 0
      BY <1>5 DEF Reached, Fetched
    <3>3. row_index[p][q] \in Nat /\ n \in Nat
      BY <1>2, <1>4, PartyTypes
    <3> HIDE DEF n, a
    <3> QED
      BY <3>1, <3>2, <3>3
  <2> QED
    BY <1>1, <1>2, <1>3, <2>1, <2>2 DEF UsesOf
<1>9. Filled(p)'
  BY <1>5 DEF Filled
<1> QED
  BY <1>1, <1>5, <1>6, <1>7, <1>8, <1>9, LocalStep

(* Joint steps: both parties have the same batch.                          *)
InBatchSteps == {"forward", "sigmoid", "labels", "backward", "update"}

LEMMA TogetherFacts ==
  ASSUME SGDInv, NEW from \in InBatchSteps, NEW to \in InBatchSteps,
         Meet(from, to), conf' = conf, UNCHANGED loopvars
  PROVE  /\ \A p \in SGDParties : at[p] = from /\ at'[p] = to
         /\ \A p \in SGDParties :
              /\ active_party[p] = Active /\ row_index[p] = row_index[0]
              /\ this_batch_size[p] = this_batch_size[0]
              /\ epoch'[p] = epoch[p] /\ active_party'[p] = active_party[p]
              /\ row_index'[p] = row_index[p] /\ this_batch_size'[p] = this_batch_size[p]
         /\ Active \in SGDParties /\ this_batch_size[0] \in Nat
         /\ row_index[0][Active] \in Nat
         /\ row_index[0][Active] + this_batch_size[0] <= Half
         /\ Half' = Half /\ Half \in Nat /\ LastBatch' = LastBatch
         /\ \A p \in SGDParties : InTurn(p)'
         /\ \A p \in SGDParties : \A q, x : Before(p, q, x)' = Before(p, q, x)
         /\ \A p \in SGDParties :
              row_index'[p][active_party'[p]] + this_batch_size'[p] <= Half'
         /\ at' \in [SGDParties -> {"batch", "forward", "sigmoid", "labels", "backward",
                                    "update", "done", "crashed"}]
         /\ epoch' = epoch /\ active_party' = active_party /\ row_index' = row_index
         /\ done' = done /\ this_batch_size' = this_batch_size
<1>1. /\ \A p \in SGDParties : at[p] = from
      /\ at' = [p \in SGDParties |-> to]
      /\ active_party[0] = active_party[1] /\ row_index[0] = row_index[1]
      /\ this_batch_size[0] = this_batch_size[1]
  BY DEF Meet, Both
<1>2. /\ epoch' = epoch /\ active_party' = active_party /\ row_index' = row_index
      /\ done' = done /\ this_batch_size' = this_batch_size
  BY DEF loopvars
<1>3. SGDTypeOK /\ conf \in Cases /\ \A p \in SGDParties : InTurn(p)
  BY DEF SGDInv, SGDTypeOK
<1>4. Half' = Half /\ Half \in Nat /\ LastBatch' = LastBatch
  BY <1>3, ConfFacts DEF Half, LastBatch
<1>5. \A p \in SGDParties : at'[p] = to
  BY <1>1
<1>6. \A p \in SGDParties : /\ active_party[p] = Active /\ row_index[p] = row_index[0]
                            /\ this_batch_size[p] = this_batch_size[0]
  BY <1>1 DEF Active, SGDParties
<1>7. /\ Active \in SGDParties /\ this_batch_size[0] \in Nat
      /\ row_index[0][Active] \in Nat
      /\ row_index[0][Active] + this_batch_size[0] <= Half
  <2>1. 0 \in SGDParties /\ at[0] = from
    BY <1>1, OtherParty
  <2>2. /\ Active \in SGDParties /\ this_batch_size[0] \in Nat
        /\ row_index[0] \in [SGDParties -> 0 .. Half]
    BY <1>3, <2>1, PartyTypes DEF Active, SGDParties
  <2>3. row_index[0][active_party[0]] + this_batch_size[0] <= Half
    BY <1>3, <2>1 DEF SGDTypeOK, InBatchSteps
  <2> QED
    BY <1>4, <2>2, <2>3 DEF Active
<1>8. \A p \in SGDParties : InTurn(p)'
  BY <1>1, <1>2, <1>3, <1>4, <1>5 DEF InTurn, InBatch, InBatchSteps, ThisBatchSize
<1>9. \A p \in SGDParties : \A q, x : Before(p, q, x)' = Before(p, q, x)
  BY <1>2, <1>4 DEF Before
<1>10. \A p \in SGDParties : row_index'[p][active_party'[p]] + this_batch_size'[p] <= Half'
  BY <1>2, <1>4, <1>6, <1>7 DEF Active
<1>11. at' \in [SGDParties -> {"batch", "forward", "sigmoid", "labels", "backward",
                               "update", "done", "crashed"}]
  BY <1>1 DEF InBatchSteps
<1> QED
  BY <1>1, <1>2, <1>4, <1>5, <1>6, <1>7, <1>8, <1>9, <1>10, <1>11

LEMMA RowFacts ==
  ASSUME SGDInv, Active \in SGDParties,
         row_index[0][Active] \in Nat, this_batch_size[0] \in Nat,
         row_index[0][Active] + this_batch_size[0] <= Half,
         NEW x \in BatchRows
  PROVE  /\ RowNo(x) \in 1 .. Half
         /\ Data[Active][RowNo(x)] \in Nat
<1>1. Half \in Nat /\ Data[Active] \in Seq(UInt) /\ Half <= Len(Data[Active])
  BY ConfFacts DEF SGDInv, SGDTypeOK
<1>2. RowNo(x) \in 1 .. Half
  <2> DEFINE r == row_index[0][Active]
  <2> HIDE DEF r
  <2>1. r \in Nat /\ r + this_batch_size[0] <= Half /\ RowNo(x) = r + x
    BY DEF r, RowNo
  <2>2. x \in 1 .. this_batch_size[0]
    BY DEF BatchRows
  <2> QED
    BY <1>1, <2>1, <2>2
<1>3. RowNo(x) \in 1 .. Len(Data[Active])
  BY <1>1, <1>2
<1>4. Data[Active][RowNo(x)] \in UInt
  BY <1>1, <1>3
<1> QED
  BY <1>2, <1>4, WordTypes

LEMMA HalvesTypes ==
  ASSUME NEW v \in Int, NEW s \in UInt
  PROVE  Halves(v, s) \in [SGDParties -> UInt]
<1>1. s \in Int
  BY WordTypes
<1>2. v - s + v \in Int
  BY <1>1
<1>3. Word(v - s + v) \in UInt
  BY <1>2, WordTypes
<1> QED
  BY <1>3 DEF Halves

(* The rows of the batch are counted, for the active party.                *)
LEMMA ForwardUses ==
  ASSUME SGDInv, Forward, NEW p \in SGDParties
  PROVE  UsesOf(p)'
<1>1. /\ Meet("forward", "sigmoid") /\ conf' = conf /\ UNCHANGED loopvars
      /\ uses' = [uses EXCEPT ![Active] =
                    [y \in 1 .. Half |->
                       IF \E x \in BatchRows : y = RowNo(x)
                         THEN uses[Active][y] + 1 ELSE uses[Active][y]]]
  BY DEF Forward
<1>2. "forward" \in InBatchSteps /\ "sigmoid" \in InBatchSteps
  BY DEF InBatchSteps
<1> DEFINE a == Active
           r == row_index[0][a]
           n == this_batch_size[0]
<1>3. /\ at[p] = "forward" /\ at'[p] = "sigmoid"
      /\ active_party[p] = a /\ row_index[p] = row_index[0] /\ this_batch_size[p] = n
      /\ active_party'[p] = active_party[p] /\ row_index'[p] = row_index[p]
      /\ this_batch_size'[p] = this_batch_size[p]
      /\ a \in SGDParties /\ n \in Nat /\ r \in Nat /\ r + n <= Half
      /\ Half' = Half /\ Half \in Nat
      /\ \A q, x : Before(p, q, x)' = Before(p, q, x)
  BY <1>1, <1>2, TogetherFacts
<1>4. SGDTypeOK /\ UsesOf(p)
  BY DEF SGDInv
<1>5. ASSUME NEW q \in SGDParties, NEW y \in 1 .. Half
      PROVE  uses'[q][y] = Before(p, q, y) + (IF y <= Reached(p, q)' THEN 1 ELSE 0)
  <2>1. uses[q][y] = Before(p, q, y) + (IF y <= row_index[p][q] + 0 THEN 1 ELSE 0)
    BY <1>3, <1>4 DEF UsesOf, Reached, Fetched
  <2>2. row_index[p][q] \in Nat
    BY <1>3, <1>4, PartyTypes
  <2>3. CASE q # a
    <3>1. uses'[q][y] = uses[q][y]
      BY <1>1, <1>4, <2>3 DEF SGDTypeOK
    <3>2. Reached(p, q)' = row_index[p][q] + 0
      BY <1>3, <2>3 DEF Reached, Fetched
    <3> QED
      BY <2>1, <3>1, <3>2
  <2>4. CASE q = a
    <3>1. uses'[q][y] = IF \E x \in BatchRows : y = RowNo(x) THEN uses[q][y] + 1 ELSE uses[q][y]
      BY <1>1, <1>4, <2>4 DEF SGDTypeOK
    <3>2. Reached(p, q)' = r + n
      BY <1>3, <2>4 DEF Reached, Fetched
    <3>3. (\E x \in BatchRows : y = RowNo(x)) <=> r < y /\ y <= r + n
      <4> HIDE DEF r, n
      <4>1. \A x \in BatchRows : RowNo(x) = r + x /\ x \in 1 .. n
        BY DEF RowNo, BatchRows, r, n
      <4>2. ASSUME r < y, y <= r + n PROVE \E x \in BatchRows : y = RowNo(x)
        <5>1. y - r \in 1 .. n /\ y = r + (y - r)
          BY <1>3, <4>2
        <5>2. y - r \in BatchRows
          BY <5>1 DEF BatchRows, n
        <5> QED
          BY <4>1, <5>1, <5>2
      <4> QED
        BY <1>3, <4>1, <4>2
    <3>4. row_index[p][q] = r
      BY <1>3, <2>4
    <3>5. Before(p, q, y) \in Int
      <4>1. epoch[p] \in Int
        BY <1>4, PartyTypes
      <4> QED
        BY <4>1 DEF Before
    <3> HIDE DEF r, n, a
    <3> QED
      BY <1>3, <2>1, <3>1, <3>2, <3>3, <3>4, <3>5
  <2> QED
    BY <2>3, <2>4
<1>6. uses' = [q \in SGDParties |-> [y \in 1 .. Half |-> uses'[q][y]]]
  <2>1. \A q \in SGDParties : uses[q] = [y \in 1 .. Half |-> uses[q][y]]
    BY <1>4 DEF SGDTypeOK
  <2>2. DOMAIN uses = SGDParties
    BY <1>4 DEF SGDTypeOK
  <2> DEFINE new == [y \in 1 .. Half |->
                       IF \E x \in BatchRows : y = RowNo(x)
                         THEN uses[Active][y] + 1 ELSE uses[Active][y]]
  <2>3. uses' = [uses EXCEPT ![Active] = new] /\ new = [y \in 1 .. Half |-> new[y]]
    BY <1>1
  <2> HIDE DEF new
  <2>4. \A q \in SGDParties : uses'[q] = [y \in 1 .. Half |-> uses'[q][y]]
    BY <1>3, <2>1, <2>2, <2>3
  <2>5. uses' = [q \in SGDParties |-> uses'[q]]
    BY <2>2, <2>3
  <2> QED
    BY <2>4, <2>5
<1> QED
  BY <1>3, <1>5, <1>6 DEF UsesOf

LEMMA UsesType ==
  ASSUME conf \in Cases, epoch[0] \in 0 .. conf.num_epochs - 1, UsesOf(0)
  PROVE  uses \in [SGDParties -> [1 .. Half -> 0 .. conf.num_epochs]]
<1>1. conf.num_epochs \in Nat \ {0}
  BY ConfFacts
<1>2. \A q, x : Before(0, q, x) \in 0 .. conf.num_epochs - 1
  BY <1>1 DEF Before
<1>3. \A q, x : Before(0, q, x) + (IF x <= Reached(0, q) THEN 1 ELSE 0) \in 0 .. conf.num_epochs
  BY <1>1, <1>2
<1> QED
  BY <1>3 DEF UsesOf

LEMMA BatchIsSeq ==
  ASSUME NEW S, NEW n \in Nat, NEW f \in [1 .. n -> S]
  PROVE  f \in Seq(S)
  OBVIOUS

(* A joint step keeps the invariant when it keeps its parts.               *)
LEMMA JointStep ==
  ASSUME SGDInv, NEW from \in InBatchSteps, NEW to \in InBatchSteps,
         Meet(from, to), conf' = conf, UNCHANGED loopvars,
         model' = model, gradient' \in [SGDParties -> UInt],
         activations' \in [SGDParties -> Seq(UInt)], raw' \in [SGDParties -> Seq(UInt)],
         scaled' \in [SGDParties -> Seq(UInt)], fed' \in [SGDParties -> Seq(UInt)],
         \A p \in SGDParties : UsesOf(p)' /\ Filled(p)',
         Divided', SigmoidOfFed'
  PROVE  SGDInv'
<1>1. SGDTypeOK /\ conf \in Cases
  BY DEF SGDInv, SGDTypeOK
<1>2. /\ \A p \in SGDParties : InTurn(p)'
      /\ \A p \in SGDParties : \A q, x : Before(p, q, x)' = Before(p, q, x)
      /\ \A p \in SGDParties :
           row_index'[p][active_party'[p]] + this_batch_size'[p] <= Half'
      /\ at' \in [SGDParties -> {"batch", "forward", "sigmoid", "labels", "backward",
                                 "update", "done", "crashed"}]
      /\ epoch' = epoch /\ active_party' = active_party /\ row_index' = row_index
      /\ done' = done /\ this_batch_size' = this_batch_size /\ Half' = Half
  BY TogetherFacts
<1>3. uses' \in [SGDParties -> [1 .. Half -> 0 .. conf.num_epochs]]
  <2>1. 0 \in SGDParties /\ conf.num_epochs \in Nat \ {0} /\ epoch[0] \in 0 .. conf.num_epochs - 1
    BY <1>1, OtherParty, ConfFacts, PartyTypes
  <2>2. \A q, x : Before(0, q, x) \in 0 .. conf.num_epochs - 1
    BY <2>1 DEF Before
  <2>3. \A q, x : Before(0, q, x)' + (IF x <= Reached(0, q)' THEN 1 ELSE 0) \in 0 .. conf.num_epochs
    BY <1>2, <2>1, <2>2
  <2>4. UsesOf(0)'
    BY <2>1
  <2> QED
    BY <1>2, <2>3, <2>4 DEF UsesOf
<1>4. {activations', raw', scaled', fed'} \subseteq [SGDParties -> Seq(UInt)]
  OBVIOUS
<1>5. SGDTypeOK'
  <2>1. conf' \in Cases /\ model' \in [SGDParties -> UInt]
    BY <1>1 DEF SGDTypeOK
  <2>2. /\ epoch' \in [SGDParties -> 0 .. conf'.num_epochs - 1]
        /\ active_party' \in [SGDParties -> SGDParties]
        /\ row_index' \in [SGDParties -> [SGDParties -> 0 .. Half']]
        /\ done' \in [SGDParties -> [SGDParties -> BOOLEAN]]
        /\ this_batch_size' \in [SGDParties -> 0 .. conf'.batch_size]
    BY <1>1, <1>2 DEF SGDTypeOK
  <2> QED
    BY <1>2, <1>3, <1>4, <2>1, <2>2 DEF SGDTypeOK, UInt
<1> QED
  BY <1>2, <1>5 DEF SGDInv

(* Which rows the parties count does not change once a batch was fetched.  *)
LEMMA UsesKept ==
  ASSUME SGDInv, NEW from \in InBatchSteps, NEW to \in InBatchSteps,
         Meet(from, to), conf' = conf, UNCHANGED loopvars,
         from # "forward", to # "forward", uses' = uses
  PROVE  \A p \in SGDParties : UsesOf(p)'
<1> TAKE p \in SGDParties
<1>1. /\ at[p] = from /\ at'[p] = to /\ active_party'[p] = active_party[p]
      /\ row_index'[p] = row_index[p] /\ this_batch_size'[p] = this_batch_size[p]
      /\ Half' = Half
      /\ \A q, x : Before(p, q, x)' = Before(p, q, x)
  BY TogetherFacts
<1>2. \A q : Reached(p, q)' = Reached(p, q)
  <2>1. Fetched(p) /\ Fetched(p)'
    BY <1>1 DEF Fetched, InBatchSteps
  <2> QED
    BY <1>1, <2>1 DEF Reached
<1>3. UsesOf(p)
  BY DEF SGDInv
<1> QED
  BY <1>1, <1>2, <1>3 DEF UsesOf

LEMMA ForwardStep ==
  ASSUME SGDInv, Forward
  PROVE  SGDInv'
<1>1. PICK s \in [BatchRows -> Role0Shares] :
        raw' = [p \in SGDParties |-> [x \in BatchRows |->
                  Halves(Data[Active][RowNo(x)] * model[Active], s[x])[p]]]
  BY DEF Forward
<1>2. /\ Meet("forward", "sigmoid") /\ conf' = conf /\ UNCHANGED loopvars
      /\ scaled' = [p \in SGDParties |-> [x \in BatchRows |-> Rescaled(raw'[p][x])]]
      /\ activations' = scaled' /\ model' = model /\ gradient' = gradient /\ fed' = fed
  BY DEF Forward
<1>3. "forward" \in InBatchSteps /\ "sigmoid" \in InBatchSteps
  BY DEF InBatchSteps
<1>4. /\ Active \in SGDParties /\ this_batch_size[0] \in Nat
      /\ row_index[0][Active] \in Nat
      /\ row_index[0][Active] + this_batch_size[0] <= Half
      /\ \A p \in SGDParties : /\ at'[p] = "sigmoid"
                               /\ this_batch_size'[p] = this_batch_size[0]
  BY <1>2, <1>3, TogetherFacts
<1>5. SGDTypeOK
  BY DEF SGDInv
<1>6. ASSUME NEW p \in SGDParties, NEW x \in BatchRows
      PROVE  /\ raw'[p][x] \in UInt /\ scaled'[p][x] \in UInt
             /\ scaled'[p][x] = Rescaled(raw'[p][x])
  <2> DEFINE d == Data[Active][RowNo(x)]
             w == model[Active]
  <2>1. d \in Nat /\ w \in Nat
    BY <1>4, <1>5, RowFacts, PartyTypes, WordTypes
  <2> HIDE DEF d, w
  <2>2. d * w \in Int
    BY <2>1
  <2>3. s[x] \in UInt
    BY SGDAssumption
  <2> DEFINE v == d * w
  <2> HIDE DEF v
  <2>4. Halves(v, s[x]) \in [SGDParties -> UInt]
    <3> DEFINE t == s[x]
    <3>1. t \in UInt /\ v \in Int
      BY <2>2, <2>3 DEF v
    <3> HIDE DEF t
    <3>2. Halves(v, t) \in [SGDParties -> UInt]
      BY <3>1, HalvesTypes
    <3> QED
      BY <3>2 DEF t
  <2>5. raw'[p][x] = Halves(v, s[x])[p]
    BY <1>1 DEF d, w, v
  <2>6. raw'[p][x] \in UInt
    BY <2>4, <2>5
  <2>7. scaled'[p][x] = Rescaled(raw'[p][x])
    BY <1>2
  <2>8. Rescaled(raw'[p][x]) \in UInt
    <3> DEFINE t == raw'[p][x]
    <3>1. t \in UInt
      BY <2>6
    <3> HIDE DEF t
    <3>2. Rescaled(t) \in UInt
      BY <3>1, RescaledType
    <3> QED
      BY <3>2 DEF t
  <2> QED
    BY <2>6, <2>7, <2>8
<1>7. \A p \in SGDParties : /\ raw'[p] \in [BatchRows -> UInt] /\ scaled'[p] \in [BatchRows -> UInt]
                            /\ activations'[p] \in [BatchRows -> UInt]
  <2> TAKE p \in SGDParties
  <2>1. raw'[p] = [x \in BatchRows |-> raw'[p][x]]
    BY <1>1
  <2>2. scaled'[p] = [x \in BatchRows |-> scaled'[p][x]]
    BY <1>2
  <2> QED
    BY <1>2, <1>6, <2>1, <2>2
<1>8. /\ raw' \in [SGDParties -> Seq(UInt)] /\ scaled' \in [SGDParties -> Seq(UInt)]
      /\ activations' \in [SGDParties -> Seq(UInt)] /\ fed' \in [SGDParties -> Seq(UInt)]
  <2>1. \A p \in SGDParties : raw'[p] \in Seq(UInt) /\ scaled'[p] \in Seq(UInt)
    BY <1>4, <1>7, BatchIsSeq DEF BatchRows
  <2>2. raw' = [p \in SGDParties |-> raw'[p]]
    BY <1>1
  <2>3. scaled' = [p \in SGDParties |-> scaled'[p]]
    BY <1>2
  <2>4. fed \in [SGDParties -> Seq(UInt)]
    BY <1>5 DEF SGDTypeOK
  <2> QED
    BY <1>2, <2>1, <2>2, <2>3, <2>4
<1>9. \A p \in SGDParties : UsesOf(p)' /\ Filled(p)'
  <2> TAKE p \in SGDParties
  <2>1. UsesOf(p)'
    BY ForwardUses
  <2>2. Filled(p)'
    BY <1>4, <1>7 DEF Filled, BatchRows, UInt
  <2> QED
    BY <2>1, <2>2
<1>10. Divided'
  <2>1. \A p \in SGDParties : DOMAIN raw'[p] = BatchRows /\ DOMAIN scaled'[p] = BatchRows
    BY <1>7
  <2> QED
    BY <1>6, <2>1, OtherParty DEF Divided, Rescaled
<1>11. SigmoidOfFed'
  BY <1>4, OtherParty DEF SigmoidOfFed, IsSigmoidOf
<1>12. gradient' \in [SGDParties -> UInt]
  BY <1>2, <1>5 DEF SGDTypeOK
<1> QED
  BY <1>2, <1>3, <1>8, <1>9, <1>10, <1>11, <1>12, JointStep

LEMMA SigmoidStep ==
  ASSUME SGDInv, Sigmoid
  PROVE  SGDInv'
<1> DEFINE f == activations
<1>1. PICK r \in [BatchRows -> Masks] :
        /\ fed' = [activations EXCEPT ![1] = r]
        /\ activations' =
             [p \in SGDParties |-> IF p = 1 THEN r
                ELSE [x \in BatchRows |->
                        Word(Sig(Opened(fed'[0][x], fed'[1][x])) - r[x])]]
  BY DEF Sigmoid
<1>2. /\ Meet("sigmoid", "labels") /\ conf' = conf /\ UNCHANGED loopvars
      /\ model' = model /\ gradient' = gradient /\ raw' = raw /\ scaled' = scaled /\ uses' = uses
  BY DEF Sigmoid
<1>3. /\ "sigmoid" \in InBatchSteps /\ "labels" \in InBatchSteps
      /\ "sigmoid" # "forward" /\ "labels" # "forward"
  BY DEF InBatchSteps
<1>4. /\ this_batch_size[0] \in Nat /\ this_batch_size' = this_batch_size
      /\ \A p \in SGDParties : /\ at[p] = "sigmoid" /\ at'[p] = "labels"
                               /\ this_batch_size[p] = this_batch_size[0]
  BY <1>2, <1>3, TogetherFacts
<1>5. SGDTypeOK /\ 0 \in SGDParties /\ 1 \in SGDParties
  BY OtherParty DEF SGDInv
<1>6. activations[0] \in [BatchRows -> UInt] /\ r \in [BatchRows -> UInt]
  <2>1. Filled(0)
    BY <1>5 DEF SGDInv
  <2>2. Masks \subseteq UInt
    BY SGDAssumption
  <2> QED
    BY <1>4, <1>5, <2>1, <2>2 DEF Filled, BatchRows
<1>7. fed'[0] = activations[0] /\ fed'[1] = r
  BY <1>1, <1>5 DEF SGDTypeOK
<1>8. ASSUME NEW x \in BatchRows
      PROVE  /\ activations'[0][x] \in UInt /\ activations'[1][x] = r[x]
             /\ Opened(activations'[0][x], activations'[1][x])
                  = Piecewise(Opened(fed'[0][x], fed'[1][x]))
  <2> DEFINE v == Opened(fed'[0][x], fed'[1][x])
             t == r[x]
             sig == Sig(v)
  <2>1. fed'[0][x] \in UInt /\ fed'[1][x] \in UInt /\ t \in UInt
    BY <1>6, <1>7
  <2>2. v \in UInt
    <3>1. fed'[0][x] + fed'[1][x] \in Int
      BY <2>1, WordTypes
    <3> QED
      BY <3>1, WordTypes DEF Opened
  <2>3. activations'[0][x] = Word(sig - t) /\ activations'[1][x] = t
    BY <1>1, <1>5
  <2> HIDE DEF v, t
  <2>4. sig = Piecewise(v) /\ sig \in UInt
    BY <2>2, SigIsPiecewise
  <2> HIDE DEF sig
  <2>5. Word(sig - t) \in UInt
    <3>1. sig - t \in Int
      BY <2>1, <2>4, WordTypes
    <3> QED
      BY <3>1, WordTypes
  <2>6. Opened(Word(sig - t), t) = sig
    BY <2>1, <2>4, Unmasked
  <2> QED
    BY <2>3, <2>4, <2>5, <2>6 DEF v, t
<1>9. activations'[0] \in [BatchRows -> UInt] /\ activations'[1] \in [BatchRows -> UInt]
  <2>1. activations'[0] = [x \in BatchRows |-> activations'[0][x]]
    BY <1>1, <1>5
  <2>2. activations'[1] = r
    BY <1>1, <1>5
  <2> QED
    BY <1>6, <1>8, <2>1, <2>2
<1>10. activations' \in [SGDParties -> Seq(UInt)] /\ fed' \in [SGDParties -> Seq(UInt)]
  <2>1. activations'[0] \in Seq(UInt) /\ activations'[1] \in Seq(UInt) /\ r \in Seq(UInt)
    BY <1>4, <1>6, <1>9, BatchIsSeq DEF BatchRows
  <2>2. activations' = [p \in SGDParties |-> activations'[p]]
    BY <1>1
  <2>3. activations \in [SGDParties -> Seq(UInt)]
    BY <1>5 DEF SGDTypeOK
  <2>4. \A p \in SGDParties : activations'[p] \in Seq(UInt)
    BY <2>1 DEF SGDParties
  <2> QED
    BY <1>1, <2>1, <2>2, <2>3, <2>4
<1>11. \A p \in SGDParties : UsesOf(p)' /\ Filled(p)'
  <2> TAKE p \in SGDParties
  <2>1. UsesOf(p)'
    BY <1>2, <1>3, UsesKept
  <2>2. activations'[p] \in [1 .. this_batch_size'[p] -> UInt]
    BY <1>4, <1>9 DEF SGDParties, BatchRows
  <2>3. Filled(p)'
    BY <2>2 DEF Filled, UInt
  <2> QED
    BY <2>1, <2>3
<1>12. Divided'
  BY <1>2 DEF SGDInv, Divided, Rescaled
<1>13. SigmoidOfFed'
  BY <1>4, <1>8 DEF SigmoidOfFed, IsSigmoidOf, BatchRows, Opened, Word, Piecewise
<1>14. /\ gradient' \in [SGDParties -> UInt]
       /\ raw' \in [SGDParties -> Seq(UInt)] /\ scaled' \in [SGDParties -> Seq(UInt)]
  BY <1>2, <1>5 DEF SGDTypeOK
<1> QED
  BY <1>2, <1>3, <1>10, <1>11, <1>12, <1>13, <1>14, JointStep

LEMMA BackwardStep ==
  ASSUME SGDInv, Backward
  PROVE  SGDInv'
<1> DEFINE of(x) == Data[Active][RowNo(x)] * activations[Active][x]
           m == this_batch_size[0]
           Is(v) == v = [n \in 0 .. m |-> IF n = 0 THEN 0 ELSE v[n - 1] + of(n)]
           sum == CHOOSE v : Is(v)
<1>1. PICK s \in Role0Shares : gradient' = Halves(sum[m], s)
  BY DEF Backward
<1>2. /\ Meet("backward", "update") /\ conf' = conf /\ UNCHANGED loopvars
      /\ model' = model /\ activations' = activations
      /\ raw' = raw /\ scaled' = scaled /\ fed' = fed /\ uses' = uses
  BY DEF Backward
<1>3. /\ "backward" \in InBatchSteps /\ "update" \in InBatchSteps
      /\ "backward" # "forward" /\ "update" # "forward"
  BY DEF InBatchSteps
<1>4. /\ Active \in SGDParties /\ m \in Nat
      /\ row_index[0][Active] \in Nat /\ row_index[0][Active] + m <= Half
      /\ \A p \in SGDParties : /\ at[p] = "backward" /\ at'[p] = "update"
                               /\ this_batch_size[p] = m
  BY <1>2, <1>3, TogetherFacts
<1>5. SGDTypeOK
  BY DEF SGDInv
<1>6. \A n \in 1 .. m : of(n) \in Int
  <2> TAKE n \in 1 .. m
  <2> DEFINE d == Data[Active][RowNo(n)]
             w == activations[Active][n]
  <2>1. n \in BatchRows
    BY DEF BatchRows
  <2>2. d \in Nat
    BY <1>4, <2>1, RowFacts
  <2>3. w \in Nat
    <3>1. Filled(Active)
      BY <1>4 DEF SGDInv
    <3>2. activations[Active] \in [1 .. m -> UInt]
      BY <1>4, <3>1 DEF Filled
    <3> QED
      BY <3>2, WordTypes
  <2> HIDE DEF d, w
  <2>4. d * w \in Int
    BY <2>2, <2>3
  <2> QED
    BY <2>4 DEF d, w
<1>7. sum[m] \in Int
  <2> DEFINE g == [n \in Nat |-> IF n \in 1 .. m THEN of(n) ELSE 0]
  <2>1. g \in [Nat -> Int] /\ \A n \in 1 .. m : g[n] = of(n)
    <3> HIDE DEF of
    <3>1. \A n \in 1 .. m : n \in Nat
      BY <1>4
    <3> QED
      BY <1>6, <3>1
  <2> HIDE DEF g, of, m
  <2>2. PICK f \in [0 .. m -> Int] : Follows(f, m, 0, 1, g)
    <3>1. 0 \in Int /\ 1 \in Int
      OBVIOUS
    <3> QED
      BY <1>4, <2>1, <3>1, RecursionExists
  <2>3. Is(f)
    <3>1. ASSUME NEW n \in 0 .. m PROVE f[n] = IF n = 0 THEN 0 ELSE f[n - 1] + of(n)
      <4>1. CASE n = 0
        BY <2>2, <4>1 DEF Follows
      <4>2. CASE n # 0
        <5>1. n \in 1 .. m /\ n - 1 \in 0 .. m
          BY <1>4, <4>2
        <5>2. f[n] = 1 * f[n - 1] + g[n] /\ f[n - 1] \in Int
          BY <2>2, <4>2, <5>1 DEF Follows
        <5> QED
          BY <2>1, <4>2, <5>1, <5>2
      <4> QED
        BY <4>1, <4>2
    <3> QED
      BY <2>2, <3>1
  <2>4. Is(sum)
    <3> HIDE DEF Is
    <3> QED
      BY <2>3
  <2>5. Follows(sum, m, 0, 1, g)
    <3> DEFINE h == sum
    <3>1. \A n \in 0 .. m : h[n] = IF n = 0 THEN 0 ELSE h[n - 1] + of(n)
      BY <2>4
    <3> HIDE DEF h, sum, Is
    <3> DEFINE Bad == {n \in 0 .. m : h[n] \notin Int}
    <3>2. Bad = {}
      <4> SUFFICES ASSUME Bad # {} PROVE FALSE
        OBVIOUS
      <4>1. PICK n \in Bad : \A y \in Bad : n <= y
        <5>1. Bad \in SUBSET Nat
          BY <1>4
        <5> HIDE DEF Bad
        <5> QED
          BY <5>1, NatLeast
      <4>2. n \in 0 .. m /\ h[n] \notin Int /\ h[n] = IF n = 0 THEN 0 ELSE h[n - 1] + of(n)
        BY <3>1, <4>1
      <4>3. n # 0 /\ n - 1 \in 0 .. m /\ n \in 1 .. m /\ ~(n <= n - 1)
        BY <1>4, <4>2
      <4>4. h[n - 1] \in Int /\ of(n) \in Int
        BY <1>6, <4>1, <4>3
      <4> QED
        BY <4>2, <4>3, <4>4
    <3>3. ASSUME NEW n \in 0 .. m PROVE h[n] = IF n = 0 THEN 0 ELSE 1 * h[n - 1] + g[n]
      <4>1. CASE n = 0
        BY <3>1, <4>1
      <4>2. CASE n # 0
        <5>1. n \in 1 .. m /\ n - 1 \in 0 .. m
          BY <1>4, <4>2
        <5>2. h[n] = h[n - 1] + of(n) /\ h[n - 1] \in Int
          BY <3>1, <3>2, <4>2, <5>1
        <5> QED
          BY <2>1, <4>2, <5>1, <5>2
      <4> QED
        BY <4>1, <4>2
    <3> QED
      BY <3>3 DEF Follows, h
  <2> HIDE DEF sum
  <2>6. m \in 0 .. m
    BY <1>4
  <2>7. \A n \in 0 .. m : sum[n] \in Int
    <3>1. 0 \in Int /\ 1 \in Int
      OBVIOUS
    <3> QED
      BY <1>4, <2>1, <2>5, <3>1, RecursionInts
  <2> QED
    BY <2>6, <2>7
<1>8. gradient' \in [SGDParties -> UInt]
  <2> DEFINE v == sum[m]
  <2>1. v \in Int /\ s \in UInt
    BY <1>7, SGDAssumption
  <2>2. gradient' = Halves(v, s)
    BY <1>1
  <2> HIDE DEF v
  <2> QED
    BY <2>1, <2>2, HalvesTypes
<1>9. \A p \in SGDParties : UsesOf(p)' /\ Filled(p)'
  <2> TAKE p \in SGDParties
  <2>1. UsesOf(p)'
    BY <1>2, <1>3, UsesKept
  <2>2. Filled(p)'
    BY <1>4 DEF Filled
  <2> QED
    BY <2>1, <2>2
<1>10. Divided'
  BY <1>2 DEF SGDInv, Divided, Rescaled
<1>11. SigmoidOfFed'
  BY <1>4, OtherParty DEF SigmoidOfFed, IsSigmoidOf
<1>12. /\ activations' \in [SGDParties -> Seq(UInt)] /\ raw' \in [SGDParties -> Seq(UInt)]
       /\ scaled' \in [SGDParties -> Seq(UInt)] /\ fed' \in [SGDParties -> Seq(UInt)]
  BY <1>2, <1>5 DEF SGDTypeOK
<1> QED
  BY <1>2, <1>3, <1>8, <1>9, <1>10, <1>11, <1>12, JointStep

LEMMA SGDNextInv == SGDInv /\ [SGDNext]_sgdvars => SGDInv'
<1> SUFFICES ASSUME SGDInv, [SGDNext]_sgdvars PROVE SGDInv'
  OBVIOUS
<1>1. CASE Forward
  BY <1>1, ForwardStep
<1>2. CASE Sigmoid
  BY <1>2, SigmoidStep
<1>3. CASE Backward
  BY <1>3, BackwardStep
<1>4. ASSUME NEW p \in SGDParties, Party(p) PROVE SGDInv'
  <2>1. CASE NextBatch(p)
    BY <2>1, NextBatchStep
  <2>2. CASE NextEpoch(p)
    BY <2>2, NextEpochStep
  <2>3. CASE SubtractLabels(p)
    BY <2>3, SubtractLabelsStep
  <2>4. CASE Update(p)
    BY <2>4, UpdateStep
  <2>5. CASE Crash(p)
    BY <2>5, CrashStep
  <2> QED
    BY <1>4, <2>1, <2>2, <2>3, <2>4, <2>5 DEF Party
<1>5. CASE UNCHANGED sgdvars
  <2>1. /\ conf' = conf /\ at' = at /\ epoch' = epoch /\ active_party' = active_party
        /\ row_index' = row_index /\ done' = done /\ this_batch_size' = this_batch_size
        /\ model' = model /\ activations' = activations /\ gradient' = gradient
        /\ raw' = raw /\ scaled' = scaled /\ fed' = fed /\ uses' = uses
    BY <1>5 DEF sgdvars, loopvars
  <2>2. \A p \in SGDParties : InTurn(p)' /\ UsesOf(p)' /\ Filled(p)'
    <3> TAKE p \in SGDParties
    <3>1. InTurn(p) /\ UsesOf(p) /\ Filled(p)
      BY DEF SGDInv
    <3> QED
      BY <2>1, <3>1, PartyKept
  <2>3. SGDTypeOK'
    BY <2>1 DEF SGDInv, SGDTypeOK, Half, UInt
  <2>4. Divided' /\ SigmoidOfFed'
    BY <2>1 DEF SGDInv, Divided, Rescaled, SigmoidOfFed, IsSigmoidOf, BatchRows,
                Opened, Word, Piecewise
  <2>5. \A p \in SGDParties : (InTurn(p) /\ UsesOf(p) /\ Filled(p))'
    BY <2>2
  <2> QED
    BY <2>3, <2>4, <2>5 DEF SGDInv
<1> QED
  BY <1>1, <1>2, <1>3, <1>4, <1>5 DEF SGDNext, Protocol

(* The invariant holds of every execution, of any number of rows, epochs   *)
(* and bits and any size of batches, whatever the data.                    *)
THEOREM SGDInvHolds == SGDSpec => []SGDInv
<1>1. SGDInit => SGDInv
  BY SGDInitInv
<1>2. SGDInv /\ [SGDNext]_sgdvars => SGDInv'
  BY SGDNextInv
<1> QED
  BY <1>1, <1>2, PTL DEF SGDSpec

(* sgd.cpp:208-215, :293-306: the loop's variables keep their ranges, and  *)
(* no batch goes beyond the rows of the party whose turn it is.            *)
THEOREM SGDTypeCorrect == SGDSpec => []SGDTypeOK
<1>1. SGDInv => SGDTypeOK
  BY DEF SGDInv
<1> QED
  BY <1>1, SGDInvHolds, PTL

(* sgd.cpp:208-215: at the end of an epoch every row of party 0 was used   *)
(* once in every epoch so far, and the rows of party 1's last batch, full  *)
(* or not, never.                                                          *)
THEOREM EpochUsesHold == SGDSpec => []EpochUses
<1>1. SGDInv => EpochUses
  <2> SUFFICES ASSUME SGDInv, NEW p \in SGDParties,
                      done[p][0] \/ done[p][1]
               PROVE  uses = [q \in SGDParties |-> [x \in 1 .. Half |->
                                IF q = 0 \/ x <= Half - LastBatch THEN epoch[p] + 1 ELSE 0]]
    BY DEF EpochUses, LastBatch
  <2>1. \A q \in SGDParties : \A x \in 1 .. Half :
          uses[q][x] = IF q = 0 \/ x <= Half - LastBatch THEN epoch[p] + 1 ELSE 0
    BY EpochEnds
  <2>2. uses = [q \in SGDParties |-> [x \in 1 .. Half |-> uses[q][x]]]
    BY DEF SGDInv, SGDTypeOK
  <2> QED
    BY <2>1, <2>2
<1> QED
  BY <1>1, SGDInvHolds, PTL

(* sgd.cpp:266: dividing each share by 2^precision divides the activation, *)
(* or gives one unit less; where its shares had wrapped around, it gives   *)
(* 2^(Width - precision) more.                                             *)
THEOREM SharesRescaled == SGDSpec => []RescaledShares
<1>1. SGDInv => RescaledShares
  <2> SUFFICES ASSUME SGDInv, NEW x \in DOMAIN scaled[0]
               PROVE  LET v == Opened(raw[0][x], raw[1][x])
                          wrapped == IF raw[0][x] > v THEN Power[Width - precision] ELSE 0
                      IN  scaled[0][x] + scaled[1][x] - (v \div Power[precision]) - wrapped
                            \in {-1, 0}
    BY DEF RescaledShares
  <2> DEFINE a == raw[0][x]
             b == raw[1][x]
             p == Power[precision]
             n == Power[Width - precision]
             m == Power[Width]
  <2>1. /\ scaled[0][x] = a \div p /\ scaled[1][x] = b \div p
        /\ x \in DOMAIN raw[0] /\ x \in DOMAIN raw[1]
    BY OtherParty DEF SGDInv, Divided, Rescaled
  <2>2. a \in UInt /\ b \in UInt
    <3>1. raw[0] \in Seq(UInt) /\ raw[1] \in Seq(UInt)
      BY OtherParty, PartyTypes DEF SGDInv
    <3> QED
      BY <2>1, <3>1
  <2>3. p \in Nat \ {0} /\ n \in Nat \ {0} /\ m = p * n
    BY BitWeights
  <2>4. Opened(a, b) = (a + b) % m /\ a \in 0 .. m - 1 /\ b \in 0 .. m - 1
    BY <2>2 DEF Opened, Word, UInt
  <2> HIDE DEF a, b, p, n, m
  <2>5. LET v == (a + b) % m
        IN  (a \div p) + (b \div p) - (v \div p) - (IF a > v THEN n ELSE 0) \in {-1, 0}
    BY <2>3, <2>4, QuotientsOfShares
  <2> QED
    BY <2>1, <2>4, <2>5 DEF a, b, p, n
<1> QED
  BY <1>1, SGDInvHolds, PTL

(* sigmoid.oc:49-60: the circuit returns shares of the piecewise linear    *)
(* function of what it was fed, for any width of the words and any place   *)
(* of the point.                                                           *)
THEOREM SigmoidAlwaysOfFed == SGDSpec => []SigmoidOfFed
<1>1. SGDInv => SigmoidOfFed
  BY DEF SGDInv
<1> QED
  BY <1>1, SGDInvHolds, PTL
==============================================================================
