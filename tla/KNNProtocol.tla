---------------------------- MODULE KNNProtocol ----------------------------
(***************************************************************************)
(* KNNProtocol (applications/knn/knn_protocol.cpp and top_k.oc): the server*)
(* (party 0) has documents, the client (party 1) has one.  They agree on   *)
(* how many words a batch of documents uses, multiply batch by batch into  *)
(* shares of the similarities, and a garbled circuit adds the shares,      *)
(* divides by the norms and keeps num_selected documents.  The products    *)
(* are what the contracts of the multiplications promise.                  *)
(***************************************************************************)
EXTENDS Ring, Integers, Sequences, FiniteSets

CONSTANTS
  num_documents,  \* documents of the server
  Words,          \* columns of the matrices
  chunk_size,     \* documents in a batch
  num_selected,   \* k_
  MaxDense,       \* batches larger than this (4096) ...
  SplitDense,     \* ... are multiplied in pieces of this size (2048)
  Entered,        \* num_nonzeros_server as the user enters it; -1: not
  Inputs,         \* what the matrices can be: records of words, sims and norms
  Shares          \* what the server's share of a product may be

Parties == {0, 1}
Docs == 1 .. num_documents
Lesser(a, b) == IF a < b THEN a ELSE b

(* words[d]: columns document d is not zero in; sims[d]: its product with  *)
(* the client's document; norms[d] and norm: the norms of the documents.   *)
ASSUME KNNAssumption ==
  /\ num_documents \in Nat /\ chunk_size \in Nat \ {0} /\ num_selected \in Nat
  /\ IsFiniteSet(Words)
  /\ MaxDense \in Nat /\ SplitDense \in 1 .. MaxDense
  /\ Entered \subseteq -1 .. Cardinality(Words)
  /\ T \subseteq Nat /\ Shares \subseteq T
  /\ Inputs \subseteq [words : [Docs -> SUBSET Words], sims : [Docs -> T],
                       norms : [Docs -> T \ {0}], norm : T \ {0}]

VARIABLES
  in,            \* the matrices of the two parties
  pc,            \* where each party is
  num_nonzeros,  \* num_nonzeros[p]: num_nonzeros_server_ of party p
  chan,          \* messages on their way to the client
  row,           \* row[p]: documents multiplied
  triples,       \* triples[p]: triples left over by the batches so far
  result,        \* result[p]: its share of the similarities
  i,             \* documents the circuit has gone through
  slots,         \* topk_indices and topk_values, of which 0 is document 1
  outputs        \* what run has returned to each party

vars == <<in, pc, num_nonzeros, chan, row, triples, result, i, slots, outputs>>

(* The batch that starts after the first r documents; the last may be      *)
(* smaller.                                                                *)
BatchSize(r) == Lesser(chunk_size, num_documents - r)
Batch(r) == r + 1 .. r + BatchSize(r)
WordsOf(r) == UNION {in.words[d] : d \in Batch(r)}
Starts == {r \in 0 .. num_documents - 1 : r % chunk_size = 0}

(* The numbers of words the batches use; fault: only the first batch is    *)
(* counted.                                                                *)
CountsFirst == {Cardinality(WordsOf(0))}
Counts == {-1} \cup {Cardinality(WordsOf(r)) : r \in Starts}

(* Fault: the slots start with an index that is no document.               *)
NoSlotsUnset == [j \in 1 .. num_selected |-> [index |-> 0, value |-> 0]]
NoSlots == [j \in 1 .. num_selected |-> [index |-> 1, value |-> 0]]

(* What the user enters is at least what a batch uses: cols_rows would read*)
(* beyond its indices otherwise.                                           *)
Init ==
  /\ in \in Inputs
  /\ pc = [p \in Parties |-> "construct"]
  /\ \E given \in Entered : /\ given = -1 \/ \A c \in Counts : c <= given
                            /\ num_nonzeros = [p \in Parties |-> given]
  /\ chan = <<>>
  /\ row = [p \in Parties |-> 0]
  /\ triples = [p \in Parties |-> 0]
  /\ result = [p \in Parties |-> [d \in Docs |-> Zero]]
  /\ i = 0
  /\ slots = NoSlots
  /\ outputs = [p \in Parties |-> <<>>]

(* The constructor of the server: the most words a batch uses, if no       *)
(* number was entered.                                                     *)
CountNonzeros ==
  /\ pc[0] = "construct"
  /\ IF num_nonzeros[0] < 0
       THEN LET most == CHOOSE c \in Counts : \A e \in Counts : e <= c
            IN  /\ num_nonzeros' = [num_nonzeros EXCEPT ![0] = most]
                /\ chan' = Append(chan, most)
       ELSE UNCHANGED <<num_nonzeros, chan>>
  /\ pc' = [pc EXCEPT ![0] = "multiply"]
  /\ UNCHANGED <<in, row, triples, result, i, slots, outputs>>

(* The constructor of the client.                                          *)
RecvNonzeros ==
  /\ pc[1] = "construct"
  /\ IF num_nonzeros[1] < 0
       THEN /\ chan # <<>>
            /\ num_nonzeros' = [num_nonzeros EXCEPT ![1] = Head(chan)]
            /\ chan' = Tail(chan)
       ELSE UNCHANGED <<num_nonzeros, chan>>
  /\ pc' = [pc EXCEPT ![1] = "multiply"]
  /\ UNCHANGED <<in, row, triples, result, i, slots, outputs>>

DenseSize(r) == IF BatchSize(r) > MaxDense THEN SplitDense ELSE BatchSize(r)
Precomputed(r) == (BatchSize(r) + DenseSize(r) - 1) \div DenseSize(r)
(* What matrix_multiplication_dense takes: one for each piece it starts.   *)
Taken(r) == Cardinality({x \in 0 .. BatchSize(r) - 1 : x % DenseSize(r) = 0})

(* A turn of the loop of computeSimilarities, between two of its syncs.    *)
MultiplyBatch ==
  /\ \A p \in Parties : pc[p] = "multiply" /\ row[p] < num_documents
  /\ row[0] = row[1]
  /\ \E share \in [Batch(row[0]) -> Shares] :
       result' = [p \in Parties |->
                    [d \in Docs |->
                       IF d \notin Batch(row[p]) THEN result[p][d]
                       ELSE IF p = 0 THEN share[d]
                       ELSE Minus(in.sims[d], share[d])]]
  /\ triples' = [p \in Parties |-> triples[p] + Precomputed(row[p]) - Taken(row[p])]
  /\ row' = [p \in Parties |-> row[p] + chunk_size]
  /\ UNCHANGED <<in, pc, num_nonzeros, chan, i, slots, outputs>>

(* Fault: the last batch is taken to be a full one.                        *)
EnterTopKExactly(p) ==
  /\ pc[p] = "multiply"
  /\ row[p] = num_documents
  /\ pc' = [pc EXCEPT ![p] = "topk"]
  /\ UNCHANGED <<in, num_nonzeros, chan, row, triples, result, i, slots, outputs>>

(* topK feeds the shares and the norms to the circuit.                     *)
EnterTopK(p) ==
  /\ pc[p] = "multiply"
  /\ row[p] >= num_documents
  /\ pc' = [pc EXCEPT ![p] = "topk"]
  /\ UNCHANGED <<in, num_nonzeros, chan, row, triples, result, i, slots, outputs>>

(* A similarity: the sum of the shares, divided by both norms; fault: the  *)
(* norms of the server's documents are left out.                           *)
InputUnscaled(d) == Plus(result[0][d], result[1][d]) \div in.norm
Input(d) ==
  (Plus(result[0][d], result[1][d]) \div in.norms[d]) \div in.norm

(* keep_going: of the slots that are less near only the first is replaced; *)
(* fault: all of them are.                                                 *)
ReplacedAll(j, nearer) == j \in nearer
Replaced(j, nearer) == j \in nearer /\ \A q \in nearer : j <= q

(* A turn of the circuit's outer loop: the document replaces the first that*)
(* is less near, which is dropped.                                         *)
Select ==
  /\ \A p \in Parties : pc[p] = "topk"
  /\ i < num_documents
  /\ LET nearer == {j \in 1 .. num_selected : slots[j].value < Input(i + 1)}
     IN  slots' = [j \in 1 .. num_selected |->
                     IF Replaced(j, nearer)
                       THEN [index |-> i + 1, value |-> Input(i + 1)]
                       ELSE slots[j]]
  /\ i' = i + 1
  /\ UNCHANGED <<in, pc, num_nonzeros, chan, row, triples, result, outputs>>

RevealSlots ==
  /\ \A p \in Parties : pc[p] = "topk"
  /\ i = num_documents
  /\ outputs' = [p \in Parties |-> [j \in 1 .. num_selected |-> slots[j].index]]
  /\ pc' = [p \in Parties |-> "returned"]
  /\ UNCHANGED <<in, num_nonzeros, chan, row, triples, result, i, slots>>

Together == MultiplyBatch \/ Select \/ RevealSlots
Next == CountNonzeros \/ RecvNonzeros \/ Together \/ \E p \in Parties : EnterTopK(p)

Fairness ==
  /\ WF_vars(CountNonzeros) /\ WF_vars(RecvNonzeros) /\ WF_vars(Together)
  /\ \A p \in Parties : WF_vars(EnterTopK(p))

Spec == Init /\ [][Next]_vars /\ Fairness

-----------------------------------------------------------------------------
(* Every variable has its type; a slot no document is in holds document 1, *)
(* whether or not there is one.                                            *)
Indices == Docs \cup {1}
TypeOK ==
  /\ in \in Inputs
  /\ pc \in [Parties -> {"construct", "multiply", "topk", "returned"}]
  /\ num_nonzeros \in [Parties -> -1 .. Cardinality(Words)]
  /\ chan \in Seq(-1 .. Cardinality(Words))
  /\ row \in [Parties -> Nat]
  /\ triples \in [Parties -> Int]
  /\ result \in [Parties -> [Docs -> T]]
  /\ i \in 0 .. num_documents
  /\ slots \in [1 .. num_selected -> [index : Indices, value : Nat]]
  /\ outputs \in [Parties -> Seq(Indices)]

(* What is multiplied next never exceeds what the two have agreed on: the  *)
(* number of words covers the batch, and each batch leaves no triple over  *)
(* and lacks none.                                                         *)
BatchesFit ==
  (\A p \in Parties : pc[p] = "multiply") =>
    /\ num_nonzeros[0] = num_nonzeros[1]
    /\ row[0] = row[1]
    /\ row[0] < num_documents => Cardinality(WordsOf(row[0])) <= num_nonzeros[0]
    /\ \A p \in Parties : triples[p] = 0

Similarity(d) == (in.sims[d] \div in.norms[d]) \div in.norm
Nearest == CHOOSE d \in Docs : \A e \in Docs :
             Similarity(e) < Similarity(d) \/ (Similarity(e) = Similarity(d) /\ d <= e)

(* What is selected is in descending order and no document twice, and each *)
(* slot's value is the similarity of its document.                         *)
SlotsDescend ==
  /\ \A j, q \in 1 .. num_selected :
       j < q => /\ slots[j].value >= slots[q].value
                /\ slots[q].value > 0 => slots[j].index # slots[q].index
  /\ \A j \in 1 .. num_selected :
       slots[j].value > 0 => /\ slots[j].index <= i
                             /\ slots[j].value = Similarity(slots[j].index)

(* Both parties return the same documents, and the first is the nearest    *)
(* one; the shares of every batch have gone into the circuit.              *)
NearestFirst ==
  (\A p \in Parties : pc[p] = "returned") /\ num_documents > 0 /\ num_selected > 0 =>
    /\ outputs[0] = outputs[1]
    /\ Similarity(Nearest) > 0 => outputs[0][1] = Nearest

(* knn_protocol.hpp:37-38: the result is a vector of the top k matches: no *)
(* document that is left out is nearer than one that is returned.          *)
TopKMatches ==
  (\A p \in Parties : pc[p] = "returned") =>
    \A d \in Docs : \A j \in 1 .. num_selected :
      (\A q \in 1 .. num_selected : outputs[0][q] # d) =>
        Similarity(d) <= Similarity(outputs[0][j])

(* Both parties return.                                                    *)
BothReturn == <>(\A p \in Parties : pc[p] = "returned")
=============================================================================
