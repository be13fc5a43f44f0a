------------------------------ MODULE ColsRows ------------------------------
(***************************************************************************)
(* matrix_multiplication_cols_rows (matrix_multiplication/cols-rows.hpp):  *)
(* A has few nonzero columns, at inner indices that only role 0 knows, and *)
(* B few nonzero rows, at indices that only role 1 knows.  One party sends *)
(* its indices to random positions and serves them as an oblivious map, so *)
(* that both move their columns and rows to the same positions of two      *)
(* small dense matrices, which are multiplied.  A column of A and a row of *)
(* B are one value here.  The dense multiplication is what it promises     *)
(* (DenseMultiplication), and so is the oblivious map, whichever of the    *)
(* three it is, as long as it is used within what it promises; what it does*)
(* with other pairs, defaults and keys is not followed.                    *)
(***************************************************************************)
EXTENDS Ring, Integers, Sequences, FiniteSets, Functions

CONSTANTS
  Inner,     \* the inner dimension: the columns of A and rows of B
  As, Bs,    \* what A and B can be: functions from Inner to T
  Ks,        \* the <<k_A, k_B>> callers may pass; -1 means not passed
  Shares     \* what role 0's share of a product may be

ASSUME ColsRowsAssumption ==
  /\ Inner \subseteq Nat /\ IsFiniteSet(Inner)
  /\ As \subseteq [Inner -> T] /\ Bs \subseteq [Inner -> T]
  /\ Ks \subseteq (Nat \cup {-1}) \X (Nat \cup {-1})
  /\ Shares \subseteq T

Roles == {0, 1}
Other(r) == 1 - r
Maps == {"basic", "poly", "sorting"}
Dummy == -1   \* the key that pads the client's input

VARIABLES
  prot,      \* which oblivious map both parties use
  M,         \* M[0] is A and M[1] is B
  k,         \* k[r]: <<k_A, k_B>> as party r knows them
  inner,     \* inner[r]: its inner_indices
  pc,        \* where each party is
  chan,      \* chan[r]: messages on their way to party r
  unmapped,  \* server: the positions its indices were not sent to
  perm,      \* perm[r]: its pairs of an inner index and a position
  ret        \* ret[r]: its share of the product

vars == <<prot, M, k, inner, pc, chan, unmapped, perm, ret>>

Nonzero(m) == {x \in Inner : m[x] # Zero}
Size(m) == Cardinality(Nonzero(m))
Fits(size, passed) == passed = -1 \/ size <= passed

(* A k that is passed for the server is so small that the server refuses.  *)
Refused(a, b, ks) ==
  /\ ks[1] # -1 /\ ks[2] # -1
  /\ IF ks[1] > ks[2] THEN Fits(Size(b), ks[2]) /\ Size(a) > ks[1] + ks[2]
                      ELSE Fits(Size(a), ks[1]) /\ Size(b) > ks[1] + ks[2]

(* A k that is passed is at least the number of nonzero columns or rows,   *)
(* or is refused: with one in between the code reads beyond its vectors.   *)
Init ==
  /\ \E a \in As, b \in Bs, ks \in Ks :
       /\ (Fits(Size(a), ks[1]) /\ Fits(Size(b), ks[2])) \/ Refused(a, b, ks)
       /\ M = [r \in Roles |-> IF r = 0 THEN a ELSE b]
       /\ k = [r \in Roles |-> ks]
  /\ prot \in Maps
  /\ inner = [r \in Roles |-> <<>>]
  /\ pc = [r \in Roles |-> "start"]
  /\ chan = [r \in Roles |-> <<>>]
  /\ unmapped = <<>>
  /\ perm = [r \in Roles |-> <<>>]
  /\ ret = [r \in Roles |-> Zero]

(* The k of party p, as party r knows it.                                  *)
KOf(r, p) == k[r][p + 1]
Total(r) == KOf(r, 0) + KOf(r, 1)
Orders(S) == {f \in [1 .. Cardinality(S) -> S] : Range(f) = S}

(* compute_inner_indices, in the order of its hash set.                    *)
ComputeIndices(r) ==
  /\ pc[r] = "start"
  /\ \E order \in Orders(Nonzero(M[r])) : inner' = [inner EXCEPT ![r] = order]
  /\ pc' = [pc EXCEPT ![r] = IF r = 0 THEN "sendk" ELSE "recvk"]
  /\ UNCHANGED <<prot, M, k, chan, unmapped, perm, ret>>

(* Fault: k is sent before it is set.                                      *)
SendKUnset(r) ==
  /\ pc[r] = "sendk"
  /\ IF KOf(r, r) = -1
       THEN /\ k' = [k EXCEPT ![r][r + 1] = Len(inner[r])]
            /\ chan' = [chan EXCEPT ![Other(r)] = Append(@, KOf(r, r))]
       ELSE UNCHANGED <<k, chan>>
  /\ pc' = [pc EXCEPT ![r] = IF r = 0 THEN "recvk" ELSE "permute"]
  /\ UNCHANGED <<prot, M, inner, unmapped, perm, ret>>

(* Role 0 sends first and role 1 receives first; a k that was passed is    *)
(* neither sent nor received.                                              *)
SendK(r) ==
  /\ pc[r] = "sendk"
  /\ IF KOf(r, r) = -1
       THEN /\ k' = [k EXCEPT ![r][r + 1] = Len(inner[r])]
            /\ chan' = [chan EXCEPT ![Other(r)] = Append(@, Len(inner[r]))]
       ELSE UNCHANGED <<k, chan>>
  /\ pc' = [pc EXCEPT ![r] = IF r = 0 THEN "recvk" ELSE "permute"]
  /\ UNCHANGED <<prot, M, inner, unmapped, perm, ret>>

RecvK(r) ==
  /\ pc[r] = "recvk"
  /\ IF KOf(r, Other(r)) = -1
       THEN /\ chan[r] # <<>>
            /\ k' = [k EXCEPT ![r][Other(r) + 1] = Head(chan[r])]
            /\ chan' = [chan EXCEPT ![r] = Tail(@)]
       ELSE UNCHANGED <<k, chan>>
  /\ pc' = [pc EXCEPT ![r] = IF r = 0 THEN "permute" ELSE "sendk"]
  /\ UNCHANGED <<prot, M, inner, unmapped, perm, ret>>

(* Fault: nobody serves if the numbers are equal.                          *)
ServesStrictly(r) == KOf(r, r) > KOf(r, Other(r))
(* The party with the higher number serves; role 1 if they are equal.      *)
Serves(r) == (KOf(r, 0) > KOf(r, 1)) = (r = 0)

(* permute_inner_indices: the first of the shuffled positions are for the  *)
(* server's indices, the others for those it does not have.                *)
Permute(r) ==
  /\ pc[r] = "permute"
  /\ Serves(r)
  /\ Len(inner[r]) <= Total(r)
  /\ \E dense \in Orders(0 .. Total(r) - 1) :
       /\ perm' = [perm EXCEPT ![r] =
                     [n \in DOMAIN inner[r] |-> <<inner[r][n], dense[n]>>]]
       /\ unmapped' = SubSeq(dense, Len(inner[r]) + 1, Total(r))
  /\ pc' = [pc EXCEPT ![r] = "room"]
  /\ UNCHANGED <<prot, M, k, inner, chan, ret>>

(* permute_inner_indices throws before the map has sent anything.          *)
Refuse(r) ==
  /\ pc[r] = "permute"
  /\ Serves(r)
  /\ Len(inner[r]) > Total(r)
  /\ pc' = [pc EXCEPT ![r] = "thrown"]
  /\ UNCHANGED <<prot, M, k, inner, chan, unmapped, perm, ret>>

(* The client's keys: its indices, and dummies up to its k.                *)
Pad(r) ==
  /\ pc[r] = "permute"
  /\ ~Serves(r)
  /\ perm' = [perm EXCEPT ![r] =
                [n \in 1 .. KOf(r, r) |->
                   IF n <= Len(inner[r]) THEN inner[r][n] ELSE Dummy]]
  /\ pc' = [pc EXCEPT ![r] = "room"]
  /\ UNCHANGED <<prot, M, k, inner, chan, unmapped, ret>>

(* What the map needs to answer as oblivious_map.hpp has it: as many       *)
(* defaults as keys, but for the basic map no more, or the two garble      *)
(* circuits of different lengths, and no first pair with key 0; for the    *)
(* polynomial map a pair and a key; for the sorting map no dummy, which it *)
(* does not sort as the circuit compares it, nor twice.                    *)
Promised(server) ==
  LET keys == perm[Other(server)]
  IN  /\ Len(keys) <= Len(unmapped)
      /\ prot = "basic" => /\ Len(unmapped) <= Len(keys)
                           /\ inner[server] # <<>> => inner[server][1] # 0
      /\ prot = "poly" => inner[server] # <<>> /\ Len(keys) > 0
      /\ prot = "sorting" => \A n \in DOMAIN keys : keys[n] # Dummy

(* The n-th key gets the n-th default, or in the sorting map that of its   *)
(* rank among the keys.                                                    *)
RankOf(keys, n) == Cardinality({m \in DOMAIN keys : keys[m] <= keys[n]})
Place(keys, n) == IF prot = "sorting" THEN RankOf(keys, n) ELSE n

(* Fault: every index the server does not have gets the same default.      *)
PositionFirst(server, keys, n) ==
  LET found == {x \in DOMAIN perm[server] : perm[server][x][1] = keys[n]}
  IN  IF found = {} THEN unmapped[1] ELSE perm[server][CHOOSE x \in found : TRUE][2]

(* The position the server has for a key, or a default.                    *)
Position(server, keys, n) ==
  LET found == {x \in DOMAIN perm[server] : perm[server][x][1] = keys[n]}
  IN  IF found = {} THEN unmapped[Place(keys, n)]
      ELSE perm[server][CHOOSE x \in found : TRUE][2]

(* run_server and run_client; the client keeps what it got for its own     *)
(* indices.                                                                *)
Room ==
  /\ \A r \in Roles : pc[r] = "room"
  /\ \E server \in Roles :
       LET client == Other(server)
           keys == perm[client]
       IN  /\ Serves(server) /\ ~Serves(client)
           /\ Promised(server)
           /\ perm' = [perm EXCEPT ![client] =
                         [n \in DOMAIN inner[client] |->
                            <<inner[client][n], Position(server, keys, n)>>]]
  /\ pc' = [r \in Roles |-> "multiply"]
  /\ UNCHANGED <<prot, M, k, inner, chan, unmapped, ret>>

(* The map is used beyond what it promises: what follows is not modelled.  *)
RoomUnpromised ==
  /\ \A r \in Roles : pc[r] = "room"
  /\ \E server \in Roles :
       Serves(server) /\ ~Serves(Other(server)) /\ ~Promised(server)
  /\ pc' = [r \in Roles |-> "unpromised"]
  /\ UNCHANGED <<prot, M, k, inner, chan, unmapped, perm, ret>>

(* Fault: the columns or rows are copied to the first positions.           *)
PermutedInOrder(r) ==
  [p \in 0 .. Total(r) - 1 |->
     IF p + 1 \in DOMAIN perm[r] THEN M[r][perm[r][p + 1][1]] ELSE Zero]

(* A_permuted or B_permuted: the columns or rows are copied in the order of*)
(* perm, the others are zero.                                              *)
Permuted(r) ==
  [p \in 0 .. Total(r) - 1 |->
     LET here == {n \in DOMAIN perm[r] : perm[r][n][2] = p}
     IN  IF here = {} THEN Zero
         ELSE M[r][perm[r][CHOOSE n \in here : \A q \in here : q <= n][1]]]

SumOf(f) == FoldFunction(Plus, Zero, f)

Multiply ==
  /\ \A r \in Roles : pc[r] = "multiply"
  /\ \E share \in Shares :
       LET product == SumOf([p \in 0 .. Total(0) - 1 |->
                               Times(Permuted(0)[p], Permuted(1)[p])])
       IN  ret' = [r \in Roles |-> IF r = 0 THEN share ELSE Minus(product, share)]
  /\ pc' = [r \in Roles |-> "returned"]
  /\ UNCHANGED <<prot, M, k, inner, chan, unmapped, perm>>

Local(r) == ComputeIndices(r) \/ SendK(r) \/ RecvK(r) \/ Permute(r) \/ Refuse(r) \/ Pad(r)

Next == Room \/ RoomUnpromised \/ Multiply \/ \E r \in Roles : Local(r)

Fairness ==
  /\ WF_vars(Room \/ RoomUnpromised)
  /\ WF_vars(Multiply)
  /\ \A r \in Roles : WF_vars(Local(r))

Spec == Init /\ [][Next]_vars /\ Fairness

-----------------------------------------------------------------------------
(* Every variable has its type.                                            *)
TypeOK ==
  /\ prot \in Maps
  /\ M \in [Roles -> [Inner -> T]] /\ M[0] \in As /\ M[1] \in Bs
  /\ k \in [Roles -> (Nat \cup {-1}) \X (Nat \cup {-1})]
  /\ inner \in [Roles -> Seq(Inner)]
  /\ pc \in [Roles -> {"start", "sendk", "recvk", "permute", "room", "unpromised",
                      "multiply", "returned", "thrown"}]
  /\ chan \in [Roles -> Seq(Nat)]
  /\ unmapped \in Seq(Nat)
  /\ DOMAIN perm = Roles
  /\ ret \in [Roles -> T]

(* When both parties have their positions, they are within the k columns   *)
(* of the small matrices, the two agree on the position of an index they   *)
(* both have, and no two indices, of either, share a position.             *)
PositionsAgree ==
  (\A r \in Roles : pc[r] = "multiply") =>
    \A r, q \in Roles : \A n \in DOMAIN perm[r], m \in DOMAIN perm[q] :
      /\ perm[r][n][2] \in 0 .. Total(r) - 1
      /\ perm[r][n][1] = perm[q][m][1] <=> perm[r][n][2] = perm[q][m][2]

(* The shares returned are shares of the product of A and B.               *)
ProductShared ==
  (\A r \in Roles : pc[r] = "returned") =>
    Reveal(ret[0], ret[1]) = SumOf([x \in Inner |-> Times(M[0][x], M[1][x])])

(* When the map is left without what it needs: the basic map if the server *)
(* has fewer indices than its k, or first the index 0; the polynomial map  *)
(* if the server has no index or the client's k is 0; the sorting map if   *)
(* the client has fewer indices than its k.                                *)
Beyond(server) ==
  LET client == Other(server)
  IN  \/ /\ prot = "basic"
         /\ \/ Len(inner[server]) < KOf(server, server)
            \/ inner[server] # <<>> /\ inner[server][1] = 0
      \/ prot = "poly" /\ (inner[server] = <<>> \/ KOf(client, client) = 0)
      \/ prot = "sorting" /\ Len(inner[client]) < KOf(client, client)

(* Both parties return, whichever of the k are passed, unless the map does *)
(* not promise to answer, and exactly then; but if the server refuses its  *)
(* k, the client stays in the map and waits for its message.               *)
BothReturn ==
  \/ <>(\A r \in Roles : /\ pc[r] = "returned"
                         /\ Serves(r) => ~Beyond(r))
  \/ <>[](\E server \in Roles : /\ pc[server] = "thrown" /\ pc[Other(server)] = "room"
                                /\ Len(inner[server]) > Total(server))
  \/ <>[](/\ \A r \in Roles : pc[r] = "unpromised"
          /\ \E server \in Roles : Serves(server) /\ Beyond(server))
=============================================================================
