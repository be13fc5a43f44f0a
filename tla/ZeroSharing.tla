---------------------------- MODULE ZeroSharing ----------------------------
(***************************************************************************)
(* zero_sharing/zero_sharing.hpp: from shares of a short vector v, whose   *)
(* places in a long vector only the server knows, the parties make shares  *)
(* of the long vector, zero everywhere else.  The client draws its shares. *)
(* By oblivious transfer the server learns them off its places, under a    *)
(* key K it can put together only from as many key shares as it has places,*)
(* and gets them encrypted under a second key at its places, where a       *)
(* garbled circuit adds v to the negated share.  Server: role 0.           *)
(***************************************************************************)
EXTENDS Ring, Integers, Sequences, FiniteSets, Functions

CONSTANTS
  n,          \* length of the long vector
  ShareVals,  \* what the client may draw
  TransferMessage,  \* what a party sends in the oblivious transfers
  CircuitMessage    \* what it sends in the garbled circuit

Places == 1 .. n

VARIABLES
  v,       \* v[r]: party r's share of the short vector
  I,       \* server: place of each entry of v
  zpc,     \* where each party is
  s,       \* s[r]: its share of the long vector
  ot,      \* server: what it received by oblivious transfer, place by place
  t,       \* server: the ciphertexts at its places, in the order of I
  zchan    \* zchan[r]: messages on their way to party r

Cipher(key, ctr, plain) == [key |-> key, ctr |-> ctr, plain |-> plain]
Garbage == "garbage"
(* What comes out under another key or counter is noise.                   *)
Decrypt(key, ctr, c, noise) == IF c.key = key /\ c.ctr = ctr THEN c.plain ELSE noise

ZInit ==
  /\ zpc = [server |-> "choose", client |-> "draw"]
  /\ s = [r \in {0, 1} |-> [x \in Places |-> Zero]]
  /\ ot = <<>>
  /\ t = <<>>
  /\ zchan = [r \in {0, 1} |-> <<>>]

(* The client's share is r xor the key stream of K: r encrypts it.         *)
ClientDraw ==
  /\ zpc["client"] = "draw"
  /\ \E drawn \in [Places -> ShareVals] : s' = [s EXCEPT ![1] = drawn]
  /\ zpc' = [zpc EXCEPT !["client"] = "ot"]
  /\ UNCHANGED <<ot, t, zchan>>

(* The server's choices go to the client.                                  *)
ServerChoose ==
  /\ zpc["server"] = "choose"
  /\ zchan' = [zchan EXCEPT ![1] = Append(@, TransferMessage)]
  /\ zpc' = [zpc EXCEPT !["server"] = "ot"]
  /\ UNCHANGED <<s, ot, t>>

(* The client answers them, and goes into the garbled circuit.             *)
ClientTransfer ==
  /\ zpc["client"] = "ot"
  /\ zchan[1] # <<>>
  /\ zchan' = [zchan EXCEPT ![0] = Append(Append(@, TransferMessage), CircuitMessage),
                            ![1] = Tail(@)]
  /\ zpc' = [zpc EXCEPT !["client"] = "yao"]
  /\ UNCHANGED <<s, ot, t>>

(* The two inputs of the sender for place x: the share under K, or the     *)
(* share under K2 with a share of K, which is the value at x of a          *)
(* polynomial with as many coefficients as v has entries.                  *)
opt0(x) == Cipher("K", x, s[1][x])
opt1(x) == [c |-> Cipher("K2", x, s[1][x]), share_K |-> [key |-> "K", at |-> x]]

Transfer ==
  /\ zpc["server"] = "ot"
  /\ zchan[0] # <<>>
  /\ ot' = [x \in Places |-> IF x \in Range(I) THEN opt1(x) ELSE opt0(x)]
  /\ zchan' = [zchan EXCEPT ![0] = Tail(@)]
  /\ zpc' = [zpc EXCEPT !["server"] = "unpack"]
  /\ UNCHANGED <<s, t>>

(* Fault: the order of I is taken for the order of the places.             *)
I_orderNot(c) == c
(* I in ascending order, with the entry each place is for.                 *)
I_order(c) ==
  CHOOSE m \in DOMAIN I : Cardinality({q \in DOMAIN I : I[q] <= I[m]}) = c
ChosenNo(c) ==
  CHOOSE x \in Range(I) : Cardinality({y \in Range(I) : y <= x}) = c

(* The key the server interpolates: K if it has enough shares of it, each  *)
(* with the position it belongs to.                                        *)
Interpolated ==
  IF Cardinality(Range(I)) = Len(v[1])
     /\ \A c \in DOMAIN I : ot[ChosenNo(c)].share_K.at = ChosenNo(c)
    THEN ot[ChosenNo(1)].share_K.key ELSE Garbage

Neg(a) == Minus(Zero, a)

(* The c-th place chosen is for the entry I_order(c); off the places the   *)
(* server's share is the client's, negated.  Then the garbled circuit.     *)
Unpack ==
  /\ zpc["server"] = "unpack"
  /\ t' = [m \in DOMAIN I |-> ot[ChosenNo(CHOOSE c \in DOMAIN I : I_order(c) = m)].c]
  /\ \E noise \in T :
       s' = [s EXCEPT ![0] =
               [x \in Places |->
                  IF x \in Range(I) THEN Zero
                  ELSE Neg(Decrypt(Interpolated, x, ot[x], noise))]]
  /\ zchan' = [zchan EXCEPT ![1] = Append(@, CircuitMessage)]
  /\ zpc' = [zpc EXCEPT !["server"] = "yao"]
  /\ UNCHANGED ot

(* The end of zero_sharing_oblivc, and the server's copy of its results to *)
(* their places.                                                           *)
ServerYao ==
  /\ zpc["server"] = "yao"
  /\ zchan[0] # <<>>
  /\ \E noise \in T :
       LET result(m) == Minus(Plus(v[0][m], v[1][m]), Decrypt("K2", I[m], t[m], noise))
       IN  s' = [s EXCEPT ![0] =
                   [x \in Places |->
                      IF x \in Range(I) THEN result(CHOOSE m \in DOMAIN I : I[m] = x)
                      ELSE s[0][x]]]
  /\ zchan' = [zchan EXCEPT ![0] = Tail(@)]
  /\ zpc' = [zpc EXCEPT !["server"] = "done"]
  /\ UNCHANGED <<ot, t>>

ClientYao ==
  /\ zpc["client"] = "yao"
  /\ zchan[1] # <<>>
  /\ zchan' = [zchan EXCEPT ![1] = Tail(@)]
  /\ zpc' = [zpc EXCEPT !["client"] = "done"]
  /\ UNCHANGED <<s, ot, t>>

zero_sharing_server == ServerChoose \/ Transfer \/ Unpack \/ ServerYao
zero_sharing_client == ClientDraw \/ ClientTransfer \/ ClientYao
=============================================================================
