------------------------ MODULE MultiplicationProofs ------------------------
(* The dense multiplication for any ring, sizes, inputs and triples that   *)
(* fit, however far one party is ahead: the shares add up to the product,  *)
(* no message is taken for another one, and none is left over.             *)
EXTENDS Multiplications, FiniteSetTheorems, SequenceTheorems, WellFoundedInduction, TLAPS

InChunk == {"send1", "recv1", "send2", "recv2", "combine"}

(* The triple party r uses for chunk c, and what it makes of its factors.  *)
TripleOf(r, c) == Triple[is_shared][r][c + 1]
Within(c, j) == c * chunk_size + j <= l
MaskedRow(r, c, j) ==
  IF is_shared \/ r = 0 THEN Minus(A[r][c * chunk_size + j], TripleOf(r, c).U[j]) ELSE Zero
MaskedFactor(r, c) ==
  IF is_shared \/ r = 1 THEN Minus(B[r], TripleOf(r, c).V) ELSE Zero
IsMasked(r, c, X) ==
  X \in [TripleRows -> T] /\ \A j \in TripleRows : Within(c, j) => X[j] = MaskedRow(r, c, j)

(* What both parties know of chunk c once they have exchanged these.       *)
RevealedRow(c, j) == Plus(MaskedRow(0, c, j), MaskedRow(1, c, j))
RevealedFactor(c) == Plus(MaskedFactor(0, c), MaskedFactor(1, c))

(* Messages are numbered from 0: two for a chunk if the factors are shared,*)
(* one if not.  Message number q of party r is m.                          *)
ChunkNo(q) == IF is_shared THEN q \div 2 ELSE q
IsSecond(q) == is_shared /\ q % 2 = 1
IsMessage(r, q, m) ==
  /\ ChunkNo(q) \in 0 .. Supply - 1
  /\ IF r = 0 <=> IsSecond(q) THEN m = MaskedFactor(r, ChunkNo(q))
                              ELSE IsMasked(r, ChunkNo(q), m)

(* The messages party r has sent and read.                                 *)
PerChunk == IF is_shared THEN 2 ELSE 1
Before(r) == IF is_shared THEN 2 * i[r] ELSE i[r]
Sent(r) ==
  Before(r) + (IF pc[r] \in {"recv1", "send2"} THEN 1
               ELSE IF pc[r] = "recv2" THEN 2
               ELSE IF pc[r] = "combine" THEN PerChunk ELSE 0)
Read(r) ==
  Before(r) + (IF pc[r] \in {"send2", "recv2"} THEN 1
               ELSE IF pc[r] = "combine" THEN PerChunk ELSE 0)

(* Where party r is and how many triples it has taken.                     *)
Progress(r) ==
  /\ pc[r] \in {"start", "threw"} => i[r] = 0
  /\ pc[r] \in InChunk \cup {"mask"} => i[r] * chunk_size < l
  /\ pc[r] = "done" => /\ l <= i[r] * chunk_size
                       /\ i[r] = 0 \/ (i[r] - 1) * chunk_size < l
  /\ pc[r] \in {"send2", "recv2"} => is_shared
  /\ taken[r] = (IF pc[r] \in InChunk THEN i[r] + 1 ELSE i[r])

(* What is on its way to party r are the messages it has not read.         *)
InOrder(r) ==
  /\ Len(chan[r]) = Sent(Other(r)) - Read(r)
  /\ \A k \in 1 .. Len(chan[r]) : IsMessage(Other(r), Read(r) + k - 1, chan[r][k])

(* E, F and first of party r belong to the chunk it is in.                 *)
EOf(r) == IF r = 0 THEN E[r] ELSE PlusRows(E[r], first[r])
FOf(r) == IF r = 0 THEN Plus(F[r], first[r]) ELSE F[r]
OfChunk(r) ==
  /\ pc[r] \in InChunk \ {"combine"} => /\ IsMasked(r, i[r], E[r])
                                        /\ F[r] = MaskedFactor(r, i[r])
  /\ pc[r] \in {"send2", "recv2"} =>
       IF r = 0 THEN first[r] = MaskedFactor(1, i[r]) ELSE IsMasked(0, i[r], first[r])
  /\ pc[r] = "combine" =>
       /\ \A j \in TripleRows : Within(i[r], j) => EOf(r)[j] = RevealedRow(i[r], j)
       /\ FOf(r) = RevealedFactor(i[r])

(* Row j of the share of chunk c, as ShareOfRow makes it.                  *)
FinalShare(r, c, j) ==
  ShareOfRow(r, [x \in TripleRows |-> RevealedRow(c, x)], RevealedFactor(c), TripleOf(r, c), j)
Finished(r) ==
  \A c \in 0 .. i[r] - 1 : \A j \in TripleRows :
    Within(c, j) => result[r][c * chunk_size + j] = FinalShare(r, c, j)

Messages == Seq(T \cup [TripleRows -> T])
LocalInv ==
  /\ TypeOK
  /\ \A r \in Roles : Progress(r) /\ OfChunk(r) /\ Finished(r)
IInv ==
  /\ LocalInv
  /\ chan \in [Roles -> Messages]
  /\ \A r \in Roles : InOrder(r)

-----------------------------------------------------------------------------
(* Constants and roles.                                                    *)
LEMMA Sizes ==
  /\ rows = chunk_size /\ chunk_size \in Nat \ {0} /\ l \in Nat /\ Supply \in Nat
  /\ TripleRows = 1 .. chunk_size
<1>1. l \in Nat /\ chunk_size_in \in Nat \cup {-1} /\ chunk_size > 0 /\ rows = chunk_size
      /\ Supply \in Nat
  BY SizesAssumption
<1>2. chunk_size \in Nat
  BY <1>1 DEF chunk_size
<1> HIDE DEF chunk_size
<1> QED
  BY <1>1, <1>2 DEF TripleRows

LEMMA TwoRoles ==
  ASSUME NEW r \in Roles
  PROVE  /\ Other(r) \in Roles /\ Other(r) # r /\ Other(Other(r)) = r
         /\ Roles = {r, Other(r)}
         /\ r = 0 => Other(r) = 1
         /\ r = 1 => Other(r) = 0
  BY DEF Roles, Other

LEMMA Blocks ==
  ASSUME NEW a \in Nat, NEW b \in Nat, NEW d \in Nat, a < b
  PROVE  a * d + d <= b * d
<1>1. PICK c \in Nat : b = a + 1 + c
  <2>1. b - a - 1 \in Nat /\ b = a + 1 + (b - a - 1)
    OBVIOUS
  <2> QED
    BY <2>1
<1>2. b * d = a * d + d + c * d
  BY <1>1
<1>3. c * d \in Nat /\ a * d \in Nat
  OBVIOUS
<1> QED
  BY <1>2, <1>3

LEMMA Division ==
  ASSUME NEW a \in Nat, NEW d \in Nat \ {0}
  PROVE  /\ (a \div d) \in Nat
         /\ (a % d) \in 0 .. d - 1
         /\ a = d * (a \div d) + (a % d)
  OBVIOUS

(* A place of the product is in one place of one chunk.                    *)
LEMMA ChunkOfRow ==
  ASSUME NEW j \in Rows
  PROVE  \E c \in Nat, x \in TripleRows : j = c * chunk_size + x
<1>1. chunk_size \in Nat \ {0} /\ TripleRows = 1 .. chunk_size /\ j - 1 \in Nat /\ j \in Nat
  BY Sizes DEF Rows
<1>2. PICK c \in Nat, m \in 0 .. chunk_size - 1 : j - 1 = chunk_size * c + m
  BY <1>1, Division
<1>3. m + 1 \in TripleRows
  BY <1>1
<1>4. chunk_size * c = c * chunk_size /\ c * chunk_size \in Nat
  BY <1>1, <1>2
<1>5. j = c * chunk_size + (m + 1)
  BY <1>1, <1>2, <1>4
<1> QED
  BY <1>3, <1>5

LEMMA TripleParts ==
  ASSUME NEW r \in Roles, NEW c \in 0 .. Supply - 1, is_shared \in BOOLEAN
  PROVE  /\ TripleOf(r, c) \in TripleType
         /\ TripleOf(r, c).U \in [TripleRows -> T]
         /\ TripleOf(r, c).V \in T
         /\ TripleOf(r, c).Z \in [TripleRows -> T]
<1>1. c + 1 \in 1 .. Supply
  BY Sizes
<1>2. Triple \in [BOOLEAN -> [Roles -> [1 .. Supply -> TripleType]]]
  BY TriplesAssumption
<1>3. TripleOf(r, c) \in TripleType
  BY <1>1, <1>2 DEF TripleOf
<1> QED
  BY <1>3 DEF TripleType

LEMMA MaskedTypes ==
  ASSUME TypeOK, NEW r \in Roles, NEW c \in 0 .. Supply - 1
  PROVE  /\ \A j \in TripleRows : Within(c, j) =>
              c * chunk_size + j \in Rows /\ MaskedRow(r, c, j) \in T
         /\ MaskedFactor(r, c) \in T
<1>1. /\ A[r] \in [Rows -> T] /\ B[r] \in T /\ is_shared \in BOOLEAN
      /\ TripleOf(r, c).U \in [TripleRows -> T] /\ TripleOf(r, c).V \in T
  BY TripleParts DEF TypeOK
<1>2. MaskedFactor(r, c) \in T
  BY <1>1, RingClosed DEF MaskedFactor
<1>3. ASSUME NEW j \in TripleRows, Within(c, j)
      PROVE  c * chunk_size + j \in Rows
  <2>1. c \in Nat /\ chunk_size \in Nat /\ j \in Nat \ {0} /\ l \in Nat
    BY Sizes
  <2>2. c * chunk_size \in Nat
    BY <2>1
  <2> QED
    BY <1>3, <2>1, <2>2 DEF Within, Rows
<1>4. ASSUME NEW j \in TripleRows, Within(c, j)
      PROVE  MaskedRow(r, c, j) \in T
  BY <1>1, <1>3, <1>4, RingClosed DEF MaskedRow
<1> QED
  BY <1>2, <1>3, <1>4

LEMMA RevealedTypes ==
  ASSUME TypeOK, NEW c \in 0 .. Supply - 1
  PROVE  /\ \A j \in TripleRows : Within(c, j) => RevealedRow(c, j) \in T
         /\ RevealedFactor(c) \in T
  BY MaskedTypes, RingClosed DEF RevealedRow, RevealedFactor, Roles

LEMMA FinalShareIs ==
  ASSUME NEW r, NEW c, NEW j \in TripleRows
  PROVE  FinalShare(r, c, j) =
           LET share == Plus(Plus(Times(RevealedRow(c, j), TripleOf(r, c).V),
                                  Times(TripleOf(r, c).U[j], RevealedFactor(c))),
                             TripleOf(r, c).Z[j])
           IN  IF r = 0 THEN share ELSE Plus(Times(RevealedRow(c, j), RevealedFactor(c)), share)
  BY DEF FinalShare, ShareOfRow

(* What a message or a share must be depends on the arguments alone.       *)
LEMMA ArgsKept ==
  ASSUME UNCHANGED args
  PROVE  /\ \A r, q, m : IsMessage(r, q, m)' <=> IsMessage(r, q, m)
         /\ \A r, c, X : IsMasked(r, c, X)' <=> IsMasked(r, c, X)
         /\ \A r, c, j : MaskedRow(r, c, j)' = MaskedRow(r, c, j)
         /\ \A r, c : MaskedFactor(r, c)' = MaskedFactor(r, c)
         /\ \A c, j : RevealedRow(c, j)' = RevealedRow(c, j)
         /\ \A c : RevealedFactor(c)' = RevealedFactor(c)
         /\ \A r, c : \A j \in TripleRows : FinalShare(r, c, j)' = FinalShare(r, c, j)
         /\ \A c, j : Within(c, j)' <=> Within(c, j)
<1>1. is_shared' = is_shared /\ A' = A /\ B' = B
  BY DEF args
<1>2. /\ \A r, c : TripleOf(r, c)' = TripleOf(r, c)
      /\ \A c, j : Within(c, j)' <=> Within(c, j)
      /\ \A q : ChunkNo(q)' = ChunkNo(q) /\ (IsSecond(q)' <=> IsSecond(q))
  BY <1>1 DEF TripleOf, Within, ChunkNo, IsSecond
<1>3. /\ \A r, c, j : MaskedRow(r, c, j)' = MaskedRow(r, c, j)
      /\ \A r, c : MaskedFactor(r, c)' = MaskedFactor(r, c)
  BY <1>1, <1>2 DEF MaskedRow, MaskedFactor
<1>4. \A r, c, X : IsMasked(r, c, X)' <=> IsMasked(r, c, X)
  BY <1>2, <1>3 DEF IsMasked
<1>5. \A r, q, m : IsMessage(r, q, m)' <=> IsMessage(r, q, m)
  BY <1>2, <1>3, <1>4 DEF IsMessage
<1>6. /\ \A c, j : RevealedRow(c, j)' = RevealedRow(c, j)
      /\ \A c : RevealedFactor(c)' = RevealedFactor(c)
  BY <1>3 DEF RevealedRow, RevealedFactor
<1>7. ASSUME NEW r, NEW c, NEW j \in TripleRows
      PROVE  FinalShare(r, c, j)' = FinalShare(r, c, j)
  <2>1. FinalShare(r, c, j)' =
          (LET share == Plus(Plus(Times(RevealedRow(c, j), TripleOf(r, c).V),
                                 Times(TripleOf(r, c).U[j], RevealedFactor(c))),
                            TripleOf(r, c).Z[j])
           IN  IF r = 0 THEN share ELSE Plus(Times(RevealedRow(c, j), RevealedFactor(c)), share))'
    BY DEF FinalShare, ShareOfRow
  <2> QED
    BY <1>2, <1>6, <2>1, FinalShareIs
<1> QED
  BY <1>2, <1>3, <1>4, <1>5, <1>6, <1>7

LEMMA Counts ==
  ASSUME TypeOK, NEW r \in Roles
  PROVE  Sent(r) \in Nat /\ Read(r) \in Nat /\ i[r] \in Nat
<1>1. i[r] \in Nat /\ is_shared \in BOOLEAN
  BY DEF TypeOK
<1>2. Before(r) \in Nat /\ PerChunk \in Nat
  BY <1>1 DEF Before, PerChunk
<1> QED
  BY <1>1, <1>2 DEF Sent, Read

LEMMA MessageType ==
  ASSUME TypeOK, NEW r \in Roles, NEW q, NEW m, IsMessage(r, q, m)
  PROVE  m \in T \cup [TripleRows -> T]
  BY MaskedTypes DEF IsMessage, IsMasked

(* What party r reads next is the message it expects.                      *)
LEMMA HeadMessage ==
  ASSUME IInv, NEW r \in Roles, chan[r] # <<>>
  PROVE  IsMessage(Other(r), Read(r), Head(chan[r]))
<1>1. chan[r] \in Messages /\ Len(chan[r]) \in Nat /\ Len(chan[r]) >= 1
  <2>1. chan[r] \in Messages
    BY DEF IInv, LocalInv
  <2> QED
    BY <2>1, LenProperties, EmptySeq DEF Messages
<1>2. Head(chan[r]) = chan[r][1]
  BY <1>1, HeadTailProperties DEF Messages
<1>3. IsMessage(Other(r), Read(r) + 1 - 1, chan[r][1])
  BY <1>1 DEF IInv, LocalInv, InOrder
<1>4. Read(r) + 1 - 1 = Read(r)
  BY Counts DEF IInv, LocalInv
<1> QED
  BY <1>2, <1>3, <1>4

(* The channels after a step that sends nothing and reads nothing, that    *)
(* sends the message that is due, or that reads one.                       *)
LEMMA ChannelsKept ==
  ASSUME IInv, UNCHANGED <<args, chan>>, NEW r \in Roles,
         \A p \in Roles : Sent(p)' = Sent(p) /\ Read(p)' = Read(p)
  PROVE  InOrder(r)'
<1>1. Other(r) \in Roles
  BY TwoRoles
<1> QED
  BY <1>1, ArgsKept DEF IInv, LocalInv, InOrder, Other

(* A step that concerns no channel.                                        *)
Silent == \A p \in Roles : Sent(p)' = Sent(p) /\ Read(p)' = Read(p)

LEMMA SilentStep ==
  ASSUME IInv, LocalInv', UNCHANGED <<args, chan>>, Silent
  PROVE  IInv'
<1>1. \A r \in Roles : InOrder(r)'
  BY ChannelsKept DEF Silent
<1> QED
  BY <1>1 DEF IInv

LEMMA SendInOrder ==
  ASSUME IInv, UNCHANGED args, NEW r \in Roles, NEW m, IsMessage(r, Sent(r), m), Send(r, m),
         Sent(r)' = Sent(r) + 1, Read(r)' = Read(r),
         Sent(Other(r))' = Sent(Other(r)), Read(Other(r))' = Read(Other(r))
  PROVE  chan' \in [Roles -> Messages] /\ InOrder(r)' /\ InOrder(Other(r))'
<1> DEFINE o == Other(r)
<1>1. o \in Roles /\ o # r /\ Other(o) = r
  BY TwoRoles
<1>2. chan[o] \in Messages /\ m \in T \cup [TripleRows -> T] /\ chan \in [Roles -> Messages]
  BY <1>1, MessageType DEF IInv, LocalInv
<1>3. /\ Append(chan[o], m) \in Messages
      /\ Len(Append(chan[o], m)) = Len(chan[o]) + 1
      /\ \A k \in 1 .. Len(chan[o]) : Append(chan[o], m)[k] = chan[o][k]
      /\ Append(chan[o], m)[Len(chan[o]) + 1] = m
      /\ Len(chan[o]) \in Nat
  BY <1>2, AppendProperties, LenProperties DEF Messages
<1>4. chan'[o] = Append(chan[o], m) /\ chan'[r] = chan[r] /\ chan' \in [Roles -> Messages]
  BY <1>1, <1>2, <1>3 DEF Send
<1>5. InOrder(r)'
  BY <1>1, <1>4, ArgsKept DEF IInv, LocalInv, InOrder, Other
<1>6. Sent(r) \in Nat /\ Read(o) \in Nat
  BY <1>1, Counts DEF IInv, LocalInv
<1>7. Len(chan[o]) = Sent(r) - Read(o)
  BY <1>1 DEF IInv, LocalInv, InOrder
<1>8. ASSUME NEW k \in 1 .. Len(chan[o]) + 1
      PROVE  IsMessage(r, Read(o) + k - 1, Append(chan[o], m)[k])
  <2>1. CASE k \in 1 .. Len(chan[o])
    BY <1>1, <1>3, <2>1 DEF IInv, LocalInv, InOrder
  <2>2. CASE k = Len(chan[o]) + 1
    <3>1. Read(o) + k - 1 = Sent(r)
      BY <1>6, <1>7, <2>2
    <3> QED
      BY <1>3, <2>2, <3>1
  <2> QED
    BY <1>3, <2>1, <2>2
<1>9. InOrder(o)'
  <2>1. Len(chan'[o]) = Sent(r)' - Read(o)'
    BY <1>3, <1>4, <1>6, <1>7
  <2>2. (\A k \in 1 .. Len(chan[o]) : IsMessage(r, Read(o) + k - 1, chan[o][k]))'
    BY <1>3, <1>4, <1>8, ArgsKept
  <2> QED
    BY <1>1, <2>1, <2>2 DEF InOrder, Other
<1> QED
  BY <1>4, <1>5, <1>9

LEMMA ReceiveInOrder ==
  ASSUME IInv, UNCHANGED args, NEW r \in Roles, chan[r] # <<>>, Receive(r),
         Sent(r)' = Sent(r), Read(r)' = Read(r) + 1,
         Sent(Other(r))' = Sent(Other(r)), Read(Other(r))' = Read(Other(r))
  PROVE  chan' \in [Roles -> Messages] /\ InOrder(r)' /\ InOrder(Other(r))'
<1> DEFINE o == Other(r)
<1>1. o \in Roles /\ o # r /\ Other(o) = r
  BY TwoRoles
<1>2. chan[r] \in Messages /\ chan \in [Roles -> Messages]
  BY DEF IInv, LocalInv
<1>3. /\ Tail(chan[r]) \in Messages
      /\ Len(chan[r]) \in Nat
      /\ Len(Tail(chan[r])) = Len(chan[r]) - 1
      /\ \A k \in 1 .. Len(chan[r]) - 1 : Tail(chan[r])[k] = chan[r][k + 1]
  BY <1>2, HeadTailProperties, LenProperties DEF Messages
<1>4. chan'[r] = Tail(chan[r]) /\ chan'[o] = chan[o] /\ chan' \in [Roles -> Messages]
  BY <1>1, <1>2, <1>3 DEF Receive
<1>5. InOrder(o)'
  BY <1>1, <1>4, ArgsKept DEF IInv, LocalInv, InOrder, Other
<1>6. Sent(o) \in Nat /\ Read(r) \in Nat
  BY <1>1, Counts DEF IInv, LocalInv
<1>7. Len(chan[r]) = Sent(o) - Read(r)
  BY DEF IInv, LocalInv, InOrder
<1>8. ASSUME NEW k \in 1 .. Len(chan[r]) - 1
      PROVE  IsMessage(o, Read(r) + 1 + k - 1, Tail(chan[r])[k])
  <2>0. Len(chan[r]) \in Nat
    BY <1>3
  <2>1. k + 1 \in 1 .. Len(chan[r]) /\ Read(r) + 1 + k - 1 = Read(r) + (k + 1) - 1
    BY <1>6, <2>0
  <2>2. IsMessage(o, Read(r) + (k + 1) - 1, chan[r][k + 1])
    BY <2>1 DEF IInv, LocalInv, InOrder
  <2> QED
    BY <1>3, <2>1, <2>2
<1>9. InOrder(r)'
  <2>1. Len(chan'[r]) = Sent(o)' - Read(r)'
    BY <1>3, <1>4, <1>6, <1>7
  <2>2. (\A k \in 1 .. Len(chan[r]) : IsMessage(o, Read(r) + k - 1, chan[r][k]))'
    BY <1>3, <1>4, <1>8, ArgsKept
  <2> QED
    BY <2>1, <2>2 DEF InOrder, Other
<1> QED
  BY <1>4, <1>5, <1>9

(* A party that takes no part in a step.                                   *)
LEMMA OtherKept ==
  ASSUME LocalInv, UNCHANGED args, NEW o \in Roles,
         pc'[o] = pc[o], i'[o] = i[o], taken'[o] = taken[o], E'[o] = E[o], F'[o] = F[o],
         first'[o] = first[o], result'[o] = result[o]
  PROVE  /\ Progress(o)' /\ OfChunk(o)' /\ Finished(o)'
         /\ Sent(o)' = Sent(o) /\ Read(o)' = Read(o)
<1>1. Progress(o)'
  BY DEF IInv, LocalInv, Progress, args
<1>2. EOf(o)' = EOf(o) /\ FOf(o)' = FOf(o)
  BY DEF EOf, FOf
<1>3. OfChunk(o)'
  BY <1>2, ArgsKept DEF IInv, LocalInv, OfChunk
<1>4. Finished(o)'
  BY ArgsKept DEF IInv, LocalInv, Finished
<1> QED
  BY <1>1, <1>3, <1>4 DEF Sent, Read, Before, PerChunk, args

(* The shares of the chunks before, which a party keeps.                   *)
LEMMA FinishedKept ==
  ASSUME LocalInv, UNCHANGED args, NEW r \in Roles, i'[r] = i[r], result'[r] = result[r]
  PROVE  Finished(r)'
  BY ArgsKept DEF IInv, LocalInv, Finished

(* The numbers of the messages of the chunk party r is in.                 *)
LEMMA MessageNumbers ==
  ASSUME TypeOK, NEW r \in Roles
  PROVE  /\ ChunkNo(Before(r)) = i[r] /\ ~IsSecond(Before(r))
         /\ is_shared => ChunkNo(Before(r) + 1) = i[r] /\ IsSecond(Before(r) + 1)
<1>1. i[r] \in Nat
  BY DEF TypeOK
<1>2. CASE is_shared
  <2>1. /\ (2 * i[r]) \div 2 = i[r] /\ (2 * i[r]) % 2 = 0
        /\ (2 * i[r] + 1) \div 2 = i[r] /\ (2 * i[r] + 1) % 2 = 1
    BY <1>1
  <2> QED
    BY <1>2, <2>1 DEF ChunkNo, IsSecond, Before
<1>3. CASE ~is_shared
  BY <1>3 DEF ChunkNo, IsSecond, Before
<1> QED
  BY <1>2, <1>3

(* The chunk party r is in has its triple.                                 *)
LEMMA ChunkFacts ==
  ASSUME LocalInv, NEW r \in Roles, pc[r] \in InChunk
  PROVE  /\ i[r] \in Nat /\ i[r] \in 0 .. Supply - 1 /\ taken[r] = i[r] + 1
         /\ Triple[is_shared][r][taken[r]] = TripleOf(r, i[r])
<1>1. i[r] \in Nat /\ taken[r] \in 0 .. Supply
  BY DEF IInv, LocalInv, TypeOK
<1>2. taken[r] = i[r] + 1
  BY DEF IInv, LocalInv, Progress
<1> QED
  BY <1>1, <1>2, Sizes DEF TripleOf

(* Nobody has begun: whatever the arguments, the invariant holds.          *)
Fresh == \A r \in Roles : pc[r] = "start" /\ i[r] = 0 /\ taken[r] = 0
ChannelsEmpty == chan = [r \in Roles |-> <<>>]

LEMMA FreshLocal == TypeOK /\ Fresh => LocalInv
  BY DEF LocalInv, Fresh, Progress, OfChunk, Finished, InChunk

LEMMA FreshInv == TypeOK /\ Fresh /\ ChannelsEmpty => IInv
<1> SUFFICES ASSUME TypeOK, Fresh, ChannelsEmpty PROVE IInv
  OBVIOUS
<1>1. chan \in [Roles -> Messages]
  BY DEF ChannelsEmpty, Messages
<1>2. ASSUME NEW r \in Roles
      PROVE  Progress(r) /\ InOrder(r) /\ OfChunk(r) /\ Finished(r)
  <2>1. /\ pc[r] = "start" /\ i[r] = 0 /\ taken[r] = 0 /\ chan[r] = <<>>
        /\ pc[Other(r)] = "start" /\ i[Other(r)] = 0
    BY TwoRoles DEF Fresh, ChannelsEmpty
  <2>2. Sent(Other(r)) = 0 /\ Read(r) = 0
    BY <2>1 DEF Sent, Read, Before
  <2> QED
    BY <2>1, <2>2 DEF Progress, InOrder, OfChunk, Finished, InChunk
<1> QED
  BY <1>1, <1>2 DEF IInv, LocalInv

LEMMA InitFresh == Init => TypeOK /\ Fresh /\ ChannelsEmpty
<1> SUFFICES ASSUME Init PROVE TypeOK /\ Fresh /\ ChannelsEmpty
  OBVIOUS
<1>1. TypeOK
  <2>1. /\ Zero \in T /\ ZeroRows \in [TripleRows -> T] /\ Supply \in Nat
        /\ AInputs \subseteq [Rows -> T] /\ BInputs \subseteq T
    BY RingClosed, SizesAssumption DEF ZeroRows
  <2>2. 0 \in 0 .. Supply
    BY <2>1
  <2>3. A \in [Roles -> [Rows -> T]] /\ B \in [Roles -> T]
    BY <2>1 DEF Init
  <2>4. /\ E \in [Roles -> [TripleRows -> T]] /\ F \in [Roles -> T]
        /\ first[0] \in T /\ first[1] \in [TripleRows -> T]
        /\ result \in [Roles -> [Rows -> T]]
    BY <2>1 DEF Init, Roles
  <2>5. /\ i \in [Roles -> Nat] /\ made \in [Roles -> 0 .. Supply]
        /\ taken \in [Roles -> 0 .. Supply]
        /\ pc \in [Roles -> {"start", "threw", "mask", "send1", "recv1", "send2",
                             "recv2", "combine", "done"}]
    BY <2>2 DEF Init
  <2> QED
    BY <2>3, <2>4, <2>5 DEF Init, TypeOK
<1> QED
  BY <1>1 DEF Init, Fresh, ChannelsEmpty

LEMMA InitInv == Init => IInv
  BY InitFresh, FreshInv

LEMMA PrecomputeLocal ==
  ASSUME LocalInv, NEW r \in Roles, Precompute(r)
  PROVE  LocalInv' /\ Silent
<1>1. /\ UNCHANGED args /\ UNCHANGED <<pc, i, taken, E, F, first, chan, result>>
      /\ made' = [made EXCEPT ![r] = @ + 1] /\ made[r] < Supply
  BY DEF Precompute
<1>2. made' \in [Roles -> 0 .. Supply]
  <2>1. made \in [Roles -> 0 .. Supply] /\ made[r] + 1 \in 0 .. Supply
    BY <1>1, Sizes DEF LocalInv, TypeOK
  <2> QED
    BY <1>1, <2>1
<1>3. TypeOK'
  BY <1>1, <1>2 DEF LocalInv, TypeOK, args
<1>4. \A p \in Roles : /\ Progress(p)' /\ OfChunk(p)' /\ Finished(p)'
                       /\ Sent(p)' = Sent(p) /\ Read(p)' = Read(p)
  BY <1>1, OtherKept
<1> QED
  BY <1>1, <1>3, <1>4 DEF LocalInv, Silent

LEMMA PrecomputeStep == ASSUME NEW r \in Roles PROVE IInv /\ Precompute(r) => IInv'
<1> SUFFICES ASSUME IInv, Precompute(r) PROVE IInv'
  OBVIOUS
<1>1. UNCHANGED <<args, chan>>
  BY DEF Precompute
<1>2. LocalInv' /\ Silent
  BY PrecomputeLocal DEF IInv
<1> QED
  BY <1>1, <1>2, SilentStep

PCs == {"start", "threw", "mask", "send1", "recv1", "send2", "recv2", "combine", "done"}

LEMMA StartLocal ==
  ASSUME LocalInv, NEW r \in Roles, Start(r)
  PROVE  LocalInv' /\ Silent
<1> DEFINE o == Other(r)
<1>0. o \in Roles /\ o # r /\ Roles = {r, o}
  BY TwoRoles
<1>1. /\ pc[r] = "start" /\ UNCHANGED args
      /\ UNCHANGED <<i, made, taken, E, F, first, chan, result>>
  BY DEF Start
<1>2. PICK next \in {"threw", "done", "mask"} :
        /\ pc' = [pc EXCEPT ![r] = next]
        /\ next = "done" => l = 0
        /\ next = "mask" => l # 0
  <2>1. CASE dim[r] # chunk_size
    BY <2>1 DEF Start
  <2>2. CASE dim[r] = chunk_size /\ l = 0
    BY <2>2 DEF Start
  <2>3. CASE dim[r] = chunk_size /\ l # 0
    BY <2>3 DEF Start
  <2> QED
    BY <2>1, <2>2, <2>3
<1>3. pc' \in [Roles -> PCs] /\ pc'[r] = next /\ pc'[o] = pc[o]
  BY <1>0, <1>2 DEF LocalInv, TypeOK, PCs
<1>4. TypeOK'
  BY <1>1, <1>3 DEF LocalInv, TypeOK, PCs, args
<1>5. Progress(r)'
  <2>1. i[r] = 0 /\ taken[r] = i[r]
    BY <1>1 DEF LocalInv, Progress, InChunk
  <2>2. i[r] * chunk_size = 0 /\ l \in Nat
    BY <2>1, Sizes
  <2>3. next = "done" => l <= i[r] * chunk_size
    BY <1>2, <2>2
  <2>4. next = "mask" => i[r] * chunk_size < l
    BY <1>2, <2>2
  <2> QED
    BY <1>1, <1>3, <2>1, <2>3, <2>4 DEF Progress, InChunk, args
<1>6. OfChunk(r)'
  BY <1>3 DEF OfChunk, InChunk
<1>7. Sent(r)' = Sent(r) /\ Read(r)' = Read(r)
  BY <1>1, <1>3 DEF Sent, Read, Before, args
<1>8. /\ Progress(o)' /\ OfChunk(o)' /\ Finished(o)'
      /\ Sent(o)' = Sent(o) /\ Read(o)' = Read(o)
  BY <1>0, <1>1, <1>3, OtherKept
<1>10. Finished(r)'
  BY <1>1, FinishedKept
<1> QED
  BY <1>0, <1>1, <1>4, <1>5, <1>6, <1>7, <1>8, <1>10 DEF LocalInv, Silent

LEMMA StartStep == ASSUME NEW r \in Roles PROVE IInv /\ Start(r) => IInv'
<1> SUFFICES ASSUME IInv, Start(r) PROVE IInv'
  OBVIOUS
<1>1. UNCHANGED <<args, chan>>
  BY DEF Start
<1>2. LocalInv' /\ Silent
  BY StartLocal DEF IInv
<1> QED
  BY <1>1, <1>2, SilentStep

LEMMA MaskLocal ==
  ASSUME LocalInv, NEW r \in Roles, Mask(r)
  PROVE  LocalInv' /\ Silent
<1> DEFINE o == Other(r)
           tr == Triple[is_shared][r][taken[r] + 1]
<1>0. o \in Roles /\ o # r /\ Roles = {r, o}
  BY TwoRoles
<1>1. /\ pc[r] = "mask" /\ UNCHANGED args /\ taken[r] < made[r]
      /\ UNCHANGED <<i, made, first, chan, result>>
      /\ taken' = [taken EXCEPT ![r] = @ + 1]
      /\ pc' = [pc EXCEPT ![r] = "send1"]
      /\ F' = [F EXCEPT ![r] = IF is_shared \/ r = 1 THEN Minus(B[r], tr.V) ELSE Zero]
  BY DEF Mask
<1>2. PICK garbage \in [{j \in TripleRows : i[r] * chunk_size + j > l} -> T] :
        E' = [E EXCEPT ![r] = IF is_shared \/ r = 0
                                THEN MinusRows(ChunkOf(r, garbage), tr.U) ELSE ZeroRows]
  BY DEF Mask
<1>3. /\ pc' \in [Roles -> PCs] /\ pc'[r] = "send1" /\ pc'[o] = pc[o]
      /\ taken'[r] = taken[r] + 1 /\ taken'[o] = taken[o]
      /\ E'[o] = E[o] /\ F'[o] = F[o]
  BY <1>0, <1>1, <1>2 DEF LocalInv, TypeOK, PCs
<1>4. /\ taken[r] = i[r] /\ i[r] \in 0 .. Supply - 1 /\ i[r] \in Nat
      /\ i[r] * chunk_size < l /\ tr = TripleOf(r, i[r])
  <2>1. /\ taken[r] = i[r] /\ i[r] \in Nat /\ i[r] * chunk_size < l
        /\ taken[r] \in 0 .. Supply /\ made[r] \in 0 .. Supply
    BY <1>1 DEF LocalInv, TypeOK, Progress, InChunk
  <2> QED
    BY <1>1, <2>1, Sizes DEF TripleOf
<1>5. taken' \in [Roles -> 0 .. Supply]
  <2>1. taken \in [Roles -> 0 .. Supply] /\ taken[r] + 1 \in 0 .. Supply
    BY <1>4, Sizes DEF LocalInv, TypeOK
  <2> QED
    BY <1>1, <2>1
<1>6. F'[r] = MaskedFactor(r, i[r])
  <2>1. F'[r] = IF is_shared \/ r = 1 THEN Minus(B[r], tr.V) ELSE Zero
    BY <1>1 DEF LocalInv, TypeOK
  <2> QED
    BY <1>4, <2>1 DEF MaskedFactor
<1>7. IsMasked(r, i[r], E'[r])
  <2>0. E'[r] = IF is_shared \/ r = 0 THEN MinusRows(ChunkOf(r, garbage), tr.U) ELSE ZeroRows
    BY <1>2 DEF LocalInv, TypeOK
  <2>1. tr.U \in [TripleRows -> T] /\ A[r] \in [Rows -> T]
    BY <1>4, TripleParts DEF LocalInv, TypeOK
  <2>2. \A j \in TripleRows : Within(i[r], j) =>
          i[r] * chunk_size + j \in Rows /\ MaskedRow(r, i[r], j) \in T
    BY <1>4, MaskedTypes DEF LocalInv
  <2>3. ASSUME NEW j \in TripleRows
        PROVE  ~Within(i[r], j) => i[r] * chunk_size + j > l
    <3>1. i[r] * chunk_size + j \in Int /\ l \in Nat
      <4>1. i[r] * chunk_size \in Int /\ j \in Int
        BY <1>4, Sizes
      <4> QED
        BY <4>1, Sizes
    <3> QED
      BY <3>1 DEF Within
  <2>4. ASSUME NEW j \in TripleRows
        PROVE  /\ ChunkOf(r, garbage)[j] \in T
               /\ Within(i[r], j) => ChunkOf(r, garbage)[j] = A[r][i[r] * chunk_size + j]
    BY <2>1, <2>2, <2>3 DEF ChunkOf, Within
  <2>5. CASE is_shared \/ r = 0
    <3>1. \A j \in TripleRows : MinusRows(ChunkOf(r, garbage), tr.U)[j]
                                  = Minus(ChunkOf(r, garbage)[j], tr.U[j])
      BY DEF MinusRows
    <3>2. MinusRows(ChunkOf(r, garbage), tr.U) \in [TripleRows -> T]
      BY <2>1, <2>4, RingClosed DEF MinusRows
    <3>3. \A j \in TripleRows : Within(i[r], j) =>
            MinusRows(ChunkOf(r, garbage), tr.U)[j] = MaskedRow(r, i[r], j)
      BY <1>4, <2>4, <2>5, <3>1 DEF MaskedRow
    <3> QED
      BY <2>0, <2>5, <3>2, <3>3 DEF IsMasked
  <2>6. CASE ~(is_shared \/ r = 0)
    BY <2>0, <2>6, RingClosed DEF IsMasked, MaskedRow, ZeroRows
  <2> QED
    BY <2>5, <2>6
<1>8. TypeOK'
  <2>1. E' \in [Roles -> [TripleRows -> T]]
    BY <1>2, <1>7 DEF LocalInv, TypeOK, IsMasked
  <2>2. F' \in [Roles -> T]
    <3>1. F'[r] \in T
      BY <1>4, <1>6, MaskedTypes DEF LocalInv
    <3> QED
      BY <1>1, <3>1 DEF LocalInv, TypeOK
  <2> QED
    BY <1>1, <1>3, <1>5, <2>1, <2>2 DEF LocalInv, TypeOK, PCs, args
<1>9. Progress(r)'
  BY <1>1, <1>3, <1>4 DEF Progress, InChunk, args
<1>10. OfChunk(r)'
  BY <1>1, <1>3, <1>6, <1>7, ArgsKept DEF OfChunk, InChunk
<1>11. Sent(r)' = Sent(r) /\ Read(r)' = Read(r)
  BY <1>1, <1>3 DEF Sent, Read, Before, args
<1>12. /\ Progress(o)' /\ OfChunk(o)' /\ Finished(o)'
       /\ Sent(o)' = Sent(o) /\ Read(o)' = Read(o)
  BY <1>0, <1>1, <1>3, OtherKept
<1>14. Finished(r)'
  BY <1>1, FinishedKept
<1> QED
  BY <1>0, <1>1, <1>8, <1>9, <1>10, <1>11, <1>12, <1>14 DEF LocalInv, Silent

LEMMA MaskStep == ASSUME NEW r \in Roles PROVE IInv /\ Mask(r) => IInv'
<1> SUFFICES ASSUME IInv, Mask(r) PROVE IInv'
  OBVIOUS
<1>1. UNCHANGED <<args, chan>>
  BY DEF Mask
<1>2. LocalInv' /\ Silent
  BY MaskLocal DEF IInv
<1> QED
  BY <1>1, <1>2, SilentStep

LEMMA Send1Local ==
  ASSUME LocalInv, NEW r \in Roles, Send1(r)
  PROVE  /\ LocalInv'
         /\ Sent(r)' = Sent(r) + 1 /\ Read(r)' = Read(r)
         /\ Sent(Other(r))' = Sent(Other(r)) /\ Read(Other(r))' = Read(Other(r))
         /\ IsMessage(r, Sent(r), IF r = 0 THEN E[r] ELSE F[r])
<1> DEFINE o == Other(r)
           m == IF r = 0 THEN E[r] ELSE F[r]
<1>0. o \in Roles /\ o # r /\ Roles = {r, o}
  BY TwoRoles
<1>1. /\ pc[r] = "send1" /\ UNCHANGED args
      /\ UNCHANGED <<i, made, taken, E, F, first, result>>
      /\ pc' = [pc EXCEPT ![r] = "recv1"]
  BY DEF Send1
<1>2. pc' \in [Roles -> PCs] /\ pc'[r] = "recv1" /\ pc'[o] = pc[o]
  BY <1>0, <1>1 DEF LocalInv, TypeOK, PCs
<1>3. Sent(r) = Before(r) /\ Sent(r)' = Sent(r) + 1 /\ Read(r)' = Read(r)
  <2>1. Before(r) \in Nat
    BY DEF LocalInv, TypeOK, Before
  <2> QED
    BY <1>1, <1>2, <2>1 DEF Sent, Read, Before, args
<1>4. IsMessage(r, Sent(r), m)
  <2>1. IsMasked(r, i[r], E[r]) /\ F[r] = MaskedFactor(r, i[r])
    BY <1>1 DEF LocalInv, OfChunk, InChunk
  <2>2. i[r] \in 0 .. Supply - 1
    BY <1>1, ChunkFacts DEF InChunk
  <2> QED
    BY <1>3, <2>1, <2>2, MessageNumbers DEF LocalInv, IsMessage
<1>5. /\ Progress(o)' /\ OfChunk(o)' /\ Finished(o)'
      /\ Sent(o)' = Sent(o) /\ Read(o)' = Read(o)
  BY <1>0, <1>1, <1>2, OtherKept
<1>6. TypeOK'
  BY <1>1, <1>2 DEF LocalInv, TypeOK, PCs, args
<1>7. Progress(r)'
  BY <1>1, <1>2 DEF LocalInv, Progress, InChunk, args
<1>8. OfChunk(r)'
  BY <1>1, <1>2, ArgsKept DEF LocalInv, OfChunk, InChunk
<1>9. Finished(r)'
  BY <1>1, FinishedKept
<1> QED
  BY <1>0, <1>3, <1>4, <1>5, <1>6, <1>7, <1>8, <1>9 DEF LocalInv

LEMMA Send1Step == ASSUME NEW r \in Roles PROVE IInv /\ Send1(r) => IInv'
<1> SUFFICES ASSUME IInv, Send1(r) PROVE IInv'
  OBVIOUS
<1> DEFINE m == IF r = 0 THEN E[r] ELSE F[r]
<1>1. UNCHANGED args /\ Send(r, m)
  BY DEF Send1
<1>2. /\ LocalInv'
      /\ Sent(r)' = Sent(r) + 1 /\ Read(r)' = Read(r)
      /\ Sent(Other(r))' = Sent(Other(r)) /\ Read(Other(r))' = Read(Other(r))
      /\ IsMessage(r, Sent(r), m)
  BY Send1Local DEF IInv
<1>3. chan' \in [Roles -> Messages] /\ InOrder(r)' /\ InOrder(Other(r))'
  BY <1>1, <1>2, SendInOrder
<1> QED
  BY <1>2, <1>3, TwoRoles DEF IInv

LEMMA Send2Step == ASSUME NEW r \in Roles PROVE IInv /\ Send2(r) => IInv'
<1> SUFFICES ASSUME IInv, Send2(r) PROVE IInv'
  OBVIOUS
<1> DEFINE o == Other(r)
           m == IF r = 0 THEN F[r] ELSE E[r]
<1>0. o \in Roles /\ o # r /\ Roles = {r, o}
  BY TwoRoles
<1>1. /\ pc[r] = "send2" /\ UNCHANGED args /\ Send(r, m)
      /\ UNCHANGED <<i, made, taken, E, F, first, result>>
      /\ pc' = [pc EXCEPT ![r] = "recv2"]
  BY DEF Send2
<1>2. pc' \in [Roles -> PCs] /\ pc'[r] = "recv2" /\ pc'[o] = pc[o]
  BY <1>0, <1>1 DEF IInv, LocalInv, TypeOK, PCs
<1>3. is_shared
  BY <1>1 DEF IInv, LocalInv, Progress
<1>4. Sent(r) = Before(r) + 1 /\ Sent(r)' = Sent(r) + 1 /\ Read(r)' = Read(r)
  <2>1. Before(r) \in Nat
    BY DEF IInv, LocalInv, TypeOK, Before
  <2> QED
    BY <1>1, <1>2, <2>1 DEF Sent, Read, Before, args
<1>5. IsMessage(r, Sent(r), m)
  <2>1. IsMasked(r, i[r], E[r]) /\ F[r] = MaskedFactor(r, i[r])
    BY <1>1 DEF IInv, LocalInv, OfChunk, InChunk
  <2>2. i[r] \in 0 .. Supply - 1
    BY <1>1, ChunkFacts DEF IInv, InChunk
  <2> QED
    BY <1>3, <1>4, <2>1, <2>2, MessageNumbers DEF IInv, LocalInv, IsMessage
<1>6. /\ Progress(o)' /\ OfChunk(o)' /\ Finished(o)'
      /\ Sent(o)' = Sent(o) /\ Read(o)' = Read(o)
  BY <1>0, <1>1, <1>2, OtherKept DEF IInv
<1>7. chan' \in [Roles -> Messages] /\ InOrder(r)' /\ InOrder(o)'
  BY <1>1, <1>4, <1>5, <1>6, SendInOrder
<1>8. TypeOK'
  BY <1>1, <1>2 DEF IInv, LocalInv, TypeOK, PCs, args
<1>9. Progress(r)'
  BY <1>1, <1>2 DEF IInv, LocalInv, Progress, InChunk, args
<1>10. OfChunk(r)'
  BY <1>1, <1>2, ArgsKept DEF IInv, LocalInv, OfChunk, InChunk
<1>11. Finished(r)'
  BY <1>1, FinishedKept DEF IInv
<1> QED
  BY <1>0, <1>6, <1>7, <1>8, <1>9, <1>10, <1>11 DEF IInv, LocalInv

(* What has been masked and is in the matrix can be added in either order. *)
LEMMA RevealedIs ==
  ASSUME TypeOK, NEW c \in 0 .. Supply - 1
  PROVE  /\ RevealedFactor(c) = Plus(MaskedFactor(1, c), MaskedFactor(0, c))
         /\ ~is_shared => RevealedFactor(c) = MaskedFactor(1, c)
         /\ \A j \in TripleRows : Within(c, j) =>
              /\ RevealedRow(c, j) = Plus(MaskedRow(1, c, j), MaskedRow(0, c, j))
              /\ ~is_shared => RevealedRow(c, j) = MaskedRow(0, c, j)
<1>1. \A r \in Roles : MaskedFactor(r, c) \in T
  BY MaskedTypes
<1>2. \A r \in Roles, j \in TripleRows : Within(c, j) => MaskedRow(r, c, j) \in T
  BY MaskedTypes
<1>3. ~is_shared => MaskedFactor(0, c) = Zero /\ \A j : MaskedRow(1, c, j) = Zero
  BY DEF MaskedFactor, MaskedRow
<1>4. 0 \in Roles /\ 1 \in Roles
  BY DEF Roles
<1>5. /\ \A a, b \in T : Plus(a, b) = Plus(b, a)
      /\ \A a \in T : Plus(a, Zero) = a /\ Plus(Zero, a) = a
  BY RingClosed, RingGroup
<1>6. /\ RevealedFactor(c) = Plus(MaskedFactor(1, c), MaskedFactor(0, c))
      /\ ~is_shared => RevealedFactor(c) = MaskedFactor(1, c)
  <2>1. MaskedFactor(0, c) \in T /\ MaskedFactor(1, c) \in T
    BY <1>1, <1>4
  <2> QED
    BY <1>3, <1>5, <2>1 DEF RevealedFactor
<1>7. ASSUME NEW j \in TripleRows, Within(c, j)
      PROVE  /\ RevealedRow(c, j) = Plus(MaskedRow(1, c, j), MaskedRow(0, c, j))
             /\ ~is_shared => RevealedRow(c, j) = MaskedRow(0, c, j)
  <2>1. MaskedRow(0, c, j) \in T /\ MaskedRow(1, c, j) \in T
    BY <1>2, <1>4, <1>7
  <2> QED
    BY <1>3, <1>5, <2>1 DEF RevealedRow
<1> QED
  BY <1>6, <1>7

LEMMA Recv1Step == ASSUME NEW r \in Roles PROVE IInv /\ Recv1(r) => IInv'
<1> SUFFICES ASSUME IInv, Recv1(r) PROVE IInv'
  OBVIOUS
<1> DEFINE o == Other(r)
           c == i[r]
           m == Head(chan[r])
<1>0. o \in Roles /\ o # r /\ Roles = {r, o}
  BY TwoRoles
<1>1. /\ pc[r] = "recv1" /\ UNCHANGED args /\ chan[r] # <<>> /\ Receive(r)
      /\ UNCHANGED <<i, made, taken, E, F, result>>
      /\ pc' = [pc EXCEPT ![r] = IF is_shared THEN "send2" ELSE "combine"]
      /\ first' = [first EXCEPT ![r] = m]
  BY DEF Recv1
<1>2. /\ pc' \in [Roles -> PCs] /\ pc'[o] = pc[o]
      /\ pc'[r] = (IF is_shared THEN "send2" ELSE "combine")
  BY <1>0, <1>1 DEF IInv, LocalInv, TypeOK, PCs
<1>3. Read(r) = Before(r) /\ Sent(r)' = Sent(r) /\ Read(r)' = Read(r) + 1
  <2>1. Before(r) \in Nat /\ is_shared \in BOOLEAN
    BY DEF IInv, LocalInv, TypeOK, Before
  <2> QED
    BY <1>1, <1>2, <2>1 DEF Sent, Read, Before, args, PerChunk
<1>4. c \in 0 .. Supply - 1 /\ taken[r] = c + 1 /\ c \in Nat
  BY <1>1, ChunkFacts DEF IInv, InChunk
<1>5. IF r = 0 THEN m = MaskedFactor(1, c) ELSE IsMasked(0, c, m)
  <2>1. IsMessage(o, Before(r), m)
    BY <1>1, <1>3, HeadMessage
  <2>2. ChunkNo(Before(r)) = c /\ ~IsSecond(Before(r))
    BY MessageNumbers DEF IInv, LocalInv
  <2>3. CASE r = 0
    <3>1. o = 1
      BY <2>3, TwoRoles
    <3> QED
      BY <2>1, <2>2, <2>3, <3>1 DEF IsMessage
  <2>4. CASE r = 1
    <3>1. o = 0
      BY <2>4, TwoRoles
    <3> QED
      BY <2>1, <2>2, <2>4, <3>1 DEF IsMessage
  <2> QED
    BY <2>3, <2>4 DEF Roles
<1>6. first'[r] = m /\ first'[o] = first[o] /\ DOMAIN first' = Roles
  BY <1>0, <1>1 DEF IInv, LocalInv, TypeOK
<1>7. IsMasked(r, c, E[r]) /\ F[r] = MaskedFactor(r, c)
  BY <1>1 DEF IInv, LocalInv, OfChunk, InChunk
<1>8. TypeOK'
  <2>1. r = 0 => m \in T
    BY <1>4, <1>5, MaskedTypes DEF IInv, LocalInv, Roles
  <2>2. r = 1 => m \in [TripleRows -> T]
    BY <1>5 DEF IsMasked
  <2>3. first'[0] \in T /\ first'[1] \in [TripleRows -> T]
    BY <1>0, <1>6, <2>1, <2>2, TwoRoles DEF IInv, LocalInv, TypeOK, Roles
  <2> QED
    BY <1>1, <1>2, <1>6, <2>3 DEF IInv, LocalInv, TypeOK, PCs, args
<1>9. Progress(r)'
  BY <1>1, <1>2 DEF IInv, LocalInv, Progress, InChunk, args
<1>10. OfChunk(r)'
  <2>1. CASE is_shared
    BY <1>1, <1>2, <1>5, <1>6, <1>7, <2>1, ArgsKept DEF OfChunk, InChunk
  <2>2. CASE ~is_shared
    <3>1. /\ EOf(r)' = IF r = 0 THEN E[r] ELSE PlusRows(E[r], m)
          /\ FOf(r)' = IF r = 0 THEN Plus(F[r], m) ELSE F[r]
      BY <1>1, <1>6 DEF EOf, FOf
    <3>2. FOf(r)' = RevealedFactor(c)
      BY <1>4, <1>5, <1>7, <2>2, <3>1, RevealedIs DEF IInv, LocalInv, RevealedFactor, Roles
    <3>3. ASSUME NEW j \in TripleRows, Within(c, j)
          PROVE  EOf(r)'[j] = RevealedRow(c, j)
      <4>1. CASE r = 0
        BY <1>4, <1>7, <2>2, <3>1, <3>3, <4>1, RevealedIs DEF IInv, LocalInv, IsMasked
      <4>2. CASE r = 1
        <5>1. EOf(r)'[j] = Plus(E[r][j], m[j])
          BY <3>1, <4>2 DEF PlusRows
        <5> QED
          BY <1>4, <1>5, <1>7, <3>3, <4>2, <5>1, RevealedIs DEF IInv, LocalInv, IsMasked
      <4> QED
        BY <4>1, <4>2 DEF Roles
    <3> QED
      BY <1>1, <1>2, <2>2, <3>2, <3>3, ArgsKept DEF OfChunk, InChunk
  <2> QED
    BY <2>1, <2>2
<1>11. /\ Progress(o)' /\ OfChunk(o)' /\ Finished(o)'
       /\ Sent(o)' = Sent(o) /\ Read(o)' = Read(o)
  BY <1>0, <1>1, <1>2, <1>6, OtherKept DEF IInv
<1>12. chan' \in [Roles -> Messages] /\ InOrder(r)' /\ InOrder(o)'
  BY <1>1, <1>3, <1>11, ReceiveInOrder
<1>13. Finished(r)'
  BY <1>1, FinishedKept DEF IInv
<1> QED
  BY <1>0, <1>8, <1>9, <1>10, <1>11, <1>12, <1>13 DEF IInv, LocalInv

LEMMA Recv2Step == ASSUME NEW r \in Roles PROVE IInv /\ Recv2(r) => IInv'
<1> SUFFICES ASSUME IInv, Recv2(r) PROVE IInv'
  OBVIOUS
<1> DEFINE o == Other(r)
           c == i[r]
           m == Head(chan[r])
<1>0. o \in Roles /\ o # r /\ Roles = {r, o}
  BY TwoRoles
<1>1. /\ pc[r] = "recv2" /\ UNCHANGED args /\ chan[r] # <<>> /\ Receive(r)
      /\ UNCHANGED <<i, made, taken, first, result>>
      /\ pc' = [pc EXCEPT ![r] = "combine"]
      /\ IF r = 0 THEN E' = [E EXCEPT ![r] = PlusRows(@, m)] /\ F' = F
                  ELSE F' = [F EXCEPT ![r] = Plus(@, m)] /\ E' = E
  BY DEF Recv2
<1>2. pc' \in [Roles -> PCs] /\ pc'[o] = pc[o] /\ pc'[r] = "combine" /\ is_shared
  BY <1>0, <1>1 DEF IInv, LocalInv, TypeOK, PCs, Progress
<1>3. Read(r) = Before(r) + 1 /\ Sent(r)' = Sent(r) /\ Read(r)' = Read(r) + 1
  <2>1. Before(r) \in Nat
    BY DEF IInv, LocalInv, TypeOK, Before
  <2> QED
    BY <1>1, <1>2, <2>1 DEF Sent, Read, Before, args, PerChunk
<1>4. c \in 0 .. Supply - 1 /\ taken[r] = c + 1 /\ c \in Nat
  BY <1>1, ChunkFacts DEF IInv, InChunk
<1>5. IF r = 0 THEN IsMasked(1, c, m) ELSE m = MaskedFactor(0, c)
  <2>1. IsMessage(o, Before(r) + 1, m)
    BY <1>1, <1>3, HeadMessage
  <2>2. ChunkNo(Before(r) + 1) = c /\ IsSecond(Before(r) + 1)
    BY <1>2, MessageNumbers DEF IInv, LocalInv
  <2>3. CASE r = 0
    <3>1. o = 1
      BY <2>3, TwoRoles
    <3> QED
      BY <2>1, <2>2, <2>3, <3>1 DEF IsMessage
  <2>4. CASE r = 1
    <3>1. o = 0
      BY <2>4, TwoRoles
    <3> QED
      BY <2>1, <2>2, <2>4, <3>1 DEF IsMessage
  <2> QED
    BY <2>3, <2>4 DEF Roles
<1>6. /\ IsMasked(r, c, E[r]) /\ F[r] = MaskedFactor(r, c)
      /\ IF r = 0 THEN first[r] = MaskedFactor(1, c) ELSE IsMasked(0, c, first[r])
  BY <1>1 DEF IInv, LocalInv, OfChunk, InChunk
<1>7. /\ E'[r] = (IF r = 0 THEN PlusRows(E[r], m) ELSE E[r])
      /\ F'[r] = (IF r = 0 THEN F[r] ELSE Plus(F[r], m))
      /\ E'[o] = E[o] /\ F'[o] = F[o]
  BY <1>0, <1>1 DEF IInv, LocalInv, TypeOK
<1>8. /\ EOf(r)' = (IF r = 0 THEN PlusRows(E[r], m) ELSE PlusRows(E[r], first[r]))
      /\ FOf(r)' = (IF r = 0 THEN Plus(F[r], first[r]) ELSE Plus(F[r], m))
  BY <1>1, <1>7 DEF EOf, FOf
<1>9. TypeOK'
  <2>1. \A X, Y \in [TripleRows -> T] : PlusRows(X, Y) \in [TripleRows -> T]
    BY RingClosed DEF PlusRows
  <2>2. \A p \in Roles : MaskedFactor(p, c) \in T
    BY <1>4, MaskedTypes DEF IInv, LocalInv
  <2>3. E' \in [Roles -> [TripleRows -> T]]
    <3>1. CASE r = 0
      <4>1. PlusRows(E[r], m) \in [TripleRows -> T]
        BY <1>5, <1>6, <2>1, <3>1 DEF IsMasked
      <4> QED
        BY <1>1, <3>1, <4>1 DEF IInv, LocalInv, TypeOK
    <3>2. CASE r # 0
      BY <1>1, <3>2 DEF IInv, LocalInv, TypeOK
    <3> QED
      BY <3>1, <3>2
  <2>4. F' \in [Roles -> T]
    <3>1. CASE r = 0
      BY <1>1, <3>1 DEF IInv, LocalInv, TypeOK
    <3>2. CASE r # 0
      <4>1. F[r] \in T /\ m \in T /\ F \in [Roles -> T]
        BY <1>5, <2>2, <3>2 DEF IInv, LocalInv, TypeOK, Roles
      <4>2. Plus(F[r], m) \in T
        BY <4>1, RingClosed
      <4> QED
        BY <1>1, <3>2, <4>1, <4>2
    <3> QED
      BY <3>1, <3>2
  <2> QED
    BY <1>1, <1>2, <2>3, <2>4 DEF IInv, LocalInv, TypeOK, PCs, args
<1>10. Progress(r)'
  BY <1>1, <1>2 DEF IInv, LocalInv, Progress, InChunk, args
<1>11. OfChunk(r)'
  <2>1. FOf(r)' = RevealedFactor(c)
    BY <1>4, <1>5, <1>6, <1>8, RevealedIs DEF IInv, LocalInv, RevealedFactor, Roles
  <2>2. ASSUME NEW j \in TripleRows, Within(c, j)
        PROVE  EOf(r)'[j] = RevealedRow(c, j)
    <3>1. CASE r = 0
      <4>1. EOf(r)'[j] = Plus(E[r][j], m[j])
        BY <1>8, <3>1 DEF PlusRows
      <4> QED
        BY <1>5, <1>6, <2>2, <3>1, <4>1 DEF IsMasked, RevealedRow
    <3>2. CASE r = 1
      <4>1. EOf(r)'[j] = Plus(E[r][j], first[r][j])
        BY <1>8, <3>2 DEF PlusRows
      <4> QED
        BY <1>4, <1>6, <2>2, <3>2, <4>1, RevealedIs DEF IInv, LocalInv, IsMasked
    <3> QED
      BY <3>1, <3>2 DEF Roles
  <2> QED
    BY <1>1, <1>2, <2>1, <2>2, ArgsKept DEF OfChunk, InChunk
<1>12. /\ Progress(o)' /\ OfChunk(o)' /\ Finished(o)'
       /\ Sent(o)' = Sent(o) /\ Read(o)' = Read(o)
  BY <1>0, <1>1, <1>2, <1>7, OtherKept DEF IInv
<1>13. chan' \in [Roles -> Messages] /\ InOrder(r)' /\ InOrder(o)'
  BY <1>1, <1>3, <1>12, ReceiveInOrder
<1>14. Finished(r)'
  BY <1>1, FinishedKept DEF IInv
<1> QED
  BY <1>0, <1>9, <1>10, <1>11, <1>12, <1>13, <1>14 DEF IInv, LocalInv

LEMMA CombineStep == ASSUME NEW r \in Roles PROVE IInv /\ Combine(r) => IInv'
<1> SUFFICES ASSUME IInv, Combine(r) PROVE IInv'
  OBVIOUS
<1> DEFINE o == Other(r)
           c == i[r]
           tr == TripleOf(r, c)
           share(j) == ShareOfRow(r, EOf(r), FOf(r), tr, j)
<1>0. o \in Roles /\ o # r /\ Roles = {r, o}
  BY TwoRoles
<1>1. /\ pc[r] = "combine" /\ UNCHANGED <<args, made, taken, E, F, first, chan>>
      /\ i' = [i EXCEPT ![r] = @ + 1]
      /\ pc' = [pc EXCEPT ![r] = IF (c + 1) * chunk_size < l THEN "mask" ELSE "done"]
  BY DEF Combine
<1>2. c \in 0 .. Supply - 1 /\ taken[r] = c + 1 /\ c \in Nat /\ Triple[is_shared][r][taken[r]] = tr
  BY <1>1, ChunkFacts DEF IInv, InChunk
<1>3. result' = [result EXCEPT ![r] =
                   [j \in Rows |->
                      IF j \in c * chunk_size + 1 .. (c + 1) * chunk_size
                        THEN share(j - c * chunk_size) ELSE result[r][j]]]
  BY <1>2 DEF Combine, EOf, FOf
<1>4. /\ pc' \in [Roles -> PCs] /\ pc'[o] = pc[o] /\ i'[o] = i[o] /\ i'[r] = c + 1
      /\ i' \in [Roles -> Nat] /\ result'[o] = result[o]
      /\ pc'[r] = (IF (c + 1) * chunk_size < l THEN "mask" ELSE "done")
  BY <1>0, <1>1, <1>2, <1>3 DEF IInv, LocalInv, TypeOK, PCs
<1>5. \A j \in Rows : result'[r][j] =
        IF j \in c * chunk_size + 1 .. (c + 1) * chunk_size
          THEN share(j - c * chunk_size) ELSE result[r][j]
  <2> HIDE DEF share
  <2> QED
    BY <1>3 DEF IInv, LocalInv, TypeOK
<1>6. ASSUME NEW j \in TripleRows, Within(c, j)
      PROVE  share(j) = FinalShare(r, c, j) /\ share(j) \in T
  <2>1. EOf(r)[j] = RevealedRow(c, j) /\ FOf(r) = RevealedFactor(c)
    BY <1>1, <1>6 DEF IInv, LocalInv, OfChunk
  <2>2. share(j) = FinalShare(r, c, j)
    BY <2>1, FinalShareIs DEF ShareOfRow
  <2>3. RevealedRow(c, j) \in T /\ RevealedFactor(c) \in T
    BY <1>2, <1>6, RevealedTypes DEF IInv, LocalInv
  <2>4. tr.V \in T /\ tr.U[j] \in T /\ tr.Z[j] \in T
    BY <1>2, TripleParts DEF IInv, LocalInv, TypeOK
  <2>5. FinalShare(r, c, j) \in T
    <3> HIDE DEF tr
    <3>1. /\ Times(RevealedRow(c, j), tr.V) \in T /\ Times(tr.U[j], RevealedFactor(c)) \in T
          /\ Times(RevealedRow(c, j), RevealedFactor(c)) \in T
      BY <2>3, <2>4, RingClosed
    <3> QED
      BY <2>4, <3>1, FinalShareIs, RingClosed DEF tr
  <2> QED
    BY <2>2, <2>5
<1> HIDE DEF share, tr
<1>7. chunk_size \in Nat \ {0} /\ l \in Nat /\ TripleRows = 1 .. chunk_size
      /\ c * chunk_size \in Nat /\ (c + 1) * chunk_size = c * chunk_size + chunk_size
  <2>1. chunk_size \in Nat \ {0} /\ l \in Nat /\ TripleRows = 1 .. chunk_size
    BY Sizes
  <2> QED
    BY <1>2, <2>1
<1>8. TypeOK'
  <2>1. ASSUME NEW j \in Rows PROVE result'[r][j] \in T
    <3>1. CASE j \in c * chunk_size + 1 .. (c + 1) * chunk_size
      <4>1. j - c * chunk_size \in TripleRows /\ c * chunk_size + (j - c * chunk_size) = j /\ j <= l
        BY <1>7, <3>1 DEF Rows
      <4> QED
        BY <1>5, <1>6, <3>1, <4>1 DEF Within
    <3>2. CASE j \notin c * chunk_size + 1 .. (c + 1) * chunk_size
      BY <1>5, <3>2 DEF IInv, LocalInv, TypeOK
    <3> QED
      BY <3>1, <3>2
  <2>2. result' \in [Roles -> [Rows -> T]]
    BY <1>3, <2>1 DEF IInv, LocalInv, TypeOK
  <2> QED
    BY <1>1, <1>4, <2>2 DEF IInv, LocalInv, TypeOK, PCs, args
<1>9. Progress(r)'
  <2>1. c + 1 - 1 = c /\ c * chunk_size < l
    BY <1>1, <1>2 DEF IInv, LocalInv, Progress, InChunk
  <2>2. (c + 1) * chunk_size \in Nat
    BY <1>7
  <2>3. ~((c + 1) * chunk_size < l) => l <= (c + 1) * chunk_size
    BY <1>7, <2>2
  <2> QED
    BY <1>1, <1>2, <1>4, <2>1, <2>3 DEF Progress, InChunk, args
<1>10. OfChunk(r)'
  BY <1>4 DEF OfChunk, InChunk
<1>11. Sent(r)' = Sent(r) /\ Read(r)' = Read(r)
  BY <1>1, <1>2, <1>4 DEF Sent, Read, Before, args, PerChunk
<1>12. /\ Progress(o)' /\ OfChunk(o)' /\ Finished(o)'
       /\ Sent(o)' = Sent(o) /\ Read(o)' = Read(o)
  BY <1>0, <1>1, <1>4, OtherKept DEF IInv
<1>13. InOrder(r)' /\ InOrder(o)'
  BY <1>0, <1>1, <1>11, <1>12, ChannelsKept
<1>14. Finished(r)'
  <2> SUFFICES ASSUME NEW d \in 0 .. c, NEW j \in TripleRows, Within(d, j)
               PROVE  result'[r][d * chunk_size + j] = FinalShare(r, d, j)
    <3>1. UNCHANGED args /\ i'[r] = c + 1
      BY <1>1, <1>4
    <3>2. 0 .. i'[r] - 1 = 0 .. c
      BY <1>2, <3>1
    <3>3. ASSUME NEW d \in 0 .. i'[r] - 1, NEW j \in TripleRows, Within(d, j)'
          PROVE  (result[r][d * chunk_size + j] = FinalShare(r, d, j))'
      <4>1. d \in 0 .. c /\ Within(d, j) /\ FinalShare(r, d, j)' = FinalShare(r, d, j)
        BY <3>1, <3>2, <3>3, ArgsKept
      <4> QED
        BY <4>1
    <3> QED
      BY <3>3 DEF Finished
  <2>1. d * chunk_size + j \in Rows /\ d * chunk_size \in Nat
    <3>1. d \in 0 .. Supply - 1 /\ d \in Nat
      BY <1>2, Sizes
    <3> QED
      BY <1>7, <3>1, MaskedTypes DEF IInv, LocalInv, Roles
  <2>2. CASE d = c
    <3>1. /\ c * chunk_size + j \in c * chunk_size + 1 .. (c + 1) * chunk_size
          /\ c * chunk_size + j - c * chunk_size = j
      BY <1>7
    <3>2. PICK k \in Rows : k = c * chunk_size + j
      BY <2>1, <2>2
    <3>3. result'[r][k] = share(k - c * chunk_size)
      BY <1>5, <3>1, <3>2
    <3>4. k - c * chunk_size = j
      BY <1>7, <3>1, <3>2
    <3> QED
      BY <1>6, <2>2, <3>2, <3>3, <3>4
  <2>3. CASE d # c
    <3>1. d \in 0 .. c - 1 /\ d \in Nat /\ d < c
      BY <1>2, <2>3
    <3>2. d * chunk_size + chunk_size <= c * chunk_size
      BY <1>2, <1>7, <3>1, Blocks
    <3>3. d * chunk_size + j \notin c * chunk_size + 1 .. (c + 1) * chunk_size
      BY <1>7, <2>1, <3>2
    <3>4. result[r][d * chunk_size + j] = FinalShare(r, d, j)
      BY <2>3, <3>1 DEF IInv, LocalInv, Finished
    <3>5. PICK k \in Rows : k = d * chunk_size + j
      BY <2>1
    <3>6. result'[r][k] = result[r][k]
      BY <1>5, <3>3, <3>5
    <3> QED
      BY <3>4, <3>5, <3>6
  <2> QED
    BY <2>2, <2>3
<1> QED
  BY <1>0, <1>1, <1>8, <1>9, <1>10, <1>12, <1>13, <1>14 DEF IInv, LocalInv

LEMMA NextInv == IInv /\ [Next]_vars => IInv'
<1> SUFFICES ASSUME IInv, [Next]_vars PROVE IInv'
  OBVIOUS
<1>1. ASSUME NEW r \in Roles, Party(r) PROVE IInv'
  BY <1>1, StartStep, MaskStep, Send1Step, Send2Step, Recv1Step, Recv2Step, CombineStep
     DEF Party
<1>2. ASSUME NEW r \in Roles, Precompute(r) PROVE IInv'
  BY <1>2, PrecomputeStep
<1>3. CASE UNCHANGED vars
  <2>1. UNCHANGED args /\ UNCHANGED <<pc, i, made, taken, E, F, first, chan, result>>
    BY <1>3 DEF vars, args
  <2>2. TypeOK'
    BY <2>1 DEF IInv, LocalInv, TypeOK, args
  <2>3. \A p \in Roles : /\ Progress(p)' /\ OfChunk(p)' /\ Finished(p)'
                         /\ Sent(p)' = Sent(p) /\ Read(p)' = Read(p)
    BY <2>1, OtherKept DEF IInv
  <2>4. \A p \in Roles : InOrder(p)'
    BY <2>1, <2>3, ChannelsKept
  <2> QED
    BY <2>1, <2>2, <2>3, <2>4 DEF IInv, LocalInv
<1> QED
  BY <1>1, <1>2, <1>3 DEF Next

(* The two parties never take one message for another: what is in the      *)
(* channels is the sequence of the messages each has still to read, and E, *)
(* F, first and the rows of result already made belong to the right chunk. *)
THEOREM InvHolds == Spec => []IInv
<1>1. Init => IInv
  BY InitInv
<1>2. IInv /\ [Next]_vars => IInv'
  BY NextInv
<1> QED
  BY <1>1, <1>2, PTL DEF Spec

(* Every variable keeps its type, first as its role reads it.              *)
THEOREM TypeCorrect == Spec => []TypeOK
<1>1. IInv => TypeOK
  BY DEF IInv, LocalInv
<1> QED
  BY <1>1, InvHolds, PTL

-----------------------------------------------------------------------------
(* The algebra: (e + U)(f + V), added up from the two parties' shares.     *)
LEMMA Shuffle ==
  ASSUME NEW a \in T, NEW b \in T, NEW c \in T, NEW d \in T
  PROVE  /\ Plus(Plus(a, b), Plus(c, d)) \in T
         /\ Plus(Plus(a, b), Plus(c, d)) = Plus(Plus(a, c), Plus(b, d))
<1>1. Plus(c, d) \in T /\ Plus(b, c) \in T /\ Plus(b, d) \in T /\ Plus(a, b) \in T
  BY RingClosed
<1>2. Plus(Plus(a, b), Plus(c, d)) = Plus(a, Plus(b, Plus(c, d)))
  BY <1>1, RingGroup
<1>3. Plus(b, Plus(c, d)) = Plus(Plus(b, c), d)
  BY <1>1, RingGroup
<1>4. Plus(Plus(b, c), d) = Plus(Plus(c, b), d)
  BY <1>1, RingGroup
<1>5. Plus(Plus(c, b), d) = Plus(c, Plus(b, d))
  BY <1>1, RingGroup
<1>6. Plus(a, Plus(c, Plus(b, d))) = Plus(Plus(a, c), Plus(b, d))
  BY <1>1, RingGroup
<1> QED
  BY <1>1, <1>2, <1>3, <1>4, <1>5, <1>6, RingClosed

LEMMA ZeroSum ==
  ASSUME NEW a \in T
  PROVE  Plus(a, Zero) = a /\ Plus(Zero, a) = a /\ Plus(Minus(a, Zero), Zero) = a
  BY RingClosed, RingGroup

(* What party r contributes to the first and to the second factor.         *)
FirstFactor(r, j) == IF is_shared \/ r = 0 THEN A[r][j] ELSE Zero
SecondFactor(r) == IF is_shared \/ r = 1 THEN B[r] ELSE Zero

LEMMA ProductIs ==
  ASSUME TypeOK, NEW j \in Rows
  PROVE  Product(j) = Times(Plus(FirstFactor(0, j), FirstFactor(1, j)),
                            Plus(SecondFactor(0), SecondFactor(1)))
<1>1. A[0][j] \in T /\ B[1] \in T
  BY DEF TypeOK, Roles
<1> QED
  BY <1>1, ZeroSum DEF Product, FirstFactor, SecondFactor, Reveal

(* A contribution is what is revealed of it and its part of the triple.    *)
LEMMA Contribution ==
  ASSUME TypeOK, NEW r \in Roles, NEW c \in 0 .. Supply - 1, NEW j \in TripleRows, Within(c, j)
  PROVE  /\ Plus(MaskedRow(r, c, j), TripleOf(r, c).U[j]) = FirstFactor(r, c * chunk_size + j)
         /\ Plus(MaskedFactor(r, c), TripleOf(r, c).V) = SecondFactor(r)
<1> DEFINE tr == TripleOf(r, c)
<1>1. tr.U \in [TripleRows -> T] /\ tr.V \in T
  BY TripleParts DEF TypeOK
<1>2. A[r][c * chunk_size + j] \in T /\ B[r] \in T /\ tr.U[j] \in T
  BY <1>1, MaskedTypes DEF TypeOK
<1>3. ~is_shared => /\ r = 1 => tr.U[j] = Zero
                    /\ r = 0 => tr.V = Zero
  <2>1. c + 1 \in 1 .. Supply
    BY Sizes
  <2>2. is_shared \in BOOLEAN
    BY DEF TypeOK
  <2>3. IsTriple(is_shared, TripleOf(0, c), TripleOf(1, c))
    BY <2>1, <2>2, TriplesAssumption DEF TripleOf
  <2> QED
    BY <2>3 DEF IsTriple, ZeroRows
<1> HIDE DEF tr
<1>4. Plus(Minus(A[r][c * chunk_size + j], tr.U[j]), tr.U[j]) = A[r][c * chunk_size + j]
  BY <1>2, RingGroup
<1>5. Plus(Minus(B[r], tr.V), tr.V) = B[r]
  BY <1>1, <1>2, RingGroup
<1>6. Zero \in T /\ Plus(Zero, Zero) = Zero
  BY RingClosed, RingGroup
<1> QED
  BY <1>3, <1>4, <1>5, <1>6 DEF tr, MaskedRow, MaskedFactor, FirstFactor, SecondFactor, Roles

LEMMA FinalSharesAddUp ==
  ASSUME TypeOK, NEW c \in 0 .. Supply - 1, NEW j \in TripleRows, Within(c, j)
  PROVE  Reveal(FinalShare(0, c, j), FinalShare(1, c, j)) = Product(c * chunk_size + j)
<1> DEFINE k == c * chunk_size + j
           m0 == MaskedRow(0, c, j)
           m1 == MaskedRow(1, c, j)
           n0 == MaskedFactor(0, c)
           n1 == MaskedFactor(1, c)
           u0 == TripleOf(0, c).U[j]
           u1 == TripleOf(1, c).U[j]
           v0 == TripleOf(0, c).V
           v1 == TripleOf(1, c).V
           z0 == TripleOf(0, c).Z[j]
           z1 == TripleOf(1, c).Z[j]
           e == Plus(m0, m1)
           f == Plus(n0, n1)
<1>1. is_shared \in BOOLEAN /\ 0 \in Roles /\ 1 \in Roles /\ k \in Rows
  BY MaskedTypes DEF TypeOK, Roles
<1>2. /\ u0 \in T /\ u1 \in T /\ v0 \in T /\ v1 \in T /\ z0 \in T /\ z1 \in T
      /\ m0 \in T /\ m1 \in T /\ n0 \in T /\ n1 \in T
  BY <1>1, TripleParts, MaskedTypes
<1>3. Times(Plus(u0, u1), Plus(v0, v1)) = Plus(z0, z1)
  <2> DEFINE tr == TripleOf(0, c)
             u == TripleOf(1, c)
  <2>1. c + 1 \in 1 .. Supply
    BY Sizes
  <2>2. IsTriple(is_shared, tr, u)
    BY <1>1, <2>1, TriplesAssumption DEF TripleOf
  <2>3. TimesRows(PlusRows(tr.U, u.U), Plus(tr.V, u.V)) = PlusRows(tr.Z, u.Z)
    BY <2>2 DEF IsTriple
  <2>4. TimesRows(PlusRows(tr.U, u.U), Plus(tr.V, u.V))[j] = Times(Plus(u0, u1), Plus(v0, v1))
    BY DEF TimesRows, PlusRows
  <2>5. PlusRows(tr.Z, u.Z)[j] = Plus(z0, z1)
    BY DEF PlusRows
  <2> QED
    BY <2>3, <2>4, <2>5
<1>4. /\ FinalShare(0, c, j) = Plus(Plus(Times(e, v0), Times(u0, f)), z0)
      /\ FinalShare(1, c, j) = Plus(Times(e, f), Plus(Plus(Times(e, v1), Times(u1, f)), z1))
  BY FinalShareIs DEF RevealedRow, RevealedFactor
<1>5. /\ Plus(m0, u0) = FirstFactor(0, k) /\ Plus(m1, u1) = FirstFactor(1, k)
      /\ Plus(n0, v0) = SecondFactor(0) /\ Plus(n1, v1) = SecondFactor(1)
  BY <1>1, Contribution
<1> HIDE DEF m0, m1, n0, n1, u0, u1, v0, v1, z0, z1, k
<1>6. /\ Plus(e, Plus(u0, u1)) = Plus(FirstFactor(0, k), FirstFactor(1, k))
      /\ Plus(f, Plus(v0, v1)) = Plus(SecondFactor(0), SecondFactor(1))
  BY <1>2, <1>5, Shuffle
<1>7. Product(k) = Times(Plus(e, Plus(u0, u1)), Plus(f, Plus(v0, v1)))
  BY <1>1, <1>6, ProductIs
<1>8. e \in T /\ f \in T
  BY <1>2, RingClosed
<1> HIDE DEF e, f
<1>9. Plus(Plus(Plus(Times(e, v0), Times(u0, f)), z0),
           Plus(Times(e, f), Plus(Plus(Times(e, v1), Times(u1, f)), z1)))
        = Times(Plus(e, Plus(u0, u1)), Plus(f, Plus(v0, v1)))
  <2> DEFINE p0 == Times(e, v0)
             p1 == Times(e, v1)
             q0 == Times(u0, f)
             q1 == Times(u1, f)
             ef == Times(e, f)
             u == Plus(u0, u1)
             v == Plus(v0, v1)
  <2>1. /\ p0 \in T /\ p1 \in T /\ q0 \in T /\ q1 \in T /\ ef \in T /\ u \in T /\ v \in T
    BY <1>2, <1>8, RingClosed
  <2>2. Times(e, v) = Plus(p0, p1) /\ Times(u, f) = Plus(q0, q1) /\ Times(u, v) = Plus(z0, z1)
    BY <1>2, <1>3, <1>8, RingDistributes
  <2>3. /\ Times(e, Plus(f, v)) = Plus(ef, Times(e, v))
        /\ Times(u, Plus(f, v)) = Plus(Times(u, f), Times(u, v))
        /\ Times(Plus(e, u), Plus(f, v)) = Plus(Times(e, Plus(f, v)), Times(u, Plus(f, v)))
    <3>1. Plus(f, v) \in T
      BY <1>2, <1>8, <2>1, RingClosed
    <3> QED
      BY <1>2, <1>8, <2>1, <3>1, RingDistributes
  <2> HIDE DEF p0, p1, q0, q1, ef, u, v
  <2> DEFINE pp == Plus(p0, p1)
             qq == Plus(q0, q1)
             zz == Plus(z0, z1)
             s0 == Plus(Plus(p0, q0), z0)
             s1 == Plus(Plus(p1, q1), z1)
  <2>4. /\ pp \in T /\ qq \in T /\ zz \in T /\ s0 \in T /\ s1 \in T
        /\ Plus(p0, q0) \in T /\ Plus(p1, q1) \in T /\ Plus(pp, qq) \in T
    BY <1>2, <2>1, RingClosed
  <2>5. Plus(s0, s1) = Plus(Plus(pp, qq), zz)
    <3>1. Plus(s0, s1) = Plus(Plus(Plus(p0, q0), Plus(p1, q1)), zz)
      BY <1>2, <2>4, Shuffle
    <3>2. Plus(Plus(p0, q0), Plus(p1, q1)) = Plus(pp, qq)
      BY <2>1, Shuffle
    <3> QED
      BY <3>1, <3>2
  <2> HIDE DEF pp, qq, zz, s0, s1
  <2>6. Plus(s0, Plus(ef, s1)) = Plus(ef, Plus(s0, s1))
    <3>1. Plus(s0, Plus(ef, s1)) = Plus(Plus(s0, ef), s1)
      BY <2>1, <2>4, RingGroup
    <3>2. Plus(s0, ef) = Plus(ef, s0)
      BY <2>1, <2>4, RingGroup
    <3>3. Plus(Plus(ef, s0), s1) = Plus(ef, Plus(s0, s1))
      BY <2>1, <2>4, RingGroup
    <3> QED
      BY <3>1, <3>2, <3>3
  <2>7. Plus(ef, Plus(Plus(pp, qq), zz)) = Plus(Plus(ef, pp), Plus(qq, zz))
    <3>1. Plus(Plus(pp, qq), zz) = Plus(pp, Plus(qq, zz))
      BY <2>4, RingGroup
    <3>2. Plus(qq, zz) \in T
      BY <2>4, RingClosed
    <3>3. Plus(ef, Plus(pp, Plus(qq, zz))) = Plus(Plus(ef, pp), Plus(qq, zz))
      BY <2>1, <2>4, <3>2, RingGroup
    <3> QED
      BY <3>1, <3>3
  <2> QED
    BY <2>2, <2>3, <2>5, <2>6, <2>7 DEF p0, p1, q0, q1, ef, u, v, pp, qq, zz, s0, s1
<1> QED
  BY <1>4, <1>7, <1>9 DEF Reveal, k

LEMMA SharesAddUp == IInv => ProductShared
<1> SUFFICES ASSUME IInv, NEW j \in Rows, \A r \in Roles : j <= i[r] * chunk_size
             PROVE  Reveal(result[0][j], result[1][j]) = Product(j)
  BY DEF ProductShared
<1>1. PICK c \in Nat, x \in TripleRows : j = c * chunk_size + x
  BY ChunkOfRow
<1>2. /\ chunk_size \in Nat \ {0} /\ l \in Nat /\ x \in Nat \ {0}
      /\ c * chunk_size \in Nat /\ Supply \in Nat /\ j <= l
  BY <1>1, Sizes DEF Rows
<1>3. ASSUME NEW r \in Roles
      PROVE  c \in 0 .. i[r] - 1 /\ i[r] <= Supply
  <2>1. i[r] \in Nat /\ taken[r] \in 0 .. Supply /\ (taken[r] = i[r] \/ taken[r] = i[r] + 1)
    BY DEF IInv, LocalInv, TypeOK, Progress
  <2>2. j <= i[r] * chunk_size /\ i[r] * chunk_size \in Nat
    BY <1>2, <2>1
  <2>3. ~(i[r] < c)
    <3> SUFFICES ASSUME i[r] < c PROVE FALSE
      OBVIOUS
    <3>1. i[r] * chunk_size + chunk_size <= c * chunk_size
      BY <1>2, <2>1, Blocks
    <3> QED
      BY <1>1, <1>2, <2>2, <3>1
  <2>4. i[r] # c
    BY <1>1, <1>2, <2>2
  <2> QED
    BY <1>2, <2>1, <2>3, <2>4
<1>4. 0 \in Roles /\ 1 \in Roles
  BY DEF Roles
<1>5. c \in 0 .. Supply - 1
  <2>1. c \in 0 .. i[0] - 1 /\ i[0] <= Supply /\ i[0] \in Nat
    BY <1>3, <1>4 DEF IInv, LocalInv, TypeOK
  <2> QED
    BY <1>2, <2>1
<1>6. Within(c, x)
  BY <1>1, <1>2 DEF Within
<1>7. result[0][j] = FinalShare(0, c, x) /\ result[1][j] = FinalShare(1, c, x)
  BY <1>1, <1>3, <1>4, <1>6 DEF IInv, LocalInv, Finished
<1> QED
  BY <1>1, <1>5, <1>6, <1>7, FinalSharesAddUp DEF IInv, LocalInv

(* A row both parties are done with is shared correctly, whatever the      *)
(* sizes, the arguments, the triples and what is beyond the end of A.      *)
THEOREM ProductIsShared == Spec => []ProductShared
  BY SharesAddUp, InvHolds, PTL

LEMMA NothingLeft == IInv => ChannelLeftClean
<1>1. ASSUME IInv, NEW r \in Roles, NEW p \in Roles, pc[r] = "done", pc[p] = "done", i[r] < i[p]
      PROVE  FALSE
  <2>1. /\ i[r] \in Nat /\ i[p] \in Nat /\ l \in Nat /\ chunk_size \in Nat
        /\ l <= i[r] * chunk_size /\ i[p] # 0 /\ (i[p] - 1) * chunk_size < l
    BY <1>1, Sizes DEF IInv, LocalInv, TypeOK, Progress
  <2>2. i[p] - 1 \in Nat /\ (i[r] < i[p] - 1 \/ i[r] = i[p] - 1)
    BY <1>1, <2>1
  <2>3. i[r] * chunk_size \in Nat /\ (i[p] - 1) * chunk_size \in Nat
    BY <2>1, <2>2
  <2>4. CASE i[r] < i[p] - 1
    <3>1. i[r] * chunk_size + chunk_size <= (i[p] - 1) * chunk_size
      BY <2>1, <2>2, <2>4, Blocks
    <3> QED
      BY <2>1, <2>3, <3>1
  <2>5. CASE i[r] = i[p] - 1
    BY <2>1, <2>3, <2>5
  <2> QED
    BY <2>2, <2>4, <2>5
<1>2. ASSUME IInv, NEW r \in Roles, Sent(Other(r)) - Read(r) <= 0
      PROVE  chan[r] = <<>>
  <2>1. chan[r] \in Messages /\ Len(chan[r]) = Sent(Other(r)) - Read(r)
    BY <1>2 DEF IInv, LocalInv, InOrder
  <2>2. Len(chan[r]) \in Nat
    BY <2>1, LenProperties DEF Messages
  <2>3. Len(chan[r]) = 0
    BY <1>2, <2>1, <2>2
  <2> QED
    BY <2>1, <2>3, EmptySeq DEF Messages
<1>3. IInv => ChannelLeftClean
  <2> SUFFICES ASSUME IInv PROVE ChannelLeftClean
    OBVIOUS
  <2>1. ASSUME \A p \in Roles : pc[p] = "done", NEW r \in Roles
        PROVE  chan[r] = <<>>
    <3>1. Other(r) \in Roles /\ i[r] \in Nat /\ i[Other(r)] \in Nat
      BY TwoRoles DEF IInv, LocalInv, TypeOK
    <3>2. i[Other(r)] = i[r]
      BY <1>1, <2>1, <3>1
    <3>3. Sent(Other(r)) = Before(r) /\ Read(r) = Before(r) /\ Before(r) \in Nat
      <4>1. Sent(Other(r)) = Before(Other(r)) + 0 /\ Read(r) = Before(r) + 0
        BY <2>1, <3>1 DEF Sent, Read
      <4>2. Before(Other(r)) = Before(r) /\ Before(r) \in Nat
        BY <3>1, <3>2 DEF Before
      <4> QED
        BY <4>1, <4>2
    <3> QED
      BY <1>2, <3>3
  <2>2. ASSUME NEW r \in Roles, pc[r] = "threw"
        PROVE  chan[Other(r)] = <<>>
    <3>1. Other(r) \in Roles /\ Other(Other(r)) = r
      BY TwoRoles
    <3>2. i[r] = 0
      BY <2>2 DEF IInv, LocalInv, Progress
    <3>3. Sent(r) = 0
      BY <2>2, <3>2 DEF Sent, Before
    <3>4. Read(Other(r)) \in Nat
      BY <3>1, Counts DEF IInv, LocalInv
    <3> QED
      BY <1>2, <3>1, <3>3, <3>4
  <2> QED
    BY <2>1, <2>2 DEF ChannelLeftClean
<1> QED
  BY <1>3

(* Both parties make the same number of chunks, so when both are done each *)
(* has read all the other has sent; and no message of a party that has     *)
(* thrown is on its way to the other (one of the other's to it may be).    *)
THEOREM ChannelIsLeftClean == Spec => []ChannelLeftClean
  BY NothingLeft, InvHolds, PTL

-----------------------------------------------------------------------------
-----------------------------------------------------------------------------
(* A party that has not begun, as its caller leaves it: nothing of it is   *)
(* on its way.                                                             *)
Idle(r) == pc[r] = "start" /\ i[r] = 0 /\ taken[r] = 0

LEMMA NothingSent ==
  ASSUME IInv, NEW r \in Roles, Idle(r)
  PROVE  chan[Other(r)] = <<>> /\ Read(Other(r)) = 0
<1>1. Other(r) \in Roles /\ Other(Other(r)) = r
  BY TwoRoles
<1>2. Sent(r) = 0
  BY DEF Idle, Sent, Before
<1>3. /\ chan[Other(r)] \in Messages /\ Read(Other(r)) \in Nat
      /\ Len(chan[Other(r)]) = 0 - Read(Other(r))
  BY <1>1, <1>2, Counts DEF IInv, LocalInv, InOrder
<1>4. Len(chan[Other(r)]) \in Nat
  BY <1>3, LenProperties DEF Messages
<1>5. Len(chan[Other(r)]) = 0 /\ Read(Other(r)) = 0
  BY <1>3, <1>4
<1> QED
  BY <1>3, <1>5, EmptySeq DEF Messages

(* Role 0 gets its arguments while role 1 may be on its way.               *)
LEMMA ArgumentSet ==
  ASSUME IInv, Idle(0), A' \in [Roles -> [Rows -> T]], A'[1] = A[1],
         B' \in [Roles -> T], B'[1] = B[1],
         UNCHANGED <<is_shared, dim, pc, i, made, taken, E, F, first, chan, result>>
  PROVE  IInv'
<1>1. 0 \in Roles /\ 1 \in Roles /\ Other(0) = 1 /\ Other(1) = 0 /\ Roles = {0, 1}
  BY DEF Roles, Other
<1>2. Read(1) = 0 /\ chan[1] = <<>>
  BY <1>1, NothingSent
<1>3. i[1] \in Nat /\ i[0] = 0
  BY <1>1 DEF IInv, LocalInv, TypeOK, Idle
<1>4. Progress(1) /\ Progress(0)
  BY <1>1 DEF IInv, LocalInv
<1>5. i[1] = 0 /\ pc[1] \notin {"combine", "send2", "recv2"}
  <2>1. CASE is_shared
    BY <1>2, <1>3, <1>4, <2>1 DEF Read, Before, PerChunk, Progress
  <2>2. CASE ~is_shared
    BY <1>2, <1>3, <1>4, <2>2 DEF Read, Before, PerChunk, Progress
  <2> QED
    BY <2>1, <2>2
<1>6. TypeOK'
  BY DEF IInv, LocalInv, TypeOK
<1>7. \A r \in Roles : Sent(r)' = Sent(r) /\ Read(r)' = Read(r)
  BY DEF Sent, Read, Before, PerChunk
<1>8. Progress(0)' /\ Progress(1)'
  BY <1>4 DEF Progress
<1>9. Finished(0)' /\ Finished(1)'
  BY <1>3, <1>5 DEF Finished
<1>10. /\ \A c : MaskedFactor(1, c)' = MaskedFactor(1, c)
       /\ \A c, j : MaskedRow(1, c, j)' = MaskedRow(1, c, j)
  BY DEF MaskedFactor, MaskedRow, TripleOf
<1>11. OfChunk(0)'
  BY DEF Idle, OfChunk, InChunk
<1>12. OfChunk(1)'
  <2>1. OfChunk(1)
    BY <1>1 DEF IInv, LocalInv
  <2>2. IsMasked(1, i[1], E[1]) => IsMasked(1, i[1], E[1])'
    BY <1>10 DEF IsMasked, Within
  <2> QED
    BY <1>5, <1>10, <2>1, <2>2 DEF OfChunk, InChunk
<1>13. ASSUME NEW q, NEW m, IsMessage(1, q, m) PROVE IsMessage(1, q, m)'
  <2>1. ChunkNo(q)' = ChunkNo(q) /\ (IsSecond(q)' <=> IsSecond(q))
    BY DEF ChunkNo, IsSecond
  <2>2. IsMasked(1, ChunkNo(q), m) => IsMasked(1, ChunkNo(q), m)'
    BY <1>10, <2>1 DEF IsMasked, Within
  <2> QED
    BY <1>10, <1>13, <2>1, <2>2 DEF IsMessage
<1>14. InOrder(0)'
  <2>1. InOrder(0)
    BY <1>1 DEF IInv
  <2> QED
    BY <1>1, <1>7, <1>13, <2>1 DEF InOrder
<1>15. InOrder(1)'
  <2>1. InOrder(1) /\ Len(chan[1]) = 0
    BY <1>1, <1>2 DEF IInv
  <2> QED
    BY <1>1, <1>7, <2>1 DEF InOrder
<1> QED
  BY <1>1, <1>6, <1>8, <1>9, <1>11, <1>12, <1>14, <1>15 DEF IInv, LocalInv

(* Either party gets its arguments while nobody has begun.                 *)
LEMMA ArgumentsSet ==
  ASSUME IInv, \A r \in Roles : Idle(r), A' \in [Roles -> [Rows -> T]], B' \in [Roles -> T],
         UNCHANGED <<is_shared, dim, pc, i, made, taken, E, F, first, chan, result>>
  PROVE  IInv'
<1>1. \A r \in Roles : chan[r] = <<>>
  <2> TAKE r \in Roles
  <2>1. Other(r) \in Roles /\ Other(Other(r)) = r
    BY TwoRoles
  <2> QED
    BY <2>1, NothingSent
<1>2. ChannelsEmpty'
  BY <1>1 DEF IInv, ChannelsEmpty
<1>3. TypeOK' /\ Fresh'
  BY DEF IInv, LocalInv, TypeOK, Fresh, Idle
<1> QED
  BY <1>2, <1>3, FreshInv, PTL

(* What is in front of a party that reads is what it expects.              *)
LEMMA HeadExpected ==
  ASSUME IInv, NEW r \in Roles, Reads(r), chan[r] # <<>>
  PROVE  Head(chan[r]) \in Expected(r)
<1> DEFINE m == Head(chan[r])
           q == Read(r)
<1>1. IsMessage(Other(r), q, m)
  BY HeadMessage
<1>2. TypeOK /\ Other(r) \in Roles /\ (Other(r) = 0 <=> r # 0)
  BY TwoRoles DEF IInv, LocalInv, Roles, Other
<1>3. IsSecond(q) <=> pc[r] = "recv2"
  <2>1. pc[r] = "recv1" => q = Before(r) + 0
    BY DEF Read
  <2>2. pc[r] = "recv2" => q = Before(r) + 1 /\ is_shared
    BY DEF Read, IInv, LocalInv, Progress
  <2>3. Before(r) + 0 = Before(r)
    BY <1>2 DEF TypeOK, Before
  <2>4. pc[r] = "recv1" => ~IsSecond(q)
    BY <1>2, <2>1, <2>3, MessageNumbers
  <2>5. pc[r] = "recv2" => IsSecond(q)
    BY <1>2, <2>2, MessageNumbers
  <2> QED
    BY <2>4, <2>5 DEF Reads
<1> HIDE DEF m, q
<1>4. m = MaskedFactor(Other(r), ChunkNo(q)) => m \in T
  BY <1>1, <1>2, MaskedTypes DEF IsMessage
<1>5. IsMasked(Other(r), ChunkNo(q), m) => m \in [TripleRows -> T]
  BY DEF IsMasked
<1>6. m \in Expected(r)
  <2>1. CASE Other(r) = 0 <=> IsSecond(q)
    <3>1. m \in T
      BY <1>1, <1>4, <2>1 DEF IsMessage
    <3>2. ~(r = 0 <=> pc[r] = "recv2")
      BY <1>2, <1>3, <2>1
    <3> QED
      BY <3>1, <3>2 DEF Expected
  <2>2. CASE ~(Other(r) = 0 <=> IsSecond(q))
    <3>1. m \in [TripleRows -> T]
      BY <1>1, <1>5, <2>2 DEF IsMessage
    <3>2. r = 0 <=> pc[r] = "recv2"
      BY <1>2, <1>3, <2>2
    <3> QED
      BY <3>1, <3>2 DEF Expected
  <2> QED
    BY <2>1, <2>2
<1> QED
  BY <1>6 DEF m

(* Who is done has read what was sent to it, and has sent what the other   *)
(* party still reads.                                                      *)
LEMMA ChunksInOrder ==
  ASSUME IInv, NEW r \in Roles, NEW p \in Roles, pc[r] = "done"
  PROVE  /\ pc[p] \in InChunk \cup {"mask"} => i[p] < i[r]
         /\ pc[p] = "done" => i[p] <= i[r]
         /\ pc[p] \in {"start", "threw"} => i[p] = 0
<1>1. /\ i[r] \in Nat /\ i[p] \in Nat /\ l \in Nat /\ chunk_size \in Nat
      /\ l <= i[r] * chunk_size
      /\ pc[p] \in InChunk \cup {"mask"} => i[p] * chunk_size < l
      /\ pc[p] = "done" => i[p] = 0 \/ (i[p] - 1) * chunk_size < l
      /\ pc[p] \in {"start", "threw"} => i[p] = 0
  BY Sizes DEF IInv, LocalInv, TypeOK, Progress
<1>2. ASSUME NEW c \in Nat, c * chunk_size < l PROVE c < i[r]
  <2> SUFFICES ASSUME ~(c < i[r]) PROVE FALSE
    OBVIOUS
  <2>1. i[r] * chunk_size \in Nat /\ c * chunk_size \in Nat
    BY <1>1
  <2>2. CASE i[r] = c
    BY <1>1, <1>2, <2>1, <2>2
  <2>3. CASE i[r] < c
    <3>1. i[r] * chunk_size + chunk_size <= c * chunk_size
      BY <1>1, <2>3, Blocks
    <3> QED
      BY <1>1, <1>2, <2>1, <3>1
  <2> QED
    BY <1>1, <2>2, <2>3
<1>3. pc[p] \in InChunk \cup {"mask"} => i[p] < i[r]
  BY <1>1, <1>2
<1>4. pc[p] = "done" => i[p] <= i[r]
  <2> HAVE pc[p] = "done"
  <2>1. CASE i[p] = 0
    BY <1>1, <2>1
  <2>2. CASE i[p] # 0
    <3>1. i[p] - 1 \in Nat /\ (i[p] - 1) * chunk_size < l
      BY <1>1, <2>2
    <3>2. i[p] - 1 < i[r]
      BY <1>2, <3>1
    <3> QED
      BY <1>1, <3>2
  <2> QED
    BY <2>1, <2>2
<1> QED
  BY <1>1, <1>3, <1>4

LEMMA DoneHasRead ==
  ASSUME IInv, NEW r \in Roles, pc[r] = "done"
  PROVE  chan[r] = <<>>
<1> DEFINE o == Other(r)
<1>1. o \in Roles /\ TypeOK /\ i[r] \in Nat /\ i[o] \in Nat /\ is_shared \in BOOLEAN /\ pc[o] \in PCs
  BY TwoRoles DEF IInv, LocalInv, TypeOK, PCs
<1> HIDE DEF o
<1>2. /\ pc[o] \in InChunk \cup {"mask"} => i[o] < i[r]
      /\ pc[o] = "done" => i[o] <= i[r]
      /\ pc[o] \in {"start", "threw"} => i[o] = 0
  BY <1>1, ChunksInOrder
<1>3. Read(r) = Before(r) /\ Before(r) \in Nat
  BY <1>1 DEF Read, Before
<1>4. Sent(o) <= Before(r)
  <2>1. CASE pc[o] \in InChunk
    <3>1. Sent(o) <= Before(o) + PerChunk
      <4>1. pc[o] \in {"send2", "recv2"} => is_shared
        BY <1>1 DEF IInv, LocalInv, Progress
      <4>2. Before(o) \in Nat /\ PerChunk = IF is_shared THEN 2 ELSE 1
        BY <1>1 DEF Before, PerChunk
      <4>3. \E x \in 0 .. PerChunk : Sent(o) = Before(o) + x
        BY <2>1, <4>1, <4>2 DEF Sent, InChunk
      <4> QED
        BY <4>2, <4>3
    <3>2. Before(o) + PerChunk <= Before(r)
      BY <1>1, <1>2, <2>1 DEF Before, PerChunk
    <3>3. Before(o) \in Nat /\ PerChunk \in Nat /\ Sent(o) \in Nat
      BY <1>1, Counts DEF Before, PerChunk
    <3> QED
      BY <1>3, <3>1, <3>2, <3>3
  <2>2. CASE pc[o] \notin InChunk
    <3>1. Sent(o) = Before(o) /\ i[o] <= i[r]
      BY <1>1, <1>2, <2>2 DEF Sent, Before, InChunk, PCs
    <3> QED
      BY <1>1, <3>1 DEF Before
  <2> QED
    BY <2>1, <2>2
<1>5. chan[r] \in Messages /\ Len(chan[r]) = Sent(o) - Read(r) /\ Sent(o) \in Nat
  BY <1>1, Counts DEF IInv, LocalInv, InOrder, o
<1>6. Len(chan[r]) \in Nat
  BY <1>5, LenProperties DEF Messages
<1>7. Len(chan[r]) = 0
  BY <1>3, <1>4, <1>5, <1>6
<1> QED
  BY <1>5, <1>7, EmptySeq DEF Messages

LEMMA DoneHasSent ==
  ASSUME IInv, NEW r \in Roles, Reads(r), pc[Other(r)] = "done"
  PROVE  chan[r] # <<>>
<1> DEFINE o == Other(r)
<1>1. o \in Roles /\ TypeOK /\ i[r] \in Nat /\ i[o] \in Nat /\ is_shared \in BOOLEAN
  BY TwoRoles DEF IInv, LocalInv, TypeOK
<1>2. pc[o] = "done"
  OBVIOUS
<1> HIDE DEF o
<1>3. i[r] < i[o]
  BY <1>1, <1>2, ChunksInOrder DEF Reads, InChunk
<1>4. pc[r] = "recv2" => is_shared
  BY DEF IInv, LocalInv, Progress
<1>5. Sent(o) = Before(o) /\ Before(o) \in Nat
  BY <1>1, <1>2 DEF Sent, Before
<1>6. Read(r) < Before(o)
  BY <1>1, <1>3, <1>4 DEF Read, Before, Reads
<1>7. Len(chan[r]) = Sent(o) - Read(r) /\ Read(r) \in Nat
  BY <1>1, Counts DEF IInv, LocalInv, InOrder, o
<1>8. Len(chan[r]) # 0
  BY <1>5, <1>6, <1>7
<1>9. Len(<<>>) = 0
  OBVIOUS
<1> QED
  BY <1>8, <1>9

LEMMA AppendTwo ==
  ASSUME NEW a, NEW b
  PROVE  Append(<<a>>, b) = <<a, b>>
<1>1. <<a>> \in Seq({a, b}) /\ <<a, b>> \in Seq({a, b}) /\ b \in {a, b}
  OBVIOUS
<1>2. /\ Append(<<a>>, b) \in Seq({a, b}) /\ Len(Append(<<a>>, b)) = 2
      /\ Append(<<a>>, b)[1] = a /\ Append(<<a>>, b)[2] = b
  BY <1>1, AppendProperties
<1>3. Len(<<a, b>>) = 2 /\ <<a, b>>[1] = a /\ <<a, b>>[2] = b
  OBVIOUS
<1>4. \A x \in 1 .. 2 : x = 1 \/ x = 2
  OBVIOUS
<1> QED
  BY <1>1, <1>2, <1>3, <1>4, SeqEqual

-----------------------------------------------------------------------------
(* cols_dense.  Before the map a party has not called the dense protocol;  *)
(* after it the dense protocol runs, on the arguments the map has left.    *)
(* What a party finds in front of it depends on where both are.            *)
NoColumns == Cardinality(NonzeroColumns(A_in))
ZeroMatrix == [j \in Rows |-> Zero]
Early == {"start", "map"}
Inside == {"dense", "returned"}

CPart(r) ==
  /\ phase[r] \notin Inside => Idle(r)
  /\ phase[r] = "dense" => pc[r] # "done"
  /\ phase[r] = "returned" => pc[r] = "done"

SizeAgreed ==
  /\ phase[0] = "start" => /\ k_A[0] \in {-1, NoColumns}
                           /\ IF phase[1] = "start" THEN k_A[1] = k_A[0] ELSE k_A[0] = NoColumns
  /\ phase[0] # "start" => k_A[0] = NoColumns /\ inner \in Orders(A_in)
  /\ IF phase[1] = "start" THEN k_A[1] \in {-1, NoColumns} ELSE k_A[1] = NoColumns

(* Role 1's A is zero, its share has no more entries than there are columns*)
(* and the shares of the rows add up, if the map keeps what it should.     *)
LeftZero == A[1] = ZeroMatrix
Shortened == \A c \in 1 .. MaxK : c > NoColumns => B[1][c] = 0
Shares ==
  /\ A[0] = [j \in Rows |-> Picked(inner, A_in[j])]
  /\ MapKeeps => Plus(B[0], B[1]) = Picked(inner, B_in)
Arguments ==
  /\ phase[1] # "start" => LeftZero
  /\ phase[1] \notin Early => Shortened
  /\ phase[0] \in Inside => Shares

MapInStep ==
  /\ phase[0] \in Inside => phase[1] \notin Early
  /\ phase[1] \in Inside => phase[0] \notin Early
  /\ phase[0] \notin Early /\ prot # "sorting" => phase[1] \notin Early

Front0 ==
  IF phase[1] \in Early \/ phase[0] \in Inside THEN <<>>
  ELSE IF phase[0] \in Early /\ prot # "sorting" THEN <<MapMessage, CircuitMessage>>
  ELSE <<CircuitMessage>>
Front1 ==
  IF phase[1] = "start" /\ k_A[1] = -1 /\ phase[0] # "start"
    THEN IF phase[0] = "map" THEN <<NoColumns>> ELSE <<NoColumns, CircuitMessage>>
  ELSE IF phase[0] \in Early \/ phase[1] \in Inside THEN <<>> ELSE <<CircuitMessage>>
InFront ==
  front = [r \in Roles |-> front[r]] /\ front[0] = Front0 /\ front[1] = Front1

CInv ==
  /\ IInv /\ CTypeOK /\ is_shared
  /\ \A r \in Roles : CPart(r)
  /\ SizeAgreed /\ Arguments /\ MapInStep /\ InFront

LEMMA ColsFacts ==
  ASSUME ColsDenseParameters, NEW a \in AIns
  PROVE  /\ Cardinality(NonzeroColumns(a)) \in 0 .. MaxK
         /\ MaxK \in Nat
         /\ \A order \in Orders(a) :
              /\ order \in Seq(Columns) /\ Len(order) = Cardinality(NonzeroColumns(a))
              /\ [j \in Rows |-> Picked(order, a[j])] \in [Rows -> T]
              /\ \A c \in 1 .. Len(order) : order[c] \in NonzeroColumns(a)
              /\ \A f \in [Columns -> Entry] : Picked(order, f) \in T
              /\ \A j \in Rows : Picked(order, a[j]) \in T
         /\ \A m \in MapShares, k \in Int : FirstOf(m, k) \in T
<1> DEFINE N == NonzeroColumns(a)
<1>1. N \subseteq Columns
  BY DEF NonzeroColumns
<1>2. MaxK \in Nat /\ Cardinality(N) \in Nat /\ Cardinality(N) <= MaxK
  <2>1. IsFiniteSet(N)
    BY <1>1, FS_Subset DEF ColsDenseParameters
  <2> HIDE DEF N
  <2>2. Cardinality(N) \in Nat
    BY <2>1, FS_CardinalityType
  <2> QED
    BY <2>2 DEF ColsDenseParameters, N
<1>3. /\ 0 \in Entry /\ T = [1 .. MaxK -> Entry] /\ MapShares \subseteq T
      /\ a \in [Rows -> [Columns -> Entry]]
  BY DEF ColsDenseParameters
<1>4. ASSUME NEW order \in Orders(a)
      PROVE  /\ order \in Seq(Columns) /\ Len(order) = Cardinality(N)
             /\ [j \in Rows |-> Picked(order, a[j])] \in [Rows -> T]
             /\ \A c \in 1 .. Len(order) : order[c] \in N
             /\ \A f \in [Columns -> Entry] : Picked(order, f) \in T
             /\ \A j \in Rows : Picked(order, a[j]) \in T
  <2>1. order \in [1 .. Cardinality(N) -> N]
    BY DEF Orders, Injection
  <2> HIDE DEF N
  <2>2. order \in [1 .. Cardinality(N) -> Columns]
    BY <1>1, <2>1
  <2>3. order \in Seq(Columns) /\ Len(order) = Cardinality(N)
    BY <1>2, <2>2
  <2>4. ASSUME NEW f \in [Columns -> Entry]
        PROVE  Picked(order, f) \in T
    <3>1. ASSUME NEW c \in 1 .. MaxK
          PROVE  (IF c <= Len(order) THEN f[order[c]] ELSE 0) \in Entry
      <4>1. c <= Len(order) => order[c] \in Columns
        BY <1>2, <2>2, <2>3
      <4> QED
        BY <1>3, <4>1
    <3> QED
      BY <1>3, <3>1 DEF Picked
  <2> QED
    BY <1>3, <2>1, <2>3, <2>4
<1>5. ASSUME NEW m \in MapShares, NEW k \in Int
      PROVE  FirstOf(m, k) \in T
  <2>1. m \in [1 .. MaxK -> Entry]
    BY <1>3
  <2>2. \A c \in 1 .. MaxK : (IF c <= k THEN m[c] ELSE 0) \in Entry
    BY <1>3, <2>1
  <2> QED
    BY <1>3, <2>2 DEF FirstOf
<1> QED
  BY <1>2, <1>4, <1>5

(* Where the masks of the answers are: in place if the map keeps them so.  *)
LEMMA PlaceIn ==
  ASSUME ColsDenseParameters, A_in \in AIns, inner \in Orders(A_in), NEW c \in 1 .. Len(inner)
  PROVE  Place(c) \in 1 .. Len(inner) /\ (MapKeeps => Place(c) = c)
<1> DEFINE N == Len(inner)
           S == {m \in DOMAIN inner : inner[m] <= inner[c]}
<1>1. /\ inner \in Seq(Columns) /\ N = Cardinality(NonzeroColumns(A_in)) /\ N \in Nat
      /\ Columns \subseteq Nat
  BY ColsFacts DEF ColsDenseParameters
<1>2. DOMAIN inner = 1 .. N /\ \A m \in 1 .. N : inner[m] \in Nat
  <2>1. DOMAIN inner = 1 .. N /\ \A m \in 1 .. N : inner[m] \in Columns
    BY <1>1
  <2> QED
    BY <1>1, <2>1
<1>3. CASE prot # "sorting"
  BY <1>3 DEF Place
<1>4. CASE prot = "sorting"
  <2>1. S \subseteq 1 .. N /\ c \in S
    BY <1>2
  <2>2. IsFiniteSet(1 .. N) /\ Cardinality(1 .. N) = N
    BY <1>1, FS_Interval
  <2>3. IsFiniteSet(S) /\ Cardinality(S) \in Nat /\ Cardinality(S) <= N
    BY <2>1, <2>2, FS_Subset, FS_CardinalityType
  <2>4. Cardinality(S) # 0
    BY <2>1, <2>3, FS_EmptySet
  <2>5. MapKeeps => Cardinality(S) = c
    <3> HAVE MapKeeps
    <3>1. \A x, y \in 1 .. N : x < y => inner[x] < inner[y]
      BY <1>2, <1>4 DEF MapKeeps
    <3>2. ASSUME NEW m \in 1 .. N PROVE inner[m] <= inner[c] <=> m <= c
      <4>1. m \in Nat /\ c \in Nat /\ inner[m] \in Nat /\ inner[c] \in Nat
        BY <1>2
      <4>2. m < c => inner[m] < inner[c]
        BY <3>1
      <4>3. c < m => inner[c] < inner[m]
        BY <3>1
      <4>4. m = c => inner[m] = inner[c]
        OBVIOUS
      <4> QED
        BY <4>1, <4>2, <4>3, <4>4
    <3>3. S = 1 .. c
      BY <1>2, <3>2
    <3>4. Cardinality(1 .. c) = c
      BY FS_Interval
    <3> QED
      BY <3>3, <3>4
  <2>6. Place(c) = Cardinality(S)
    BY <1>4 DEF Place
  <2> HIDE DEF S
  <2> QED
    BY <1>1, <2>3, <2>4, <2>5, <2>6
<1> QED
  BY <1>3, <1>4

(* What role 0 gets, for the share b that role 1 has drawn.                *)
LEMMA Answers ==
  ASSUME ColsDenseParameters, A_in \in AIns, B_in \in BIns, inner \in Orders(A_in),
         NEW b \in T, \A c \in 1 .. MaxK : c > Len(inner) => b[c] = 0
  PROVE  /\ Picked(inner, Served) \in T /\ Masking(b) \in T
         /\ MapKeeps => Picked(inner, Served) = Picked(inner, B_in) /\ Masking(b) = b
<1>1. /\ T = [1 .. MaxK -> Entry] /\ 0 \in Entry /\ B_in \in [Columns -> Entry] /\ MaxK \in Nat
  BY DEF ColsDenseParameters
<1>2. /\ Len(inner) \in 0 .. MaxK /\ DOMAIN inner = 1 .. Len(inner)
      /\ \A c \in 1 .. Len(inner) : inner[c] \in NonzeroColumns(A_in) /\ inner[c] \in Columns
      /\ \A f \in [Columns -> Entry] : Picked(inner, f) \in T
  <2>1. /\ inner \in Seq(Columns) /\ Len(inner) = Cardinality(NonzeroColumns(A_in))
        /\ Cardinality(NonzeroColumns(A_in)) \in 0 .. MaxK
        /\ \A c \in 1 .. Len(inner) : inner[c] \in NonzeroColumns(A_in)
        /\ \A f \in [Columns -> Entry] : Picked(inner, f) \in T
    BY ColsFacts
  <2> QED
    BY <2>1 DEF NonzeroColumns
<1>3. Served \in [Columns -> Entry]
  BY <1>1 DEF Served
<1>4. ASSUME NEW c \in 1 .. MaxK
      PROVE  /\ (IF c <= Len(inner) THEN b[Place(c)] ELSE 0) \in Entry
             /\ MapKeeps => (IF c <= Len(inner) THEN b[Place(c)] ELSE 0) = b[c]
  <2>1. CASE c <= Len(inner)
    <3>1. c \in 1 .. Len(inner)
      BY <1>2, <2>1
    <3>2. Place(c) \in 1 .. Len(inner) /\ (MapKeeps => Place(c) = c)
      BY <3>1, PlaceIn
    <3>3. Place(c) \in 1 .. MaxK
      BY <1>1, <1>2, <3>2
    <3> QED
      BY <1>1, <2>1, <3>2, <3>3
  <2>2. CASE ~(c <= Len(inner))
    BY <1>1, <1>2, <2>2
  <2> QED
    BY <2>1, <2>2
<1>5. Masking(b) \in T
  BY <1>1, <1>4 DEF Masking
<1>6. MapKeeps => Masking(b) = b
  <2> HAVE MapKeeps
  <2>1. Masking(b) = [c \in 1 .. MaxK |-> b[c]]
    BY <1>4 DEF Masking
  <2> QED
    BY <1>1, <2>1
<1>7. MapKeeps => Picked(inner, Served) = Picked(inner, B_in)
  <2> HAVE MapKeeps
  <2>1. ASSUME NEW c \in 1 .. Len(inner) PROVE Served[inner[c]] = B_in[inner[c]]
    <3>1. inner[c] \in NonzeroColumns(A_in) /\ inner[c] \in Columns
      BY <1>2
    <3> QED
      BY <1>1, <3>1 DEF Served, MapKeeps
  <2>2. \A c \in 1 .. MaxK : c <= Len(inner) => c \in 1 .. Len(inner)
    BY <1>1, <1>2
  <2> QED
    BY <2>1, <2>2 DEF Picked
<1> QED
  BY <1>2, <1>3, <1>5, <1>6, <1>7

LEMMA ColsInit == ColsDenseParameters /\ CInit => CInv
<1> SUFFICES ASSUME ColsDenseParameters, CInit PROVE CInv
  OBVIOUS
<1>1. /\ IInv /\ Fresh /\ is_shared
      /\ prot \in Maps /\ A_in \in AIns /\ B_in \in BIns /\ inner = <<>>
      /\ phase = [r \in Roles |-> "start"] /\ front = [r \in Roles |-> <<>>]
  BY InitFresh, InitInv DEF CInit
<1>2. NoColumns \in 0 .. MaxK /\ MaxK \in Nat
  BY <1>1, ColsFacts DEF NoColumns
<1>3. PICK k \in {-1, NoColumns} : k_A = [r \in Roles |-> k]
  BY DEF CInit, NoColumns
<1>4. k_A \in [Roles -> -1 .. MaxK] /\ k_A[0] = k /\ k_A[1] = k
  BY <1>2, <1>3 DEF Roles
<1>5. phase[0] = "start" /\ phase[1] = "start" /\ front[0] = <<>> /\ front[1] = <<>>
      /\ inner \in Seq(Columns)
  BY <1>1 DEF Roles
<1>6. CTypeOK
  BY <1>1, <1>4, <1>5 DEF CTypeOK
<1>7. \A r \in Roles : CPart(r)
  BY <1>1 DEF Fresh, Idle, CPart
<1>8. SizeAgreed /\ Arguments /\ MapInStep /\ InFront
  BY <1>1, <1>4, <1>5 DEF SizeAgreed, Arguments, MapInStep, InFront, Front0, Front1, Early, Inside
<1> QED
  BY <1>1, <1>6, <1>7, <1>8 DEF CInv

(* What a step before the dense protocol leaves as it is.                  *)
LEMMA ColsKept ==
  ASSUME Unmoved' = Unmoved
  PROVE  /\ UNCHANGED <<is_shared, dim, pc, i, made, taken, E, F, first, chan, result>>
         /\ UNCHANGED <<prot, A_in, B_in>>
         /\ NoColumns' = NoColumns
         /\ \A r : Idle(r)' <=> Idle(r)
         /\ A' = A => (LeftZero' <=> LeftZero)
         /\ B' = B => (Shortened' <=> Shortened)
         /\ inner' = inner => (MapKeeps' <=> MapKeeps)
         /\ A' = A /\ B' = B /\ inner' = inner => (Shares' <=> Shares)
<1>1. /\ UNCHANGED <<is_shared, dim, pc, i, made, taken, E, F, first, chan, result>>
      /\ UNCHANGED <<prot, A_in, B_in>>
  BY DEF Unmoved
<1>2. NonzeroColumns(A_in)' = NonzeroColumns(A_in)
  BY <1>1 DEF NonzeroColumns
<1>3. inner' = inner => (MapKeeps' <=> MapKeeps)
  BY <1>1, <1>2 DEF MapKeeps
<1> QED
  BY <1>1, <1>2, <1>3 DEF NoColumns, Idle, LeftZero, ZeroMatrix, Shortened, Shares, Picked

LEMMA ColsState ==
  ASSUME ColsDenseParameters, CInv
  PROVE  /\ Roles = {0, 1} /\ 0 \in Roles /\ 1 \in Roles
         /\ prot \in Maps /\ A_in \in AIns /\ B_in \in BIns
         /\ k_A \in [Roles -> -1 .. MaxK] /\ inner \in Seq(Columns)
         /\ phase \in [Roles -> {"start", "map", "circuit", "dense", "returned"}]
         /\ NoColumns \in 0 .. MaxK /\ MaxK \in Nat
         /\ front = [r \in Roles |-> front[r]]
<1>1. CTypeOK /\ InFront
  BY DEF CInv
<1> QED
  BY <1>1, ColsFacts DEF CTypeOK, InFront, NoColumns, Roles

LEMMA ChangedAt ==
  ASSUME NEW f, NEW g, NEW p \in Roles, NEW x, f = [r \in Roles |-> f[r]], g = [f EXCEPT ![p] = x]
  PROVE  g = [r \in Roles |-> g[r]] /\ g[p] = x /\ \A r \in Roles \ {p} : g[r] = f[r]
<1>1. DOMAIN f = Roles
  OBVIOUS
<1> QED
  BY <1>1

LEMMA ColsIndices == ColsDenseParameters /\ CInv /\ Indices => CInv'
<1> SUFFICES ASSUME ColsDenseParameters, CInv, Indices PROVE CInv'
  OBVIOUS
<1>1. /\ phase[0] = "start" /\ Unmoved' = Unmoved /\ A' = A /\ B' = B
      /\ inner' \in Orders(A_in)
      /\ k_A' = [k_A EXCEPT ![0] = NoColumns] /\ SendSize(NoColumns)
      /\ phase' = [phase EXCEPT ![0] = "map"]
  BY DEF Indices, NoColumns
<1>2. /\ Roles = {0, 1} /\ A_in \in AIns /\ B_in \in BIns /\ prot \in Maps
      /\ k_A \in [Roles -> -1 .. MaxK]
      /\ phase \in [Roles -> {"start", "map", "circuit", "dense", "returned"}]
      /\ NoColumns \in 0 .. MaxK /\ MaxK \in Nat /\ front = [r \in Roles |-> front[r]]
      /\ IInv /\ is_shared
  BY ColsState DEF CInv
<1>3. /\ UNCHANGED <<is_shared, dim, pc, i, made, taken, E, F, first, chan, result>>
      /\ UNCHANGED <<prot, A_in, B_in>> /\ NoColumns' = NoColumns
      /\ \A r : Idle(r)' <=> Idle(r)
      /\ (LeftZero' <=> LeftZero) /\ (Shortened' <=> Shortened)
  BY <1>1, ColsKept
<1>4. IInv'
  BY <1>1, <1>2, <1>3, NextInv DEF vars
<1>5. /\ k_A'[0] = NoColumns /\ k_A'[1] = k_A[1] /\ k_A' \in [Roles -> -1 .. MaxK]
      /\ phase'[0] = "map" /\ phase'[1] = phase[1]
      /\ phase' \in [Roles -> {"start", "map", "circuit", "dense", "returned"}]
      /\ phase[1] \in {"start", "map", "circuit"}
  <2>1. phase[1] \notin Inside /\ phase[1] \in {"start", "map", "circuit", "dense", "returned"}
    BY <1>1, <1>2 DEF CInv, MapInStep, Early
  <2> QED
    BY <1>1, <1>2, <2>1 DEF Inside
<1>6. inner' \in Seq(Columns)
  BY <1>1, <1>2, ColsFacts
<1>7. /\ front' = [r \in Roles |-> front'[r]] /\ front'[0] = front[0]
      /\ front'[1] = IF k_A[0] = -1 THEN Append(front[1], NoColumns) ELSE front[1]
  <2>1. CASE k_A[0] = -1
    <3>1. front' = [front EXCEPT ![1] = Append(front[1], NoColumns)]
      BY <1>1, <2>1 DEF SendSize
    <3> DEFINE x == Append(front[1], NoColumns)
    <3>2. front' = [front EXCEPT ![1] = x] /\ 1 \in Roles /\ 0 \in Roles \ {1}
      BY <1>2, <3>1
    <3> HIDE DEF x
    <3>3. front' = [r \in Roles |-> front'[r]] /\ front'[1] = x /\ front'[0] = front[0]
      BY <1>2, <3>2, ChangedAt
    <3> QED
      BY <2>1, <3>3 DEF x
  <2>2. CASE k_A[0] # -1
    BY <1>1, <1>2, <2>2 DEF SendSize
  <2> QED
    BY <2>1, <2>2
<1>8. CTypeOK'
  <2>1. DOMAIN front' = Roles
    BY <1>7
  <2> QED
    BY <1>2, <1>3, <1>5, <1>6, <2>1 DEF CTypeOK
<1>9. /\ phase[1] = "start" => k_A[1] = k_A[0]
      /\ phase[1] # "start" => k_A[0] = NoColumns /\ NoColumns # -1
      /\ front[0] = Front0 /\ front[1] = <<>>
      /\ IF phase[1] = "start" THEN k_A[1] \in {-1, NoColumns} ELSE k_A[1] = NoColumns
  <2>1. front[1] = Front1 /\ front[0] = Front0 /\ SizeAgreed
    BY DEF CInv, InFront
  <2> QED
    BY <1>1, <1>2, <2>1 DEF SizeAgreed, Front1, Early
<1>10. front'[0] = Front0'
  BY <1>1, <1>3, <1>5, <1>7, <1>9 DEF Front0, Early, Inside
<1>11. front'[1] = Front1'
  <2>1. Append(<<>>, NoColumns) = <<NoColumns>>
    OBVIOUS
  <2> QED
    BY <1>3, <1>5, <1>7, <1>9, <2>1 DEF Front1, Early, Inside
<1>12. SizeAgreed'
  BY <1>1, <1>3, <1>5, <1>9 DEF SizeAgreed, Orders, NonzeroColumns
<1>13. \A r \in Roles : CPart(r)'
  <2>1. CPart(0) /\ CPart(1)
    BY <1>2 DEF CInv
  <2> QED
    BY <1>1, <1>2, <1>3, <1>5, <2>1 DEF CPart, Inside
<1>14. Arguments' /\ MapInStep'
  BY <1>1, <1>3, <1>5 DEF CInv, Arguments, MapInStep, Early, Inside
<1> QED
  BY <1>2, <1>3, <1>4, <1>7, <1>8, <1>10, <1>11, <1>12, <1>13, <1>14 DEF CInv, InFront

LEMMA ColsRecvK == ColsDenseParameters /\ CInv /\ RecvK => CInv'
<1> SUFFICES ASSUME ColsDenseParameters, CInv, RecvK PROVE CInv'
  OBVIOUS
<1>1. /\ phase[1] = "start" /\ Unmoved' = Unmoved /\ B' = B /\ inner' = inner
      /\ A' = [A EXCEPT ![1] = ZeroMatrix]
      /\ phase' = [phase EXCEPT ![1] = "map"]
  BY DEF RecvK, ZeroMatrix
<1>2. /\ Roles = {0, 1} /\ A_in \in AIns /\ B_in \in BIns /\ prot \in Maps
      /\ k_A \in [Roles -> -1 .. MaxK] /\ inner \in Seq(Columns)
      /\ phase \in [Roles -> {"start", "map", "circuit", "dense", "returned"}]
      /\ NoColumns \in 0 .. MaxK /\ MaxK \in Nat /\ front = [r \in Roles |-> front[r]]
      /\ IInv /\ is_shared
  BY ColsState DEF CInv
<1>3. /\ UNCHANGED <<is_shared, dim, pc, i, made, taken, E, F, first, chan, result>>
      /\ UNCHANGED <<prot, A_in, B_in>> /\ NoColumns' = NoColumns
      /\ \A r : Idle(r)' <=> Idle(r)
  BY <1>1, ColsKept
<1>4. /\ phase'[1] = "map" /\ phase'[0] = phase[0]
      /\ phase' \in [Roles -> {"start", "map", "circuit", "dense", "returned"}]
      /\ phase[0] \in {"start", "map", "circuit"}
  <2>1. phase[0] \notin Inside /\ phase[0] \in {"start", "map", "circuit", "dense", "returned"}
    BY <1>1, <1>2 DEF CInv, MapInStep, Early
  <2> QED
    BY <1>1, <1>2, <2>1 DEF Inside
<1>5. \A r \in Roles : Idle(r)
  <2>1. CPart(0) /\ CPart(1)
    BY <1>2 DEF CInv
  <2> QED
    BY <1>1, <1>2, <1>4, <2>1 DEF CPart, Inside
<1>6. A' \in [Roles -> [Rows -> T]] /\ A'[1] = ZeroMatrix /\ B' \in [Roles -> T]
  <2>1. ZeroMatrix \in [Rows -> T]
    BY RingClosed DEF ZeroMatrix
  <2>2. A \in [Roles -> [Rows -> T]] /\ B \in [Roles -> T]
    BY <1>2 DEF IInv, LocalInv, TypeOK
  <2> QED
    BY <1>1, <1>2, <2>1, <2>2
<1>7. IInv'
  BY <1>2, <1>3, <1>5, <1>6, ArgumentsSet
<1>8. /\ front[0] = <<>>
      /\ front[1] = IF k_A[1] = -1 /\ phase[0] # "start"
                      THEN IF phase[0] = "map" THEN <<NoColumns>> ELSE <<NoColumns, CircuitMessage>>
                      ELSE IF phase[0] = "circuit" THEN <<CircuitMessage>> ELSE <<>>
      /\ k_A[1] \in {-1, NoColumns}
      /\ phase[0] = "start" => k_A[1] = k_A[0]
      /\ phase[0] # "start" => k_A[0] = NoColumns /\ inner \in Orders(A_in)
  <2>1. front[1] = Front1 /\ front[0] = Front0 /\ SizeAgreed
    BY DEF CInv, InFront
  <2> QED
    BY <1>1, <1>4, <2>1 DEF SizeAgreed, Front1, Front0, Early, Inside
<1>9. /\ k_A' = [k_A EXCEPT ![1] = NoColumns] /\ front' = [r \in Roles |-> front'[r]]
      /\ front'[0] = <<>>
      /\ front'[1] = IF phase[0] = "circuit" THEN <<CircuitMessage>> ELSE <<>>
      /\ phase[0] = "start" => k_A[0] = NoColumns
  <2>1. CASE k_A[1] = -1
    <3>1. /\ front[1] # <<>> /\ k_A' = [k_A EXCEPT ![1] = Head(front[1])]
          /\ front' = [front EXCEPT ![1] = Tail(front[1])]
      BY <2>1 DEF RecvK
    <3>2. phase[0] # "start"
      BY <1>8, <3>1
    <3>3. /\ Head(<<NoColumns>>) = NoColumns /\ Tail(<<NoColumns>>) = <<>>
          /\ Head(<<NoColumns, CircuitMessage>>) = NoColumns
          /\ Tail(<<NoColumns, CircuitMessage>>) = <<CircuitMessage>>
      OBVIOUS
    <3>4. Head(front[1]) = NoColumns
          /\ Tail(front[1]) = IF phase[0] = "circuit" THEN <<CircuitMessage>> ELSE <<>>
      BY <1>4, <1>8, <2>1, <3>2, <3>3
    <3> QED
      BY <1>2, <1>8, <3>1, <3>2, <3>4
  <2>2. CASE k_A[1] # -1
    <3>1. k_A' = k_A /\ front' = front /\ k_A[1] = NoColumns
      BY <1>8, <2>2 DEF RecvK
    <3>2. k_A' = [k_A EXCEPT ![1] = NoColumns]
      BY <1>2, <3>1
    <3> QED
      BY <1>2, <1>8, <2>2, <3>1, <3>2
  <2> QED
    BY <2>1, <2>2
<1>10. k_A'[1] = NoColumns /\ k_A'[0] = k_A[0] /\ k_A' \in [Roles -> -1 .. MaxK]
  BY <1>2, <1>9
<1>11. CTypeOK'
  <2>1. DOMAIN front' = Roles
    BY <1>9
  <2> QED
    BY <1>1, <1>2, <1>3, <1>4, <1>10, <2>1 DEF CTypeOK
<1>12. front'[0] = Front0' /\ front'[1] = Front1'
  BY <1>3, <1>4, <1>9, <1>10 DEF Front0, Front1, Early, Inside
<1>13. SizeAgreed'
  BY <1>1, <1>3, <1>4, <1>8, <1>9, <1>10 DEF SizeAgreed, Orders, NonzeroColumns
<1>14. \A r \in Roles : CPart(r)'
  BY <1>2, <1>3, <1>4, <1>5 DEF CPart, Inside
<1>15. Arguments' /\ MapInStep'
  <2>1. MapInStep
    BY DEF CInv
  <2>2. LeftZero'
    BY <1>6 DEF LeftZero, ZeroMatrix
  <2> QED
    BY <1>1, <1>3, <1>4, <2>1, <2>2 DEF Arguments, MapInStep, Early, Inside
<1> QED
  BY <1>2, <1>3, <1>7, <1>9, <1>11, <1>12, <1>13, <1>14, <1>15 DEF CInv, InFront

LEMMA ColsServer == ColsDenseParameters /\ CInv /\ RunServer => CInv'
<1> SUFFICES ASSUME ColsDenseParameters, CInv, RunServer PROVE CInv'
  OBVIOUS
<1>1. /\ phase[1] = "map" /\ Unmoved' = Unmoved /\ A' = A /\ k_A' = k_A /\ inner' = inner
      /\ front' = [front EXCEPT ![0] = IF prot = "sorting" THEN Append(@, CircuitMessage)
                                       ELSE Append(Append(@, MapMessage), CircuitMessage)]
      /\ phase' = [phase EXCEPT ![1] = "circuit"]
  BY DEF RunServer
<1>2. /\ Roles = {0, 1} /\ A_in \in AIns /\ B_in \in BIns /\ prot \in Maps
      /\ k_A \in [Roles -> -1 .. MaxK] /\ inner \in Seq(Columns)
      /\ phase \in [Roles -> {"start", "map", "circuit", "dense", "returned"}]
      /\ NoColumns \in 0 .. MaxK /\ MaxK \in Nat /\ front = [r \in Roles |-> front[r]]
      /\ IInv /\ is_shared
  BY ColsState DEF CInv
<1>3. /\ UNCHANGED <<is_shared, dim, pc, i, made, taken, E, F, first, chan, result>>
      /\ UNCHANGED <<prot, A_in, B_in>> /\ NoColumns' = NoColumns
      /\ \A r : Idle(r)' <=> Idle(r)
      /\ (LeftZero' <=> LeftZero)
  BY <1>1, ColsKept
<1>4. /\ phase'[1] = "circuit" /\ phase'[0] = phase[0]
      /\ phase' \in [Roles -> {"start", "map", "circuit", "dense", "returned"}]
      /\ phase[0] \in {"start", "map", "circuit"}
  <2>1. phase[0] \notin Inside /\ phase[0] \in {"start", "map", "circuit", "dense", "returned"}
    BY <1>1, <1>2 DEF CInv, MapInStep, Early
  <2> QED
    BY <1>1, <1>2, <2>1 DEF Inside
<1>5. \A r \in Roles : Idle(r)
  <2>1. CPart(0) /\ CPart(1)
    BY <1>2 DEF CInv
  <2> QED
    BY <1>1, <1>2, <1>4, <2>1 DEF CPart, Inside
<1>6. /\ front[0] = <<>> /\ front[1] = Front1 /\ k_A[1] = NoColumns /\ LeftZero
      /\ phase[0] = "circuit" => prot = "sorting"
  <2>1. front[1] = Front1 /\ front[0] = Front0 /\ SizeAgreed /\ Arguments /\ MapInStep
    BY DEF CInv, InFront
  <2> QED
    BY <1>1, <2>1 DEF SizeAgreed, Front0, Arguments, MapInStep, Early
<1>7. PICK m \in MapShares : B' = [B EXCEPT ![1] = FirstOf(m, k_A[1])]
  BY DEF RunServer
<1>8. /\ B' \in [Roles -> T] /\ A' \in [Roles -> [Rows -> T]]
      /\ Shortened'
  <2>1. A \in [Roles -> [Rows -> T]] /\ B \in [Roles -> T] /\ FirstOf(m, k_A[1]) \in T
    BY <1>2, <1>6, ColsFacts DEF IInv, LocalInv, TypeOK
  <2>2. B'[1] = FirstOf(m, NoColumns)
    BY <1>2, <1>6, <1>7, <2>1
  <2>3. \A c \in 1 .. MaxK : c > NoColumns => B'[1][c] = 0
    BY <1>2, <2>2 DEF FirstOf
  <2> QED
    BY <1>1, <1>2, <1>3, <1>7, <2>1, <2>3 DEF Shortened
<1>9. IInv'
  BY <1>2, <1>3, <1>5, <1>8, ArgumentsSet
<1>10. /\ front' = [r \in Roles |-> front'[r]] /\ front'[1] = front[1]
       /\ front'[0] = IF prot = "sorting" THEN <<CircuitMessage>> ELSE <<MapMessage, CircuitMessage>>
  <2>1. /\ Append(<<>>, CircuitMessage) = <<CircuitMessage>>
        /\ Append(<<>>, MapMessage) = <<MapMessage>>
        /\ Append(<<MapMessage>>, CircuitMessage) = <<MapMessage, CircuitMessage>>
    BY AppendTwo
  <2>2. front' = [front EXCEPT ![0] = IF prot = "sorting" THEN <<CircuitMessage>>
                                       ELSE <<MapMessage, CircuitMessage>>]
    BY <1>1, <1>6, <2>1
  <2> DEFINE x == IF prot = "sorting" THEN <<CircuitMessage>> ELSE <<MapMessage, CircuitMessage>>
  <2>3. front' = [front EXCEPT ![0] = x] /\ 0 \in Roles /\ 1 \in Roles \ {0}
    BY <1>2, <2>2
  <2> HIDE DEF x
  <2>4. front' = [r \in Roles |-> front'[r]] /\ front'[0] = x /\ front'[1] = front[1]
    BY <1>2, <2>3, ChangedAt
  <2> QED
    BY <2>4 DEF x
<1>11. CTypeOK'
  <2>1. DOMAIN front' = Roles
    BY <1>10
  <2> QED
    BY <1>1, <1>2, <1>3, <1>4, <2>1 DEF CTypeOK
<1>12. front'[0] = Front0'
  BY <1>3, <1>4, <1>6, <1>10 DEF Front0, Early, Inside
<1>13. front'[1] = Front1'
  BY <1>1, <1>3, <1>4, <1>6, <1>10 DEF Front1, Early, Inside
<1>14. SizeAgreed'
  BY <1>1, <1>3, <1>4 DEF CInv, SizeAgreed, Orders, NonzeroColumns
<1>15. \A r \in Roles : CPart(r)'
  BY <1>2, <1>3, <1>4, <1>5 DEF CPart, Inside
<1>16. Arguments' /\ MapInStep'
  BY <1>3, <1>4, <1>6, <1>8 DEF Arguments, MapInStep, Early, Inside
<1> QED
  BY <1>2, <1>3, <1>9, <1>10, <1>11, <1>12, <1>13, <1>14, <1>15, <1>16 DEF CInv, InFront

LEMMA ColsClient == ColsDenseParameters /\ CInv /\ RunClient => CInv'
<1> SUFFICES ASSUME ColsDenseParameters, CInv, RunClient PROVE CInv'
  OBVIOUS
<1>1. /\ phase[0] = "map" /\ Unmoved' = Unmoved /\ A' = A /\ B' = B /\ k_A' = k_A
      /\ inner' = inner /\ (prot # "sorting" => front[0] # <<>>)
      /\ front' = [front EXCEPT ![0] = IF prot = "sorting" THEN @ ELSE Tail(@),
                                ![1] = Append(@, CircuitMessage)]
      /\ phase' = [phase EXCEPT ![0] = "circuit"]
  BY DEF RunClient
<1>2. /\ Roles = {0, 1} /\ A_in \in AIns /\ B_in \in BIns /\ prot \in Maps
      /\ k_A \in [Roles -> -1 .. MaxK] /\ inner \in Seq(Columns)
      /\ phase \in [Roles -> {"start", "map", "circuit", "dense", "returned"}]
      /\ NoColumns \in 0 .. MaxK /\ MaxK \in Nat /\ front = [r \in Roles |-> front[r]]
      /\ IInv /\ is_shared
  BY ColsState DEF CInv
<1>3. /\ UNCHANGED <<is_shared, dim, pc, i, made, taken, E, F, first, chan, result>>
      /\ UNCHANGED <<prot, A_in, B_in>> /\ NoColumns' = NoColumns
      /\ \A r : Idle(r)' <=> Idle(r)
      /\ (LeftZero' <=> LeftZero) /\ (Shortened' <=> Shortened)
  BY <1>1, ColsKept
<1>4. IInv'
  BY <1>1, <1>2, <1>3, NextInv DEF vars
<1>5. /\ phase'[0] = "circuit" /\ phase'[1] = phase[1]
      /\ phase' \in [Roles -> {"start", "map", "circuit", "dense", "returned"}]
      /\ phase[1] \in {"start", "map", "circuit"}
  <2>1. phase[1] \notin Inside /\ phase[1] \in {"start", "map", "circuit", "dense", "returned"}
    BY <1>1, <1>2 DEF CInv, MapInStep, Early
  <2> QED
    BY <1>1, <1>2, <2>1 DEF Inside
<1>6. /\ front[0] = IF phase[1] \in Early THEN <<>>
                    ELSE IF prot # "sorting" THEN <<MapMessage, CircuitMessage>>
                    ELSE <<CircuitMessage>>
      /\ front[1] = IF phase[1] = "start" /\ k_A[1] = -1 THEN <<NoColumns>> ELSE <<>>
  <2>1. front[1] = Front1 /\ front[0] = Front0
    BY DEF CInv, InFront
  <2> QED
    BY <1>1, <2>1 DEF Front0, Front1, Early, Inside
<1>7. prot # "sorting" => phase[1] = "circuit"
  BY <1>1, <1>5, <1>6 DEF Early
<1>8. /\ front' = [r \in Roles |-> front'[r]]
      /\ front'[0] = IF phase[1] \in Early THEN <<>> ELSE <<CircuitMessage>>
      /\ front'[1] = IF phase[1] = "start" /\ k_A[1] = -1
                       THEN <<NoColumns, CircuitMessage>> ELSE <<CircuitMessage>>
  <2> DEFINE x == IF phase[1] \in Early THEN <<>> ELSE <<CircuitMessage>>
             y == IF phase[1] = "start" /\ k_A[1] = -1
                       THEN <<NoColumns, CircuitMessage>> ELSE <<CircuitMessage>>
  <2>1. (IF prot = "sorting" THEN front[0] ELSE Tail(front[0])) = x
    <3>1. Tail(<<MapMessage, CircuitMessage>>) = <<CircuitMessage>>
      OBVIOUS
    <3> QED
      BY <1>6, <1>7, <3>1 DEF Early
  <2>2. Append(front[1], CircuitMessage) = y
    <3>1. /\ Append(<<>>, CircuitMessage) = <<CircuitMessage>>
          /\ Append(<<NoColumns>>, CircuitMessage) = <<NoColumns, CircuitMessage>>
      BY AppendTwo
    <3> QED
      BY <1>6, <3>1
  <2> DEFINE g == [front EXCEPT ![0] = x]
  <2>3. front' = [g EXCEPT ![1] = y]
    <3>1. g[1] = front[1]
      BY <1>2
    <3>2. front' = [front EXCEPT ![0] = x, ![1] = Append(@, CircuitMessage)]
      BY <1>1, <2>1
    <3>3. front' = [g EXCEPT ![1] = Append(g[1], CircuitMessage)]
      BY <3>2
    <3> QED
      BY <2>2, <3>1, <3>3
  <2>4. /\ 0 \in Roles /\ 1 \in Roles /\ 1 \in Roles \ {0} /\ 0 \in Roles \ {1}
    BY <1>2
  <2> HIDE DEF x, y
  <2>5. g = [r \in Roles |-> g[r]] /\ g[0] = x
    BY <1>2, <2>4, ChangedAt
  <2> HIDE DEF g
  <2>6. front' = [r \in Roles |-> front'[r]] /\ front'[1] = y /\ front'[0] = x
    BY <2>3, <2>4, <2>5, ChangedAt
  <2> QED
    BY <2>6 DEF x, y
<1>9. CTypeOK'
  <2>1. DOMAIN front' = Roles
    BY <1>8
  <2> QED
    BY <1>1, <1>2, <1>3, <1>5, <2>1 DEF CTypeOK
<1>10. front'[0] = Front0' /\ front'[1] = Front1'
  BY <1>1, <1>3, <1>5, <1>8 DEF Front0, Front1, Early, Inside
<1>11. SizeAgreed'
  BY <1>1, <1>3, <1>5 DEF CInv, SizeAgreed, Orders, NonzeroColumns
<1>12. \A r \in Roles : CPart(r)'
  <2>1. CPart(0) /\ CPart(1)
    BY <1>2 DEF CInv
  <2> QED
    BY <1>1, <1>2, <1>3, <1>5, <2>1 DEF CPart, Inside
<1>13. Arguments' /\ MapInStep'
  BY <1>1, <1>3, <1>5, <1>7 DEF CInv, Arguments, MapInStep, Early, Inside
<1> QED
  BY <1>2, <1>3, <1>4, <1>8, <1>9, <1>10, <1>11, <1>12, <1>13 DEF CInv, InFront

(* Role 0 has its answers: its arguments and role 1's add up.              *)
LEMMA ColsAnswered == ColsDenseParameters /\ CInv /\ Circuit(0) => CInv'
<1> SUFFICES ASSUME ColsDenseParameters, CInv, Circuit(0) PROVE CInv'
  OBVIOUS
<1>1. /\ phase[0] = "circuit" /\ Unmoved' = Unmoved /\ k_A' = k_A /\ inner' = inner
      /\ front[0] # <<>> /\ front' = [front EXCEPT ![0] = Tail(front[0])]
      /\ A' = [A EXCEPT ![0] = [j \in Rows |-> Picked(inner, A_in[j])]]
      /\ B' = [B EXCEPT ![0] = Minus(Picked(inner, Served), Masking(B[1]))]
      /\ phase' = [phase EXCEPT ![0] = "dense"]
  BY DEF Circuit
<1>2. /\ Roles = {0, 1} /\ A_in \in AIns /\ B_in \in BIns /\ prot \in Maps
      /\ k_A \in [Roles -> -1 .. MaxK] /\ inner \in Seq(Columns)
      /\ phase \in [Roles -> {"start", "map", "circuit", "dense", "returned"}]
      /\ NoColumns \in 0 .. MaxK /\ MaxK \in Nat /\ front = [r \in Roles |-> front[r]]
      /\ IInv /\ is_shared
  BY ColsState DEF CInv
<1>3. /\ UNCHANGED <<is_shared, dim, pc, i, made, taken, E, F, first, chan, result>>
      /\ UNCHANGED <<prot, A_in, B_in>> /\ NoColumns' = NoColumns
      /\ \A r : Idle(r)' <=> Idle(r)
      /\ (MapKeeps' <=> MapKeeps)
  BY <1>1, ColsKept
<1>4. /\ phase'[0] = "dense" /\ phase'[1] = phase[1]
      /\ phase' \in [Roles -> {"start", "map", "circuit", "dense", "returned"}]
  BY <1>1, <1>2
<1>5. /\ phase[1] \notin Early /\ front[0] = <<CircuitMessage>> /\ front[1] = Front1
      /\ inner \in Orders(A_in) /\ LeftZero /\ Shortened
  <2>1. front[1] = Front1 /\ front[0] = Front0 /\ SizeAgreed /\ Arguments
    BY DEF CInv, InFront
  <2>2. phase[1] \notin Early
    BY <1>1, <2>1 DEF Front0
  <2> QED
    BY <1>1, <2>1, <2>2 DEF SizeAgreed, Front0, Arguments, Early, Inside
<1>6. Idle(0)
  <2>1. CPart(0)
    BY <1>2 DEF CInv
  <2> QED
    BY <1>1, <2>1 DEF CPart, Inside
<1> DEFINE X == [j \in Rows |-> Picked(inner, A_in[j])]
           P == Picked(inner, Served)
           M == Masking(B[1])
<1>7. /\ A \in [Roles -> [Rows -> T]] /\ B \in [Roles -> T] /\ B[1] \in T
      /\ X \in [Rows -> T] /\ P \in T /\ M \in T
      /\ MapKeeps => P = Picked(inner, B_in) /\ M = B[1]
  <2>1. A \in [Roles -> [Rows -> T]] /\ B \in [Roles -> T] /\ B[1] \in T
    BY <1>2 DEF IInv, LocalInv, TypeOK
  <2>2. X \in [Rows -> T] /\ Len(inner) = NoColumns
    BY <1>2, <1>5, ColsFacts DEF NoColumns
  <2>3. \A c \in 1 .. MaxK : c > Len(inner) => B[1][c] = 0
    BY <1>5, <2>2 DEF Shortened
  <2> QED
    BY <1>2, <1>5, <2>1, <2>2, <2>3, Answers
<1> HIDE DEF X, P, M
<1>8. /\ A' = [A EXCEPT ![0] = X] /\ B' = [B EXCEPT ![0] = Minus(P, M)]
  BY <1>1 DEF X, P, M
<1>9. /\ A' \in [Roles -> [Rows -> T]] /\ A'[0] = X /\ A'[1] = A[1]
      /\ B' \in [Roles -> T] /\ B'[0] = Minus(P, M) /\ B'[1] = B[1]
  <2>1. Minus(P, M) \in T
    BY <1>7, RingClosed
  <2> QED
    BY <1>2, <1>7, <1>8, <2>1
<1>10. IInv'
  BY <1>2, <1>3, <1>6, <1>9, ArgumentSet
<1>11. Shares'
  <2>1. MapKeeps => Plus(B'[0], B'[1]) = Picked(inner, B_in)
    <3> HAVE MapKeeps
    <3>1. Plus(Minus(P, M), M) = P
      BY <1>7, RingGroup
    <3> QED
      BY <1>7, <1>9, <3>1
  <2>2. X = [j \in Rows |-> Picked(inner', A_in'[j])]
    BY <1>1, <1>3 DEF X
  <2> QED
    BY <1>1, <1>3, <1>9, <2>1, <2>2 DEF Shares
<1>12. /\ front' = [r \in Roles |-> front'[r]] /\ front'[0] = <<>> /\ front'[1] = front[1]
  <2>1. Tail(<<CircuitMessage>>) = <<>>
    OBVIOUS
  <2>2. front' = [front EXCEPT ![0] = <<>>]
    BY <1>1, <1>5, <2>1
  <2>3. 0 \in Roles /\ 1 \in Roles \ {0}
    BY <1>2
  <2> QED
    BY <1>2, <2>2, <2>3, ChangedAt
<1>13. CTypeOK'
  <2>1. DOMAIN front' = Roles
    BY <1>12
  <2> QED
    BY <1>1, <1>2, <1>3, <1>4, <2>1 DEF CTypeOK
<1>14. front'[0] = Front0'
  BY <1>4, <1>12 DEF Front0, Inside
<1>15. front'[1] = Front1'
  BY <1>1, <1>3, <1>4, <1>5, <1>12 DEF Front1, Early, Inside
<1>16. SizeAgreed'
  BY <1>1, <1>3, <1>4 DEF CInv, SizeAgreed, Orders, NonzeroColumns
<1>17. \A r \in Roles : CPart(r)'
  <2>1. CPart(1) /\ pc'[0] = "start"
    BY <1>2, <1>3, <1>6 DEF CInv, Idle
  <2> QED
    BY <1>2, <1>3, <1>4, <2>1 DEF CPart, Inside
<1>18. Arguments' /\ MapInStep'
  <2>1. LeftZero' /\ Shortened'
    BY <1>3, <1>5, <1>9 DEF LeftZero, ZeroMatrix, Shortened
  <2> QED
    BY <1>4, <1>5, <1>11, <2>1 DEF Arguments, MapInStep, Early, Inside
<1> QED
  BY <1>2, <1>3, <1>10, <1>12, <1>13, <1>14, <1>15, <1>16, <1>17, <1>18 DEF CInv, InFront

LEMMA ColsServed == ColsDenseParameters /\ CInv /\ Circuit(1) => CInv'
<1> SUFFICES ASSUME ColsDenseParameters, CInv, Circuit(1) PROVE CInv'
  OBVIOUS
<1>1. /\ phase[1] = "circuit" /\ Unmoved' = Unmoved /\ k_A' = k_A /\ inner' = inner
      /\ front[1] # <<>> /\ front' = [front EXCEPT ![1] = Tail(front[1])]
      /\ A' = A /\ B' = B /\ phase' = [phase EXCEPT ![1] = "dense"]
  BY DEF Circuit
<1>2. /\ Roles = {0, 1} /\ A_in \in AIns /\ B_in \in BIns /\ prot \in Maps
      /\ k_A \in [Roles -> -1 .. MaxK] /\ inner \in Seq(Columns)
      /\ phase \in [Roles -> {"start", "map", "circuit", "dense", "returned"}]
      /\ NoColumns \in 0 .. MaxK /\ MaxK \in Nat /\ front = [r \in Roles |-> front[r]]
      /\ IInv /\ is_shared
  BY ColsState DEF CInv
<1>3. /\ UNCHANGED <<is_shared, dim, pc, i, made, taken, E, F, first, chan, result>>
      /\ UNCHANGED <<prot, A_in, B_in>> /\ NoColumns' = NoColumns
      /\ \A r : Idle(r)' <=> Idle(r)
      /\ (LeftZero' <=> LeftZero) /\ (Shortened' <=> Shortened) /\ (Shares' <=> Shares)
  BY <1>1, ColsKept
<1>4. IInv'
  BY <1>1, <1>2, <1>3, NextInv DEF vars
<1>5. /\ phase'[1] = "dense" /\ phase'[0] = phase[0]
      /\ phase' \in [Roles -> {"start", "map", "circuit", "dense", "returned"}]
  BY <1>1, <1>2
<1>6. phase[0] \notin Early /\ front[1] = <<CircuitMessage>> /\ front[0] = Front0
  <2>1. front[1] = Front1 /\ front[0] = Front0
    BY DEF CInv, InFront
  <2>2. phase[0] \notin Early
    BY <1>1, <2>1 DEF Front1
  <2> QED
    BY <1>1, <2>1, <2>2 DEF Front1, Inside
<1>7. /\ front' = [r \in Roles |-> front'[r]] /\ front'[1] = <<>> /\ front'[0] = front[0]
  <2>1. Tail(<<CircuitMessage>>) = <<>>
    OBVIOUS
  <2>2. front' = [front EXCEPT ![1] = <<>>]
    BY <1>1, <1>6, <2>1
  <2>3. 1 \in Roles /\ 0 \in Roles \ {1}
    BY <1>2
  <2> QED
    BY <1>2, <2>2, <2>3, ChangedAt
<1>8. CTypeOK'
  <2>1. DOMAIN front' = Roles
    BY <1>7
  <2> QED
    BY <1>1, <1>2, <1>3, <1>5, <2>1 DEF CTypeOK
<1>9. front'[0] = Front0' /\ front'[1] = Front1'
  BY <1>1, <1>3, <1>5, <1>6, <1>7 DEF Front0, Front1, Early, Inside
<1>10. SizeAgreed'
  BY <1>1, <1>3, <1>5 DEF CInv, SizeAgreed, Orders, NonzeroColumns
<1>11. \A r \in Roles : CPart(r)'
  <2>1. CPart(0) /\ CPart(1)
    BY <1>2 DEF CInv
  <2>2. pc'[1] = "start"
    BY <1>1, <1>3, <2>1 DEF CPart, Inside, Idle
  <2> QED
    BY <1>2, <1>3, <1>5, <2>1, <2>2 DEF CPart, Inside
<1>12. Arguments' /\ MapInStep'
  BY <1>1, <1>3, <1>5, <1>6 DEF CInv, Arguments, MapInStep, Early, Inside
<1> QED
  BY <1>2, <1>3, <1>4, <1>7, <1>8, <1>9, <1>10, <1>11, <1>12 DEF CInv, InFront

(* A step of the dense protocol keeps what it is called with.              *)
LEMMA PartyKeepsArgs ==
  ASSUME NEW r \in Roles, Party(r) \/ Precompute(r)
  PROVE  is_shared' = is_shared /\ A' = A /\ B' = B /\ dim' = dim
  BY DEF Party, Start, Mask, Send1, Recv1, Send2, Recv2, Combine, Precompute, args

(* A party goes on by itself: its pc changes and not the other's, and it   *)
(* does nothing once it is done.                                           *)
LEMMA PartyMoves ==
  ASSUME NEW r \in Roles, Party(r)
  PROVE  pc[r] # "done" /\ \E next : pc' = [pc EXCEPT ![r] = next]
<1>1. CASE Start(r)
  BY <1>1 DEF Start
<1>2. CASE Mask(r)
  BY <1>2 DEF Mask
<1>3. CASE Send1(r)
  BY <1>3 DEF Send1
<1>4. CASE Recv1(r)
  BY <1>4 DEF Recv1
<1>5. CASE Send2(r)
  BY <1>5 DEF Send2
<1>6. CASE Recv2(r)
  BY <1>6 DEF Recv2
<1>7. CASE Combine(r)
  BY <1>7 DEF Combine
<1> QED
  BY <1>1, <1>2, <1>3, <1>4, <1>5, <1>6, <1>7 DEF Party

(* The channels of the dense protocol are those of the parties.            *)
TwoChannels == chan = [r \in Roles |-> chan[r]]
LEMMA InvChannels == IInv => TwoChannels
  BY DEF IInv, LocalInv, TwoChannels

(* Where a party is in the dense protocol does not matter for the rest.    *)
LEMMA ColsInside ==
  ASSUME CInv, IInv', CTypeOK',
         UNCHANGED <<is_shared, A, B, prot, A_in, B_in, k_A, inner, front>>,
         \A r \in Roles : CPart(r)',
         \A r \in Roles : phase'[r] = phase[r] \/ (phase[r] \in Inside /\ phase'[r] \in Inside)
  PROVE  CInv'
<1>1. /\ 0 \in Roles /\ 1 \in Roles
      /\ Early \cap Inside = {} /\ "start" \notin Inside /\ "map" \notin Inside
  BY DEF Roles, Early, Inside
<1>2. \A r \in Roles : /\ phase'[r] \in Early <=> phase[r] \in Early
                       /\ phase'[r] \in Inside <=> phase[r] \in Inside
                       /\ phase'[r] = "start" <=> phase[r] = "start"
                       /\ phase'[r] = "map" <=> phase[r] = "map"
  BY <1>1
<1>3. NonzeroColumns(A_in)' = NonzeroColumns(A_in)
  BY DEF NonzeroColumns
<1>4. NoColumns' = NoColumns /\ Orders(A_in)' = Orders(A_in)
  BY <1>3 DEF NoColumns, Orders
<1>5. MapKeeps' <=> MapKeeps
  BY <1>3 DEF MapKeeps
<1>6. (LeftZero' <=> LeftZero) /\ (Shortened' <=> Shortened) /\ (Shares' <=> Shares)
  BY <1>4, <1>5 DEF LeftZero, ZeroMatrix, Shortened, Shares, Picked
<1>7. Arguments' /\ MapInStep'
  <2>1. Arguments /\ MapInStep
    BY DEF CInv
  <2> QED
    BY <1>1, <1>2, <1>6, <2>1 DEF Arguments, MapInStep, Early, Inside
<1>8. SizeAgreed'
  <2>1. SizeAgreed
    BY DEF CInv
  <2> QED
    BY <1>1, <1>2, <1>4, <2>1 DEF SizeAgreed
<1>9. InFront'
  <2>1. InFront
    BY DEF CInv
  <2>2. Front0' = Front0 /\ Front1' = Front1
    BY <1>1, <1>2, <1>4 DEF Front0, Front1, Early, Inside
  <2> QED
    BY <2>1, <2>2 DEF InFront
<1> QED
  BY <1>7, <1>8, <1>9 DEF CInv

LEMMA ColsDenseStep == ASSUME NEW r \in Roles PROVE CInv /\ Dense(r) => CInv'
<1> SUFFICES ASSUME CInv, Dense(r) PROVE CInv'
  OBVIOUS
<1>1. /\ phase[r] = "dense" /\ Party(r)
      /\ phase' = [phase EXCEPT ![r] = IF pc'[r] = "done" THEN "returned" ELSE @]
      /\ UNCHANGED <<prot, A_in, B_in, k_A, inner, front>>
  BY DEF Dense
<1>2. CTypeOK /\ IInv /\ \A p \in Roles : CPart(p)
  BY DEF CInv
<1>3. IInv'
  BY <1>1, <1>2, NextInv DEF Next
<1>4. A' = A /\ B' = B /\ is_shared' = is_shared
  BY <1>1, PartyKeepsArgs
<1>5. PICK next : pc' = [pc EXCEPT ![r] = next]
  BY <1>1, PartyMoves
<1>6. phase \in [Roles -> {"start", "map", "circuit", "dense", "returned"}] /\ DOMAIN front = Roles
  BY <1>2 DEF CTypeOK
<1>7. /\ phase'[r] = IF pc'[r] = "done" THEN "returned" ELSE "dense"
      /\ \A p \in Roles \ {r} : phase'[p] = phase[p] /\ pc'[p] = pc[p]
      /\ phase' \in [Roles -> {"start", "map", "circuit", "dense", "returned"}]
  <2>1. pc \in [Roles -> PCs]
    BY <1>2 DEF IInv, LocalInv, TypeOK, PCs
  <2> QED
    BY <1>1, <1>5, <1>6, <2>1
<1>8. CTypeOK'
  BY <1>1, <1>2, <1>7 DEF CTypeOK
<1>9. \A p \in Roles \ {r} : i'[p] = i[p] /\ taken'[p] = taken[p]
  <2>1. i \in [Roles -> Nat] /\ taken \in [Roles -> 0 .. Supply]
    BY <1>2 DEF IInv, LocalInv, TypeOK
  <2> QED
    BY <1>1, <2>1 DEF Party, Start, Mask, Send1, Recv1, Send2, Recv2, Combine
<1>10. \A p \in Roles : CPart(p)'
  <2> TAKE p \in Roles
  <2>1. CASE p = r
    BY <1>7, <2>1 DEF CPart, Inside
  <2>2. CASE p # r
    <3>1. CPart(p)
      BY <1>2
    <3> QED
      BY <1>7, <1>9, <2>2, <3>1 DEF CPart, Idle
  <2> QED
    BY <2>1, <2>2
<1>11. \A p \in Roles : phase'[p] = phase[p] \/ (phase[p] \in Inside /\ phase'[p] \in Inside)
  BY <1>1, <1>7 DEF Inside
<1> QED
  BY <1>1, <1>3, <1>4, <1>8, <1>10, <1>11, ColsInside

LEMMA ColsProvide == ASSUME NEW r \in Roles PROVE CInv /\ Provide(r) => CInv'
<1> SUFFICES ASSUME CInv, Provide(r) PROVE CInv'
  OBVIOUS
<1>1. /\ Precompute(r) /\ UNCHANGED <<prot, A_in, B_in, k_A, inner, phase, front>>
      /\ UNCHANGED <<args, pc, i, taken, E, F, first, chan, result>>
  BY DEF Provide, Precompute
<1>2. A' = A /\ B' = B /\ is_shared' = is_shared
  BY <1>1 DEF args
<1>3. IInv' /\ CTypeOK'
  BY <1>1, PrecomputeStep DEF CInv, CTypeOK
<1>4. \A p \in Roles : CPart(p)'
  BY <1>1 DEF CInv, CPart, Idle
<1> QED
  BY <1>1, <1>2, <1>3, <1>4, ColsInside

LEMMA ColsNext == ColsDenseParameters /\ CInv /\ [CNext]_cdvars => CInv'
<1> SUFFICES ASSUME ColsDenseParameters, CInv, [CNext]_cdvars PROVE CInv'
  OBVIOUS
<1>1. ASSUME NEW r \in Roles, CParty(r) PROVE CInv'
  <2>1. Circuit(r) => Circuit(0) \/ Circuit(1)
    BY DEF Roles
  <2> QED
    BY <1>1, <2>1, ColsIndices, ColsRecvK, ColsServer, ColsClient, ColsAnswered, ColsServed,
       ColsDenseStep DEF CParty
<1>2. ASSUME NEW r \in Roles, Provide(r) PROVE CInv'
  BY <1>2, ColsProvide
<1>3. CASE UNCHANGED cdvars
  <2>1. UNCHANGED vars /\ UNCHANGED <<prot, A_in, B_in, k_A, inner, phase, front>>
    BY <1>3 DEF cdvars
  <2>2. is_shared' = is_shared /\ A' = A /\ B' = B /\ UNCHANGED <<pc, i, taken>>
    BY <2>1 DEF vars
  <2>3. IInv' /\ CTypeOK'
    BY <2>1, NextInv DEF CInv, CTypeOK
  <2>4. \A p \in Roles : CPart(p)'
    BY <2>1, <2>2 DEF CInv, CPart, Idle
  <2> QED
    BY <2>1, <2>2, <2>3, <2>4, ColsInside
<1> QED
  BY <1>1, <1>2, <1>3 DEF CNext

(* cols-dense.hpp: the invariant holds, whatever the matrices, the order   *)
(* of the columns and the chunks.                                          *)
THEOREM ColsInvHolds == ASSUME ColsDenseParameters PROVE CSpec => []CInv
<1>1. CInit => CInv
  BY ColsInit
<1>2. CInv /\ [CNext]_cdvars => CInv'
  BY ColsNext
<1> QED
  BY <1>1, <1>2, PTL DEF CSpec

LEMMA ColsInTurn == ColsDenseParameters /\ CInv => MessagesInTurn
<1> SUFFICES ASSUME ColsDenseParameters, CInv PROVE MessagesInTurn
  OBVIOUS
<1>1. /\ Roles = {0, 1} /\ A_in \in AIns /\ NoColumns \in 0 .. MaxK /\ MaxK \in Nat
      /\ phase \in [Roles -> {"start", "map", "circuit", "dense", "returned"}]
      /\ IInv /\ SizeAgreed /\ MapInStep /\ front[0] = Front0 /\ front[1] = Front1
      /\ CPart(0) /\ CPart(1)
  BY ColsState DEF CInv, InFront
<1>2. /\ phase[1] \notin Inside => chan[0] = <<>>
      /\ phase[0] \notin Inside => chan[1] = <<>>
  <2>1. Other(0) = 1 /\ Other(1) = 0
    BY DEF Other
  <2> QED
    BY <1>1, <2>1, NothingSent DEF CPart
<1>3. /\ Head(<<MapMessage, CircuitMessage>>) = MapMessage /\ Head(<<CircuitMessage>>) = CircuitMessage
      /\ Head(<<NoColumns>>) = NoColumns /\ Head(<<NoColumns, CircuitMessage>>) = NoColumns
      /\ <<MapMessage, CircuitMessage>> # <<>> /\ <<CircuitMessage>> # <<>>
      /\ <<NoColumns>> # <<>> /\ <<NoColumns, CircuitMessage>> # <<>>
  OBVIOUS
<1>4. Waits(0) => IF front[0] = <<>> THEN chan[0] = <<>> ELSE Head(front[0]) = Due(0)
  <2> HAVE Waits(0)
  <2>1. (phase[0] = "map" /\ prot # "sorting") \/ phase[0] = "circuit"
    BY DEF Waits
  <2>2. CASE phase[1] \in Early
    BY <1>1, <1>2, <2>2 DEF Front0, Early, Inside
  <2>3. CASE phase[1] \notin Early
    BY <1>1, <1>3, <2>1, <2>3 DEF Front0, Early, Inside, Due
  <2> QED
    BY <2>2, <2>3
<1>5. Waits(1) => IF front[1] = <<>> THEN chan[1] = <<>> ELSE Head(front[1]) = Due(1)
  <2> HAVE Waits(1)
  <2>1. CASE phase[1] = "start" /\ k_A[1] = -1
    <3>1. Due(1) = NoColumns
      BY <2>1 DEF Due, NoColumns
    <3>2. phase[0] = "start" => chan[1] = <<>> /\ front[1] = <<>>
      BY <1>1, <1>2, <2>1 DEF Front1, Early, Inside
    <3>3. phase[0] # "start" => front[1] # <<>> /\ Head(front[1]) = NoColumns
      BY <1>1, <1>3, <2>1 DEF Front1
    <3> QED
      BY <3>1, <3>2, <3>3
  <2>2. CASE phase[1] = "circuit"
    <3>1. Due(1) = CircuitMessage
      BY <2>2 DEF Due
    <3>2. phase[0] \in Early => chan[1] = <<>> /\ front[1] = <<>>
      BY <1>1, <1>2, <2>2 DEF Front1, Early, Inside
    <3>3. phase[0] \notin Early => front[1] = <<CircuitMessage>>
      BY <1>1, <2>2 DEF Front1, Inside
    <3> QED
      BY <1>3, <3>1, <3>2, <3>3
  <2> QED
    BY <2>1, <2>2 DEF Waits
<1>6. \A r \in Roles : phase[r] \in {"dense", "returned"} => front[r] = <<>>
  <2>1. phase[0] \in Inside => front[0] = <<>>
    BY <1>1 DEF Front0
  <2>2. phase[1] \in Inside => front[1] = <<>>
    BY <1>1 DEF Front1, Inside
  <2> QED
    BY <1>1, <2>1, <2>2 DEF Inside
<1>7. (\A r \in Roles : phase[r] # "start") => k_A[0] = k_A[1] /\ k_A[0] = Len(inner)
  <2> HAVE \A r \in Roles : phase[r] # "start"
  <2>1. k_A[0] = NoColumns /\ k_A[1] = NoColumns /\ inner \in Orders(A_in)
    BY <1>1 DEF SizeAgreed
  <2>2. Len(inner) = NoColumns
    BY <1>1, <2>1, ColsFacts DEF NoColumns
  <2> QED
    BY <2>1, <2>2
<1> QED
  BY <1>1, <1>4, <1>5, <1>6, <1>7 DEF MessagesInTurn

LEMMA ColumnsAddUp == ColsDenseParameters /\ CInv => ColumnsProduct
<1> SUFFICES ASSUME ColsDenseParameters, CInv, \A r \in Roles : phase[r] = "returned", MapKeeps,
                    NEW j \in Rows
             PROVE  Reveal(result[0][j], result[1][j]) = RowTimes(A_in[j], B_in)
  BY DEF ColumnsProduct
<1>1. /\ Roles = {0, 1} /\ A_in \in AIns /\ B_in \in BIns /\ IInv /\ is_shared
      /\ SizeAgreed /\ Arguments /\ CPart(0) /\ CPart(1)
      /\ phase[0] = "returned" /\ phase[1] = "returned"
  BY ColsState DEF CInv
<1>2. \A r \in Roles : j <= i[r] * chunk_size
  <2> TAKE r \in Roles
  <2>1. l <= i[r] * chunk_size /\ i[r] \in Nat
    BY <1>1 DEF CPart, IInv, LocalInv, Progress, TypeOK
  <2>2. l \in Nat /\ chunk_size \in Nat /\ j \in Nat /\ j <= l
    BY Sizes DEF Rows
  <2>3. i[r] * chunk_size \in Nat
    BY <2>1, <2>2
  <2> QED
    BY <2>1, <2>2, <2>3
<1>3. Reveal(result[0][j], result[1][j]) = Times(Reveal(A[0][j], A[1][j]), Reveal(B[0], B[1]))
  BY <1>1, <1>2, SharesAddUp DEF ProductShared, Product
<1>4. inner \in Orders(A_in) /\ Picked(inner, A_in[j]) \in T
  BY <1>1, ColsFacts DEF SizeAgreed
<1>5. /\ A[0][j] = Picked(inner, A_in[j]) /\ A[1][j] = Zero
      /\ Reveal(B[0], B[1]) = Picked(inner, B_in)
  BY <1>1 DEF Arguments, Shares, LeftZero, ZeroMatrix, Reveal, Early, Inside
<1>6. Reveal(A[0][j], A[1][j]) = Picked(inner, A_in[j])
  BY <1>4, <1>5, RingGroup DEF Reveal
<1>7. Times(Picked(inner, A_in[j]), Picked(inner, B_in)) = RowTimes(A_in[j], B_in)
  BY <1>1, <1>4 DEF ColsDenseParameters
<1> QED
  BY <1>3, <1>5, <1>6, <1>7

(* Wherever the parties of cols_dense are, a party that waits for the      *)
(* number of columns, the map or the circuit finds what is due in front of *)
(* it, nothing of them is left for the dense protocol, and they agree on   *)
(* k_A.                                                                    *)
THEOREM MessagesAlwaysInTurn == ASSUME ColsDenseParameters PROVE CSpec => []MessagesInTurn
  BY ColsInTurn, ColsInvHolds, PTL

(* The shares that cols_dense returns add up to the product of A_in and    *)
(* B_in, for any order of the columns and any share drawn for the map, if  *)
(* the map masks each answer with the share that role 1 keeps for it.      *)
THEOREM ColumnsMultiplied == ASSUME ColsDenseParameters PROVE CSpec => []ColumnsProduct
  BY ColumnsAddUp, ColsInvHolds, PTL

-----------------------------------------------------------------------------
(* rows_dense.  The dense protocol it EXTENDS is the one above.            *)
LEMMA SameConstants ==
  /\ RD!Roles = Roles /\ RD!chunk_size = chunk_size /\ RD!Rows = Rows
  /\ RD!TripleRows = TripleRows /\ RD!ZeroRows = ZeroRows
  /\ \A r : RD!Other(r) = Other(r)
  /\ \A a, b : RD!Reveal(a, b) = Reveal(a, b)
  BY DEF RD!Roles, Roles, RD!chunk_size, chunk_size, RD!Rows, Rows, RD!TripleRows, TripleRows,
         RD!ZeroRows, ZeroRows, RD!Other, Other, RD!Reveal, Reveal

LEMMA SameInit == RD!Init <=> Init
  BY SameConstants DEF RD!Init, Init

LEMMA SamePrecompute == \A r : RD!Precompute(r) <=> Precompute(r)
  BY DEF RD!Precompute, Precompute, RD!args, args

LEMMA SameChannel ==
  /\ \A r, m : RD!Send(r, m) <=> Send(r, m)
  /\ \A r : RD!Receive(r) <=> Receive(r)
  BY DEF RD!Send, Send, RD!Receive, Receive, RD!Other, Other

LEMMA SameParty == ASSUME NEW r PROVE RD!Party(r) <=> Party(r)
<1>1. RD!Start(r) <=> Start(r)
  BY DEF RD!Start, Start, RD!args, args, RD!chunk_size, chunk_size
<1>2. RD!Mask(r) <=> Mask(r)
  BY SameConstants DEF RD!Mask, Mask, RD!args, args, RD!ChunkOf, ChunkOf, RD!MinusRows, MinusRows
<1>3. RD!Send1(r) <=> Send1(r)
  BY SameChannel DEF RD!Send1, Send1, RD!args, args
<1>4. RD!Recv1(r) <=> Recv1(r)
  BY SameChannel DEF RD!Recv1, Recv1, RD!args, args
<1>5. RD!Send2(r) <=> Send2(r)
  BY SameChannel DEF RD!Send2, Send2, RD!args, args
<1>6. RD!Recv2(r) <=> Recv2(r)
  BY SameChannel, SameConstants DEF RD!Recv2, Recv2, RD!args, args, RD!PlusRows, PlusRows
<1>7. RD!Combine(r) <=> Combine(r)
  BY SameConstants DEF RD!Combine, Combine, RD!args, args, RD!PlusRows, PlusRows,
     RD!ShareOfRow, ShareOfRow
<1> QED
  BY <1>1, <1>2, <1>3, <1>4, <1>5, <1>6, <1>7 DEF RD!Party, Party

LEMMA SameSets ==
  ASSUME NEW S
  PROVE  /\ RD!Cardinality(S) = Cardinality(S) /\ RD!ZS!Cardinality(S) = Cardinality(S)
         /\ RD!Range(S) = Range(S) /\ RD!ZS!Range(S) = Range(S)
<1>1. RD!Cardinality(S) = Cardinality(S) /\ RD!ZS!Cardinality(S) = Cardinality(S)
  BY DEF RD!Cardinality, RD!ZS!Cardinality, Cardinality
<1> QED
  BY <1>1 DEF RD!Range, RD!ZS!Range, Range

-----------------------------------------------------------------------------
(* Finite sets of numbers.  A nonempty one has a least element.            *)
LEMMA NatLeast ==
  ASSUME NEW S \in SUBSET Nat, S # {}
  PROVE  \E x \in S : \A y \in S : x <= y
<1> DEFINE Less == OpToRel(<, Nat)
<1>1. IsWellFoundedOn(Less, Nat)
  BY NatLessThanWellFounded
<1>2. \A x, y \in Nat : y < x => <<y, x>> \in Less
  BY DEF OpToRel
<1> HIDE DEF Less
<1>3. PICK x \in S : \A y \in S : ~(<<y, x>> \in Less)
  BY <1>1, WFMin
<1>4. \A y \in S : ~(y < x)
  BY <1>2, <1>3
<1> QED
  BY <1>4

(* The number of elements of R up to x: different for different elements,  *)
(* and every number from 1 on to the size of R.                            *)
UpTo(R, x) == {y \in R : y <= x}

LEMMA RankFacts ==
  ASSUME NEW R \in SUBSET Nat, IsFiniteSet(R)
  PROVE  /\ Cardinality(R) \in Nat
         /\ \A x \in R : Cardinality(UpTo(R, x)) \in 1 .. Cardinality(R)
         /\ \A x, y \in R : Cardinality(UpTo(R, x)) = Cardinality(UpTo(R, y)) => x = y
         /\ \A c \in 1 .. Cardinality(R) : \E x \in R : Cardinality(UpTo(R, x)) = c
<1> DEFINE k == Cardinality(R)
           rank == [x \in R |-> Cardinality(UpTo(R, x))]
<1>1. k \in Nat
  BY FS_CardinalityType
<1>2. ASSUME NEW x \in R
      PROVE  /\ UpTo(R, x) \in SUBSET R /\ x \in UpTo(R, x)
             /\ IsFiniteSet(UpTo(R, x))
             /\ Cardinality(UpTo(R, x)) \in 1 .. k
  <2>1. UpTo(R, x) \in SUBSET R /\ x \in UpTo(R, x)
    BY DEF UpTo
  <2>2. IsFiniteSet(UpTo(R, x)) /\ Cardinality(UpTo(R, x)) <= k
    BY <2>1, FS_Subset
  <2>3. Cardinality(UpTo(R, x)) \in Nat /\ Cardinality(UpTo(R, x)) # 0
    BY <2>1, <2>2, FS_CardinalityType, FS_EmptySet
  <2> QED
    BY <1>1, <2>1, <2>2, <2>3
<1>3. ASSUME NEW x \in R, NEW y \in R, x < y
      PROVE  Cardinality(UpTo(R, x)) # Cardinality(UpTo(R, y))
  <2>1. UpTo(R, x) \in SUBSET UpTo(R, y) /\ y \notin UpTo(R, x)
    <3>1. x \in Nat /\ y \in Nat /\ \A z \in R : z \in Nat
      OBVIOUS
    <3>2. \A z \in Nat : z <= x => z <= y
      BY <1>3, <3>1
    <3>3. ~(y <= x)
      BY <1>3, <3>1
    <3> QED
      BY <3>1, <3>2, <3>3 DEF UpTo
  <2>2. y \in UpTo(R, y) /\ IsFiniteSet(UpTo(R, y))
    BY <1>2
  <2> QED
    BY <2>1, <2>2, FS_Subset
<1>4. ASSUME NEW x \in R, NEW y \in R, Cardinality(UpTo(R, x)) = Cardinality(UpTo(R, y))
      PROVE  x = y
  <2>1. x \in Nat /\ y \in Nat
    OBVIOUS
  <2> QED
    BY <1>3, <1>4, <2>1
<1>5. rank \in Injection(R, 1 .. k)
  <2>1. rank \in [R -> 1 .. k]
    BY <1>2
  <2>2. \A x, y \in R : rank[x] = rank[y] => x = y
    BY <1>4
  <2> HIDE DEF rank
  <2> QED
    BY <2>1, <2>2 DEF Injection, IsInjective
<1>6. rank \in Surjection(R, 1 .. k)
  <2>1. IsFiniteSet(1 .. k) /\ Cardinality(1 .. k) = k
    BY <1>1, FS_Interval
  <2> HIDE DEF rank
  <2> QED
    BY <1>5, <2>1, FS_Injection
<1>7. \A c \in 1 .. k : \E x \in R : rank[x] = c
  BY <1>6 DEF Surjection
<1> QED
  BY <1>1, <1>2, <1>4, <1>7

(* Numbers that are in the order of some hash set.                         *)
LEMMA OrderFacts ==
  ASSUME NEW R, IsFiniteSet(R), NEW o \in [1 .. Cardinality(R) -> R], Range(o) = R
  PROVE  /\ Cardinality(R) \in Nat
         /\ o \in Seq(R) /\ Len(o) = Cardinality(R) /\ DOMAIN o = 1 .. Cardinality(R)
         /\ \A a, b \in 1 .. Cardinality(R) : o[a] = o[b] => a = b
         /\ \A x \in R : \E a \in 1 .. Cardinality(R) : o[a] = x
<1> DEFINE k == Cardinality(R)
<1>1. k \in Nat
  BY FS_CardinalityType
<1>2. IsFiniteSet(1 .. k) /\ Cardinality(1 .. k) = Cardinality(R)
  BY <1>1, FS_Interval
<1>3. \A x \in R : \E a \in 1 .. k : o[a] = x
  BY DEF Range
<1>4. o \in Surjection(1 .. k, R)
  BY <1>3 DEF Surjection
<1>5. o \in Injection(1 .. k, R)
  BY <1>2, <1>4, FS_Surjection
<1>6. \A a, b \in 1 .. k : o[a] = o[b] => a = b
  BY <1>5 DEF Injection, IsInjective
<1> QED
  BY <1>1, <1>3, <1>6

LEMMA OrderIn ==
  ASSUME NEW k \in Nat, NEW S, NEW o \in [1 .. k -> S]
  PROVE  o \in Seq(S) /\ Len(o) = k
  OBVIOUS

(* ComputeInnerIndices makes up a k_A that is passed.                      *)
LEMMA ExtendedFacts ==
  ASSUME RD!RowsDenseParameters, NEW S \in SUBSET (1 .. n), Cardinality(S) <= l
  PROVE  /\ S \subseteq RD!Extended(S) /\ RD!Extended(S) \in SUBSET (1 .. n)
         /\ Cardinality(RD!Extended(S)) = l
<1> DEFINE With(m) == S \cup 1 .. m
           Enough == {m \in 0 .. n : Cardinality(With(m)) >= l}
           least == CHOOSE m \in 0 .. n : /\ Cardinality(With(m)) >= l
                                          /\ \A q \in 0 .. m - 1 : Cardinality(With(q)) < l
<1>1. n \in Nat /\ l \in Nat /\ l <= n
  BY Sizes DEF RD!RowsDenseParameters
<1>2. IsFiniteSet(S) /\ Cardinality(S) \in Nat /\ Cardinality(1 .. n) = n
  <2>1. IsFiniteSet(1 .. n) /\ Cardinality(1 .. n) = n
    BY <1>1, FS_Interval
  <2>2. IsFiniteSet(S)
    BY <2>1, FS_Subset
  <2> QED
    BY <2>1, <2>2, FS_CardinalityType
<1>3. ASSUME NEW m \in 0 .. n
      PROVE  IsFiniteSet(With(m)) /\ Cardinality(With(m)) \in Nat /\ With(m) \in SUBSET (1 .. n)
  <2>1. IsFiniteSet(1 .. m)
    BY <1>1, FS_Interval
  <2>2. IsFiniteSet(With(m))
    BY <1>2, <2>1, FS_Union
  <2>3. With(m) \in SUBSET (1 .. n)
    BY <1>1
  <2> HIDE DEF With
  <2> QED
    BY <2>2, <2>3, FS_CardinalityType
<1>4. n \in Enough
  <2>1. With(n) = 1 .. n
    BY <1>1
  <2> HIDE DEF With
  <2>2. n \in 0 .. n /\ Cardinality(With(n)) >= l
    BY <1>1, <1>2, <2>1
  <2> QED
    BY <2>2
<1>5. \E m \in 0 .. n : /\ Cardinality(With(m)) >= l
                        /\ \A q \in 0 .. m - 1 : Cardinality(With(q)) < l
  <2>1. Enough \in SUBSET Nat
    BY <1>1
  <2>2. Enough # {}
    BY <1>4
  <2>3. PICK m \in Enough : \A q \in Enough : m <= q
    <3> HIDE DEF Enough
    <3> QED
      BY <2>1, <2>2, NatLeast
  <2>4. ASSUME NEW q \in 0 .. m - 1 PROVE Cardinality(With(q)) < l
    <3>1. q \in 0 .. n /\ ~(m <= q)
      BY <1>1, <2>3
    <3>2. q \notin Enough
      BY <2>3, <3>1
    <3>3. ~(Cardinality(With(q)) >= l) /\ Cardinality(With(q)) \in Nat
      BY <1>3, <3>1, <3>2
    <3> QED
      BY <1>1, <3>3
  <2> QED
    BY <2>3, <2>4
<1>6. /\ least \in 0 .. n /\ Cardinality(With(least)) >= l
      /\ \A q \in 0 .. least - 1 : Cardinality(With(q)) < l
  <2> HIDE DEF With
  <2> QED
    BY <1>5
<1>7. RD!Extended(S) = With(least)
  BY DEF RD!Extended, RD!Cardinality, Cardinality
<1> HIDE DEF least
<1>8. Cardinality(With(least)) = l
  <2>1. CASE least = 0
    <3>1. With(least) = S
      BY <2>1
    <3> HIDE DEF With
    <3> QED
      BY <1>1, <1>2, <1>6, <3>1
  <2>2. CASE least # 0
    <3>1. least - 1 \in 0 .. n /\ least - 1 \in 0 .. least - 1
      BY <1>1, <1>6, <2>2
    <3>2. With(least) = With(least - 1) \cup {least}
      BY <1>6, <3>1
    <3>3. Cardinality(With(least - 1)) < l
      BY <1>6, <3>1
    <3>4. IsFiniteSet(With(least - 1)) /\ Cardinality(With(least - 1)) \in Nat
      BY <1>3, <3>1
    <3> HIDE DEF With
    <3>5. Cardinality(With(least)) <= Cardinality(With(least - 1)) + 1
      BY <3>2, <3>4, FS_AddElement
    <3>6. Cardinality(With(least)) \in Nat
      BY <1>3, <1>6
    <3> QED
      BY <1>1, <1>6, <3>3, <3>4, <3>5, <3>6
  <2> QED
    BY <2>1, <2>2
<1>9. S \subseteq With(least)
  OBVIOUS
<1> HIDE DEF With
<1> QED
  BY <1>3, <1>6, <1>7, <1>8, <1>9

(* The place numbered c from below, and the entry it is for: whatever the  *)
(* order of the places in inner, I_order undoes it.                        *)
LEMMA PlaceFacts ==
  ASSUME Range(inner) \in SUBSET Nat, IsFiniteSet(Range(inner)),
         inner \in [1 .. Cardinality(Range(inner)) -> Range(inner)]
  PROVE  /\ \A c \in DOMAIN inner : RD!ZS!ChosenNo(c) \in Range(inner)
         /\ \A m \in DOMAIN inner :
              RD!ZS!ChosenNo(CHOOSE c \in DOMAIN inner : RD!ZS!I_order(c) = m) = inner[m]
<1> DEFINE R == Range(inner)
           k == Cardinality(R)
           Below(m) == {q \in DOMAIN inner : inner[q] <= inner[m]}
<1>1. /\ k \in Nat /\ DOMAIN inner = 1 .. k
      /\ \A a, b \in 1 .. k : inner[a] = inner[b] => a = b
      /\ \A x \in R : \E a \in 1 .. k : inner[a] = x
      /\ \A a \in 1 .. k : inner[a] \in R
  BY OrderFacts
<1>r. R \in SUBSET Nat /\ IsFiniteSet(R)
  OBVIOUS
<1>q. \A x, y \in R : Cardinality(UpTo(R, x)) = Cardinality(UpTo(R, y)) => x = y
  <2> HIDE DEF R
  <2> QED
    BY <1>r, RankFacts
<1>2. ASSUME NEW m \in 1 .. k
      PROVE  Cardinality(Below(m)) = Cardinality(UpTo(R, inner[m]))
  <2> DEFINE up == [q \in Below(m) |-> inner[q]]
             U == UpTo(R, inner[m])
  <2>1. Below(m) \in SUBSET (1 .. k) /\ IsFiniteSet(Below(m))
    <3>1. IsFiniteSet(1 .. k)
      BY <1>1, FS_Interval
    <3>2. Below(m) \in SUBSET (1 .. k)
      BY <1>1
    <3> HIDE DEF Below
    <3> QED
      BY <3>1, <3>2, FS_Subset
  <2>2. up \in [Below(m) -> U]
    BY <1>1 DEF UpTo
  <2>3. \A a, b \in Below(m) : up[a] = up[b] => a = b
    BY <1>1
  <2>4. ASSUME NEW x \in U PROVE \E a \in Below(m) : up[a] = x
    <3>1. x \in R /\ x <= inner[m]
      BY DEF UpTo
    <3>2. PICK a \in 1 .. k : inner[a] = x
      BY <1>1, <3>1
    <3>3. a \in Below(m)
      BY <1>1, <3>1, <3>2
    <3> QED
      BY <3>2, <3>3
  <2> HIDE DEF up, U, Below
  <2>5. up \in Bijection(Below(m), U)
    BY <2>2, <2>3, <2>4 DEF Bijection, Injection, Surjection, IsInjective
  <2>6. ExistsBijection(Below(m), U)
    BY <2>5 DEF ExistsBijection
  <2>7. Cardinality(U) = Cardinality(Below(m))
    BY <2>1, <2>6, FS_Bijection
  <2> QED
    BY <2>7 DEF U
<1>3. ASSUME NEW c \in 1 .. k
      PROVE  RD!ZS!ChosenNo(c) \in R /\ Cardinality(UpTo(R, RD!ZS!ChosenNo(c))) = c
  <2>1. RD!ZS!ChosenNo(c) = CHOOSE x \in R : Cardinality(UpTo(R, x)) = c
    BY DEF RD!ZS!ChosenNo, UpTo, RD!ZS!Cardinality, Cardinality, RD!ZS!Range, Range
  <2> HIDE DEF R
  <2>2. \E x \in R : Cardinality(UpTo(R, x)) = c
    BY <1>r, RankFacts
  <2> QED
    BY <2>1, <2>2
<1>4. ASSUME NEW c \in 1 .. k
      PROVE  RD!ZS!I_order(c) \in 1 .. k /\ inner[RD!ZS!I_order(c)] = RD!ZS!ChosenNo(c)
  <2>1. RD!ZS!I_order(c) = CHOOSE m \in DOMAIN inner : Cardinality(Below(m)) = c
    BY DEF RD!ZS!I_order, RD!ZS!Cardinality, Cardinality
  <2> HIDE DEF R
  <2>2. PICK m \in 1 .. k : inner[m] = RD!ZS!ChosenNo(c)
    BY <1>1, <1>3
  <2>3. Cardinality(Below(m)) = c
    BY <1>2, <1>3, <2>2
  <2> HIDE DEF Below
  <2>4. RD!ZS!I_order(c) \in 1 .. k /\ Cardinality(Below(RD!ZS!I_order(c))) = c
    BY <1>1, <2>1, <2>2, <2>3
  <2>5. Cardinality(UpTo(R, inner[RD!ZS!I_order(c)])) = Cardinality(UpTo(R, RD!ZS!ChosenNo(c)))
    BY <1>2, <1>3, <2>4
  <2>6. inner[RD!ZS!I_order(c)] \in R /\ RD!ZS!ChosenNo(c) \in R
    BY <1>1, <1>3, <2>4
  <2> QED
    BY <1>q, <2>4, <2>5, <2>6
<1>5. ASSUME NEW m \in 1 .. k
      PROVE  RD!ZS!ChosenNo(CHOOSE c \in DOMAIN inner : RD!ZS!I_order(c) = m) = inner[m]
  <2> DEFINE at == CHOOSE c \in DOMAIN inner : RD!ZS!I_order(c) = m
             c0 == Cardinality(UpTo(R, inner[m]))
  <2> HIDE DEF R
  <2>1. c0 \in 1 .. k
    BY <1>1, <1>r, RankFacts
  <2>2. RD!ZS!ChosenNo(c0) = inner[m]
    <3>1. RD!ZS!ChosenNo(c0) \in R /\ Cardinality(UpTo(R, RD!ZS!ChosenNo(c0))) = c0
      BY <1>3, <2>1
    <3> HIDE DEF c0
    <3>2. inner[m] \in R /\ Cardinality(UpTo(R, inner[m])) = c0
      BY <1>1 DEF c0
    <3> QED
      BY <1>q, <3>1, <3>2
  <2>3. RD!ZS!I_order(c0) = m
    <3>1. inner[RD!ZS!I_order(c0)] = inner[m] /\ RD!ZS!I_order(c0) \in 1 .. k
      BY <1>4, <2>1, <2>2
    <3> QED
      BY <1>1, <3>1
  <2>4. at \in 1 .. k /\ RD!ZS!I_order(at) = m
    BY <1>1, <2>1, <2>3
  <2> HIDE DEF at
  <2>5. RD!ZS!ChosenNo(at) = inner[m]
    BY <1>4, <2>4
  <2> QED
    BY <2>5 DEF at
<1> QED
  BY <1>1, <1>3, <1>5

(* The rows that are multiplied, in the order of inner.                    *)
RowsChosen == IF given THEN RD!Extended(RD!Nonzero) ELSE RD!Nonzero
NoRows == Cardinality(RowsChosen)
SizeFits == Cardinality(RD!Nonzero) \in IF given THEN 0 .. l ELSE {0, l}
Chosen ==
  /\ inner \in [1 .. NoRows -> RowsChosen] /\ Range(inner) = RowsChosen
  /\ NoRows = l => A[0] = [j \in Rows |-> A_in[inner[j]]]


(* What the phase of party r says of its part in the dense protocol and in *)
(* the zero sharing.                                                       *)
PartOf(r) ==
  /\ phase[r] = "start" => Idle(r)
  /\ phase[r] = "dense" => pc[r] # "done" /\ NoRows # 0
  /\ phase[r] = "zero" => pc[r] = "done" /\ NoRows # 0 /\ zpc[RD!Side(r)] # "done"
  /\ phase[r] = "returned" =>
       IF NoRows = 0 THEN Idle(r) ELSE pc[r] = "done" /\ zpc[RD!Side(r)] = "done"

(* Role 0 has sent k_A, which role 1 has not read: what role 0 has sent of *)
(* the first chunk is behind it, and it waits for role 1.                  *)
SizeUnread == ~given /\ phase[1] = "start" /\ phase[0] # "start"
Ahead ==
  /\ LocalInv
  /\ pc[0] \in {"start", "threw", "mask", "send1", "recv1"} /\ i[0] = 0
  /\ chan[0] = <<>>
  /\ chan[1] = IF pc[0] = "recv1" THEN <<NoRows, E[0]>> ELSE <<NoRows>>
OnChan == TwoChannels /\ IF SizeUnread THEN Ahead ELSE IInv

(* Who has begun the zero sharing is past the dense protocol, and neither  *)
(* party gets past a message the other has not sent.                       *)
Sharing == {"zero", "returned"}
Entered ==
  /\ zpc["server"] # "choose" => phase[0] \in Sharing /\ NoRows # 0
  /\ zpc["client"] # "draw" => phase[1] \in Sharing /\ NoRows # 0
InStep ==
  /\ zpc["client"] \in {"draw", "ot"} => zpc["server"] \in {"choose", "ot"}
  /\ zpc["client"] \in {"yao", "done"} => zpc["server"] # "choose"
  /\ zpc["client"] = "done" => zpc["server"] \in {"yao", "done"}

(* The messages of the zero sharing on their way.                          *)
ToServer ==
  IF zpc["client"] \in {"draw", "ot"} \/ zpc["server"] = "done" THEN <<>>
  ELSE IF zpc["server"] = "ot" THEN <<TransferMessage, CircuitMessage>> ELSE <<CircuitMessage>>
ToClient ==
  IF zpc["client"] \in {"draw", "ot"}
    THEN IF zpc["server"] = "choose" THEN <<>> ELSE <<TransferMessage>>
  ELSE IF zpc["client"] = "yao" /\ zpc["server"] \in {"yao", "done"} THEN <<CircuitMessage>> ELSE <<>>
OnZero ==
  zchan = [r \in Roles |-> zchan[r]] /\ zchan[0] = ToServer /\ zchan[1] = ToClient

(* What the server has of it.                                              *)
Begun ==
  /\ zpc["server"] \in {"choose", "ot"} /\ ot = <<>> /\ t = <<>>
  /\ zpc["client"] = "draw" => s = [r \in Roles |-> [x \in 1 .. n |-> Zero]]
Transferred ==
  /\ zpc["server"] = "unpack"
  /\ ot = [x \in 1 .. n |-> IF x \in Range(inner) THEN RD!ZS!opt1(x) ELSE RD!ZS!opt0(x)]
  /\ t = <<>>
Unpacked ==
  /\ zpc["server"] = "yao"
  /\ DOMAIN ot = 1 .. n
  /\ t = [m \in DOMAIN inner |-> RD!ZS!opt1(inner[m]).c]
  /\ \A x \in 1 .. n : x \notin Range(inner) => s[0][x] = Minus(Zero, s[1][x])
Completed ==
  /\ zpc["server"] = "done"
  /\ DOMAIN ot = 1 .. n /\ DOMAIN t = DOMAIN inner
  /\ \A x \in 1 .. n : Plus(s[0][x], s[1][x]) = Times(A_in[x], B[1])
Stages == Begun \/ Transferred \/ Unpacked \/ Completed

ZeroInv == DOMAIN zpc = {"server", "client"} /\ Entered /\ InStep /\ OnZero /\ Stages

RInv ==
  /\ TypeOK /\ RD!RTypeOK /\ ~is_shared /\ SizeFits
  /\ IF phase[0] = "start" THEN inner = <<>> ELSE Chosen
  /\ \A r \in Roles : PartOf(r)
  /\ ~given /\ phase[0] = "start" => phase[1] = "start"
  /\ OnChan /\ ZeroInv

LEMMA RowsFacts ==
  ASSUME RD!RowsDenseParameters, A_in \in RowAIns, given \in BOOLEAN, SizeFits
  PROVE  /\ n \in Nat /\ A_in \in [1 .. n -> T]
         /\ RD!Nonzero \subseteq RowsChosen
         /\ RowsChosen \in SUBSET (1 .. n) /\ IsFiniteSet(RowsChosen)
         /\ NoRows \in {0, l} /\ (given => NoRows = l)
<1>1. n \in Nat /\ A_in \in [1 .. n -> T] /\ RD!Nonzero \in SUBSET (1 .. n)
  BY DEF RD!RowsDenseParameters, RD!Nonzero
<1>2. IsFiniteSet(1 .. n)
  BY <1>1, FS_Interval
<1>3. CASE given
  <2>1. Cardinality(RD!Nonzero) <= l
    BY <1>3, Sizes DEF SizeFits
  <2>2. /\ RD!Nonzero \subseteq RowsChosen /\ RowsChosen \in SUBSET (1 .. n)
        /\ Cardinality(RowsChosen) = l
    BY <1>1, <1>3, <2>1, ExtendedFacts DEF RowsChosen
  <2> QED
    BY <1>1, <1>2, <2>2, FS_Subset DEF NoRows
<1>4. CASE ~given
  <2>1. RowsChosen = RD!Nonzero /\ Cardinality(RD!Nonzero) \in {0, l}
    BY <1>4 DEF RowsChosen, SizeFits
  <2> QED
    BY <1>1, <1>2, <1>4, <2>1, FS_Subset DEF NoRows
<1> QED
  BY <1>3, <1>4

(* The orders of the rows that Indices may choose.                         *)
LEMMA RowOrderFacts ==
  ASSUME RD!RowsDenseParameters, A_in \in RowAIns, given \in BOOLEAN, SizeFits,
         NEW order \in [1 .. NoRows -> RowsChosen], Range(order) = RowsChosen
  PROVE  /\ order \in Seq(1 .. n) /\ DOMAIN order = 1 .. NoRows /\ NoRows \in Nat
         /\ NoRows = l => [j \in Rows |-> A_in[order[j]]] \in [Rows -> T]
<1>1. /\ A_in \in [1 .. n -> T] /\ RowsChosen \in SUBSET (1 .. n) /\ IsFiniteSet(RowsChosen)
  BY RowsFacts
<1>2. order \in Seq(RowsChosen) /\ DOMAIN order = 1 .. NoRows /\ NoRows \in Nat
  BY <1>1, OrderFacts DEF NoRows
<1>3. order \in Seq(1 .. n)
  <2>1. order \in [1 .. NoRows -> 1 .. n]
    BY <1>1
  <2>2. NoRows \in Nat
    BY <1>2
  <2> QED
    BY <2>1, <2>2, OrderIn
<1>4. ASSUME NoRows = l, NEW j \in Rows PROVE A_in[order[j]] \in T
  <2>1. order[j] \in 1 .. n
    BY <1>1, <1>4 DEF Rows
  <2> QED
    BY <1>1, <2>1
<1> QED
  BY <1>2, <1>3, <1>4

(* What stays as long as A_in and the size do.                             *)
LEMMA RowsKept ==
  ASSUME UNCHANGED <<A_in, given>>
  PROVE  /\ RowsChosen' = RowsChosen /\ NoRows' = NoRows /\ (SizeFits' <=> SizeFits)
         /\ UNCHANGED <<A, inner>> => (Chosen' <=> Chosen)
<1>1. RD!Nonzero' = RD!Nonzero
  BY DEF RD!Nonzero
<1>2. RowsChosen' = RowsChosen
  BY <1>1 DEF RowsChosen, RD!Extended
<1> QED
  BY <1>1, <1>2 DEF NoRows, SizeFits, Chosen

(* A step that is not of the zero sharing leaves it as it is.              *)
LEMMA ZeroKept ==
  ASSUME ZeroInv, UNCHANGED <<A_in, given, zpc, s, ot, t, zchan>>, B' = B,
         inner' = inner \/ zpc["server"] = "choose",
         \A r \in Roles : phase[r] \in Sharing => phase'[r] = phase[r]
  PROVE  ZeroInv'
<1>1. NoRows' = NoRows
  BY RowsKept
<1>2. Entered'
  <2>1. 0 \in Roles /\ 1 \in Roles
    BY DEF Roles
  <2> QED
    BY <1>1, <2>1 DEF ZeroInv, Entered
<1>3. InStep' /\ OnZero'
  BY DEF ZeroInv, InStep, OnZero, ToServer, ToClient
<1>4. Stages'
  <2>1. CASE Begun
    <3>1. Begun'
      BY <2>1 DEF Begun
    <3> QED
      BY <3>1 DEF Stages
  <2>2. CASE Transferred
    <3>1. inner' = inner
      BY <2>2 DEF Transferred
    <3>2. Transferred'
      BY <2>2, <3>1 DEF Transferred, RD!ZS!opt0, RD!ZS!opt1
    <3> QED
      BY <3>2 DEF Stages
  <2>3. CASE Unpacked
    <3>1. inner' = inner
      BY <2>3 DEF Unpacked
    <3>2. Unpacked'
      BY <2>3, <3>1 DEF Unpacked, RD!ZS!opt1
    <3> QED
      BY <3>2 DEF Stages
  <2>4. CASE Completed
    <3>1. inner' = inner
      BY <2>4 DEF Completed
    <3>2. Completed'
      BY <2>4, <3>1 DEF Completed
    <3> QED
      BY <3>2 DEF Stages
  <2> QED
    BY <2>1, <2>2, <2>3, <2>4 DEF ZeroInv, Stages
<1> QED
  BY <1>2, <1>3, <1>4 DEF ZeroInv

(* Who is not in the zero sharing has not begun it.                        *)
LEMMA NotEntered ==
  ASSUME ZeroInv, NEW r \in Roles, phase[r] \notin Sharing
  PROVE  /\ zpc[RD!Side(r)] # "done"
         /\ r = 0 => zpc["server"] = "choose" /\ ot = <<>> /\ t = <<>>
<1>1. r = 0 => zpc["server"] = "choose" /\ RD!Side(r) = "server"
  BY DEF ZeroInv, Entered, RD!Side
<1>2. r = 1 => zpc["client"] = "draw" /\ RD!Side(r) = "client"
  BY DEF ZeroInv, Entered, RD!Side
<1>3. r = 0 => Begun
  BY <1>1 DEF ZeroInv, Stages, Transferred, Unpacked, Completed
<1> QED
  BY <1>1, <1>2, <1>3 DEF Begun, Roles

LEMMA RowsInit == RD!RowsDenseParameters /\ RD!RInit => RInv
<1> SUFFICES ASSUME RD!RowsDenseParameters, RD!RInit PROVE RInv
  OBVIOUS
<1>1. TypeOK /\ Fresh /\ ChannelsEmpty /\ IInv
  BY InitFresh, InitInv, SameInit DEF RD!RInit
<1>2. /\ ~is_shared /\ A_in \in RowAIns /\ given \in BOOLEAN /\ inner = <<>>
      /\ phase = [r \in Roles |-> "start"]
  BY SameConstants DEF RD!RInit
<1>3. SizeFits
  BY SameSets DEF RD!RInit, SizeFits
<1>4. /\ zpc = [server |-> "choose", client |-> "draw"] /\ ot = <<>> /\ t = <<>>
      /\ s = [r \in Roles |-> [x \in 1 .. n |-> Zero]]
      /\ zchan = [r \in Roles |-> <<>>]
  BY SameConstants DEF RD!RInit, RD!ZS!ZInit, RD!ZS!Places, Roles
<1>z. ZeroInv
  <2>1. DOMAIN zpc = {"server", "client"} /\ zpc["server"] = "choose" /\ zpc["client"] = "draw"
    BY <1>4
  <2>2. Entered /\ InStep /\ Stages
    BY <1>4, <2>1 DEF Entered, InStep, Stages, Begun
  <2>3. ToServer = <<>> /\ ToClient = <<>>
    BY <2>1 DEF ToServer, ToClient
  <2>4. OnZero
    BY <1>4, <2>3 DEF OnZero, Roles
  <2> QED
    BY <2>1, <2>2, <2>4 DEF ZeroInv
<1>5. RD!RTypeOK
  <2>1. inner \in Seq(1 .. n)
    BY <1>2
  <2>2. s \in [Roles -> [1 .. n -> T]]
    BY <1>4, RingClosed
  <2>3. DOMAIN ot = {} /\ DOMAIN t = {}
    BY <1>4
  <2> QED
    BY <1>2, <1>4, <2>1, <2>2, <2>3, SameConstants DEF RD!RTypeOK
<1>6. TwoChannels
  BY <1>1, InvChannels
<1>7. \A r \in Roles : phase[r] = "start" /\ Idle(r)
  BY <1>1, <1>2 DEF Fresh, Idle
<1>8. \A r \in Roles : PartOf(r)
  BY <1>7 DEF PartOf
<1>9. phase[0] = "start" /\ phase[1] = "start"
  BY <1>7 DEF Roles
<1>10. ~SizeUnread
  BY <1>9 DEF SizeUnread
<1> QED
  BY <1>1, <1>2, <1>3, <1>z, <1>5, <1>6, <1>8, <1>9, <1>10 DEF RInv, OnChan

LEMMA RowsIndices == RD!RowsDenseParameters /\ RInv /\ RD!Indices => RInv'
<1> SUFFICES ASSUME RD!RowsDenseParameters, RInv, RD!Indices PROVE RInv'
  OBVIOUS
<1>1. /\ TypeOK /\ RD!RTypeOK /\ ~is_shared /\ OnChan /\ TwoChannels /\ SizeFits
      /\ A_in \in RowAIns /\ given \in BOOLEAN /\ phase[0] = "start"
      /\ phase \in [Roles -> {"start", "dense", "zero", "returned"}]
      /\ UNCHANGED <<is_shared, B, dim, pc, i, made, taken, E, F, first, result,
                     A_in, given, zpc, s, ot, t, zchan>>
      /\ ZeroInv
  BY SameConstants DEF RInv, OnChan, RD!RTypeOK, RD!Indices, RD!zvars
<1>2. 0 \in Roles /\ 1 \in Roles /\ Roles = {0, 1} /\ Other(0) = 1
  BY DEF Roles, Other
<1>3. PICK order \in [1 .. NoRows -> RowsChosen] :
        /\ Range(order) = RowsChosen
        /\ inner' = order
        /\ A' = IF NoRows = l THEN [A EXCEPT ![0] = [j \in Rows |-> A_in[order[j]]]] ELSE A
  <2>1. \E order \in [1 .. RD!Cardinality(RowsChosen) -> RowsChosen] :
          /\ RD!Range(order) = RowsChosen
          /\ inner' = order
          /\ A' = IF RD!Cardinality(RowsChosen) = l
                   THEN [A EXCEPT ![0] = [j \in RD!Rows |-> A_in[order[j]]]] ELSE A
    BY DEF RD!Indices, RowsChosen
  <2>2. RD!Cardinality(RowsChosen) = NoRows /\ RD!Rows = Rows
    BY SameConstants, SameSets DEF NoRows
  <2>3. PICK order \in [1 .. NoRows -> RowsChosen] :
          /\ RD!Range(order) = RowsChosen
          /\ inner' = order
          /\ A' = IF NoRows = l THEN [A EXCEPT ![0] = [j \in Rows |-> A_in[order[j]]]] ELSE A
    BY <2>1, <2>2
  <2>4. Range(order) = RowsChosen
    BY <2>3, SameSets
  <2> QED
    BY <2>3, <2>4
<1>4. /\ phase' = [phase EXCEPT ![0] = IF NoRows = 0 THEN "returned" ELSE "dense"]
      /\ IF given THEN chan' = chan ELSE Send(0, NoRows)
  <2>1. RD!Cardinality(RowsChosen) = NoRows
    BY SameSets DEF NoRows
  <2>2. /\ phase' = [phase EXCEPT ![0] = IF RD!Cardinality(RowsChosen) = 0 THEN "returned" ELSE "dense"]
        /\ IF given THEN chan' = chan ELSE RD!Send(0, RD!Cardinality(RowsChosen))
    BY DEF RD!Indices, RD!SendSize, RowsChosen
  <2> QED
    BY <2>1, <2>2, SameChannel
<1>5. /\ NoRows \in {0, l} /\ (given => NoRows = l)
      /\ order \in Seq(1 .. n) /\ DOMAIN order = 1 .. NoRows /\ NoRows \in Nat
      /\ NoRows = l => [j \in Rows |-> A_in[order[j]]] \in [Rows -> T]
  <2>1. NoRows \in {0, l} /\ (given => NoRows = l)
    BY <1>1, RowsFacts
  <2> QED
    BY <1>1, <1>3, <2>1, RowOrderFacts
<1>6. /\ A' \in [Roles -> [Rows -> T]] /\ A'[1] = A[1]
      /\ NoRows = l => A'[0] = [j \in Rows |-> A_in[order[j]]]
  BY <1>1, <1>2, <1>3, <1>5 DEF TypeOK
<1>7. /\ RowsChosen' = RowsChosen /\ NoRows' = NoRows /\ SizeFits'
  BY <1>1, RowsKept
<1>8. Chosen'
  BY <1>1, <1>3, <1>6, <1>7 DEF Chosen
<1>9. /\ phase' \in [Roles -> {"start", "dense", "zero", "returned"}]
      /\ phase'[0] = IF NoRows = 0 THEN "returned" ELSE "dense"
      /\ phase'[1] = phase[1]
  BY <1>1, <1>2, <1>4
<1>10. Idle(0) /\ Idle(0)'
  <2>1. Idle(0)
    BY <1>1, <1>2 DEF RInv, PartOf
  <2> QED
    BY <1>1, <2>1 DEF Idle
<1>11. PartOf(0)' /\ PartOf(1)'
  <2>1. PartOf(1)
    BY <1>2 DEF RInv
  <2>2. PartOf(1)'
    BY <1>1, <1>7, <1>9, <2>1 DEF PartOf, Idle, RD!Side
  <2>3. PartOf(0)'
    BY <1>7, <1>9, <1>10 DEF PartOf, Idle
  <2> QED
    BY <2>2, <2>3
<1>12. IInv /\ chan[1] = <<>>
  <2>1. IInv
    BY <1>1 DEF OnChan, SizeUnread
  <2> QED
    BY <1>2, <1>10, <2>1, NothingSent
<1>13. (IF SizeUnread THEN Ahead ELSE IInv)' /\ TwoChannels' /\ TypeOK'
  <2>1. CASE given
    <3>1. chan' = chan
      BY <1>4, <2>1
    <3>2. IInv'
      BY <1>1, <1>2, <1>6, <1>10, <1>12, <3>1, ArgumentSet DEF TypeOK
    <3>3. ~SizeUnread'
      BY <1>1, <2>1 DEF SizeUnread
    <3> QED
      BY <1>1, <3>1, <3>2, <3>3 DEF TwoChannels, IInv, LocalInv
  <2>2. CASE ~given
    <3>1. phase[1] = "start" /\ Idle(1)
      BY <1>1, <1>2, <2>2 DEF RInv, PartOf
    <3>2. chan[0] = <<>>
      BY <1>2, <1>12, <3>1, NothingSent DEF Other
    <3>3. chan'[0] = <<>> /\ chan'[1] = <<NoRows>> /\ TwoChannels'
      <4>1. chan' = [chan EXCEPT ![1] = Append(@, NoRows)]
        BY <1>2, <1>4, <2>2 DEF Send
      <4>2. chan = [r \in Roles |-> chan[r]]
        BY <1>1 DEF TwoChannels
      <4>3. Append(chan[1], NoRows) = <<NoRows>>
        BY <1>12
      <4>4. chan'[0] = <<>> /\ chan'[1] = <<NoRows>>
        BY <1>2, <3>2, <4>1, <4>2, <4>3
      <4> QED
        BY <4>1, <4>2, <4>4 DEF TwoChannels
    <3>4. TypeOK'
      BY <1>1, <1>6 DEF TypeOK
    <3>5. Fresh'
      <4>1. \A r \in Roles : Idle(r)
        BY <1>2, <1>10, <3>1
      <4> QED
        BY <1>1, <4>1 DEF Fresh, Idle
    <3>6. LocalInv'
      BY <3>4, <3>5, FreshLocal, PTL
    <3>7. Ahead'
      <4>1. pc'[0] = "start" /\ i'[0] = 0
        BY <1>10 DEF Idle
      <4> QED
        BY <1>7, <3>3, <3>6, <4>1 DEF Ahead
    <3>8. SizeUnread'
      BY <1>1, <1>9, <2>2, <3>1 DEF SizeUnread
    <3> QED
      BY <3>3, <3>4, <3>7, <3>8
  <2> QED
    BY <2>1, <2>2
<1>14. phase'[0] # "start"
  BY <1>9
<1>15. t' = <<>> /\ DOMAIN ot' = {}
  BY <1>1, <1>2, NotEntered DEF Sharing
<1>z. ZeroInv'
  <2>1. zpc["server"] = "choose"
    BY <1>1, <1>2, NotEntered DEF Sharing
  <2>2. \A r \in Roles : phase[r] \in Sharing => phase'[r] = phase[r]
    BY <1>1, <1>2, <1>9 DEF Sharing
  <2> QED
    BY <1>1, <2>1, <2>2, ZeroKept
<1>16. RD!RTypeOK'
  <2>1. /\ A_in' \in RowAIns /\ given' \in BOOLEAN /\ inner' \in Seq(1 .. n)
        /\ s' \in [Roles -> [1 .. n -> T]]
        /\ zpc'["server"] \in {"choose", "ot", "unpack", "yao", "done"}
        /\ zpc'["client"] \in {"draw", "ot", "yao", "done"}
        /\ DOMAIN ot' \in {{}, 1 .. n} /\ DOMAIN t' \in {{}, DOMAIN inner'}
    BY <1>1, <1>3, <1>5, <1>15, SameConstants DEF RD!RTypeOK
  <2> QED
    BY <1>9, <2>1, SameConstants DEF RD!RTypeOK
<1>17. ~is_shared'
  BY <1>1
<1> QED
  BY <1>2, <1>7, <1>8, <1>11, <1>13, <1>14, <1>z, <1>16, <1>17 DEF RInv, OnChan

(* Role 1 reads k_A: what is behind it is what the dense protocol expects. *)
LEMMA SizeTaken ==
  ASSUME Ahead, ~is_shared, TwoChannels, Idle(1), Receive(1),
         UNCHANGED <<args, pc, i, made, taken, E, F, first, result>>
  PROVE  IInv'
<1>1. 0 \in Roles /\ 1 \in Roles /\ Other(0) = 1 /\ Other(1) = 0 /\ Roles = {0, 1}
  BY DEF Roles, Other
<1>2. /\ LocalInv /\ pc[0] \in {"start", "threw", "mask", "send1", "recv1"} /\ i[0] = 0
      /\ chan[0] = <<>>
      /\ chan[1] = IF pc[0] = "recv1" THEN <<NoRows, E[0]>> ELSE <<NoRows>>
  BY DEF Ahead
<1>3. chan'[0] = <<>> /\ chan'[1] = IF pc[0] = "recv1" THEN <<E[0]>> ELSE <<>>
  <2>1. chan = [r \in Roles |-> chan[r]] /\ chan' = [chan EXCEPT ![1] = Tail(@)]
    BY DEF TwoChannels, Receive
  <2>2. chan'[0] = <<>> /\ chan'[1] = Tail(chan[1])
    BY <1>1, <1>2, <2>1
  <2>3. Tail(<<NoRows, E[0]>>) = <<E[0]>> /\ Tail(<<NoRows>>) = <<>>
    OBVIOUS
  <2> QED
    BY <1>2, <2>2, <2>3
<1>4. E[0] \in [TripleRows -> T] /\ LocalInv /\ TypeOK
  BY <1>1, <1>2 DEF LocalInv, TypeOK
<1>5. chan' \in [Roles -> Messages]
  <2>1. <<E[0]>> \in Messages /\ <<>> \in Messages
    BY <1>4 DEF Messages
  <2>2. chan' = [r \in Roles |-> chan'[r]]
    BY DEF TwoChannels, Receive
  <2> QED
    BY <1>1, <1>3, <2>1, <2>2
<1>6. /\ LocalInv'
      /\ \A r \in Roles : Sent(r)' = Sent(r) /\ Read(r)' = Read(r)
  <2>1. \A p \in Roles : /\ Progress(p)' /\ OfChunk(p)' /\ Finished(p)'
                         /\ Sent(p)' = Sent(p) /\ Read(p)' = Read(p)
    BY <1>4, OtherKept
  <2>2. TypeOK'
    BY <1>4 DEF TypeOK, args
  <2> QED
    BY <2>1, <2>2 DEF LocalInv
<1>7. /\ Sent(1) = 0 /\ Read(1) = 0 /\ Read(0) = 0
      /\ Sent(0) = IF pc[0] = "recv1" THEN 1 ELSE 0
  BY <1>2 DEF Idle, Sent, Read, Before
<1>8. InOrder(0)'
  BY <1>1, <1>3, <1>6, <1>7 DEF InOrder
<1>9. pc[0] = "recv1" => IsMessage(0, 0, E[0])
  <2> SUFFICES ASSUME pc[0] = "recv1" PROVE IsMessage(0, 0, E[0])
    OBVIOUS
  <2>1. IsMasked(0, 0, E[0])
    BY <1>1, <1>2 DEF LocalInv, OfChunk, InChunk
  <2>2. 0 \in 0 .. Supply - 1
    BY <1>1, <1>2, ChunkFacts DEF InChunk
  <2>3. ChunkNo(0) = 0 /\ ~IsSecond(0)
    BY DEF ChunkNo, IsSecond
  <2> QED
    BY <2>1, <2>2, <2>3 DEF IsMessage
<1>10. InOrder(1)'
  <2>1. CASE pc[0] = "recv1"
    <3>1. chan'[1] = <<E[0]>> /\ Sent(0)' = 1 /\ Read(1)' = 0
      BY <1>1, <1>3, <1>6, <1>7, <2>1
    <3>2. IsMessage(0, 0, E[0])'
      BY <1>9, <2>1, ArgsKept
    <3>3. Len(chan'[1]) = 1 /\ chan'[1][1] = E'[0]
      BY <3>1
    <3> QED
      BY <1>1, <3>1, <3>2, <3>3 DEF InOrder
  <2>2. CASE pc[0] # "recv1"
    <3>1. chan'[1] = <<>> /\ Sent(0)' = 0 /\ Read(1)' = 0
      BY <1>1, <1>3, <1>6, <1>7, <2>2
    <3> QED
      BY <1>1, <3>1 DEF InOrder
  <2> QED
    BY <2>1, <2>2
<1> QED
  BY <1>1, <1>5, <1>6, <1>8, <1>10 DEF IInv

LEMMA RowsRecvK == RD!RowsDenseParameters /\ RInv /\ RD!RecvK => RInv'
<1> SUFFICES ASSUME RD!RowsDenseParameters, RInv, RD!RecvK PROVE RInv'
  OBVIOUS
<1>1. /\ TypeOK /\ RD!RTypeOK /\ ~is_shared /\ OnChan /\ TwoChannels /\ SizeFits
      /\ A_in \in RowAIns /\ given \in BOOLEAN /\ phase[1] = "start"
      /\ phase \in [Roles -> {"start", "dense", "zero", "returned"}]
      /\ UNCHANGED <<args, pc, i, made, taken, E, F, first, result, A_in, given,
                     inner, zpc, s, ot, t, zchan>>
      /\ ZeroInv
      /\ given \/ chan[1] # <<>>
      /\ IF given THEN chan' = chan ELSE Receive(1)
  BY SameConstants, SameChannel DEF RInv, OnChan, RD!RTypeOK, RD!RecvK, RD!args, args, RD!zvars
<1>2. 0 \in Roles /\ 1 \in Roles /\ Roles = {0, 1} /\ Other(0) = 1
  BY DEF Roles, Other
<1>3. Idle(1)
  BY <1>1, <1>2 DEF RInv, PartOf
<1>4. IF given THEN IInv ELSE Ahead /\ phase[0] # "start"
  <2>1. CASE given
    BY <1>1, <2>1 DEF OnChan, SizeUnread
  <2>2. CASE ~given
    <3>1. phase[0] # "start"
      <4> SUFFICES ASSUME phase[0] = "start" PROVE FALSE
        OBVIOUS
      <4>1. IInv /\ Idle(0)
        BY <1>1, <1>2 DEF RInv, OnChan, SizeUnread, PartOf
      <4> QED
        BY <1>1, <1>2, <2>2, <4>1, NothingSent
    <3> QED
      BY <1>1, <2>2, <3>1 DEF OnChan, SizeUnread
  <2> QED
    BY <2>1, <2>2
<1>5. phase' = [phase EXCEPT ![1] = IF NoRows = 0 THEN "returned" ELSE "dense"]
  <2>1. given => l = NoRows
    BY <1>1, RowsFacts
  <2>2. ~given => Head(chan[1]) = NoRows
    <3>1. Head(<<NoRows, E[0]>>) = NoRows /\ Head(<<NoRows>>) = NoRows
      OBVIOUS
    <3> QED
      BY <1>4, <3>1 DEF Ahead
  <2> QED
    BY <2>1, <2>2 DEF RD!RecvK
<1>6. IInv' /\ TwoChannels'
  <2>1. CASE given
    <3>1. IInv'
      BY <1>1, <1>4, <2>1, NextInv DEF vars, args
    <3> QED
      BY <1>1, <2>1, <3>1 DEF TwoChannels
  <2>2. CASE ~given
    <3>1. IInv'
      BY <1>1, <1>3, <1>4, <2>2, SizeTaken
    <3>2. TwoChannels'
      BY <1>1, <2>2 DEF TwoChannels, Receive
    <3> QED
      BY <3>1, <3>2
  <2> QED
    BY <2>1, <2>2
<1>7. NoRows' = NoRows /\ SizeFits' /\ (Chosen' <=> Chosen)
  BY <1>1, RowsKept DEF args
<1>8. /\ phase' \in [Roles -> {"start", "dense", "zero", "returned"}]
      /\ phase'[1] = IF NoRows = 0 THEN "returned" ELSE "dense"
      /\ phase'[0] = phase[0]
  BY <1>1, <1>2, <1>5
<1>9. PartOf(0)' /\ PartOf(1)'
  <2>1. PartOf(0)
    BY <1>2 DEF RInv
  <2>2. PartOf(0)'
    BY <1>1, <1>7, <1>8, <2>1 DEF PartOf, Idle, RD!Side
  <2>3. PartOf(1)'
    BY <1>1, <1>3, <1>7, <1>8 DEF PartOf, Idle
  <2> QED
    BY <2>2, <2>3
<1>10. ZeroInv'
  <2>1. \A r \in Roles : phase[r] \in Sharing => phase'[r] = phase[r]
    BY <1>1, <1>2, <1>8 DEF Sharing
  <2> QED
    BY <1>1, <2>1, ZeroKept DEF args
<1>11. RD!RTypeOK'
  BY <1>1, <1>8, SameConstants DEF RD!RTypeOK
<1>12. TypeOK' /\ ~SizeUnread'
  BY <1>6, <1>8 DEF IInv, LocalInv, SizeUnread
<1>13. /\ IF phase'[0] = "start" THEN inner' = <<>> ELSE Chosen'
       /\ ~is_shared'
       /\ ~given' /\ phase'[0] = "start" => phase'[1] = "start"
  BY <1>1, <1>4, <1>7, <1>8 DEF RInv, args
<1> QED
  BY <1>2, <1>6, <1>7, <1>9, <1>10, <1>11, <1>12, <1>13 DEF RInv, OnChan

(* Role 0 in its first chunk, with k_A unread: it gets no further than the *)
(* message it waits for.                                                   *)
LEMMA AheadKept ==
  ASSUME Ahead, ~is_shared, TwoChannels, l # 0, Party(0), UNCHANGED <<A_in, given>>
  PROVE  Ahead' /\ pc'[0] # "done" /\ TwoChannels'
<1>1. 0 \in Roles /\ 1 \in Roles /\ Other(0) = 1 /\ Roles = {0, 1}
  BY DEF Roles, Other
<1>2. /\ LocalInv /\ pc[0] \in {"start", "threw", "mask", "send1", "recv1"} /\ i[0] = 0
      /\ chan[0] = <<>>
      /\ chan[1] = IF pc[0] = "recv1" THEN <<NoRows, E[0]>> ELSE <<NoRows>>
      /\ pc \in [Roles -> PCs] /\ E \in [Roles -> [TripleRows -> T]]
  BY DEF Ahead, LocalInv, TypeOK, PCs
<1>3. NoRows' = NoRows
  BY RowsKept
<1>4. CASE Start(0)
  <2>1. /\ pc[0] = "start" /\ UNCHANGED <<i, E, chan>>
        /\ pc' = [pc EXCEPT ![0] = IF dim[0] # chunk_size THEN "threw" ELSE "mask"]
    BY <1>4 DEF Start
  <2>2. pc'[0] \in {"threw", "mask"}
    BY <1>1, <1>2, <2>1
  <2>3. LocalInv'
    BY <1>1, <1>2, <1>4, StartLocal
  <2> QED
    BY <1>2, <1>3, <2>1, <2>2, <2>3 DEF Ahead, TwoChannels
<1>5. CASE Mask(0)
  <2>1. /\ pc[0] = "mask" /\ UNCHANGED <<i, chan>> /\ pc' = [pc EXCEPT ![0] = "send1"]
    BY <1>5 DEF Mask
  <2>2. pc'[0] = "send1"
    BY <1>1, <1>2, <2>1
  <2>3. LocalInv'
    BY <1>1, <1>2, <1>5, MaskLocal
  <2> QED
    BY <1>2, <1>3, <2>1, <2>2, <2>3 DEF Ahead, TwoChannels
<1>6. CASE Send1(0)
  <2>1. /\ pc[0] = "send1" /\ UNCHANGED <<i, E>> /\ pc' = [pc EXCEPT ![0] = "recv1"]
        /\ chan' = [chan EXCEPT ![1] = Append(@, E[0])]
    BY <1>1, <1>6 DEF Send1, Send
  <2>2. pc'[0] = "recv1"
    BY <1>1, <1>2, <2>1
  <2>3. LocalInv'
    BY <1>1, <1>2, <1>6, Send1Local
  <2>4. chan = [r \in Roles |-> chan[r]]
    BY DEF TwoChannels
  <2>5. Append(<<NoRows>>, E[0]) = <<NoRows, E[0]>>
    BY AppendTwo
  <2>6. chan'[0] = <<>> /\ chan'[1] = <<NoRows, E[0]>>
    BY <1>1, <1>2, <2>1, <2>4, <2>5
  <2> QED
    BY <1>2, <1>3, <2>1, <2>2, <2>3, <2>6 DEF Ahead, TwoChannels
<1>7. ~Recv1(0) /\ ~Send2(0) /\ ~Recv2(0) /\ ~Combine(0)
  BY <1>2 DEF Recv1, Send2, Recv2, Combine
<1> QED
  BY <1>4, <1>5, <1>6, <1>7 DEF Party

LEMMA RowsDenseStep == RD!RowsDenseParameters =>
  \A r \in Roles : RInv /\ RD!Dense(r) => RInv'
<1> SUFFICES ASSUME RD!RowsDenseParameters, NEW r \in Roles, RInv, RD!Dense(r) PROVE RInv'
  OBVIOUS
<1>1. /\ TypeOK /\ RD!RTypeOK /\ ~is_shared /\ OnChan /\ ZeroInv /\ TwoChannels /\ SizeFits
      /\ A_in \in RowAIns /\ given \in BOOLEAN
      /\ phase \in [Roles -> {"start", "dense", "zero", "returned"}]
  BY SameConstants DEF RInv, OnChan, RD!RTypeOK
<1>2. /\ phase[r] = "dense" /\ Party(r)
      /\ phase' = [phase EXCEPT ![r] = IF pc'[r] = "done" THEN "zero" ELSE "dense"]
      /\ UNCHANGED <<A_in, given, inner, zpc, s, ot, t, zchan>>
  BY SameParty DEF RD!Dense, RD!zvars
<1>3. 0 \in Roles /\ 1 \in Roles /\ Roles = {0, 1}
  BY DEF Roles
<1>4. A' = A /\ B' = B /\ is_shared' = is_shared
  BY <1>2, PartyKeepsArgs
<1>5. PICK next : pc' = [pc EXCEPT ![r] = next]
  BY <1>2, PartyMoves
<1>6. /\ phase'[r] = IF pc'[r] = "done" THEN "zero" ELSE "dense"
      /\ phase' \in [Roles -> {"start", "dense", "zero", "returned"}]
      /\ \A p \in Roles \ {r} : phase'[p] = phase[p] /\ pc'[p] = pc[p]
  <2>1. pc \in [Roles -> PCs]
    BY <1>1 DEF TypeOK, PCs
  <2> QED
    BY <1>1, <1>2, <1>5, <2>1
<1>7. /\ NoRows' = NoRows /\ SizeFits' /\ (Chosen' <=> Chosen)
      /\ NoRows # 0 /\ NoRows \in {0, l}
  <2>1. NoRows # 0
    BY <1>2 DEF RInv, PartOf
  <2> QED
    BY <1>1, <1>2, <1>4, <2>1, RowsKept, RowsFacts
<1>8. SizeUnread' <=> SizeUnread
  BY <1>2, <1>3, <1>6 DEF SizeUnread
<1>9. (IF SizeUnread THEN Ahead ELSE IInv)' /\ TwoChannels' /\ TypeOK'
  <2>1. CASE SizeUnread
    <3>1. r = 0 /\ Ahead
      BY <1>1, <1>2, <1>3, <2>1 DEF SizeUnread, OnChan
    <3>2. Ahead' /\ TwoChannels'
      BY <1>1, <1>2, <1>7, <3>1, AheadKept
    <3> QED
      BY <1>8, <2>1, <3>2 DEF Ahead, LocalInv
  <2>2. CASE ~SizeUnread
    <3>1. IInv'
      BY <1>1, <1>2, <2>2, NextInv DEF OnChan, Next
    <3>2. TwoChannels'
      BY <3>1 DEF IInv, TwoChannels
    <3> QED
      BY <1>8, <2>2, <3>1, <3>2 DEF IInv, LocalInv
  <2> QED
    BY <2>1, <2>2
<1>10. \A p \in Roles \ {r} : i'[p] = i[p] /\ taken'[p] = taken[p]
  <2>1. i \in [Roles -> Nat] /\ taken \in [Roles -> 0 .. Supply]
    BY <1>1 DEF TypeOK
  <2> QED
    BY <1>2, <2>1 DEF Party, Start, Mask, Send1, Recv1, Send2, Recv2, Combine
<1>11. \A p \in Roles : PartOf(p)'
  <2> TAKE p \in Roles
  <2>1. CASE p = r
    <3>1. zpc[RD!Side(r)] # "done"
      BY <1>1, <1>2, NotEntered DEF Sharing
    <3> QED
      BY <1>2, <1>6, <1>7, <2>1, <3>1 DEF PartOf, RD!Side
  <2>2. CASE p # r
    <3>1. PartOf(p)
      BY DEF RInv
    <3> QED
      BY <1>2, <1>6, <1>7, <1>10, <2>2, <3>1 DEF PartOf, Idle, RD!Side
  <2> QED
    BY <2>1, <2>2
<1>12. ZeroInv'
  <2>1. \A p \in Roles : phase[p] \in Sharing => phase'[p] = phase[p]
    BY <1>2, <1>6 DEF Sharing
  <2> QED
    BY <1>1, <1>2, <1>4, <2>1, ZeroKept
<1>13. RD!RTypeOK'
  BY <1>1, <1>2, <1>6, SameConstants DEF RD!RTypeOK
<1>14. /\ IF phase'[0] = "start" THEN inner' = <<>> ELSE Chosen'
       /\ ~is_shared'
       /\ ~given' /\ phase'[0] = "start" => phase'[1] = "start"
  BY <1>1, <1>2, <1>3, <1>4, <1>6, <1>7 DEF RInv
<1> QED
  BY <1>7, <1>9, <1>11, <1>12, <1>13, <1>14 DEF RInv, OnChan

LEMMA RowsProvide == \A r \in Roles : RInv /\ RD!Provide(r) => RInv'
<1> SUFFICES ASSUME NEW r \in Roles, RInv, RD!Provide(r) PROVE RInv'
  OBVIOUS
<1>1. /\ Precompute(r) /\ UNCHANGED <<A_in, given, inner, phase, zpc, s, ot, t, zchan>>
      /\ UNCHANGED <<args, pc, i, taken, E, F, first, chan, result>>
  BY SamePrecompute DEF RD!Provide, Precompute, RD!zvars
<1>2. A' = A /\ B' = B /\ is_shared' = is_shared
  BY <1>1 DEF args
<1>3. NoRows' = NoRows /\ (SizeFits' <=> SizeFits) /\ (Chosen' <=> Chosen)
  BY <1>1, <1>2, RowsKept
<1>4. (IF SizeUnread THEN Ahead ELSE IInv)' /\ TypeOK'
  <2>1. SizeUnread' <=> SizeUnread
    BY <1>1 DEF SizeUnread
  <2>2. CASE SizeUnread
    <3>1. LocalInv'
      BY <1>1, <2>2, PrecomputeLocal DEF RInv, OnChan, Ahead
    <3>2. Ahead'
      BY <1>1, <1>3, <2>2, <3>1 DEF RInv, OnChan, Ahead
    <3> QED
      BY <2>1, <2>2, <3>1, <3>2 DEF LocalInv
  <2>3. CASE ~SizeUnread
    <3>1. IInv'
      BY <1>1, <2>3, PrecomputeStep DEF RInv, OnChan
    <3> QED
      BY <2>1, <2>3, <3>1 DEF IInv, LocalInv
  <2> QED
    BY <2>2, <2>3
<1>5. \A p \in Roles : PartOf(p)'
  BY <1>1, <1>3 DEF RInv, PartOf, Idle, RD!Side
<1>6. RD!RTypeOK'
  BY <1>1 DEF RInv, RD!RTypeOK
<1>7. ZeroInv'
  BY <1>1, <1>2, ZeroKept DEF RInv
<1> QED
  BY <1>1, <1>2, <1>3, <1>4, <1>5, <1>6, <1>7 DEF RInv, OnChan, TwoChannels

LEMMA ZeroTimes == \A b \in T : Times(Zero, b) = Zero
<1> SUFFICES ASSUME NEW b \in T PROVE Times(Zero, b) = Zero
  OBVIOUS
<1> DEFINE a == Times(Zero, b)
<1>1. Zero \in T /\ a \in T
  BY RingClosed
<1>2. a = Plus(a, a)
  <2>1. Plus(Zero, Zero) = Zero
    BY <1>1, RingGroup
  <2>2. Times(Plus(Zero, Zero), b) = Plus(a, a)
    BY <1>1, RingDistributes
  <2> QED
    BY <2>1, <2>2
<1> HIDE DEF a
<1>3. Minus(a, a) = a
  BY <1>1, <1>2, RingGroup
<1>4. Minus(a, a) = Zero
  <2>1. Plus(Zero, a) = a
    BY <1>1, RingGroup
  <2>2. Minus(Plus(Zero, a), a) = Zero
    BY <1>1, RingGroup
  <2> QED
    BY <2>1, <2>2
<1> QED
  BY <1>3, <1>4 DEF a

(* The channel while neither party of the dense protocol moves.            *)
LEMMA ChanKept ==
  ASSUME OnChan, TypeOK', UNCHANGED <<vars, A_in, given>>,
         phase'[0] = "start" <=> phase[0] = "start", phase'[1] = "start" <=> phase[1] = "start"
  PROVE  OnChan'
<1>1. /\ is_shared' = is_shared /\ A' = A /\ B' = B /\ dim' = dim /\ pc' = pc /\ i' = i
      /\ made' = made /\ taken' = taken /\ E' = E /\ F' = F /\ first' = first
      /\ chan' = chan /\ result' = result
  BY DEF vars
<1>2. SizeUnread' <=> SizeUnread
  BY DEF SizeUnread
<1>3. IInv => IInv'
  BY NextInv
<1>4. LocalInv => LocalInv'
  <2> SUFFICES ASSUME LocalInv PROVE LocalInv'
    OBVIOUS
  <2>1. \A p \in Roles : Progress(p)' /\ OfChunk(p)' /\ Finished(p)'
    BY <1>1, OtherKept DEF args
  <2> QED
    BY <2>1 DEF LocalInv
<1>5. Ahead => Ahead'
  BY <1>1, <1>4, RowsKept DEF Ahead
<1> QED
  BY <1>1, <1>2, <1>3, <1>5 DEF OnChan, TwoChannels

(* What a step of the zero sharing leaves alone, and what it has to do.    *)
ZeroMove(r) ==
  /\ phase[r] = "zero" /\ UNCHANGED <<vars, A_in, given, inner>>
  /\ phase' = [phase EXCEPT ![r] = IF zpc'[RD!Side(r)] = "done" THEN "returned" ELSE "zero"]

LEMMA SharingKeeps ==
  ASSUME RInv, NEW r \in Roles, ZeroMove(r)
  PROVE  /\ A' = A /\ B' = B /\ NoRows' = NoRows /\ SizeFits' /\ (Chosen' <=> Chosen)
         /\ TypeOK' /\ ~is_shared' /\ OnChan'
         /\ \A p \in Roles : pc'[p] = pc[p] /\ (Idle(p)' <=> Idle(p))
         /\ NoRows # 0 /\ pc[r] = "done"
         /\ phase'[r] = IF zpc'[RD!Side(r)] = "done" THEN "returned" ELSE "zero"
         /\ \A p \in Roles \ {r} : phase'[p] = phase[p]
         /\ phase' \in [Roles -> {"start", "dense", "zero", "returned"}]
         /\ (phase'[0] = "start" <=> phase[0] = "start")
         /\ (phase'[1] = "start" <=> phase[1] = "start")
<1>0. phase[r] = "zero" /\ UNCHANGED <<vars, A_in, given, inner>> /\ 0 \in Roles /\ 1 \in Roles
  BY DEF ZeroMove, Roles
<1>1. /\ A' = A /\ B' = B /\ is_shared' = is_shared /\ chan' = chan /\ dim' = dim /\ pc' = pc
      /\ i' = i /\ taken' = taken /\ made' = made /\ E' = E /\ F' = F /\ first' = first
      /\ result' = result
  BY <1>0 DEF vars
<1>2. NoRows' = NoRows /\ SizeFits' /\ (Chosen' <=> Chosen)
  BY <1>0, <1>1, RowsKept DEF RInv
<1>3. TypeOK'
  BY <1>1 DEF RInv, TypeOK
<1>4. /\ phase'[r] = IF zpc'[RD!Side(r)] = "done" THEN "returned" ELSE "zero"
      /\ \A p \in Roles \ {r} : phase'[p] = phase[p]
      /\ phase' \in [Roles -> {"start", "dense", "zero", "returned"}]
  <2>1. phase \in [Roles -> {"start", "dense", "zero", "returned"}]
    BY SameConstants DEF RInv, RD!RTypeOK
  <2> QED
    BY <1>0, <2>1 DEF ZeroMove
<1>5. /\ (phase'[0] = "start" <=> phase[0] = "start")
      /\ (phase'[1] = "start" <=> phase[1] = "start")
  <2>1. phase'[r] # "start" /\ phase[r] # "start"
    BY <1>0, <1>4
  <2>2. \A p \in Roles : (phase'[p] = "start" <=> phase[p] = "start")
    BY <1>4, <2>1
  <2> QED
    BY <1>0, <2>2
<1>6. OnChan'
  BY <1>0, <1>1, <1>2, <1>3, <1>5, ChanKept DEF RInv
<1>7. NoRows # 0 /\ pc[r] = "done"
  BY <1>0 DEF RInv, PartOf
<1> QED
  BY <1>1, <1>2, <1>3, <1>4, <1>5, <1>6, <1>7 DEF RInv, Idle

(* Such a step keeps the invariant if it keeps what is of the zero sharing.*)
LEMMA SharingStep ==
  ASSUME RInv, NEW r \in Roles, ZeroMove(r), RD!RTypeOK',
         \A p \in Roles \ {r} : zpc'[RD!Side(p)] = zpc[RD!Side(p)],
         DOMAIN zpc' = DOMAIN zpc, InStep', OnZero', Stages'
  PROVE  RInv'
<1>1. /\ NoRows' = NoRows /\ SizeFits' /\ (Chosen' <=> Chosen)
      /\ TypeOK' /\ ~is_shared' /\ OnChan'
      /\ \A p \in Roles : pc'[p] = pc[p] /\ (Idle(p)' <=> Idle(p))
      /\ NoRows # 0 /\ pc[r] = "done"
      /\ phase'[r] = IF zpc'[RD!Side(r)] = "done" THEN "returned" ELSE "zero"
      /\ \A p \in Roles \ {r} : phase'[p] = phase[p]
      /\ (phase'[0] = "start" <=> phase[0] = "start")
      /\ (phase'[1] = "start" <=> phase[1] = "start")
  BY SharingKeeps
<1>2. \A p \in Roles : PartOf(p)'
  <2> TAKE p \in Roles
  <2>1. CASE p = r
    BY <1>1, <2>1 DEF PartOf, RD!Side
  <2>2. CASE p # r
    <3>1. zpc'[RD!Side(p)] = zpc[RD!Side(p)] /\ PartOf(p)
      BY <2>2 DEF RInv
    <3> QED
      BY <1>1, <2>2, <3>1 DEF PartOf, RD!Side
  <2> QED
    BY <2>1, <2>2
<1>3. given' = given /\ inner' = inner
  BY DEF ZeroMove
<1>4. Entered'
  <2>1. \A p \in Roles : phase'[p] \in Sharing \/ zpc'[RD!Side(p)] = zpc[RD!Side(p)]
    BY <1>1 DEF Sharing
  <2>2. \A p \in Roles : phase[p] \in Sharing => phase'[p] \in Sharing
    BY <1>1 DEF Sharing
  <2>3. 0 \in Roles /\ 1 \in Roles /\ RD!Side(0) = "server" /\ RD!Side(1) = "client"
    BY DEF Roles, RD!Side
  <2>4. Entered
    BY DEF RInv, ZeroInv
  <2> QED
    BY <1>1, <2>1, <2>2, <2>3, <2>4 DEF Entered
<1>5. ZeroInv'
  BY <1>4 DEF RInv, ZeroInv
<1>6. /\ IF phase'[0] = "start" THEN inner' = <<>> ELSE Chosen'
      /\ ~given' /\ phase'[0] = "start" => phase'[1] = "start"
  BY <1>1, <1>3 DEF RInv
<1> QED
  BY <1>1, <1>2, <1>5, <1>6 DEF RInv

(* The zero sharing between two of its steps.                              *)
LEMMA ZeroState ==
  ASSUME RInv
  PROVE  /\ DOMAIN zpc = {"server", "client"}
         /\ zpc["server"] \in {"choose", "ot", "unpack", "yao", "done"}
         /\ zpc["client"] \in {"draw", "ot", "yao", "done"}
         /\ InStep /\ Stages /\ zchan = [r \in Roles |-> zchan[r]]
         /\ zchan[0] = ToServer /\ zchan[1] = ToClient
         /\ s \in [Roles -> [1 .. n -> T]]
         /\ DOMAIN ot \in {{}, 1 .. n} /\ DOMAIN t \in {{}, DOMAIN inner}
         /\ A_in \in RowAIns /\ given \in BOOLEAN /\ inner \in Seq(1 .. n)
         /\ 0 \in Roles /\ 1 \in Roles /\ Roles = {0, 1}
         /\ RD!Side(0) = "server" /\ RD!Side(1) = "client"
  BY SameConstants DEF RInv, ZeroInv, OnZero, RD!RTypeOK, Roles, RD!Side

LEMMA ZeroTypes ==
  ASSUME RInv, NEW r \in Roles, ZeroMove(r),
         zpc'["server"] \in {"choose", "ot", "unpack", "yao", "done"},
         zpc'["client"] \in {"draw", "ot", "yao", "done"},
         s' \in [Roles -> [1 .. n -> T]],
         DOMAIN ot' \in {{}, 1 .. n}, DOMAIN t' \in {{}, DOMAIN inner}
  PROVE  RD!RTypeOK'
<1>1. phase' \in [Roles -> {"start", "dense", "zero", "returned"}]
  BY SharingKeeps
<1>2. A_in' = A_in /\ given' = given /\ inner' = inner
  BY DEF ZeroMove
<1> QED
  BY <1>1, <1>2, ZeroState, SameConstants DEF RD!RTypeOK

LEMMA ZeroShareIs ==
  ASSUME NEW r \in Roles, RD!ZeroShare(r)
  PROVE  /\ ZeroMove(r)
         /\ r = 0 => RD!ZS!zero_sharing_server
         /\ r = 1 => RD!ZS!zero_sharing_client
<1>1. UNCHANGED <<vars, A_in, given, inner>>
  BY DEF RD!ZeroShare, RD!vars, vars
<1> QED
  BY <1>1 DEF RD!ZeroShare, ZeroMove

(* The client's last steps do not change what the server has.              *)
LEMMA StagesKept ==
  ASSUME Stages, UNCHANGED <<A_in, inner, B, s, ot, t>>,
         zpc'["server"] = zpc["server"], zpc'["client"] # "draw"
  PROVE  Stages'
<1>1. Begun => Begun'
  BY DEF Begun
<1>2. Transferred => Transferred'
  BY DEF Transferred, RD!ZS!opt0, RD!ZS!opt1
<1>3. Unpacked => Unpacked'
  BY DEF Unpacked, RD!ZS!opt1
<1>4. Completed => Completed'
  BY DEF Completed
<1> QED
  BY <1>1, <1>2, <1>3, <1>4 DEF Stages

(* The client draws its shares.                                            *)
LEMMA RowsDraw ==
  ASSUME RD!RowsDenseParameters, RInv, ZeroMove(1), RD!ZS!ClientDraw
  PROVE  RInv'
<1>1. /\ zpc["client"] = "draw" /\ zpc' = [zpc EXCEPT !["client"] = "ot"]
      /\ ot' = ot /\ t' = t /\ zchan' = zchan
  BY DEF RD!ZS!ClientDraw
<1>2. PICK drawn \in [1 .. n -> ShareVals] : s' = [s EXCEPT ![1] = drawn]
  BY DEF RD!ZS!ClientDraw, RD!ZS!Places
<1>3. drawn \in [1 .. n -> T]
  BY DEF RD!RowsDenseParameters
<1>4. /\ zpc'["server"] = zpc["server"] /\ zpc'["client"] = "ot" /\ DOMAIN zpc' = DOMAIN zpc
      /\ zpc["server"] \in {"choose", "ot"}
  BY <1>1, ZeroState DEF InStep
<1>5. Stages'
  <2>1. Begun
    BY <1>4, ZeroState DEF Stages, Transferred, Unpacked, Completed
  <2>2. Begun'
    BY <1>1, <1>4, <2>1 DEF Begun
  <2> QED
    BY <2>2 DEF Stages
<1>6. InStep' /\ OnZero'
  BY <1>1, <1>4, ZeroState DEF InStep, OnZero, ToServer, ToClient
<1>7. s' \in [Roles -> [1 .. n -> T]]
  BY <1>2, <1>3, ZeroState
<1>8. RD!RTypeOK'
  BY <1>1, <1>4, <1>7, ZeroState, ZeroTypes
<1>9. \A p \in Roles \ {1} : zpc'[RD!Side(p)] = zpc[RD!Side(p)]
  BY <1>4, ZeroState
<1> QED
  BY <1>4, <1>5, <1>6, <1>8, <1>9, ZeroState, SharingStep

(* The server sends its choices.                                           *)
LEMMA RowsChoose ==
  ASSUME RInv, ZeroMove(0), RD!ZS!ServerChoose
  PROVE  RInv'
<1>1. /\ zpc["server"] = "choose" /\ zpc' = [zpc EXCEPT !["server"] = "ot"]
      /\ s' = s /\ ot' = ot /\ t' = t
      /\ zchan' = [zchan EXCEPT ![1] = Append(@, TransferMessage)]
  BY DEF RD!ZS!ServerChoose
<1>2. /\ zpc'["client"] = zpc["client"] /\ zpc'["server"] = "ot" /\ DOMAIN zpc' = DOMAIN zpc
      /\ zpc["client"] \in {"draw", "ot"}
  BY <1>1, ZeroState DEF InStep
<1>3. Stages'
  <2>1. Begun
    BY <1>1, ZeroState DEF Stages, Transferred, Unpacked, Completed
  <2>2. Begun'
    BY <1>1, <1>2, <2>1 DEF Begun
  <2> QED
    BY <2>2 DEF Stages
<1>4. zchan[0] = <<>> /\ zchan[1] = <<>>
  BY <1>1, <1>2, ZeroState DEF ToServer, ToClient
<1>5. zchan' = [r \in Roles |-> zchan'[r]] /\ zchan'[0] = <<>> /\ zchan'[1] = <<TransferMessage>>
  <2> DEFINE x == Append(zchan[1], TransferMessage)
  <2>1. zchan' = [zchan EXCEPT ![1] = x]
    BY <1>1
  <2>2. x = <<TransferMessage>>
    BY <1>4
  <2> HIDE DEF x
  <2>3. zchan = [r \in Roles |-> zchan[r]] /\ 1 \in Roles /\ 0 \in Roles \ {1}
    BY ZeroState
  <2> QED
    BY <1>4, <2>1, <2>2, <2>3, ChangedAt
<1>6. InStep' /\ OnZero'
  BY <1>2, <1>5, ZeroState DEF InStep, OnZero, ToServer, ToClient
<1>7. RD!RTypeOK'
  BY <1>1, <1>2, ZeroState, ZeroTypes
<1>8. \A p \in Roles \ {0} : zpc'[RD!Side(p)] = zpc[RD!Side(p)]
  BY <1>2, ZeroState
<1> QED
  BY <1>2, <1>3, <1>6, <1>7, <1>8, ZeroState, SharingStep

(* The client answers, and sends what it sends in the garbled circuit.     *)
LEMMA RowsClientTransfer ==
  ASSUME RInv, ZeroMove(1), RD!ZS!ClientTransfer
  PROVE  RInv'
<1>1. /\ zpc["client"] = "ot" /\ zpc' = [zpc EXCEPT !["client"] = "yao"]
      /\ s' = s /\ ot' = ot /\ t' = t /\ zchan[1] # <<>>
      /\ zchan' = [zchan EXCEPT ![0] = Append(Append(@, TransferMessage), CircuitMessage),
                                ![1] = Tail(@)]
  BY DEF RD!ZS!ClientTransfer
<1>2. /\ zpc'["server"] = zpc["server"] /\ zpc'["client"] = "yao" /\ DOMAIN zpc' = DOMAIN zpc
      /\ zpc["server"] = "ot"
  BY <1>1, ZeroState DEF InStep, ToClient
<1>3. Stages'
  <2>1. B' = B /\ inner' = inner /\ A_in' = A_in
    BY DEF ZeroMove, vars
  <2> QED
    BY <1>1, <1>2, <2>1, ZeroState, StagesKept
<1>4. zchan[0] = <<>> /\ zchan[1] = <<TransferMessage>>
  BY <1>1, <1>2, ZeroState DEF ToServer, ToClient
<1>5. /\ zchan' = [r \in Roles |-> zchan'[r]]
      /\ zchan'[0] = <<TransferMessage, CircuitMessage>> /\ zchan'[1] = <<>>
  <2> DEFINE x == Append(Append(zchan[0], TransferMessage), CircuitMessage)
             y == Tail(zchan[1])
             g == [zchan EXCEPT ![0] = x]
  <2>1. zchan = [r \in Roles |-> zchan[r]] /\ 0 \in Roles /\ 1 \in Roles \ {0} /\ 0 \in Roles \ {1}
    BY ZeroState
  <2>2. x = <<TransferMessage, CircuitMessage>> /\ y = <<>>
    <3>1. Append(zchan[0], TransferMessage) = <<TransferMessage>>
      BY <1>4
    <3>2. Tail(<<TransferMessage>>) = <<>>
      OBVIOUS
    <3> QED
      BY <1>4, <3>1, <3>2, AppendTwo
  <2>3. zchan' = [g EXCEPT ![1] = y]
    BY <1>1, <2>1
  <2>4. g = [zchan EXCEPT ![0] = x]
    OBVIOUS
  <2> HIDE DEF x, y, g
  <2>5. g = [r \in Roles |-> g[r]] /\ g[0] = x
    BY <2>1, <2>4, ChangedAt
  <2>6. zchan' = [r \in Roles |-> zchan'[r]] /\ zchan'[1] = y /\ zchan'[0] = g[0]
    BY <2>1, <2>3, <2>5, ChangedAt
  <2> QED
    BY <2>2, <2>5, <2>6
<1>6. InStep' /\ OnZero'
  BY <1>2, <1>5, ZeroState DEF InStep, OnZero, ToServer, ToClient
<1>7. RD!RTypeOK'
  BY <1>1, <1>2, ZeroState, ZeroTypes
<1>8. \A p \in Roles \ {1} : zpc'[RD!Side(p)] = zpc[RD!Side(p)]
  BY <1>2, ZeroState
<1> QED
  BY <1>2, <1>3, <1>6, <1>7, <1>8, ZeroState, SharingStep

(* The server has the answers.                                             *)
LEMMA RowsTransfer ==
  ASSUME RInv, ZeroMove(0), RD!ZS!Transfer
  PROVE  RInv'
<1>1. /\ zpc["server"] = "ot" /\ zpc' = [zpc EXCEPT !["server"] = "unpack"]
      /\ s' = s /\ t' = t /\ zchan[0] # <<>>
      /\ ot' = [x \in 1 .. n |-> IF x \in Range(inner) THEN RD!ZS!opt1(x) ELSE RD!ZS!opt0(x)]
      /\ zchan' = [zchan EXCEPT ![0] = Tail(@)]
  BY SameSets DEF RD!ZS!Transfer, RD!ZS!Places
<1>2. /\ zpc'["client"] = zpc["client"] /\ zpc'["server"] = "unpack" /\ DOMAIN zpc' = DOMAIN zpc
      /\ zpc["client"] = "yao"
  BY <1>1, ZeroState DEF InStep, ToServer
<1>3. Stages' /\ DOMAIN ot' = 1 .. n
  <2>1. Begun
    BY <1>1, ZeroState DEF Stages, Transferred, Unpacked, Completed
  <2>2. inner' = inner
    BY DEF ZeroMove
  <2>3. Transferred'
    BY <1>1, <1>2, <2>1, <2>2 DEF Begun, Transferred, RD!ZS!opt0, RD!ZS!opt1
  <2> QED
    BY <1>1, <2>3 DEF Stages
<1>4. zchan[0] = <<TransferMessage, CircuitMessage>> /\ zchan[1] = <<>>
  BY <1>1, <1>2, ZeroState DEF ToServer, ToClient
<1>5. zchan' = [r \in Roles |-> zchan'[r]] /\ zchan'[0] = <<CircuitMessage>> /\ zchan'[1] = <<>>
  <2> DEFINE x == Tail(zchan[0])
  <2>1. zchan' = [zchan EXCEPT ![0] = x]
    BY <1>1
  <2>2. x = <<CircuitMessage>>
    BY <1>4
  <2> HIDE DEF x
  <2>3. zchan = [r \in Roles |-> zchan[r]] /\ 0 \in Roles /\ 1 \in Roles \ {0}
    BY ZeroState
  <2> QED
    BY <1>4, <2>1, <2>2, <2>3, ChangedAt
<1>6. InStep' /\ OnZero'
  BY <1>2, <1>5, ZeroState DEF InStep, OnZero, ToServer, ToClient
<1>7. RD!RTypeOK'
  BY <1>1, <1>2, <1>3, ZeroState, ZeroTypes
<1>8. \A p \in Roles \ {0} : zpc'[RD!Side(p)] = zpc[RD!Side(p)]
  BY <1>2, ZeroState
<1> QED
  BY <1>2, <1>3, <1>6, <1>7, <1>8, ZeroState, SharingStep

(* The end of the client's garbled circuit.                                *)
LEMMA RowsClientYao ==
  ASSUME RInv, ZeroMove(1), RD!ZS!ClientYao
  PROVE  RInv'
<1>1. /\ zpc["client"] = "yao" /\ zpc' = [zpc EXCEPT !["client"] = "done"]
      /\ s' = s /\ ot' = ot /\ t' = t /\ zchan[1] # <<>>
      /\ zchan' = [zchan EXCEPT ![1] = Tail(@)]
  BY DEF RD!ZS!ClientYao
<1>2. /\ zpc'["server"] = zpc["server"] /\ zpc'["client"] = "done" /\ DOMAIN zpc' = DOMAIN zpc
      /\ zpc["server"] \in {"yao", "done"}
  BY <1>1, ZeroState DEF InStep, ToClient
<1>3. Stages'
  <2>1. B' = B /\ inner' = inner /\ A_in' = A_in
    BY DEF ZeroMove, vars
  <2> QED
    BY <1>1, <1>2, <2>1, ZeroState, StagesKept
<1>4. zchan[1] = <<CircuitMessage>>
  BY <1>1, <1>2, ZeroState DEF ToClient
<1>5. zchan' = [r \in Roles |-> zchan'[r]] /\ zchan'[0] = zchan[0] /\ zchan'[1] = <<>>
  <2> DEFINE x == Tail(zchan[1])
  <2>1. zchan' = [zchan EXCEPT ![1] = x]
    BY <1>1
  <2>2. x = <<>>
    BY <1>4
  <2> HIDE DEF x
  <2>3. zchan = [r \in Roles |-> zchan[r]] /\ 1 \in Roles /\ 0 \in Roles \ {1}
    BY ZeroState
  <2> QED
    BY <2>1, <2>2, <2>3, ChangedAt
<1>6. InStep' /\ OnZero'
  BY <1>1, <1>2, <1>5, ZeroState DEF InStep, OnZero, ToServer, ToClient
<1>7. RD!RTypeOK'
  BY <1>1, <1>2, ZeroState, ZeroTypes
<1>8. \A p \in Roles \ {1} : zpc'[RD!Side(p)] = zpc[RD!Side(p)]
  BY <1>2, ZeroState
<1> QED
  BY <1>2, <1>3, <1>6, <1>7, <1>8, ZeroState, SharingStep

(* The server has called the zero sharing: what it calls it with.          *)
LEMMA SharedFacts ==
  ASSUME RD!RowsDenseParameters, RInv, phase[0] = "zero"
  PROVE  /\ Chosen /\ NoRows = l /\ l \in Nat /\ l >= 1 /\ n \in Nat
         /\ Range(inner) = RowsChosen /\ RowsChosen \in SUBSET (1 .. n)
         /\ DOMAIN inner = 1 .. l
         /\ \A m \in 1 .. l : inner[m] \in 1 .. n /\ inner[m] \in Range(inner)
         /\ Range(inner) \in SUBSET Nat /\ IsFiniteSet(Range(inner))
         /\ inner \in [1 .. Cardinality(Range(inner)) -> Range(inner)]
         /\ s \in [Roles -> [1 .. n -> T]] /\ result \in [Roles -> [Rows -> T]]
         /\ A_in \in [1 .. n -> T] /\ A_in \in RowAIns /\ B[1] \in T
         /\ \A x \in 1 .. n : x \notin Range(inner) => A_in[x] = Zero
<1>1. 0 \in Roles /\ 1 \in Roles
  BY DEF Roles
<1>2. /\ phase[0] = "zero"
      /\ A_in \in RowAIns /\ given \in BOOLEAN /\ SizeFits
      /\ s \in [Roles -> [1 .. n -> T]] /\ result \in [Roles -> [Rows -> T]] /\ B[1] \in T
  BY <1>1, SameConstants DEF RInv, RD!RTypeOK, TypeOK
<1>3. Chosen /\ NoRows # 0
  BY <1>1, <1>2 DEF RInv, PartOf
<1>4. /\ n \in Nat /\ A_in \in [1 .. n -> T] /\ RD!Nonzero \subseteq RowsChosen
      /\ RowsChosen \in SUBSET (1 .. n) /\ IsFiniteSet(RowsChosen) /\ NoRows \in {0, l}
  BY <1>2, RowsFacts
<1>5. NoRows = l /\ l \in Nat /\ l >= 1
  BY <1>3, <1>4, Sizes
<1>6. /\ Range(inner) = RowsChosen /\ inner \in [1 .. NoRows -> RowsChosen]
      /\ DOMAIN inner = 1 .. l
  BY <1>3, <1>5 DEF Chosen
<1>7. \A m \in 1 .. l : inner[m] \in 1 .. n /\ inner[m] \in Range(inner)
  BY <1>4, <1>5, <1>6
<1>8. \A x \in 1 .. n : x \notin Range(inner) => A_in[x] = Zero
  BY <1>4, <1>6 DEF RD!Nonzero
<1>9. Range(inner) \in SUBSET Nat
  BY <1>4, <1>6
<1> QED
  BY <1>2, <1>3, <1>4, <1>5, <1>6, <1>7, <1>8, <1>9 DEF NoRows

(* The server unpacks the answers.                                         *)
LEMMA RowsUnpack ==
  ASSUME RD!RowsDenseParameters, RInv, ZeroMove(0), RD!ZS!Unpack
  PROVE  RInv'
<1>1. /\ zpc["server"] = "unpack" /\ zpc' = [zpc EXCEPT !["server"] = "yao"]
      /\ ot' = ot
      /\ zchan' = [zchan EXCEPT ![1] = Append(@, CircuitMessage)]
  BY DEF RD!ZS!Unpack
<1>2. Transferred
  BY <1>1, ZeroState DEF Stages, Begun, Unpacked, Completed
<1>3. phase[0] = "zero" /\ inner' = inner
  BY DEF ZeroMove
<1>4. /\ l \in Nat /\ l >= 1 /\ NoRows = l /\ NoRows = Cardinality(Range(inner))
      /\ DOMAIN inner = 1 .. l
      /\ \A m \in 1 .. l : inner[m] \in 1 .. n /\ inner[m] \in Range(inner)
      /\ Range(inner) \in SUBSET (1 .. n)
      /\ s \in [Roles -> [1 .. n -> T]] /\ result[1] \in [1 .. l -> T]
  BY <1>3, SharedFacts DEF NoRows, Rows, Roles
<1>5. /\ \A c \in 1 .. l : RD!ZS!ChosenNo(c) \in Range(inner)
      /\ \A m \in 1 .. l :
           RD!ZS!ChosenNo(CHOOSE c \in DOMAIN inner : RD!ZS!I_order(c) = m) = inner[m]
  BY <1>3, <1>4, SharedFacts, PlaceFacts
<1>6. /\ \A x \in 1 .. n : x \in Range(inner) => ot[x] = RD!ZS!opt1(x)
      /\ \A x \in 1 .. n : x \notin Range(inner) => ot[x] = RD!ZS!opt0(x)
      /\ DOMAIN ot = 1 .. n
  BY <1>2 DEF Transferred
<1>7. t' = [m \in DOMAIN inner |-> RD!ZS!opt1(inner[m]).c]
  <2>1. t' = [m \in DOMAIN inner |->
                ot[RD!ZS!ChosenNo(CHOOSE c \in DOMAIN inner : RD!ZS!I_order(c) = m)].c]
    BY DEF RD!ZS!Unpack
  <2>2. \A m \in DOMAIN inner :
          ot[RD!ZS!ChosenNo(CHOOSE c \in DOMAIN inner : RD!ZS!I_order(c) = m)]
            = RD!ZS!opt1(inner[m])
    BY <1>4, <1>5, <1>6
  <2> QED
    BY <2>1, <2>2
<1>8. RD!ZS!Interpolated = "K"
  <2>1. Len(result[1]) = l
    BY <1>4, OrderIn
  <2>2. RD!ZS!Cardinality(RD!ZS!Range(inner)) = l
    BY <1>4, SameSets
  <2>3. \A c \in DOMAIN inner : /\ ot[RD!ZS!ChosenNo(c)].share_K.at = RD!ZS!ChosenNo(c)
                                /\ ot[RD!ZS!ChosenNo(c)].share_K.key = "K"
    <3> TAKE c \in DOMAIN inner
    <3>1. ot[RD!ZS!ChosenNo(c)] = RD!ZS!opt1(RD!ZS!ChosenNo(c))
      BY <1>4, <1>5, <1>6
    <3>2. RD!ZS!opt1(RD!ZS!ChosenNo(c)).share_K = [key |-> "K", at |-> RD!ZS!ChosenNo(c)]
      BY DEF RD!ZS!opt1
    <3> QED
      BY <3>1, <3>2
  <2>4. 1 \in DOMAIN inner
    <3>1. l \in Nat /\ l >= 1 /\ DOMAIN inner = 1 .. l
      BY <1>4
    <3>2. 1 \in 1 .. l
      BY <3>1
    <3> QED
      BY <3>1, <3>2
  <2> QED
    BY <2>1, <2>2, <2>3, <2>4 DEF RD!ZS!Interpolated
<1>9. s' = [s EXCEPT ![0] = [x \in 1 .. n |->
                               IF x \in Range(inner) THEN Zero ELSE Minus(Zero, s[1][x])]]
  <2>1. PICK noise \in T : s' = [s EXCEPT ![0] = [x \in 1 .. n |->
                IF x \in RD!ZS!Range(inner) THEN Zero
                ELSE RD!ZS!Neg(RD!ZS!Decrypt(RD!ZS!Interpolated, x, ot[x], noise))]]
    BY DEF RD!ZS!Unpack, RD!ZS!Places
  <2>2. \A x \in 1 .. n : x \notin Range(inner) =>
          RD!ZS!Neg(RD!ZS!Decrypt(RD!ZS!Interpolated, x, ot[x], noise)) = Minus(Zero, s[1][x])
    <3> TAKE x \in 1 .. n
    <3> HAVE x \notin Range(inner)
    <3>1. ot[x] = [key |-> "K", ctr |-> x, plain |-> s[1][x]]
      BY <1>6 DEF RD!ZS!opt0, RD!ZS!Cipher
    <3> QED
      BY <1>8, <3>1 DEF RD!ZS!Neg, RD!ZS!Decrypt
  <2>3. RD!ZS!Range(inner) = Range(inner)
    BY SameSets
  <2>4. [x \in 1 .. n |->
           IF x \in RD!ZS!Range(inner) THEN Zero
           ELSE RD!ZS!Neg(RD!ZS!Decrypt(RD!ZS!Interpolated, x, ot[x], noise))]
          = [x \in 1 .. n |-> IF x \in Range(inner) THEN Zero ELSE Minus(Zero, s[1][x])]
    BY <2>2, <2>3
  <2> QED
    BY <2>1, <2>4
<1>10. /\ s'[1] = s[1] /\ s' \in [Roles -> [1 .. n -> T]]
       /\ \A x \in 1 .. n : x \notin Range(inner) => s'[0][x] = Minus(Zero, s[1][x])
  <2>1. 0 \in Roles /\ 1 \in Roles /\ s[1] \in [1 .. n -> T]
    BY <1>4 DEF Roles
  <2>2. [x \in 1 .. n |-> IF x \in Range(inner) THEN Zero ELSE Minus(Zero, s[1][x])]
          \in [1 .. n -> T]
    BY <2>1, RingClosed
  <2> QED
    BY <1>4, <1>9, <2>1, <2>2
<1>11. /\ zpc'["client"] = zpc["client"] /\ zpc'["server"] = "yao" /\ DOMAIN zpc' = DOMAIN zpc
       /\ zpc["client"] = "yao"
  BY <1>1, ZeroState DEF InStep
<1>12. Unpacked'
  <2>1. (t = [m \in DOMAIN inner |-> RD!ZS!opt1(inner[m]).c])'
    BY <1>3, <1>7, <1>10 DEF RD!ZS!opt1, RD!ZS!Cipher
  <2>2. \A x \in 1 .. n : x \notin Range(inner') => s'[0][x] = Minus(Zero, s'[1][x])
    BY <1>3, <1>10
  <2> QED
    BY <1>1, <1>6, <1>11, <2>1, <2>2 DEF Unpacked
<1>13. zchan[0] = <<CircuitMessage>> /\ zchan[1] = <<>>
  BY <1>1, <1>11, ZeroState DEF ToServer, ToClient
<1>14. /\ zchan' = [r \in Roles |-> zchan'[r]]
       /\ zchan'[0] = <<CircuitMessage>> /\ zchan'[1] = <<CircuitMessage>>
  <2> DEFINE x == Append(zchan[1], CircuitMessage)
  <2>1. zchan' = [zchan EXCEPT ![1] = x]
    BY <1>1
  <2>2. x = <<CircuitMessage>>
    BY <1>13
  <2> HIDE DEF x
  <2>3. zchan = [r \in Roles |-> zchan[r]] /\ 1 \in Roles /\ 0 \in Roles \ {1}
    BY ZeroState
  <2> QED
    BY <1>13, <2>1, <2>2, <2>3, ChangedAt
<1>15. InStep' /\ OnZero'
  BY <1>11, <1>14, ZeroState DEF InStep, OnZero, ToServer, ToClient
<1>16. RD!RTypeOK'
  <2>1. DOMAIN t' = DOMAIN inner /\ DOMAIN ot' = 1 .. n
    BY <1>1, <1>6, <1>7
  <2> QED
    BY <1>10, <1>11, <2>1, ZeroState, ZeroTypes
<1>17. \A p \in Roles \ {0} : zpc'[RD!Side(p)] = zpc[RD!Side(p)]
  BY <1>11, ZeroState
<1>18. Stages'
  BY <1>12 DEF Stages
<1> QED
  BY <1>11, <1>15, <1>16, <1>17, <1>18, ZeroState, SharingStep

(* The dense protocol is over: its shares are those of the rows chosen.    *)
LEMMA RowsOfProduct ==
  ASSUME RD!RowsDenseParameters, RInv, phase[0] = "zero", zpc["client"] # "draw",
         NEW m \in 1 .. l
  PROVE  /\ result[0][m] \in T /\ result[1][m] \in T
         /\ Plus(result[0][m], result[1][m]) = Times(A_in[inner[m]], B[1])
<1>1. 0 \in Roles /\ 1 \in Roles /\ m \in Rows
  BY DEF Roles, Rows
<1>2. phase[1] \in Sharing
  BY DEF RInv, ZeroInv, Entered
<1>3. IInv /\ ~is_shared /\ \A r \in Roles : pc[r] = "done"
  <2>1. ~SizeUnread
    BY <1>2 DEF SizeUnread, Sharing
  <2>2. NoRows # 0 /\ pc[0] = "done"
    BY <1>1 DEF RInv, PartOf
  <2>3. pc[1] = "done"
    BY <1>1, <1>2, <2>2 DEF RInv, PartOf, Sharing
  <2> QED
    BY <2>1, <2>2, <2>3 DEF RInv, OnChan, Roles
<1>4. \A r \in Roles : m <= i[r] * chunk_size
  <2> TAKE r \in Roles
  <2>1. l <= i[r] * chunk_size /\ i[r] \in Nat
    BY <1>3 DEF IInv, LocalInv, Progress, TypeOK
  <2>2. l \in Nat /\ chunk_size \in Nat /\ m \in Nat /\ m <= l
    BY Sizes
  <2>3. i[r] * chunk_size \in Nat
    BY <2>1, <2>2
  <2> QED
    BY <2>1, <2>2, <2>3
<1>5. Reveal(result[0][m], result[1][m]) = Times(A[0][m], B[1])
  BY <1>1, <1>3, <1>4, SharesAddUp DEF ProductShared, Product
<1>6. A[0][m] = A_in[inner[m]]
  <2>1. A[0] = [j \in Rows |-> A_in[inner[j]]]
    BY SharedFacts DEF Chosen
  <2> QED
    BY <1>1, <2>1
<1>7. result[0][m] \in T /\ result[1][m] \in T
  <2>1. result \in [Roles -> [Rows -> T]]
    BY SharedFacts
  <2> QED
    BY <1>1, <2>1
<1> QED
  BY <1>5, <1>6, <1>7 DEF Reveal

(* The end of the server's garbled circuit.                                *)
LEMMA RowsServerYao ==
  ASSUME RD!RowsDenseParameters, RInv, ZeroMove(0), RD!ZS!ServerYao
  PROVE  RInv'
<1>1. /\ zpc["server"] = "yao" /\ zpc' = [zpc EXCEPT !["server"] = "done"]
      /\ ot' = ot /\ t' = t
      /\ zchan' = [zchan EXCEPT ![0] = Tail(@)]
  BY DEF RD!ZS!ServerYao
<1>2. Unpacked
  BY <1>1, ZeroState DEF Stages, Begun, Transferred, Completed
<1>z. /\ zpc'["client"] = zpc["client"] /\ zpc'["server"] = "done" /\ DOMAIN zpc' = DOMAIN zpc
      /\ zpc["client"] \in {"yao", "done"} /\ zpc["client"] # "draw"
  BY <1>1, ZeroState DEF InStep
<1>3. /\ n \in Nat /\ phase[0] = "zero" /\ inner' = inner /\ A_in' = A_in /\ B' = B /\ DOMAIN inner = 1 .. l
      /\ \A m \in 1 .. l : inner[m] \in 1 .. n /\ inner[m] \in Range(inner)
      /\ s \in [Roles -> [1 .. n -> T]] /\ B[1] \in T
      /\ \A x \in 1 .. n : x \notin Range(inner) => A_in[x] = Zero
  BY SharedFacts DEF ZeroMove, vars
<1>4. 0 \in Roles /\ 1 \in Roles /\ s[0] \in [1 .. n -> T] /\ s[1] \in [1 .. n -> T]
  BY <1>3 DEF Roles
<1> DEFINE Added(m) == Minus(Plus(result[0][m], result[1][m]), s[1][inner[m]])
           entry(x) == CHOOSE m \in DOMAIN inner : inner[m] = x
           placed == [x \in 1 .. n |-> IF x \in Range(inner) THEN Added(entry(x)) ELSE s[0][x]]
<1>5. \A x \in Range(inner) : entry(x) \in 1 .. l /\ inner[entry(x)] = x
  BY <1>3 DEF Range
<1>6. s' = [s EXCEPT ![0] = placed]
  <2>1. \A m \in DOMAIN inner, noise \in T : RD!ZS!Decrypt("K2", inner[m], t[m], noise) = s[1][inner[m]]
    <3> TAKE m \in DOMAIN inner, noise \in T
    <3>1. t[m] = [key |-> "K2", ctr |-> inner[m], plain |-> s[1][inner[m]]]
      BY <1>2 DEF Unpacked, RD!ZS!opt1, RD!ZS!Cipher
    <3> QED
      BY <3>1 DEF RD!ZS!Decrypt
  <2>2. PICK noise \in T : s' = [s EXCEPT ![0] = [x \in 1 .. n |->
                IF x \in RD!ZS!Range(inner)
                  THEN Minus(Plus(result[0][entry(x)], result[1][entry(x)]),
                             RD!ZS!Decrypt("K2", inner[entry(x)], t[entry(x)], noise))
                  ELSE s[0][x]]]
    BY DEF RD!ZS!ServerYao, RD!ZS!Places
  <2>3. RD!ZS!Range(inner) = Range(inner)
    BY SameSets
  <2> HIDE DEF entry
  <2>4. \A x \in 1 .. n : x \in Range(inner) =>
          RD!ZS!Decrypt("K2", inner[entry(x)], t[entry(x)], noise) = s[1][inner[entry(x)]]
    BY <1>3, <1>5, <2>1
  <2>5. [x \in 1 .. n |->
           IF x \in RD!ZS!Range(inner)
             THEN Minus(Plus(result[0][entry(x)], result[1][entry(x)]),
                        RD!ZS!Decrypt("K2", inner[entry(x)], t[entry(x)], noise))
             ELSE s[0][x]] = placed
    BY <2>3, <2>4
  <2> QED
    BY <2>2, <2>5
<1> HIDE DEF entry
<1>7. ASSUME NEW x \in 1 .. n, x \in Range(inner)
      PROVE  /\ Added(entry(x)) \in T
             /\ Plus(Added(entry(x)), s[1][x]) = Times(A_in[x], B[1])
  <2>1. entry(x) \in 1 .. l /\ inner[entry(x)] = x
    BY <1>5, <1>7
  <2>2. /\ result[0][entry(x)] \in T /\ result[1][entry(x)] \in T
        /\ Plus(result[0][entry(x)], result[1][entry(x)]) = Times(A_in[x], B[1])
    BY <1>z, <1>3, <2>1, RowsOfProduct
  <2>3. s[1][x] \in T
    BY <1>4
  <2> DEFINE p == Plus(result[0][entry(x)], result[1][entry(x)])
  <2>4. Added(entry(x)) = Minus(p, s[1][x]) /\ p = Times(A_in[x], B[1])
    BY <2>1, <2>2
  <2>5. p \in T
    BY <2>2, RingClosed
  <2> HIDE DEF p, Added
  <2>6. Minus(p, s[1][x]) \in T /\ Plus(Minus(p, s[1][x]), s[1][x]) = p
    BY <2>3, <2>5, RingClosed, RingGroup
  <2> QED
    BY <2>4, <2>6
<1> HIDE DEF Added
<1>8. placed \in [1 .. n -> T]
  BY <1>4, <1>7
<1>9. s' \in [Roles -> [1 .. n -> T]] /\ s'[0] = placed /\ s'[1] = s[1]
  BY <1>3, <1>4, <1>6, <1>8
<1>10. ASSUME NEW x \in 1 .. n
       PROVE  Plus(s'[0][x], s'[1][x]) = Times(A_in[x], B[1])
  <2>1. CASE x \in Range(inner)
    BY <1>7, <1>9, <2>1
  <2>2. CASE x \notin Range(inner)
    <3>1. s'[0][x] = Minus(Zero, s[1][x])
      BY <1>2, <1>9, <2>2 DEF Unpacked
    <3>2. Plus(Minus(Zero, s[1][x]), s[1][x]) = Zero
      BY <1>4, RingClosed, RingGroup
    <3>3. Times(A_in[x], B[1]) = Zero
      BY <1>3, <2>2, ZeroTimes
    <3> QED
      BY <1>9, <3>1, <3>2, <3>3
  <2> QED
    BY <2>1, <2>2
<1>11. Completed' /\ DOMAIN ot = 1 .. n /\ DOMAIN t = DOMAIN inner
  <2>1. DOMAIN ot = 1 .. n /\ DOMAIN t = DOMAIN inner
    BY <1>2 DEF Unpacked
  <2> QED
    BY <1>1, <1>z, <1>3, <1>10, <2>1 DEF Completed
<1>12. zchan[0] = <<CircuitMessage>>
  BY <1>1, <1>z, ZeroState DEF ToServer
<1>13. zchan' = [r \in Roles |-> zchan'[r]] /\ zchan'[0] = <<>> /\ zchan'[1] = zchan[1]
  <2> DEFINE x == Tail(zchan[0])
  <2>1. zchan' = [zchan EXCEPT ![0] = x]
    BY <1>1
  <2>2. x = <<>>
    BY <1>12
  <2> HIDE DEF x
  <2>3. zchan = [r \in Roles |-> zchan[r]] /\ 0 \in Roles /\ 1 \in Roles \ {0}
    BY ZeroState
  <2> QED
    BY <2>1, <2>2, <2>3, ChangedAt
<1>14. InStep' /\ OnZero'
  BY <1>1, <1>z, <1>13, ZeroState DEF InStep, OnZero, ToServer, ToClient
<1>15. RD!RTypeOK'
  BY <1>1, <1>z, <1>9, <1>11, ZeroState, ZeroTypes
<1>16. \A p \in Roles \ {0} : zpc'[RD!Side(p)] = zpc[RD!Side(p)]
  BY <1>z, ZeroState
<1>17. Stages'
  BY <1>11 DEF Stages
<1> QED
  BY <1>z, <1>14, <1>15, <1>16, <1>17, ZeroState, SharingStep

LEMMA RowsNext == RD!RowsDenseParameters /\ RInv /\ [RD!RNext]_RD!rdvars => RInv'
<1> SUFFICES ASSUME RD!RowsDenseParameters, RInv, [RD!RNext]_RD!rdvars PROVE RInv'
  OBVIOUS
<1>1. ASSUME NEW r \in Roles, RD!ZeroShare(r) PROVE RInv'
  <2>1. ZeroMove(r) /\ (r = 0 \/ r = 1)
    BY <1>1, ZeroShareIs DEF Roles
  <2>2. CASE r = 0
    <3>1. RD!ZS!zero_sharing_server
      BY <1>1, <2>2, ZeroShareIs
    <3> QED
      BY <2>1, <2>2, <3>1, RowsChoose, RowsTransfer, RowsUnpack, RowsServerYao
         DEF RD!ZS!zero_sharing_server
  <2>3. CASE r = 1
    <3>1. RD!ZS!zero_sharing_client
      BY <1>1, <2>3, ZeroShareIs
    <3> QED
      BY <2>1, <2>3, <3>1, RowsDraw, RowsClientTransfer, RowsClientYao
         DEF RD!ZS!zero_sharing_client
  <2> QED
    BY <2>1, <2>2, <2>3
<1>2. ASSUME NEW r \in Roles, RD!RParty(r) PROVE RInv'
  <2>1. r = 0 \/ r = 1
    BY DEF Roles
  <2> QED
    BY <1>1, <1>2, <2>1, RowsIndices, RowsRecvK, RowsDenseStep DEF RD!RParty
<1>3. ASSUME NEW r \in Roles, RD!Provide(r) PROVE RInv'
  BY <1>3, RowsProvide
<1>4. CASE UNCHANGED RD!rdvars
  <2>1. UNCHANGED <<vars, A_in, given, inner, phase, zpc, s, ot, t, zchan>>
    BY <1>4 DEF RD!rdvars, RD!vars, vars, RD!zvars
  <2>2. /\ is_shared' = is_shared /\ A' = A /\ B' = B /\ dim' = dim /\ pc' = pc /\ i' = i
        /\ made' = made /\ taken' = taken /\ E' = E /\ F' = F /\ first' = first
        /\ chan' = chan /\ result' = result
    BY <2>1 DEF vars
  <2>3. NoRows' = NoRows /\ (SizeFits' <=> SizeFits) /\ (Chosen' <=> Chosen)
    BY <2>1, <2>2, RowsKept
  <2>4. TypeOK' /\ RD!RTypeOK'
    BY <2>1, <2>2 DEF RInv, TypeOK, RD!RTypeOK
  <2>5. OnChan'
    BY <2>1, <2>4, ChanKept DEF RInv
  <2>6. \A p \in Roles : PartOf(p)'
    BY <2>1, <2>2, <2>3 DEF RInv, PartOf, Idle, RD!Side
  <2>7. ZeroInv'
    BY <2>1, <2>2, ZeroKept DEF RInv
  <2> QED
    BY <2>1, <2>2, <2>3, <2>4, <2>5, <2>6, <2>7 DEF RInv
<1> QED
  BY <1>2, <1>3, <1>4, SameConstants DEF RD!RNext

(* rows-dense.hpp: the invariant holds, whatever the matrix, the order of  *)
(* its rows, k_A, the chunks and the shares drawn.                         *)
THEOREM RowsInvHolds == ASSUME RD!RowsDenseParameters PROVE RD!RSpec => []RInv
<1>1. RD!RInit => RInv
  BY RowsInit
<1>2. RInv /\ [RD!RNext]_RD!rdvars => RInv'
  BY RowsNext
<1> QED
  BY <1>1, <1>2, PTL DEF RD!RSpec

LEMMA PlacedInRows == RD!RowsDenseParameters /\ RInv => RD!ProductPlaced
<1> SUFFICES ASSUME RD!RowsDenseParameters, RInv, \A r \in Roles : phase[r] = "returned",
                    NEW x \in 1 .. n
             PROVE  Plus(s[0][x], s[1][x]) = Times(A_in[x], B[1])
  BY SameConstants DEF RD!ProductPlaced, Reveal
<1>1. 0 \in Roles /\ 1 \in Roles
  BY DEF Roles
<1>2. CASE NoRows # 0
  <2>1. zpc["server"] = "done"
    BY <1>1, <1>2, ZeroState DEF RInv, PartOf
  <2>2. Completed
    BY <2>1, ZeroState DEF Stages, Begun, Transferred, Unpacked
  <2> QED
    BY <2>2 DEF Completed
<1>3. CASE NoRows = 0
  <2>1. zpc["server"] = "choose" /\ zpc["client"] = "draw"
    BY <1>3 DEF RInv, ZeroInv, Entered
  <2>2. Begun
    BY <2>1, ZeroState DEF Stages, Transferred, Unpacked, Completed
  <2>3. s[0][x] = Zero /\ s[1][x] = Zero
    <3>1. s = [r \in Roles |-> [y \in 1 .. n |-> Zero]]
      BY <2>1, <2>2 DEF Begun
    <3>2. s[0] = [y \in 1 .. n |-> Zero] /\ s[1] = [y \in 1 .. n |-> Zero]
      BY <1>1, <3>1
    <3> QED
      BY <3>2
  <2>4. /\ A_in \in RowAIns /\ given \in BOOLEAN /\ SizeFits /\ B[1] \in T
    BY <1>1 DEF RInv, RD!RTypeOK, TypeOK
  <2>5. RD!Nonzero \subseteq RowsChosen /\ IsFiniteSet(RowsChosen)
    BY <2>4, RowsFacts
  <2>6. RowsChosen = {}
    BY <1>3, <2>5, FS_EmptySet DEF NoRows
  <2>7. A_in[x] = Zero
    BY <2>5, <2>6 DEF RD!Nonzero
  <2> QED
    BY <2>3, <2>4, <2>7, ZeroTimes, RingClosed, RingGroup
<1> QED
  BY <1>2, <1>3

(* Nothing of the zero sharing is on its way if neither party has begun it.*)
LEMMA NothingShared ==
  ASSUME RInv, zpc["server"] = "choose", zpc["client"] = "draw"
  PROVE  zchan[0] = <<>> /\ zchan[1] = <<>>
  BY ZeroState DEF ToServer, ToClient

LEMMA ApartInRows == RD!RowsDenseParameters /\ RInv => RD!PhasesApart
<1> SUFFICES ASSUME RD!RowsDenseParameters, RInv PROVE RD!PhasesApart
  OBVIOUS
<1>1. /\ 0 \in Roles /\ 1 \in Roles /\ Other(0) = 1 /\ Other(1) = 0 /\ Roles = {0, 1}
      /\ OnChan /\ ZeroInv /\ PartOf(0) /\ PartOf(1)
  BY DEF Roles, Other, RInv
<1>2. SizeUnread => Ahead /\ chan[0] = <<>> /\ pc[0] # "done" /\ phase[1] = "start"
  BY <1>1 DEF OnChan, Ahead, SizeUnread
<1>3. ~SizeUnread => IInv
  BY <1>1 DEF OnChan
<1>4. \A r \in Roles : phase[r] \notin Sharing =>
        zpc[RD!Side(r)] = IF r = 0 THEN "choose" ELSE "draw"
  BY <1>1 DEF ZeroInv, Entered, RD!Side
<1>5. \A r \in Roles : phase[r] \in Sharing /\ NoRows # 0 => pc[r] = "done"
  BY <1>1 DEF PartOf, Sharing
<1>6. ASSUME phase[1] = "start", ~given
      PROVE  IF phase[0] = "start" THEN chan[1] = <<>> /\ zchan[1] = <<>>
             ELSE chan[1] # <<>> /\ Head(chan[1]) = Len(inner)
  <2>1. CASE phase[0] = "start"
    <3>1. IInv /\ Idle(0)
      BY <1>1, <1>3, <2>1 DEF SizeUnread, PartOf
    <3>2. chan[1] = <<>>
      BY <1>1, <3>1, NothingSent
    <3>3. zpc["server"] = "choose" /\ zpc["client"] = "draw"
      BY <1>1, <1>4, <1>6, <2>1 DEF Sharing, RD!Side
    <3> QED
      BY <2>1, <3>2, <3>3, NothingShared
  <2>2. CASE phase[0] # "start"
    <3>1. Ahead /\ Chosen
      BY <1>2, <1>6, <2>2 DEF SizeUnread, RInv
    <3>2. chan[1] # <<>> /\ Head(chan[1]) = NoRows
      <4>1. chan[1] = <<NoRows, E[0]>> \/ chan[1] = <<NoRows>>
        BY <3>1 DEF Ahead
      <4>2. /\ Head(<<NoRows, E[0]>>) = NoRows /\ Head(<<NoRows>>) = NoRows
            /\ <<NoRows, E[0]>> # <<>> /\ <<NoRows>> # <<>>
        OBVIOUS
      <4>3. CASE chan[1] = <<NoRows, E[0]>>
        BY <4>2, <4>3
      <4>4. CASE chan[1] = <<NoRows>>
        BY <4>2, <4>4
      <4> QED
        BY <4>1, <4>3, <4>4
    <3>3. NoRows \in Nat
      <4>1. A_in \in RowAIns /\ given \in BOOLEAN /\ SizeFits
        BY ZeroState DEF RInv
      <4>2. IsFiniteSet(RowsChosen)
        BY <4>1, RowsFacts
      <4> QED
        BY <4>2, FS_CardinalityType DEF NoRows
    <3>4. Len(inner) = NoRows
      BY <3>1, <3>3, OrderIn DEF Chosen
    <3> QED
      BY <2>2, <3>2, <3>4
  <2> QED
    BY <2>1, <2>2
<1>7. ASSUME NEW r \in Roles, phase[r] = "dense", Reads(r)
      PROVE  IF chan[r] = <<>> THEN zchan[r] = <<>> ELSE Head(chan[r]) \in Expected(r)
  <2>1. CASE SizeUnread
    <3>1. r = 0
      BY <1>1, <1>2, <1>7, <2>1
    <3>2. zpc["server"] = "choose" /\ zpc["client"] = "draw"
      BY <1>1, <1>2, <1>4, <1>7, <2>1, <3>1 DEF Sharing, RD!Side
    <3> QED
      BY <1>2, <2>1, <3>1, <3>2, NothingShared
  <2>2. CASE ~SizeUnread /\ chan[r] # <<>>
    BY <1>3, <1>7, <2>2, HeadExpected
  <2>3. CASE ~SizeUnread /\ chan[r] = <<>>
    <3>1. pc[Other(r)] # "done"
      BY <1>3, <1>7, <2>3, DoneHasSent
    <3>2. Other(r) \in Roles /\ NoRows # 0
      BY <1>1, <1>7, TwoRoles DEF PartOf
    <3>3. phase[Other(r)] \notin Sharing /\ phase[r] \notin Sharing
      BY <1>5, <1>7, <3>1, <3>2 DEF Sharing
    <3>4. phase[0] \notin Sharing /\ phase[1] \notin Sharing
      BY <1>1, <3>3
    <3>5. zpc["server"] = "choose" /\ zpc["client"] = "draw"
      BY <1>1, <1>4, <3>4 DEF RD!Side
    <3> QED
      BY <1>1, <2>3, <3>5, NothingShared
  <2> QED
    BY <2>1, <2>2, <2>3
<1>8. ASSUME NEW r \in Roles, phase[r] \in Sharing, NoRows # 0
      PROVE  chan[r] = <<>>
  <2>1. pc[r] = "done"
    BY <1>5, <1>8
  <2>2. ~SizeUnread
    BY <1>1, <1>2, <1>8, <2>1 DEF Sharing
  <2> QED
    BY <1>3, <2>1, <2>2, DoneHasRead
<1>9. ASSUME NEW r \in Roles, phase[r] = "zero"
      PROVE  chan[r] = <<>>
  BY <1>1, <1>8, <1>9 DEF PartOf, Sharing
<1>10. ASSUME NEW r \in Roles, zpc[RD!Side(r)] \in {"ot", "yao"}, zchan[r] # <<>>
       PROVE  Head(zchan[r]) = IF zpc[RD!Side(r)] = "ot" THEN TransferMessage ELSE CircuitMessage
  <2>1. /\ Head(<<TransferMessage, CircuitMessage>>) = TransferMessage
        /\ Head(<<TransferMessage>>) = TransferMessage /\ Head(<<CircuitMessage>>) = CircuitMessage
    OBVIOUS
  <2>2. CASE r = 0
    <3>1. zpc["server"] \in {"ot", "yao"} /\ zchan[0] # <<>> /\ zchan[0] = ToServer
      BY <1>10, <2>2, ZeroState
    <3>2. zchan[0] = IF zpc["server"] = "ot" THEN <<TransferMessage, CircuitMessage>>
                     ELSE <<CircuitMessage>>
      BY <3>1 DEF ToServer
    <3> QED
      BY <2>1, <2>2, <3>1, <3>2 DEF RD!Side
  <2>3. CASE r = 1
    <3>1. zpc["client"] \in {"ot", "yao"} /\ zchan[1] # <<>> /\ zchan[1] = ToClient
      BY <1>10, <2>3, ZeroState
    <3>2. zchan[1] = IF zpc["client"] = "ot" THEN <<TransferMessage>> ELSE <<CircuitMessage>>
      BY <3>1 DEF ToClient
    <3> QED
      BY <2>1, <2>3, <3>1, <3>2 DEF RD!Side
  <2> QED
    BY <1>1, <2>2, <2>3
<1>11. ASSUME NEW r \in Roles, phase[r] = "returned"
       PROVE  chan[r] = <<>> /\ zchan[r] = <<>>
  <2>1. CASE NoRows = 0
    <3>1. zpc["server"] = "choose" /\ zpc["client"] = "draw"
      BY <1>1, <2>1 DEF ZeroInv, Entered
    <3>2. zchan[r] = <<>>
      BY <1>1, <3>1, NothingShared
    <3>3. chan[r] = <<>>
      <4>1. CASE SizeUnread
        BY <1>1, <1>2, <1>11, <4>1
      <4>2. CASE ~SizeUnread
        <5>1. Other(r) \in Roles /\ Other(Other(r)) = r
          BY TwoRoles
        <5>2. phase[Other(r)] \in {"start", "dense", "zero", "returned"}
          BY <5>1, SameConstants DEF RInv, RD!RTypeOK
        <5>3. Idle(Other(r))
          BY <1>1, <2>1, <5>1, <5>2 DEF PartOf
        <5> QED
          BY <1>3, <4>2, <5>1, <5>3, NothingSent
      <4> QED
        BY <4>1, <4>2
    <3> QED
      BY <3>2, <3>3
  <2>2. CASE NoRows # 0
    <3>1. chan[r] = <<>>
      BY <1>8, <1>11, <2>2 DEF Sharing
    <3>2. zpc[RD!Side(r)] = "done"
      BY <1>1, <1>11, <2>2 DEF PartOf
    <3>3. zchan[r] = <<>>
      BY <1>1, <3>2, ZeroState DEF ToServer, ToClient
    <3> QED
      BY <3>1, <3>3
  <2> QED
    BY <2>1, <2>2
<1>12. ASSUME NEW r \in Roles
       PROVE  (RD!Reads(r) <=> Reads(r)) /\ RD!Expected(r) = Expected(r)
  BY SameConstants DEF RD!Reads, Reads, RD!Expected, Expected
<1> QED
  BY <1>6, <1>7, <1>9, <1>10, <1>11, <1>12, SameConstants DEF RD!PhasesApart

(* The shares that rows_dense returns are those of the product of A_in and *)
(* B, row for row, for any order of the nonzero rows, any rows that make   *)
(* up a k_A that is passed, and any shares drawn.                          *)
THEOREM RowsPlaced == ASSUME RD!RowsDenseParameters PROVE RD!RSpec => []RD!ProductPlaced
<1>1. RInv => RD!ProductPlaced
  BY PlacedInRows
<1> QED
  BY <1>1, RowsInvHolds, PTL

-----------------------------------------------------------------------------
(* The dense protocol as it is called: each caller has its invariant.      *)
MInv ==
  /\ caller \in {"dense", "cols_dense", "rows_dense"}
  /\ caller = "dense" => IInv
  /\ caller = "cols_dense" => CInv
  /\ caller = "rows_dense" => RInv

LEMMA CallersInit == ColsDenseParameters /\ RD!RowsDenseParameters /\ MInit => MInv
  BY InitInv, ColsInit, RowsInit DEF MInit, MInv

LEMMA CallersNext ==
  ColsDenseParameters /\ RD!RowsDenseParameters /\ MInv /\ [MNext]_mvars => MInv'
<1> SUFFICES ASSUME ColsDenseParameters, RD!RowsDenseParameters, MInv, [MNext]_mvars
             PROVE  MInv'
  OBVIOUS
<1>1. CASE InDense(Next)
  BY <1>1, NextInv DEF InDense, MInv
<1>2. CASE InColsDense(CNext)
  BY <1>2, ColsNext DEF InColsDense, MInv
<1>3. CASE InRowsDense(RD!RNext)
  BY <1>3, RowsNext DEF InRowsDense, MInv
<1>4. CASE UNCHANGED mvars
  <2>1. UNCHANGED <<vars, cdvars, rowsvars, caller>>
    BY <1>4 DEF mvars, cdvars
  <2>2. UNCHANGED RD!rdvars
    BY <2>1 DEF RD!rdvars, RD!vars, RD!zvars, vars, cdvars, rowsvars
  <2> QED
    BY <2>1, <2>2, NextInv, ColsNext, RowsNext DEF MInv
<1> QED
  BY <1>1, <1>2, <1>3, <1>4 DEF MNext

(* Whichever function the parties have called, its part of the invariant   *)
(* holds: the dense protocol goes on from whatever its caller has done.    *)
THEOREM CallersInvHolds ==
  ASSUME ColsDenseParameters, RD!RowsDenseParameters
  PROVE  MSpec => []MInv
<1>1. MInit => MInv
  BY CallersInit
<1>2. MInv /\ [MNext]_mvars => MInv'
  BY CallersNext
<1> QED
  BY <1>1, <1>2, PTL DEF MSpec

(* Every variable of the dense protocol and of its callers has its type.   *)
THEOREM TypesCorrect ==
  ASSUME ColsDenseParameters, RD!RowsDenseParameters
  PROVE  MSpec => []TypesOK
<1>1. MInv => TypesOK
  BY DEF MInv, IInv, LocalInv, CInv, RInv, TypesOK
<1> QED
  BY <1>1, CallersInvHolds, PTL

(* rows_dense puts the rows of the product in their places, and cols_dense *)
(* returns shares of A_in times B_in if the map keeps what it relies on.   *)
THEOREM ProductIsReturned ==
  ASSUME ColsDenseParameters, RD!RowsDenseParameters
  PROVE  MSpec => []ProductReturned
<1>1. MInv => ProductReturned
  BY PlacedInRows, ColumnsAddUp DEF MInv, ProductReturned
<1> QED
  BY <1>1, CallersInvHolds, PTL

(* What the dense protocol, the agreement on k_A, the map and its circuit, *)
(* and the zero sharing with its transfers and its circuit send each other *)
(* is read by the part it is meant for, though they share one channel and  *)
(* one party may be parts ahead of the other.                              *)
THEOREM PhasesKeptApart ==
  ASSUME ColsDenseParameters, RD!RowsDenseParameters
  PROVE  MSpec => []PhasesApart
<1>1. ASSUME MInv, NEW r \in Roles, Reads(r), chan[r] # <<>>
      PROVE  Head(chan[r]) \in Expected(r)
  <2>1. CASE IInv
    BY <1>1, <2>1, HeadExpected
  <2>2. CASE ~IInv
    <3>1. RInv /\ SizeUnread /\ Ahead
      BY <1>1, <2>2 DEF MInv, CInv, RInv, OnChan
    <3>2. chan[0] = <<>> /\ pc[1] = "start"
      BY <3>1 DEF Ahead, RInv, PartOf, SizeUnread, Idle, Roles
    <3> QED
      BY <1>1, <3>2 DEF Reads, Roles
  <2> QED
    BY <2>1, <2>2
<1>2. MInv => PhasesApart
  BY <1>1, ApartInRows, ColsInTurn DEF MInv, PhasesApart
<1> QED
  BY <1>2, CallersInvHolds, PTL

(* A row both parties are done with is shared correctly in every caller.   *)
THEOREM SharedForCallers ==
  ASSUME ColsDenseParameters, RD!RowsDenseParameters
  PROVE  MSpec => []ProductShared
<1>1. \A r \in Roles : i[r] = 0 /\ r = 0 => ProductShared
  <2> SUFFICES ASSUME i[0] = 0, NEW j \in Rows PROVE ~(j <= i[0] * chunk_size)
    BY DEF ProductShared, Roles
  <2>1. chunk_size \in Nat /\ j \in Nat /\ j >= 1
    BY Sizes DEF Rows
  <2> QED
    BY <2>1
<1>2. MInv => ProductShared
  BY <1>1, SharesAddUp DEF MInv, CInv, RInv, OnChan, Ahead, Roles
<1> QED
  BY <1>2, CallersInvHolds, PTL
=============================================================================
