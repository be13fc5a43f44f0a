------------------------ MODULE TripleProviderProofs ------------------------
(***************************************************************************)
(* The triples of both providers fit, for any ring (words of any width for *)
(* the OT provider), any sizes, seed, pads and capacity of the queue, and  *)
(* any interleaving of the two parties' threads.                           *)
(***************************************************************************)
EXTENDS TripleProviders, SequenceTheorems, WellFoundedInduction,
        NaturalsInduction, TLAPS

-----------------------------------------------------------------------------
(* The fake provider.                                                      *)

(* The k-th triple party r makes.                                          *)
MadeAt(r, k) == [triple |-> TripleAt(r, (k - 1) * Draws), at |-> (k - 1) * Draws]

(* All the triples of all the calls.                                       *)
Total == Calls * num

(* The triples taken and those waiting are the ones made, in order, and    *)
(* the generator is just behind the last of them.                          *)
InOrder(r) ==
  /\ Len(got[r]) + Len(queue[r]) = calls[r] * num + i[r]
  /\ rng[r] = (Len(got[r]) + Len(queue[r])) * Draws
  /\ \A k \in 1 .. Len(got[r]) : got[r][k] = MadeAt(r, k)
  /\ \A k \in 1 .. Len(queue[r]) : queue[r][k] = MadeAt(r, Len(got[r]) + k)

FakeInv ==
  /\ TypeOK
  /\ \A r \in Roles : calls[r] = Calls => i[r] = 0
  /\ \A r \in Roles : InOrder(r)

LEMMA Blocks ==
  ASSUME NEW a \in Nat, NEW b \in Nat, NEW d \in Nat, a < b
  PROVE  a * d + d <= b * d
<1>1. PICK c \in Nat : b = a + 1 + c
  <2>1. b - a - 1 \in Nat /\ b = a + 1 + (b - a - 1)
    OBVIOUS
  <2> QED
    BY <2>1
<1>2. b * d = a * d + d + c * d
  BY <1>1
<1>3. c * d \in Nat /\ a * d \in Nat
  OBVIOUS
<1> QED
  BY <1>2, <1>3

(* Sums of lengths.                                                        *)
LEMMA Sums ==
  ASSUME NEW a \in Nat, NEW b \in Nat
  PROVE  /\ (a + 1) + (b - 1) = a + b
         /\ a + (b + 1) = (a + b) + 1
  OBVIOUS

LEMMA SumBound ==
  ASSUME NEW a \in Nat, NEW b \in Nat, NEW m \in Nat, a + b <= m,
         NEW k \in 1 .. a
  PROVE  k - 1 < m
  OBVIOUS

LEMMA DrawsType == Draws \in Nat /\ rows \in Nat
  BY TriplesParameters DEF Draws

(* The draws of one turn of the loop, by their names in the code.          *)
DrawnU(from) == Draw(from)
DrawnV(from) == Stream[from + rows + 1]
DrawnZMask(from) == Draw(from + rows + 1)
DrawnUMask(from) == IF is_shared THEN Draw(from + 2 * rows + 1) ELSE ZeroRows
DrawnVMask(from) == IF is_shared THEN Stream[from + 3 * rows + 2] ELSE Zero

LEMMA TripleParts ==
  ASSUME NEW from
  PROVE  /\ TripleAt(0, from) = [U |-> MinusRows(DrawnU(from), DrawnUMask(from)),
                                 V |-> DrawnVMask(from),
                                 Z |-> DrawnZMask(from)]
         /\ TripleAt(1, from) = [U |-> DrawnUMask(from),
                                 V |-> Minus(DrawnV(from), DrawnVMask(from)),
                                 Z |-> MinusRows(TimesRows(DrawnU(from), DrawnV(from)),
                                                 DrawnZMask(from))]
  BY DEF TripleAt, DrawnU, DrawnV, DrawnZMask, DrawnUMask, DrawnVMask

LEMMA PartsType ==
  ASSUME NEW from \in Nat,
         \A k \in from + 1 .. from + Draws : Stream[k] \in T
  PROVE  /\ DrawnU(from) \in [TripleRows -> T]
         /\ DrawnV(from) \in T
         /\ DrawnZMask(from) \in [TripleRows -> T]
         /\ DrawnUMask(from) \in [TripleRows -> T]
         /\ DrawnVMask(from) \in T
<1> USE DrawsType
<1>1. DrawnU(from) \in [TripleRows -> T]
  BY DEF DrawnU, Draw, TripleRows, Draws
<1>2. DrawnV(from) \in T
  BY DEF DrawnV, Draws
<1>3. DrawnZMask(from) \in [TripleRows -> T]
  BY DEF DrawnZMask, Draw, TripleRows, Draws
<1>4. DrawnUMask(from) \in [TripleRows -> T]
  <2>1. CASE is_shared
    BY <2>1 DEF DrawnUMask, Draw, TripleRows, Draws
  <2>2. CASE ~is_shared
    BY <2>2, RingClosed DEF DrawnUMask, ZeroRows
  <2> QED
    BY <2>1, <2>2
<1>5. DrawnVMask(from) \in T
  <2>1. CASE is_shared
    BY <2>1 DEF DrawnVMask, Draws
  <2>2. CASE ~is_shared
    BY <2>2, RingClosed DEF DrawnVMask
  <2> QED
    BY <2>1, <2>2
<1> QED
  BY <1>1, <1>2, <1>3, <1>4, <1>5

(* What a turn of the loop makes has the type of a triple.                 *)
LEMMA TripleAtType ==
  ASSUME NEW r \in Roles, NEW from \in Nat,
         \A k \in from + 1 .. from + Draws : Stream[k] \in T
  PROVE  TripleAt(r, from) \in TripleType
<1>1. /\ \A X, Y \in [TripleRows -> T] : MinusRows(X, Y) \in [TripleRows -> T]
      /\ \A X \in [TripleRows -> T], v \in T :
           TimesRows(X, v) \in [TripleRows -> T]
  BY RingClosed DEF MinusRows, TimesRows
<1>2. CASE r = 0
  <2>1. MinusRows(DrawnU(from), DrawnUMask(from)) \in [TripleRows -> T]
    BY <1>1, PartsType
  <2> QED
    BY <1>2, <2>1, PartsType, TripleParts DEF TripleType
<1>3. CASE r = 1
  <2>1. MinusRows(TimesRows(DrawnU(from), DrawnV(from)), DrawnZMask(from)) \in [TripleRows -> T]
    BY <1>1, PartsType
  <2>2. Minus(DrawnV(from), DrawnVMask(from)) \in T
    BY PartsType, RingClosed
  <2> QED
    BY <1>3, <2>1, <2>2, PartsType, TripleParts DEF TripleType
<1> QED
  BY <1>2, <1>3 DEF Roles

(* What both parties make of the same draws are shares of one triple: the  *)
(* masks cancel.                                                           *)
LEMMA SameDrawsFit ==
  ASSUME NEW from \in Nat,
         \A k \in from + 1 .. from + Draws : Stream[k] \in T
  PROVE  IsTriple(is_shared, TripleAt(0, from), TripleAt(1, from))
<1>1. ~is_shared => DrawnUMask(from) = ZeroRows /\ DrawnVMask(from) = Zero
  BY DEF DrawnUMask, DrawnVMask
<1>2. \A x, y \in T : /\ Plus(Minus(x, y), y) = x
                      /\ Plus(y, Minus(x, y)) = x
  BY RingClosed, RingGroup
<1>3. \A X, Y \in [TripleRows -> T] : /\ PlusRows(MinusRows(X, Y), Y) = X
                                      /\ PlusRows(Y, MinusRows(X, Y)) = X
  BY <1>2 DEF PlusRows, MinusRows
<1>4. PlusRows(MinusRows(DrawnU(from), DrawnUMask(from)), DrawnUMask(from)) = DrawnU(from)
  BY <1>3, PartsType
<1>5. Plus(DrawnVMask(from), Minus(DrawnV(from), DrawnVMask(from))) = DrawnV(from)
  BY <1>2, PartsType
<1>6. TimesRows(DrawnU(from), DrawnV(from)) \in [TripleRows -> T]
  BY PartsType, RingClosed DEF TimesRows
<1>7. PlusRows(DrawnZMask(from), MinusRows(TimesRows(DrawnU(from), DrawnV(from)), DrawnZMask(from)))
        = TimesRows(DrawnU(from), DrawnV(from))
  BY <1>3, <1>6, PartsType
<1> QED
  BY <1>1, <1>4, <1>5, <1>7, TripleParts DEF IsTriple

-----------------------------------------------------------------------------
(* A turn of the loop, or of an earlier call's, is one of Total: the draws *)
(* it makes are among those the generator yields.                          *)
LEMMA TurnsBounded ==
  ASSUME NEW c \in 0 .. Calls, NEW n \in 0 .. num, c = Calls => n = 0
  PROVE  /\ c * num + n \in Nat
         /\ c * num + n <= Total
         /\ (c < Calls /\ n < num) => c * num + n < Total
<1> USE ProviderAssumption
<1>1. CASE c = Calls
  BY <1>1 DEF Total
<1>2. CASE c < Calls
  <2>1. c * num + num <= Calls * num
    BY <1>2, Blocks
  <2>2. c * num \in Nat
    OBVIOUS
  <2> QED
    BY <1>2, <2>1, <2>2 DEF Total
<1> QED
  BY <1>1, <1>2

LEMMA DrawsAvailable ==
  ASSUME NEW k \in Nat, k < Total
  PROVE  /\ k * Draws \in Nat
         /\ \A x \in k * Draws + 1 .. k * Draws + Draws : Stream[x] \in T
<1> USE ProviderAssumption, DrawsType
<1>1. Total \in Nat /\ k * Draws \in Nat
  BY DEF Total
<1>2. k * Draws + Draws <= Total * Draws
  BY <1>1, Blocks
<1>3. \A x \in 1 .. Total * Draws : Stream[x] \in T
  BY DEF Total
<1> QED
  BY <1>1, <1>2, <1>3

(* One more triple at the end of the queue keeps the triples in order.     *)
LEMMA AppendInOrder ==
  ASSUME NEW r, NEW g \in Nat, NEW q \in Seq(Made), NEW t \in Made,
         t = MadeAt(r, g + Len(q) + 1),
         \A k \in 1 .. Len(q) : q[k] = MadeAt(r, g + k)
  PROVE  /\ Append(q, t) \in Seq(Made)
         /\ Len(Append(q, t)) = Len(q) + 1
         /\ \A k \in 1 .. Len(Append(q, t)) : Append(q, t)[k] = MadeAt(r, g + k)
<1>1. Len(q) \in Nat
  BY LenProperties
<1>2. /\ Append(q, t) \in Seq(Made)
      /\ Len(Append(q, t)) = Len(q) + 1
      /\ \A k \in 1 .. Len(q) : Append(q, t)[k] = q[k]
      /\ Append(q, t)[Len(q) + 1] = t
  BY AppendProperties
<1>3. ASSUME NEW k \in 1 .. Len(q) + 1
      PROVE  Append(q, t)[k] = MadeAt(r, g + k)
  <2>1. CASE k = Len(q) + 1
    <3>1. g + Len(q) + 1 = g + k
      BY <1>1, <2>1
    <3> QED
      BY <1>2, <2>1, <3>1
  <2>2. CASE k \in 1 .. Len(q)
    BY <1>2, <2>2
  <2> QED
    BY <1>1, <2>1, <2>2
<1> QED
  BY <1>2, <1>3

(* So does moving the oldest one from the queue to those taken.            *)
LEMMA TakeInOrder ==
  ASSUME NEW r, NEW g \in Seq(Made), NEW q \in Seq(Made), q # <<>>,
         \A k \in 1 .. Len(g) : g[k] = MadeAt(r, k),
         \A k \in 1 .. Len(q) : q[k] = MadeAt(r, Len(g) + k)
  PROVE  /\ Append(g, Head(q)) \in Seq(Made)
         /\ Tail(q) \in Seq(Made)
         /\ Len(Append(g, Head(q))) = Len(g) + 1
         /\ Len(Tail(q)) = Len(q) - 1
         /\ \A k \in 1 .. Len(Append(g, Head(q))) :
              Append(g, Head(q))[k] = MadeAt(r, k)
         /\ \A k \in 1 .. Len(Tail(q)) :
              Tail(q)[k] = MadeAt(r, Len(Append(g, Head(q))) + k)
<1>1. /\ Len(g) \in Nat
      /\ Len(q) \in Nat \ {0}
      /\ Head(q) = q[1]
      /\ Head(q) \in Made
  BY LenProperties, EmptySeq, HeadTailProperties
<1>2. /\ Tail(q) \in Seq(Made)
      /\ Len(Tail(q)) = Len(q) - 1
      /\ \A k \in 1 .. Len(Tail(q)) : Tail(q)[k] = q[k + 1]
  BY HeadTailProperties
<1>3. Head(q) = MadeAt(r, Len(g) + 1)
  BY <1>1
<1>4. /\ Append(g, Head(q)) \in Seq(Made)
      /\ Len(Append(g, Head(q))) = Len(g) + 1
      /\ \A k \in 1 .. Len(g) : Append(g, Head(q))[k] = g[k]
      /\ Append(g, Head(q))[Len(g) + 1] = Head(q)
  BY <1>1, AppendProperties
<1>5. \A k \in 1 .. Len(g) + 1 : Append(g, Head(q))[k] = MadeAt(r, k)
  BY <1>1, <1>3, <1>4
<1>6. ASSUME NEW k \in 1 .. Len(Tail(q))
      PROVE  Tail(q)[k] = MadeAt(r, Len(g) + 1 + k)
  <2>1. k + 1 \in 1 .. Len(q) /\ Len(g) + (k + 1) = Len(g) + 1 + k
    BY <1>1, <1>2
  <2> QED
    BY <1>2, <2>1
<1> QED
  BY <1>2, <1>4, <1>5, <1>6

LEMMA InitInv == Init => FakeInv
<1> SUFFICES ASSUME Init PROVE FakeInv
  OBVIOUS
<1>1. TypeOK
  BY ProviderAssumption, EmptySeq DEF Init, TypeOK
<1>2. \A r \in Roles : calls[r] = Calls => i[r] = 0
  BY DEF Init
<1>3. \A r \in Roles : InOrder(r)
  BY ProviderAssumption, DrawsType DEF Init, InOrder
<1> QED
  BY <1>1, <1>2, <1>3 DEF FakeInv

(* What the invariant says of one party.                                   *)
LEMMA PartyFacts ==
  ASSUME FakeInv, NEW r \in Roles
  PROVE  /\ Len(got[r]) + Len(queue[r]) = calls[r] * num + i[r]
         /\ rng[r] = (Len(got[r]) + Len(queue[r])) * Draws
         /\ \A k \in 1 .. Len(got[r]) : got[r][k] = MadeAt(r, k)
         /\ \A k \in 1 .. Len(queue[r]) :
              queue[r][k] = MadeAt(r, Len(got[r]) + k)
  BY DEF FakeInv, InOrder

LEMMA PartyTypes ==
  ASSUME FakeInv, NEW r \in Roles
  PROVE  /\ got[r] \in Seq(Made) /\ queue[r] \in Seq(Made)
         /\ calls[r] \in 0 .. Calls /\ i[r] \in 0 .. num /\ rng[r] \in Nat
  BY DEF FakeInv, TypeOK

LEMMA PrecomputeStepInv ==
  ASSUME FakeInv, NEW r \in Roles, PrecomputeStep(r)
  PROVE  FakeInv'
<1>1. PICK n \in Nat : n = Len(got[r]) + Len(queue[r]) /\ n < Total
  <2>1. /\ calls[r] * num + i[r] < Total
        /\ calls[r] * num + i[r] \in Nat
    BY TurnsBounded, PartyTypes DEF FakeInv, PrecomputeStep
  <2> QED
    BY <2>1, PartyFacts
<1>2. Len(got[r]) \in Nat /\ Len(queue[r]) \in Nat
  BY LenProperties, PartyTypes
<1>3. rng[r] = n * Draws
  BY <1>1, PartyFacts
<1> DEFINE t == [triple |-> TripleAt(r, rng[r]), at |-> rng[r]]
<1>4. t \in Made
  BY <1>1, <1>3, DrawsAvailable, TripleAtType DEF Made
<1>5. t = MadeAt(r, Len(got[r]) + Len(queue[r]) + 1)
  <2>1. n + 1 - 1 = n
    OBVIOUS
  <2> QED
    BY <1>1, <1>3, <2>1 DEF MadeAt
<1>6. /\ queue' = [queue EXCEPT ![r] = Append(queue[r], t)]
      /\ got' = got /\ calls' = calls
      /\ i' = [i EXCEPT ![r] = i[r] + 1]
      /\ rng' = [rng EXCEPT ![r] = rng[r] + Draws]
      /\ calls[r] < Calls
      /\ i[r] < num
  BY DEF PrecomputeStep
<1> HIDE DEF t
<1>7. PICK q \in Seq(Made) :
        /\ q = Append(queue[r], t)
        /\ Len(q) = Len(queue[r]) + 1
        /\ \A k \in 1 .. Len(q) : q[k] = MadeAt(r, Len(got[r]) + k)
  <2>1. queue[r] \in Seq(Made)
    BY PartyTypes
  <2>2. \A k \in 1 .. Len(queue[r]) : queue[r][k] = MadeAt(r, Len(got[r]) + k)
    BY PartyFacts
  <2>3. /\ Append(queue[r], t) \in Seq(Made)
        /\ Len(Append(queue[r], t)) = Len(queue[r]) + 1
        /\ \A k \in 1 .. Len(Append(queue[r], t)) :
             Append(queue[r], t)[k] = MadeAt(r, Len(got[r]) + k)
    <3>1. ASSUME NEW m \in Nat, NEW q \in Seq(Made), NEW x \in Made,
                 x = MadeAt(r, m + Len(q) + 1),
                 \A k \in 1 .. Len(q) : q[k] = MadeAt(r, m + k)
          PROVE  /\ Append(q, x) \in Seq(Made)
                 /\ Len(Append(q, x)) = Len(q) + 1
                 /\ \A k \in 1 .. Len(Append(q, x)) :
                      Append(q, x)[k] = MadeAt(r, m + k)
      BY <3>1, AppendInOrder
    <3> QED
      BY <1>2, <1>4, <1>5, <2>1, <2>2, <3>1, Zenon
  <2> QED
    BY <2>3, Zenon
<1>8. TypeOK'
  BY <1>6, <1>7, DrawsType, ProviderAssumption DEF FakeInv, TypeOK
<1>9. \A s \in Roles : calls'[s] = Calls => i'[s] = 0
  BY <1>6, ProviderAssumption DEF FakeInv, TypeOK
<1>10. ASSUME NEW s \in Roles PROVE InOrder(s)'
  <2>1. CASE s # r
    BY <1>6, <2>1 DEF FakeInv, TypeOK, InOrder
  <2>2. CASE s = r
    <3>1. /\ queue'[r] = q
          /\ got'[r] = got[r]
          /\ i'[r] = i[r] + 1
          /\ calls'[r] = calls[r]
          /\ rng'[r] = rng[r] + Draws
      BY <1>6, <1>7 DEF FakeInv, TypeOK
    <3>2. Len(got'[r]) + Len(queue'[r]) = n + 1
      <4>1. Len(got[r]) + (Len(queue[r]) + 1) = n + 1
        BY <1>1, <1>2, Sums
      <4> QED
        BY <1>7, <3>1, <4>1
    <3>3. n + 1 = calls'[r] * num + i'[r]
      <4>1. calls[r] * num \in Nat /\ i[r] \in Nat
        BY PartyTypes, ProviderAssumption
      <4>2. n = calls[r] * num + i[r]
        BY <1>1, PartyFacts
      <4>3. n + 1 = calls[r] * num + (i[r] + 1)
        BY <4>1, <4>2
      <4> QED
        BY <3>1, <4>3
    <3>4. rng'[r] = (n + 1) * Draws
      BY <1>3, <3>1, DrawsType
    <3>5. \A k \in 1 .. Len(got'[r]) : got'[r][k] = MadeAt(r, k)
      BY <3>1, PartyFacts
    <3>6. \A k \in 1 .. Len(queue'[r]) :
            queue'[r][k] = MadeAt(r, Len(got'[r]) + k)
      BY <1>7, <3>1
    <3>7. InOrder(r)'
      BY <3>2, <3>3, <3>4, <3>5, <3>6 DEF InOrder, MadeAt
    <3> QED
      BY <2>2, <3>7
  <2> QED
    BY <2>1, <2>2
<1> QED
  BY <1>8, <1>9, <1>10 DEF FakeInv

LEMMA GetTripleInv ==
  ASSUME FakeInv, NEW r \in Roles, GetTriple(r)
  PROVE  FakeInv'
<1> DEFINE g == Append(got[r], Head(queue[r]))
           q == Tail(queue[r])
<1>1. Len(got[r]) \in Nat /\ Len(queue[r]) \in Nat
  BY LenProperties, PartyTypes
<1>2. /\ got' = [got EXCEPT ![r] = g]
      /\ queue' = [queue EXCEPT ![r] = q]
      /\ rng' = rng /\ calls' = calls /\ i' = i
  BY DEF GetTriple
<1>3. /\ g \in Seq(Made)
      /\ q \in Seq(Made)
      /\ Len(g) = Len(got[r]) + 1
      /\ Len(q) = Len(queue[r]) - 1
      /\ \A k \in 1 .. Len(g) : g[k] = MadeAt(r, k)
      /\ \A k \in 1 .. Len(q) : q[k] = MadeAt(r, Len(g) + k)
  <2>1. got[r] \in Seq(Made) /\ queue[r] \in Seq(Made) /\ queue[r] # <<>>
    BY PartyTypes DEF GetTriple
  <2>2. /\ \A k \in 1 .. Len(got[r]) : got[r][k] = MadeAt(r, k)
        /\ \A k \in 1 .. Len(queue[r]) :
             queue[r][k] = MadeAt(r, Len(got[r]) + k)
    BY PartyFacts
  <2> QED
    BY <2>1, <2>2, TakeInOrder
<1> HIDE DEF g, q
<1>4. TypeOK'
  BY <1>2, <1>3 DEF FakeInv, TypeOK
<1>5. \A s \in Roles : calls'[s] = Calls => i'[s] = 0
  BY <1>2 DEF FakeInv
<1>6. ASSUME NEW s \in Roles PROVE InOrder(s)'
  <2>1. CASE s # r
    BY <1>2, <2>1 DEF FakeInv, TypeOK, InOrder
  <2>2. CASE s = r
    <3>1. got'[r] = g /\ queue'[r] = q
      BY <1>2 DEF FakeInv, TypeOK
    <3>2. Len(got'[r]) + Len(queue'[r]) = Len(got[r]) + Len(queue[r])
      <4>1. (Len(got[r]) + 1) + (Len(queue[r]) - 1) = Len(got[r]) + Len(queue[r])
        BY <1>1, Sums
      <4> QED
        BY <1>3, <3>1, <4>1
    <3>3. /\ Len(got'[r]) + Len(queue'[r]) = calls'[r] * num + i'[r]
          /\ rng'[r] = (Len(got'[r]) + Len(queue'[r])) * Draws
      BY <1>2, <3>2, PartyFacts
    <3>4. /\ \A k \in 1 .. Len(got'[r]) : got'[r][k] = MadeAt(r, k)
          /\ \A k \in 1 .. Len(queue'[r]) :
               queue'[r][k] = MadeAt(r, Len(got'[r]) + k)
      BY <1>3, <3>1
    <3>5. InOrder(r)'
      BY <3>3, <3>4 DEF InOrder, MadeAt
    <3> QED
      BY <2>2, <3>5
  <2> QED
    BY <2>1, <2>2
<1> QED
  BY <1>4, <1>5, <1>6 DEF FakeInv

LEMMA PrecomputeReturnInv ==
  ASSUME FakeInv, NEW r \in Roles, PrecomputeReturn(r)
  PROVE  FakeInv'
<1>1. TypeOK'
  BY ProviderAssumption DEF FakeInv, TypeOK, PrecomputeReturn
<1>2. \A s \in Roles : calls'[s] = Calls => i'[s] = 0
  BY DEF FakeInv, TypeOK, PrecomputeReturn
<1>3. calls'[r] * num + i'[r] = calls[r] * num + i[r]
  <2>1. /\ calls[r] \in Nat
        /\ calls'[r] = calls[r] + 1
        /\ i[r] = num /\ i'[r] = 0
    BY ProviderAssumption DEF FakeInv, TypeOK, PrecomputeReturn
  <2>2. (calls[r] + 1) * num = calls[r] * num + num
    BY <2>1, ProviderAssumption
  <2> QED
    BY <2>1, <2>2, ProviderAssumption
<1>4. ASSUME NEW s \in Roles PROVE InOrder(s)'
  <2>1. calls'[s] * num + i'[s] = calls[s] * num + i[s]
    BY <1>3 DEF FakeInv, TypeOK, PrecomputeReturn
  <2> QED
    BY <2>1 DEF FakeInv, InOrder, PrecomputeReturn, MadeAt
<1> QED
  BY <1>1, <1>2, <1>4 DEF FakeInv

LEMMA FakeNextInv == FakeInv /\ [Next]_vars => FakeInv'
<1> SUFFICES ASSUME FakeInv, [Next]_vars PROVE FakeInv'
  OBVIOUS
<1>1. CASE UNCHANGED vars
  BY <1>1 DEF FakeInv, TypeOK, InOrder, MadeAt, vars
<1> QED
  BY <1>1, PrecomputeStepInv, PrecomputeReturnInv, GetTripleInv DEF Next

(* The triples of each party are those of its draws, in order, whatever    *)
(* the interleaving of the four threads.                                   *)
THEOREM TriplesInOrder == Spec => []FakeInv
  BY InitInv, FakeNextInv, PTL DEF Spec

LEMMA FakeFits == FakeInv => TriplesFit
<1> SUFFICES ASSUME FakeInv,
                    NEW k \in 1 .. Len(got[0]), k <= Len(got[1])
             PROVE  IsTriple(is_shared, got[0][k].triple, got[1][k].triple)
  BY DEF TriplesFit
<1>1. /\ 0 \in Roles /\ 1 \in Roles
      /\ k - 1 \in Nat
      /\ k \in 1 .. Len(got[1])
  BY LenProperties, PartyTypes DEF Roles
<1>2. /\ got[0][k].triple = TripleAt(0, (k - 1) * Draws)
      /\ got[1][k].triple = TripleAt(1, (k - 1) * Draws)
  <2>1. got[0][k] = MadeAt(0, k) /\ got[1][k] = MadeAt(1, k)
    BY <1>1, PartyFacts
  <2> QED
    BY <2>1 DEF MadeAt
<1>3. k - 1 < Total
  <2>1. /\ calls[0] * num + i[0] <= Total
        /\ calls[0] * num + i[0] \in Nat
    BY <1>1, TurnsBounded, PartyTypes DEF FakeInv
  <2>2. Len(got[0]) + Len(queue[0]) = calls[0] * num + i[0]
    BY <1>1, PartyFacts
  <2>3. Len(got[0]) \in Nat /\ Len(queue[0]) \in Nat
    BY <1>1, LenProperties, PartyTypes
  <2>4. Total \in Nat
    BY ProviderAssumption DEF Total
  <2> QED
    BY <2>1, <2>2, <2>3, <2>4, SumBound
<1> QED
  BY <1>1, <1>2, <1>3, DrawsAvailable, SameDrawsFit

(* The k-th triples of the two parties are shares of one triple.           *)
THEOREM TriplesAlwaysFit == Spec => []TriplesFit
  BY FakeFits, TriplesInOrder, PTL

LEMMA FakeOnce == FakeInv => NoTripleReused
<1> SUFFICES ASSUME FakeInv, NEW r \in Roles,
                    NEW j \in 1 .. Len(got[r]), NEW k \in 1 .. Len(got[r]),
                    j < k
             PROVE  got[r][j].at + Draws <= got[r][k].at
  BY DEF NoTripleReused
<1>1. j - 1 \in Nat /\ k - 1 \in Nat /\ j - 1 < k - 1
  BY LenProperties, PartyTypes
<1>2. (j - 1) * Draws + Draws <= (k - 1) * Draws
  BY <1>1, Blocks, DrawsType
<1>3. got[r][j] = MadeAt(r, j) /\ got[r][k] = MadeAt(r, k)
  BY PartyFacts
<1> QED
  BY <1>2, <1>3 DEF MadeAt

(* No draw of the generator goes into two triples of one party.            *)
THEOREM NeverReused == Spec => []NoTripleReused
  BY FakeOnce, TriplesInOrder, PTL

-----------------------------------------------------------------------------
(* Words.  A nonempty set of numbers has a least element.                  *)
LEMMA NatLeast ==
  ASSUME NEW S \in SUBSET Nat, S # {}
  PROVE  \E x \in S : \A y \in S : x <= y
<1> DEFINE Less == OpToRel(<, Nat)
<1>1. IsWellFoundedOn(Less, Nat)
  BY NatLessThanWellFounded
<1>2. \A x, y \in Nat : y < x => <<y, x>> \in Less
  BY DEF OpToRel
<1> HIDE DEF Less
<1>3. PICK x \in S : \A y \in S : ~(<<y, x>> \in Less)
  BY <1>1, WFMin
<1>4. \A y \in S : ~(y < x)
  BY <1>2, <1>3
<1> QED
  BY <1>4

(* A recursive function is what its definition says, if there is one: for  *)
(* 1 << b from a least bound at which there were none.                     *)
PowersOf(f, m) == [b \in 0 .. m |-> IF b = 0 THEN 1 ELSE 2 * f[b - 1]]

LEMMA PowersExist ==
  ASSUME NEW m \in Nat
  PROVE  \E f : f = PowersOf(f, m)
<1> DEFINE Without == {x \in Nat : ~ \E f : f = PowersOf(f, x)}
<1>1. \E f : f = PowersOf(f, 0)
  <2> DEFINE f == [b \in 0 .. 0 |-> 1]
  <2>1. f = PowersOf(f, 0)
    BY DEF PowersOf
  <2> QED
    BY <2>1
<1>2. ASSUME NEW x \in Nat, NEW f, f = PowersOf(f, x)
      PROVE  \E g : g = PowersOf(g, x + 1)
  <2> DEFINE g == PowersOf(f, x + 1)
  <2>1. \A b \in 0 .. x : b \in 0 .. x + 1
    OBVIOUS
  <2>2. \A b \in 0 .. x : f[b] = IF b = 0 THEN 1 ELSE 2 * f[b - 1]
    BY <1>2 DEF PowersOf
  <2>3. \A b \in 0 .. x : g[b] = f[b]
    BY <2>1, <2>2 DEF PowersOf
  <2>4. \A b \in 0 .. x + 1 : b # 0 => b - 1 \in 0 .. x
    OBVIOUS
  <2> HIDE DEF g
  <2>5. PowersOf(f, x + 1) = PowersOf(g, x + 1)
    BY <2>3, <2>4 DEF PowersOf
  <2> QED
    BY <2>5 DEF g
<1>3. Without = {}
  <2> SUFFICES ASSUME Without # {} PROVE FALSE
    OBVIOUS
  <2>1. PICK x \in Without : \A y \in Without : x <= y
    <3> HIDE DEF Without
    <3>1. Without \in SUBSET Nat
      BY DEF Without
    <3> QED
      BY <3>1, NatLeast
  <2>2. x # 0 /\ x \in Nat
    BY <1>1
  <2>3. x - 1 \in Nat /\ (x - 1) + 1 = x /\ ~(x <= x - 1)
    BY <2>2
  <2>4. \E f : f = PowersOf(f, x - 1)
    BY <2>1, <2>3
  <2> QED
    BY <1>2, <2>3, <2>4
<1> QED
  BY <1>3

(* 1 << b, doubled by every step.                                          *)
LEMMA ShiftedFacts ==
  ASSUME OT!OTParameters
  PROVE  /\ OT!Shifted[0] = 1
         /\ \A b \in 0 .. Width - 1 : OT!Shifted[b + 1] = 2 * OT!Shifted[b]
         /\ \A b \in 0 .. Width : OT!Shifted[b] \in Nat \ {0}
         /\ \A b \in 0 .. Width - 1 : OT!Shifted[b] < OT!Shifted[Width]
<1>1. Width \in Nat \ {0}
  BY DEF OT!OTParameters, OT!WordsParameters
<1>2. OT!Shifted = PowersOf(OT!Shifted, Width)
  BY <1>1, PowersExist DEF OT!Shifted, PowersOf
<1> DEFINE f == OT!Shifted
<1> HIDE DEF f
<1>3. \A b \in 0 .. Width : f[b] = IF b = 0 THEN 1 ELSE 2 * f[b - 1]
  BY <1>2 DEF f, PowersOf
<1>4. f[0] = 1
  BY <1>1, <1>3
<1>5. \A b \in 0 .. Width - 1 : f[b + 1] = 2 * f[b]
  <2>1. \A b \in 0 .. Width - 1 : b + 1 \in 0 .. Width /\ b + 1 # 0 /\ (b + 1) - 1 = b
    BY <1>1
  <2> QED
    BY <1>3, <2>1
<1>6. \A b \in 0 .. Width : f[b] \in Nat \ {0}
  <2> DEFINE Bad == {b \in 0 .. Width : f[b] \notin Nat \ {0}}
  <2> SUFFICES ASSUME Bad # {} PROVE FALSE
    OBVIOUS
  <2>1. PICK b \in Bad : \A y \in Bad : b <= y
    <3>1. Bad \in SUBSET Nat
      BY <1>1
    <3> HIDE DEF Bad
    <3> QED
      BY <3>1, NatLeast
  <2>2. b \in Nat /\ b <= Width /\ f[b] \notin Nat \ {0}
    BY <1>1, <2>1
  <2>3. b # 0
    BY <1>4, <2>2
  <2>4. b - 1 \in 0 .. Width /\ b - 1 \in 0 .. Width - 1 /\ ~(b <= b - 1) /\ (b - 1) + 1 = b
    BY <1>1, <2>2, <2>3
  <2>5. f[b - 1] \in Nat \ {0}
    BY <2>1, <2>4
  <2>6. f[b] = 2 * f[b - 1]
    BY <1>5, <2>4
  <2> QED
    BY <2>2, <2>5, <2>6
<1>7. \A b \in 0 .. Width - 1 : f[b] < f[Width]
  <2> DEFINE Bad == {x \in Nat : x <= Width /\ \E b \in 0 .. x - 1 : ~(f[b] < f[x])}
  <2>1. Bad = {}
    <3> SUFFICES ASSUME Bad # {} PROVE FALSE
      OBVIOUS
    <3>1. PICK x \in Bad : \A y \in Bad : x <= y
      <4>1. Bad \in SUBSET Nat
        OBVIOUS
      <4> HIDE DEF Bad
      <4> QED
        BY <4>1, NatLeast
    <3>2. PICK b \in 0 .. x - 1 : ~(f[b] < f[x])
      BY <3>1
    <3>3. x \in Nat /\ x <= Width /\ x # 0
      BY <3>1, <3>2
    <3>4. x - 1 \in Nat /\ x - 1 <= Width /\ ~(x <= x - 1) /\ x - 1 \in 0 .. Width - 1 /\ x - 1 \in 0 .. Width
          /\ x \in 0 .. Width /\ (x - 1) + 1 = x /\ b \in 0 .. Width
      BY <1>1, <3>2, <3>3
    <3>5. f[x] = 2 * f[x - 1] /\ f[x - 1] \in Nat \ {0} /\ f[b] \in Nat \ {0}
      BY <1>5, <1>6, <3>4
    <3>6. f[x - 1] < f[x]
      BY <3>5
    <3>7. b = x - 1 \/ b \in 0 .. (x - 1) - 1
      BY <3>2, <3>3
    <3>8. b # x - 1
      BY <3>2, <3>6
    <3>9. f[b] < f[x - 1]
      BY <3>1, <3>4, <3>7, <3>8
    <3> QED
      BY <3>2, <3>5, <3>6, <3>9
  <2> QED
    BY <1>1, <2>1
<1> QED
  BY <1>4, <1>5, <1>6, <1>7 DEF f

(* Division by a positive number: the quotient, the rest, and that there   *)
(* is but one such pair.                                                   *)
LEMMA Division ==
  ASSUME NEW a \in Int, NEW m \in Int, m > 0
  PROVE  /\ a = m * (a \div m) + (a % m)
         /\ a % m \in 0 .. m - 1 /\ a \div m \in Int
<1>1. a = m * (a \div m) + (a % m)
  BY SMTT(60)
<1> QED
  BY <1>1

LEMMA DivisionUnique ==
  ASSUME NEW q \in Int, NEW m \in Int, m > 0, NEW d \in 0 .. m - 1
  PROVE  (m * q + d) % m = d /\ (m * q + d) \div m = q
<1>1. (m * q + d) % m = d
  OBVIOUS
<1>2. (m * q + d) \div m = q
  OBVIOUS
<1> QED
  BY <1>1, <1>2

(* A word modulo twice p: its bit of weight p is added.                    *)
LEMMA NextBit ==
  ASSUME NEW v \in Nat, NEW p \in Nat \ {0}
  PROVE  /\ (v \div p) % 2 \in {0, 1}
         /\ v % (2 * p) = (v % p) + p * ((v \div p) % 2)
<1> DEFINE q == v \div p
           d == v % p
           bit == q % 2
           h == q \div 2
<1>1. v = p * q + d /\ d \in 0 .. p - 1 /\ q \in Int
  BY Division
<1>2. q = 2 * h + bit /\ bit \in 0 .. 1 /\ h \in Int
  BY <1>1, Division
<1> HIDE DEF q, d, bit, h
<1>3. v = (2 * p) * h + (p * bit + d)
  <2>1. p * (2 * h + bit) = (2 * p) * h + p * bit
    BY <1>2
  <2> QED
    BY <1>1, <1>2, <2>1
<1>4. p * bit + d \in 0 .. 2 * p - 1
  <2>1. CASE bit = 0
    BY <1>1, <2>1
  <2>2. CASE bit = 1
    BY <1>1, <2>2
  <2> QED
    BY <1>2, <2>1, <2>2
<1>5. v % (2 * p) = p * bit + d
  <2>1. 2 * p \in Int /\ 2 * p > 0
    OBVIOUS
  <2> QED
    BY <1>2, <1>3, <1>4, <2>1, DivisionUnique
<1>6. p * bit \in Int
  BY <1>2
<1> QED
  BY <1>1, <1>2, <1>5, <1>6 DEF bit, q, d

LEMMA SmallWord ==
  ASSUME NEW v \in Nat, NEW m \in Nat \ {0}, v < m
  PROVE  v % m = v
<1>1. v = m * 0 + v /\ v \in 0 .. m - 1
  OBVIOUS
<1> QED
  BY <1>1, DivisionUnique
-----------------------------------------------------------------------------
(* The OT provider.  The invariant follows one product: row j has had one  *)
(* COT for each of the bits below Done(j, c) of the other factor when c of *)
(* them are done, and its shares add up to the product with these bits.    *)
BlockNo(j) == IF j <= OT!stride THEN j - 1 ELSE j - 1 - OT!stride
Done(j, c) ==
  IF c \div Width > BlockNo(j) THEN Width
  ELSE IF c \div Width = BlockNo(j) THEN c % Width
  ELSE 0

BitsDone(v, u, j, c) == Times(u[j], v % OT!Shifted[Done(j, c)])

Waiting(r) == pc[r] = "cot" /\ assign[r] # is_shared /\ at[r] = OT!N
FirstShare(r) == IF assign[r] THEN G[r] ELSE R[r]
FirstProduct == OT!PlusRows(FirstShare(0), FirstShare(1)) = OT!TimesRows(U[0], V[1])

(* Both are at the same COT of the same product.                           *)
InProduct ==
  /\ \A r \in Roles : pc[r] = "cot"
  /\ i[0] = i[1] /\ assign[0] = assign[1] /\ at[0] = at[1]
  /\ ~assign[0] => FirstProduct
  /\ LET s == OT!sender(0)
     IN  \A j \in OT!TripleRows :
           Plus(G[0][j], G[1][j]) = BitsDone(V[1 - s], U[s], j, at[0])

(* One has left the first of two products, and the other may not.          *)
Between ==
  /\ is_shared /\ i[0] = i[1]
  /\ \A r \in Roles :
       /\ pc[r] = "cot"
       /\ IF assign[r] THEN at[r] = OT!N ELSE at[r] = 0 /\ G[r] = OT!ZeroRows
  /\ FirstProduct

(* The triple r is about to push, or will be when it has finished.         *)
OTMade(r) ==
  [U |-> U[r], V |-> V[r],
   Z |-> IF pc[r] = "push" THEN R[r]
         ELSE IF is_shared THEN OT!PlusRows(R[r], OT!PlusRows(OT!TimesRows(U[r], V[r]), G[r]))
         ELSE G[r]]
MadeOrPushed(r, k) == IF i[r] = k THEN OT!KthTriple(r, k) ELSE OTMade(r)

(* Both have done the last COT for triple k, and no later one.             *)
Ended(r, k) ==
  \/ i[r] = k - 1 /\ (Waiting(r) \/ pc[r] = "push")
  \/ i[r] = k /\ pc[r] = "draw"
  \/ i[r] = k /\ pc[r] = "cot" /\ assign[r] /\ at[r] = 0 /\ G[r] = OT!ZeroRows
AfterTriple(k) ==
  /\ \A r \in Roles : Ended(r, k)
  /\ k > 0 => OT!IsTriple(is_shared, MadeOrPushed(0, k), MadeOrPushed(1, k))

OTTogether == InProduct \/ Between \/ \E k \in 0 .. OTNum : AfterTriple(k)

Missing(r) == IF r = 0 THEN V[0] = Zero ELSE U[1] = OT!ZeroRows

(* What each party can be doing, by itself.                                *)
Doing(r) ==
  /\ taken[r] + Len(queue[r]) = i[r]
  /\ pc[r] # "draw" => i[r] < OTNum
  /\ pc[r] = "push" => assign[r] # is_shared
  /\ pc[r] = "cot" /\ ~assign[r] => is_shared
  /\ pc[r] # "draw" /\ assign[r] => Missing(r)

OTInv ==
  /\ OT!TypeOK
  /\ \A r \in Roles : Doing(r)
  /\ OTTogether
  /\ OT!TriplesFit

-----------------------------------------------------------------------------
(* The numbers of COTs, rows and bits.                                     *)
LEMMA Sizes ==
  ASSUME OT!OTParameters
  PROVE  /\ Width \in Nat \ {0} /\ OTNum \in Nat /\ is_shared \in BOOLEAN
         /\ OT!stride \in Nat \ {0} /\ rows \in Nat
         /\ OT!stride <= rows /\ rows <= 2 * OT!stride
         /\ OT!N = Width * OT!stride /\ OT!N \in Nat \ {0}
         /\ OT!Roles = {0, 1} /\ OT!TripleRows = 1 .. rows
<1>1. Width \in Nat \ {0} /\ OTNum \in Nat /\ is_shared \in BOOLEAN /\ rows > 0
  BY DEF OT!OTParameters, OT!WordsParameters
<1>2. rows \in Nat
  BY TriplesParameters
<1>3. OT!stride \in Nat \ {0} /\ OT!stride <= rows /\ rows <= 2 * OT!stride
  BY <1>1, <1>2 DEF OT!stride
<1>4. OT!N = Width * OT!stride /\ OT!N \in Nat \ {0}
  <2>1. \A a, b \in Nat \ {0} : a * b = b * a /\ a * b \in Nat \ {0}
    OBVIOUS
  <2> QED
    BY <1>1, <1>3, <2>1 DEF OT!N
<1> QED
  BY <1>1, <1>2, <1>3, <1>4 DEF OT!Roles, OT!TripleRows

LEMMA Products ==
  ASSUME NEW w \in Nat, NEW a \in Nat, NEW b \in Nat, a < b
  PROVE  w * a + w <= w * b
<1>1. w * a = a * w /\ w * b = b * w
  OBVIOUS
<1> QED
  BY <1>1, Blocks

LEMMA CotFacts ==
  ASSUME OT!OTParameters, NEW c \in 0 .. OT!N - 1
  PROVE  /\ c \div Width \in 0 .. OT!stride - 1 /\ c % Width \in 0 .. Width - 1
         /\ c % Width = Width - 1 =>
              (c + 1) \div Width = (c \div Width) + 1 /\ (c + 1) % Width = 0
         /\ c % Width # Width - 1 =>
              (c + 1) \div Width = c \div Width /\ (c + 1) % Width = (c % Width) + 1
<1> DEFINE q == c \div Width
           d == c % Width
<1>1. Width \in Nat \ {0} /\ OT!stride \in Nat \ {0} /\ OT!N = Width * OT!stride /\ c \in Nat
      /\ c < OT!N
  BY Sizes
<1>2. c = Width * q + d /\ d \in 0 .. Width - 1 /\ q \in Int
  BY <1>1, Division
<1> HIDE DEF q, d
<1>3. q >= 0
  <2> SUFFICES ASSUME q <= -1 PROVE FALSE
    BY <1>2
  <2>1. Width * q <= Width * (-1)
    <3>1. PICK e \in Nat : q = -1 - e
      <4>1. -1 - q \in Nat /\ q = -1 - (-1 - q)
        BY <1>2
      <4> QED
        BY <4>1
    <3>2. Width * q = Width * (-1) - Width * e /\ Width * e \in Nat
      BY <1>1, <3>1
    <3> QED
      BY <1>1, <3>2
  <2> QED
    BY <1>1, <1>2, <2>1
<1>4. q < OT!stride
  <2> SUFFICES ASSUME OT!stride <= q PROVE FALSE
    BY <1>1, <1>2
  <2>1. Width * OT!stride <= Width * q
    <3>1. CASE OT!stride = q
      BY <1>1, <3>1
    <3>2. CASE OT!stride < q
      <4>1. Width * OT!stride + Width <= Width * q
        BY <1>1, <1>2, <1>3, <3>2, Products
      <4> QED
        BY <1>1, <1>2, <4>1
    <3> QED
      BY <1>1, <1>2, <3>1, <3>2
  <2> QED
    BY <1>1, <1>2, <2>1
<1>5. d = Width - 1 => (c + 1) \div Width = q + 1 /\ (c + 1) % Width = 0
  <2>1. d = Width - 1 => c + 1 = Width * (q + 1) + 0
    BY <1>1, <1>2
  <2>2. 0 \in 0 .. Width - 1 /\ q + 1 \in Int /\ Width > 0 /\ Width \in Int
    BY <1>1, <1>2
  <2> QED
    BY <2>1, <2>2, DivisionUnique
<1>6. d # Width - 1 => (c + 1) \div Width = q /\ (c + 1) % Width = d + 1
  <2>1. c + 1 = Width * q + (d + 1)
    BY <1>1, <1>2
  <2>2. d # Width - 1 => d + 1 \in 0 .. Width - 1
    BY <1>1, <1>2
  <2>3. Width > 0 /\ Width \in Int
    BY <1>1
  <2> QED
    BY <1>2, <2>1, <2>2, <2>3, DivisionUnique
<1> QED
  BY <1>1, <1>2, <1>3, <1>4, <1>5, <1>6 DEF q, d

LEMMA BlockFacts ==
  ASSUME OT!OTParameters, NEW j \in OT!TripleRows
  PROVE  /\ BlockNo(j) \in 0 .. OT!stride - 1
         /\ Done(j, 0) = 0 /\ Done(j, OT!N) = Width
<1>1. BlockNo(j) \in 0 .. OT!stride - 1
  BY Sizes DEF BlockNo
<1>2. Done(j, 0) = 0
  <2>1. 0 \div Width = 0 /\ 0 % Width = 0
    <3>1. 0 = Width * 0 + 0 /\ 0 \in 0 .. Width - 1 /\ Width \in Int /\ Width > 0
      BY Sizes
    <3> QED
      BY <3>1, DivisionUnique
  <2> QED
    BY <1>1, <2>1 DEF Done
<1>3. Done(j, OT!N) = Width
  <2>1. OT!N \div Width = OT!stride
    <3>1. OT!N = Width * OT!stride + 0 /\ 0 \in 0 .. Width - 1 /\ Width \in Int /\ Width > 0
          /\ OT!stride \in Int
      BY Sizes
    <3> QED
      BY <3>1, DivisionUnique
  <2> QED
    BY <1>1, <2>1, Sizes DEF Done
<1> QED
  BY <1>1, <1>2, <1>3

(* COT number c is about one more bit of the rows packed in it, and of no  *)
(* other.                                                                  *)
LEMMA DoneStep ==
  ASSUME OT!OTParameters, NEW c \in 0 .. OT!N - 1, NEW j \in OT!TripleRows
  PROVE  /\ OT!BitOf(c) \in 0 .. Width - 1
         /\ IF j \in OT!RowsOf(c)
              THEN Done(j, c) = OT!BitOf(c) /\ Done(j, c + 1) = OT!BitOf(c) + 1
              ELSE Done(j, c + 1) = Done(j, c)
<1> DEFINE q == c \div Width
           d == c % Width
           q1 == (c + 1) \div Width
           d1 == (c + 1) % Width
<1>1. /\ q \in 0 .. OT!stride - 1 /\ d \in 0 .. Width - 1
      /\ d = Width - 1 => q1 = q + 1 /\ d1 = 0
      /\ d # Width - 1 => q1 = q /\ d1 = d + 1
  BY CotFacts
<1> HIDE DEF q, d, q1, d1
<1>0. /\ j \in Nat /\ 1 <= j /\ j <= rows /\ rows <= 2 * OT!stride /\ rows \in Nat
      /\ OT!stride \in Nat \ {0} /\ Width \in Nat \ {0}
  BY Sizes
<1>2. j \in OT!RowsOf(c) <=> BlockNo(j) = q
  <2>1. j \in OT!RowsOf(c) <=> j = q + 1 \/ j = q + 1 + OT!stride
    BY Sizes DEF OT!RowsOf, OT!RowOf, q
  <2> QED
    BY <1>0, <1>1, <2>1 DEF BlockNo
<1>3. BlockNo(j) \in 0 .. OT!stride - 1
  BY BlockFacts
<1>4. /\ Done(j, c) = IF q > BlockNo(j) THEN Width ELSE IF q = BlockNo(j) THEN d ELSE 0
      /\ Done(j, c + 1) = IF q1 > BlockNo(j) THEN Width ELSE IF q1 = BlockNo(j) THEN d1 ELSE 0
  BY DEF Done, q, d, q1, d1
<1>5. OT!BitOf(c) = d
  BY DEF OT!BitOf, d
<1>6. CASE d = Width - 1
  BY <1>0, <1>1, <1>2, <1>3, <1>4, <1>5, <1>6
<1>7. CASE d # Width - 1
  BY <1>0, <1>1, <1>2, <1>3, <1>4, <1>5, <1>7
<1> QED
  BY <1>6, <1>7

-----------------------------------------------------------------------------
(* One COT.  What the two parties add to their shares of an entry of the   *)
(* product is the entry of U times the bit of V, in its place.             *)
LEMMA WordFacts ==
  ASSUME OT!OTParameters
  PROVE  /\ T = 0 .. OT!Shifted[Width] - 1 /\ Zero = 0
         /\ OT!Shifted[Width] \in Nat \ {0}
         /\ \A a \in Int : OT!Word(a) \in T
         /\ \A a \in T : OT!Word(a) = a
         /\ \A a, b \in T : /\ Plus(a, b) = OT!Word(a + b)
                            /\ Minus(a, b) = OT!Word(a - b)
                            /\ Times(a, b) = OT!Word(a * b)
         /\ \A a \in T : Times(a, Zero) = Zero
<1>1. /\ T = 0 .. OT!Shifted[Width] - 1 /\ Zero = 0
      /\ \A a, b \in T : /\ Plus(a, b) = OT!Word(a + b)
                         /\ Minus(a, b) = OT!Word(a - b)
                         /\ Times(a, b) = OT!Word(a * b)
  BY DEF OT!OTParameters, OT!WordsParameters
<1>2. OT!Shifted[Width] \in Nat \ {0}
  BY ShiftedFacts, Sizes
<1>3. \A a \in Int : OT!Word(a) \in T
  BY <1>1, <1>2, Division DEF OT!Word
<1>4. \A a \in T : OT!Word(a) = a
  BY <1>1, <1>2, SmallWord DEF OT!Word
<1>5. \A a \in T : Times(a, Zero) = Zero
  <2>1. \A a \in T : a * 0 = 0 /\ 0 \in T
    BY <1>1, <1>2
  <2> QED
    BY <1>1, <1>4, <2>1
<1> QED
  BY <1>1, <1>2, <1>3, <1>4, <1>5

LEMMA RestSmall ==
  ASSUME NEW v \in Nat, NEW m \in Nat \ {0}
  PROVE  v % m <= v
<1> DEFINE q == v \div m
           d == v % m
<1>1. m \in Int /\ m > 0
  OBVIOUS
<1>2. v = m * q + d /\ d \in 0 .. m - 1 /\ q \in Int
  BY <1>1, Division
<1> HIDE DEF q, d
<1>3. q >= 0
  <2> SUFFICES ASSUME q <= -1 PROVE FALSE
    BY <1>2
  <2>1. PICK e \in Nat : q = -1 - e
    <3>1. -1 - q \in Nat /\ q = -1 - (-1 - q)
      BY <1>2
    <3> QED
      BY <3>1
  <2>2. m * q = -m - m * e /\ m * e \in Nat
    BY <2>1
  <2> QED
    BY <1>2, <2>2
<1>4. m * q \in Nat
  BY <1>2, <1>3
<1>5. d <= v
  BY <1>2, <1>4
<1> QED
  BY <1>5 DEF d

LEMMA BitAdded ==
  ASSUME OT!OTParameters, NEW u \in T, NEW v \in T, NEW b \in 0 .. Width - 1
  PROVE  LET bit == (v \div OT!Shifted[b]) % 2
         IN  /\ bit \in {0, 1}
             /\ v % OT!Shifted[b] \in T
             /\ OT!Word(OT!Shifted[b] * u) \in T
             /\ Times(u, v % OT!Shifted[b + 1]) =
                  Plus(Times(u, v % OT!Shifted[b]),
                       IF bit = 1 THEN OT!Word(OT!Shifted[b] * u) ELSE Zero)
<1> DEFINE p == OT!Shifted[b]
           M == OT!Shifted[Width]
           bit == (v \div p) % 2
<1>1. /\ p \in Nat \ {0} /\ M \in Nat \ {0} /\ p < M /\ OT!Shifted[b + 1] = 2 * p
  BY ShiftedFacts, Sizes
<1>2. T = 0 .. M - 1 /\ v \in Nat /\ u \in Nat /\ v < M /\ p \in T
  <2>1. T = 0 .. M - 1
    BY WordFacts
  <2> HIDE DEF p, M
  <2> QED
    BY <1>1, <2>1
<1> HIDE DEF p, M
<1>3. bit \in {0, 1} /\ v % (2 * p) = (v % p) + p * bit
  BY <1>1, <1>2, NextBit
<1>4. v % p \in 0 .. p - 1
  BY <1>1, <1>2, Division
<1>5. v % p \in T
  BY <1>1, <1>2, <1>4
<1>6. p * u \in Int /\ u * p = p * u
  BY <1>1, <1>2
<1>7. Times(u, p) = OT!Word(p * u) /\ OT!Word(p * u) \in T
  BY <1>2, <1>6, WordFacts
<1>8. CASE bit = 0
  <2>1. v % (2 * p) = v % p
    BY <1>1, <1>3, <1>4, <1>8
  <2>2. Times(u, v % p) \in T
    BY <1>5, RingClosed
  <2>3. Plus(Times(u, v % p), Zero) = Times(u, v % p)
    BY <2>2, RingGroup
  <2> QED
    BY <1>1, <1>3, <1>5, <1>7, <1>8, <2>1, <2>3 DEF bit, p
<1>9. CASE bit = 1
  <2>1. v % (2 * p) = (v % p) + p
    BY <1>1, <1>3, <1>9
  <2>2. (v % p) + p \in T
    <3>1. v % (2 * p) <= v
      <4>1. 2 * p \in Nat \ {0}
        BY <1>1
      <4> QED
        BY <1>2, <4>1, RestSmall
    <3> QED
      BY <1>1, <1>2, <1>4, <2>1, <3>1
  <2>3. Plus(v % p, p) = (v % p) + p
    BY <1>2, <1>5, <2>2, WordFacts
  <2>4. Times(u, Plus(v % p, p)) = Plus(Times(u, v % p), Times(u, p))
    BY <1>2, <1>5, RingDistributes
  <2> QED
    BY <1>1, <1>3, <1>5, <1>7, <1>9, <2>1, <2>3, <2>4 DEF bit, p
<1> QED
  BY <1>3, <1>8, <1>9

(* The pad cancels.                                                        *)
LEMMA PadCancels ==
  ASSUME NEW g \in T, NEW h \in T, NEW p \in T, NEW d \in T
  PROVE  Plus(Minus(g, p), Plus(h, Plus(p, d))) = Plus(Plus(g, h), d)
<1> DEFINE m == Minus(g, p)
<1>1. m \in T /\ Plus(m, p) = g /\ Plus(h, p) \in T /\ Plus(p, h) \in T /\ Plus(p, d) \in T
  BY RingClosed, RingGroup
<1> HIDE DEF m
<1>2. Plus(h, Plus(p, d)) = Plus(Plus(p, h), d)
  BY RingGroup
<1>3. Plus(m, Plus(Plus(p, h), d)) = Plus(Plus(m, Plus(p, h)), d)
  BY <1>1, RingGroup
<1>4. Plus(m, Plus(p, h)) = Plus(Plus(m, p), h)
  BY <1>1, RingGroup
<1> QED
  BY <1>1, <1>2, <1>3, <1>4 DEF m

LEMMA CotEntry ==
  ASSUME OT!OTParameters, NEW b \in 0 .. Width - 1,
         NEW g \in T, NEW h \in T, NEW p \in T, NEW u \in T, NEW v \in T,
         Plus(g, h) = Times(u, v % OT!Shifted[b])
  PROVE  LET rec == OT!Received(p, OT!Word(OT!Shifted[b] * u), (v \div OT!Shifted[b]) % 2)
         IN  /\ OT!Word(g - p) \in T /\ OT!Word(h + rec) \in T
             /\ Plus(OT!Word(g - p), OT!Word(h + rec)) = Times(u, v % OT!Shifted[b + 1])
<1> DEFINE bit == (v \div OT!Shifted[b]) % 2
           d == OT!Word(OT!Shifted[b] * u)
           a == IF bit = 1 THEN d ELSE Zero
           rec == OT!Received(p, d, bit)
<1>1. /\ bit \in {0, 1} /\ d \in T
      /\ Times(u, v % OT!Shifted[b + 1]) = Plus(Times(u, v % OT!Shifted[b]), a)
  BY BitAdded
<1>2. OT!Word(g - p) = Minus(g, p) /\ Minus(g, p) \in T
  BY WordFacts, RingClosed
<1>3. rec = Plus(p, a)
  <2>1. CASE bit = 1
    BY <1>1, <2>1, WordFacts DEF OT!Received
  <2>2. CASE bit = 0
    BY <1>1, <2>2, RingGroup DEF OT!Received
  <2> QED
    BY <1>1, <2>1, <2>2
<1>4. a \in T
  BY <1>1, RingClosed
<1>5. Plus(p, a) \in T
  BY <1>4, RingClosed
<1> HIDE DEF rec, a, bit, d
<1>6. OT!Word(h + rec) = Plus(h, Plus(p, a)) /\ OT!Word(h + rec) \in T
  <2>1. \A x, y \in T : OT!Word(x + y) = Plus(x, y)
    BY WordFacts
  <2> QED
    BY <1>3, <1>5, <2>1, RingClosed
<1>7. Plus(OT!Word(g - p), OT!Word(h + rec)) = Times(u, v % OT!Shifted[b + 1])
  BY <1>1, <1>2, <1>4, <1>6, PadCancels
<1> QED
  BY <1>2, <1>6, <1>7 DEF rec, d, bit

(* COT number c, as both parties aggregate it.                             *)
LEMMA CotProduct ==
  ASSUME OT!OTParameters, NEW c \in 0 .. OT!N - 1,
         NEW g \in [OT!TripleRows -> T], NEW h \in [OT!TripleRows -> T],
         NEW u \in [OT!TripleRows -> T], NEW v \in T, NEW pad \in Pads,
         \A j \in OT!TripleRows : Plus(g[j], h[j]) = BitsDone(v, u, j, c)
  PROVE  LET x == OT!SenderShare(g, c, pad)
             y == OT!ReceiverShare(h, c, pad, u, v)
         IN  /\ x \in [OT!TripleRows -> T] /\ y \in [OT!TripleRows -> T]
             /\ \A j \in OT!TripleRows : Plus(x[j], y[j]) = BitsDone(v, u, j, c + 1)
<1> DEFINE x == OT!SenderShare(g, c, pad)
           y == OT!ReceiverShare(h, c, pad, u, v)
           b == OT!BitOf(c)
<1>1. ASSUME NEW j \in OT!TripleRows
      PROVE  x[j] \in T /\ y[j] \in T /\ Plus(x[j], y[j]) = BitsDone(v, u, j, c + 1)
  <2>1. CASE j \in OT!RowsOf(c)
    <3> DEFINE p == OT!PadOf(c, pad, j)
               rec == OT!Received(p, OT!Word(OT!Shifted[b] * u[j]), (v \div OT!Shifted[b]) % 2)
    <3>1. p \in T
      BY DEF OT!OTParameters, OT!PadOf
    <3>2. x[j] = OT!Word(g[j] - p) /\ y[j] = OT!Word(h[j] + rec)
      BY <2>1 DEF OT!SenderShare, OT!ReceiverShare
    <3>3. b \in 0 .. Width - 1 /\ Done(j, c) = b /\ Done(j, c + 1) = b + 1
      BY <2>1, DoneStep
    <3>4. g[j] \in T /\ h[j] \in T /\ u[j] \in T /\ Plus(g[j], h[j]) = Times(u[j], v % OT!Shifted[b])
      BY <3>3 DEF BitsDone
    <3> HIDE DEF p, b
    <3>5. /\ OT!Word(g[j] - p) \in T /\ OT!Word(h[j] + rec) \in T
          /\ Plus(OT!Word(g[j] - p), OT!Word(h[j] + rec)) = Times(u[j], v % OT!Shifted[b + 1])
      BY <3>1, <3>3, <3>4, CotEntry
    <3> QED
      BY <3>2, <3>3, <3>5 DEF BitsDone
  <2>2. CASE j \notin OT!RowsOf(c)
    <3>1. x[j] = g[j] /\ y[j] = h[j]
      BY <2>2 DEF OT!SenderShare, OT!ReceiverShare
    <3>2. Done(j, c + 1) = Done(j, c)
      BY <2>2, DoneStep
    <3> QED
      BY <3>1, <3>2 DEF BitsDone
  <2> QED
    BY <2>1, <2>2
<1>2. DOMAIN x = OT!TripleRows /\ DOMAIN y = OT!TripleRows
      /\ x = [j \in OT!TripleRows |-> x[j]] /\ y = [j \in OT!TripleRows |-> y[j]]
  BY DEF OT!SenderShare, OT!ReceiverShare
<1> HIDE DEF x, y
<1>3. x \in [OT!TripleRows -> T] /\ y \in [OT!TripleRows -> T]
  BY <1>1, <1>2
<1>4. \A j \in OT!TripleRows : Plus(x[j], y[j]) = BitsDone(v, u, j, c + 1)
  BY <1>1
<1> QED
  BY <1>3, <1>4 DEF x, y

(* Before the first COT nothing is shared, after the last the product.     *)
LEMMA ProductStarts ==
  ASSUME OT!OTParameters, NEW u \in [OT!TripleRows -> T], NEW v \in T
  PROVE  \A j \in OT!TripleRows :
           Plus(OT!ZeroRows[j], OT!ZeroRows[j]) = BitsDone(v, u, j, 0)
<1> SUFFICES ASSUME NEW j \in OT!TripleRows
             PROVE  Plus(OT!ZeroRows[j], OT!ZeroRows[j]) = BitsDone(v, u, j, 0)
  OBVIOUS
<1>1. Plus(OT!ZeroRows[j], OT!ZeroRows[j]) = Zero
  BY RingClosed, RingGroup DEF OT!ZeroRows
<1>2. OT!Shifted[Done(j, 0)] = 1
  BY BlockFacts, ShiftedFacts
<1>3. v % 1 = 0
  <2>1. v \in Int
    BY WordFacts
  <2> QED
    BY <2>1
<1>4. Times(u[j], Zero) = Zero /\ Zero = 0
  BY WordFacts
<1> QED
  BY <1>1, <1>2, <1>3, <1>4 DEF BitsDone

LEMMA ProductEnds ==
  ASSUME OT!OTParameters, NEW u \in [OT!TripleRows -> T], NEW v \in T, NEW j \in OT!TripleRows
  PROVE  BitsDone(v, u, j, OT!N) = Times(u[j], v)
<1>1. Done(j, OT!N) = Width
  BY BlockFacts
<1>2. v % OT!Shifted[Width] = v
  <2> DEFINE M == OT!Shifted[Width]
  <2>1. M \in Nat \ {0} /\ T = 0 .. M - 1
    BY WordFacts
  <2> HIDE DEF M
  <2>2. v \in Nat /\ v < M
    BY <2>1
  <2>3. v % M = v
    BY <2>1, <2>2, SmallWord
  <2> QED
    BY <2>3 DEF M
<1> QED
  BY <1>1, <1>2 DEF BitsDone

LEMMA RowTypes ==
  ASSUME NEW X \in [OT!TripleRows -> T], NEW Y \in [OT!TripleRows -> T], NEW v \in T
  PROVE  /\ OT!ZeroRows \in [OT!TripleRows -> T]
         /\ OT!PlusRows(X, Y) \in [OT!TripleRows -> T]
         /\ OT!TimesRows(X, v) \in [OT!TripleRows -> T]
  BY RingClosed DEF OT!ZeroRows, OT!PlusRows, OT!TimesRows

(* The four products of a shared triple, as the parties add them.          *)
LEMMA SharedTriple ==
  ASSUME NEW u0 \in [OT!TripleRows -> T], NEW u1 \in [OT!TripleRows -> T],
         NEW v0 \in T, NEW v1 \in T,
         NEW f0 \in [OT!TripleRows -> T], NEW f1 \in [OT!TripleRows -> T],
         NEW g0 \in [OT!TripleRows -> T], NEW g1 \in [OT!TripleRows -> T],
         \A j \in OT!TripleRows : Plus(f0[j], f1[j]) = Times(u0[j], v1),
         \A j \in OT!TripleRows : Plus(g0[j], g1[j]) = Times(u1[j], v0)
  PROVE  OT!IsTriple(TRUE,
           [U |-> u0, V |-> v0, Z |-> OT!PlusRows(f0, OT!PlusRows(OT!TimesRows(u0, v0), g0))],
           [U |-> u1, V |-> v1, Z |-> OT!PlusRows(f1, OT!PlusRows(OT!TimesRows(u1, v1), g1))])
<1>1. ASSUME NEW j \in OT!TripleRows
      PROVE  Times(Plus(u0[j], u1[j]), Plus(v0, v1)) =
               Plus(Plus(f0[j], Plus(Times(u0[j], v0), g0[j])),
                    Plus(f1[j], Plus(Times(u1[j], v1), g1[j])))
  <2> DEFINE u0_j == u0[j]
             u1_j == u1[j]
             f0_j == f0[j]
             f1_j == f1[j]
             g0_j == g0[j]
             g1_j == g1[j]
  <2>a. Plus(f0_j, f1_j) = Times(u0_j, v1) /\ Plus(g0_j, g1_j) = Times(u1_j, v0)
    OBVIOUS
  <2>b. u0_j \in T /\ u1_j \in T /\ f0_j \in T /\ f1_j \in T /\ g0_j \in T /\ g1_j \in T
    OBVIOUS
  <2> HIDE DEF u0_j, u1_j, f0_j, f1_j, g0_j, g1_j
  <2> DEFINE a == Times(u0_j, v0)
             d == Times(u1_j, v1)
             b == Times(u0_j, v1)
             c == Times(u1_j, v0)
  <2>1. a \in T /\ b \in T /\ c \in T /\ d \in T /\ Plus(v0, v1) \in T
    BY <2>b, RingClosed
  <2>2. Times(Plus(u0_j, u1_j), Plus(v0, v1)) = Plus(Plus(a, b), Plus(c, d))
    <3>1. Times(Plus(u0_j, u1_j), Plus(v0, v1)) = Plus(Times(u0_j, Plus(v0, v1)), Times(u1_j, Plus(v0, v1)))
      BY <2>1, <2>b, RingDistributes
    <3>2. Times(u0_j, Plus(v0, v1)) = Plus(a, b) /\ Times(u1_j, Plus(v0, v1)) = Plus(c, d)
      BY <2>b, RingDistributes
    <3> QED
      BY <3>1, <3>2
  <2> HIDE DEF a, b, c, d
  <2>3. \A x, y, z, w \in T : Plus(Plus(x, y), Plus(z, w)) = Plus(Plus(x, z), Plus(y, w))
    <3> SUFFICES ASSUME NEW x \in T, NEW y \in T, NEW z \in T, NEW w \in T
                 PROVE  Plus(Plus(x, y), Plus(z, w)) = Plus(Plus(x, z), Plus(y, w))
      OBVIOUS
    <3>1. /\ Plus(z, w) \in T /\ Plus(y, w) \in T /\ Plus(y, z) \in T /\ Plus(z, y) \in T
      BY RingClosed
    <3>2. Plus(Plus(x, y), Plus(z, w)) = Plus(x, Plus(y, Plus(z, w)))
      BY <3>1, RingGroup
    <3>3. Plus(y, Plus(z, w)) = Plus(z, Plus(y, w))
      <4>1. Plus(y, Plus(z, w)) = Plus(Plus(y, z), w) /\ Plus(z, Plus(y, w)) = Plus(Plus(z, y), w)
        BY RingGroup
      <4>2. Plus(y, z) = Plus(z, y)
        BY RingGroup
      <4> QED
        BY <4>1, <4>2
    <3>4. Plus(x, Plus(z, Plus(y, w))) = Plus(Plus(x, z), Plus(y, w))
      BY <3>1, RingGroup
    <3> QED
      BY <3>2, <3>3, <3>4
  <2>4. Plus(a, g0_j) \in T /\ Plus(d, g1_j) \in T
    BY <2>1, <2>b, RingClosed
  <2>5. Plus(Plus(f0_j, Plus(a, g0_j)), Plus(f1_j, Plus(d, g1_j))) = Plus(Plus(f0_j, f1_j), Plus(Plus(a, g0_j), Plus(d, g1_j)))
    BY <2>3, <2>4, <2>b
  <2>6. Plus(Plus(a, g0_j), Plus(d, g1_j)) = Plus(Plus(a, d), Plus(g0_j, g1_j))
    BY <2>1, <2>3, <2>b
  <2>7. Plus(b, Plus(Plus(a, d), c)) = Plus(Plus(a, b), Plus(c, d))
    <3>1. Plus(a, d) \in T /\ Plus(d, c) \in T /\ Plus(b, a) \in T
      BY <2>1, RingClosed
    <3>2. Plus(Plus(a, d), c) = Plus(a, Plus(d, c)) /\ Plus(d, c) = Plus(c, d) /\ Plus(b, a) = Plus(a, b)
      BY <2>1, RingGroup
    <3>3. Plus(b, Plus(a, Plus(d, c))) = Plus(Plus(b, a), Plus(d, c))
      BY <2>1, <3>1, RingGroup
    <3> QED
      BY <3>2, <3>3
  <2>8. Plus(f0_j, f1_j) = b /\ Plus(g0_j, g1_j) = c
    BY <2>a DEF b, c
  <2>9. Plus(Plus(f0_j, Plus(a, g0_j)), Plus(f1_j, Plus(d, g1_j))) = Plus(Plus(a, b), Plus(c, d))
    BY <2>5, <2>6, <2>7, <2>8
  <2> QED
    BY <2>2, <2>9 DEF a, d, u0_j, u1_j, f0_j, f1_j, g0_j, g1_j
<1> QED
  BY <1>1 DEF OT!IsTriple, OT!PlusRows, OT!TimesRows

LEMMA UnsharedTriple ==
  ASSUME NEW u \in [OT!TripleRows -> T], NEW v \in T,
         NEW g0 \in [OT!TripleRows -> T], NEW g1 \in [OT!TripleRows -> T],
         \A j \in OT!TripleRows : Plus(g0[j], g1[j]) = Times(u[j], v)
  PROVE  OT!IsTriple(FALSE, [U |-> u, V |-> Zero, Z |-> g0],
                            [U |-> OT!ZeroRows, V |-> v, Z |-> g1])
<1>1. Zero \in T /\ \A a \in T : Plus(a, Zero) = a /\ Plus(Zero, a) = a
  BY RingClosed, RingGroup
<1>2. \A j \in OT!TripleRows : Times(Plus(u[j], OT!ZeroRows[j]), Plus(Zero, v)) = Plus(g0[j], g1[j])
  BY <1>1 DEF OT!ZeroRows
<1> QED
  BY <1>2 DEF OT!IsTriple, OT!PlusRows, OT!TimesRows

-----------------------------------------------------------------------------
(* The states of the two parties.                                          *)
LEMMA RoleTypes ==
  ASSUME OTInv, NEW r \in OT!Roles
  PROVE  /\ pc[r] \in {"draw", "cot", "push"} /\ i[r] \in 0 .. OTNum
         /\ U[r] \in [OT!TripleRows -> T] /\ V[r] \in T
         /\ assign[r] \in BOOLEAN /\ at[r] \in 0 .. OT!N
         /\ G[r] \in [OT!TripleRows -> T] /\ R[r] \in [OT!TripleRows -> T]
         /\ queue[r] \in Seq(OT!TripleType) /\ taken[r] \in 0 .. OTNum
         /\ last[r] \in OT!TripleType
         /\ Len(queue[r]) \in Nat
         /\ Doing(r)
<1>1. queue[r] \in Seq(OT!TripleType)
  BY DEF OTInv, OT!TypeOK
<1>2. Len(queue[r]) \in Nat
  BY <1>1, LenProperties
<1>3. Doing(r)
  BY DEF OTInv, Roles, OT!Roles
<1> QED
  BY <1>1, <1>2, <1>3 DEF OTInv, OT!TypeOK

LEMMA OtherRole ==
  ASSUME OT!OTParameters, NEW r \in OT!Roles
  PROVE  /\ 0 \in OT!Roles /\ 1 \in OT!Roles /\ 1 - r \in OT!Roles /\ 1 - r # r
         /\ \A q \in OT!Roles : q = r \/ q = 1 - r
  BY Sizes

(* The triples that are still to be seen are those up to i[r].             *)
LEMMA KeptFacts ==
  ASSUME OT!OTParameters, OTInv, NEW r \in OT!Roles
  PROVE  /\ OT!Kept(r) = (IF taken[r] = 0 THEN 1 ELSE taken[r]) .. i[r]
         /\ taken[r] <= i[r] /\ i[r] \in Nat /\ taken[r] \in Nat
<1>1. taken[r] + Len(queue[r]) = i[r] /\ Len(queue[r]) \in Nat /\ taken[r] \in Nat
  BY RoleTypes, Sizes DEF Doing
<1> QED
  BY <1>1 DEF OT!Kept

LEMMA PartiesInit == OT!OTParameters /\ OT!Init => OTInv
<1> SUFFICES ASSUME OT!OTParameters, OT!Init PROVE OTInv
  OBVIOUS
<1>1. /\ OT!ZeroRows \in [OT!TripleRows -> T] /\ Zero \in T /\ OT!NoTriple \in OT!TripleType
  BY RingClosed DEF OT!ZeroRows, OT!NoTriple, OT!TripleType
<1>2. 0 \in 0 .. OTNum /\ 0 \in 0 .. OT!N
  BY Sizes
<1>3. OT!TypeOK
  <2>1. <<>> \in Seq(OT!TripleType)
    BY EmptySeq
  <2> QED
    BY <1>1, <1>2, <2>1 DEF OT!Init, OT!TypeOK
<1>4. \A r \in OT!Roles : taken[r] = 0 /\ queue[r] = <<>> /\ i[r] = 0 /\ pc[r] = "draw"
  BY DEF OT!Init
<1>5. ASSUME NEW r \in OT!Roles PROVE Doing(r)
  <2>1. Len(<<>>) = 0
    BY EmptySeq
  <2> QED
    BY <1>4, <2>1 DEF Doing
<1>6. AfterTriple(0)
  <2>1. \A r \in Roles : Ended(r, 0)
    BY <1>4 DEF Ended, Roles, OT!Roles
  <2> QED
    BY <2>1 DEF AfterTriple
<1>7. OT!TriplesFit
  <2>1. OT!Kept(0) = {}
    <3>1. Len(<<>>) = 0
      BY EmptySeq
    <3>2. taken[0] = 0 /\ queue[0] = <<>>
      BY <1>4, Sizes
    <3> QED
      BY <3>1, <3>2 DEF OT!Kept
  <2> QED
    BY <2>1 DEF OT!TriplesFit
<1>8. \A r \in Roles : Doing(r)
  BY <1>5, Sizes DEF Roles
<1> QED
  BY <1>2, <1>3, <1>6, <1>7, <1>8 DEF OTInv, OTTogether

(* Where queue, taken and last stay as they are the triples still fit.     *)
LEMMA FitStays ==
  OT!TriplesFit /\ UNCHANGED <<queue, taken, last>> => OT!TriplesFit'
  BY DEF OT!TriplesFit, OT!Kept, OT!KthTriple

-----------------------------------------------------------------------------
(* Products.  When both parties can take part in a COT, they are in one    *)
(* product.                                                                *)
LEMMA Meeting ==
  ASSUME OT!OTParameters, OTInv,
         \A r \in OT!Roles : pc[r] = "cot" /\ at[r] < OT!N,
         OT!sender(0) = OT!sender(1), at[0] = at[1]
  PROVE  InProduct
<1>1. 0 \in OT!Roles /\ 1 \in OT!Roles /\ OT!N \in Nat \ {0} /\ is_shared \in BOOLEAN
  BY Sizes
<1>2. /\ assign[0] \in BOOLEAN /\ assign[1] \in BOOLEAN
      /\ \A r \in OT!Roles : U[r] \in [OT!TripleRows -> T] /\ V[r] \in T
  BY <1>1, RoleTypes
<1>3. assign[0] = assign[1]
  BY <1>2 DEF OT!sender
<1>4. CASE InProduct
  BY <1>4
<1>5. CASE Between
  <2>1. \A r \in OT!Roles : ~assign[r] /\ at[r] = 0 /\ G[r] = OT!ZeroRows
    <3>1. Roles = OT!Roles
      BY Sizes DEF Roles
    <3> QED
      BY <1>1, <1>5, <3>1 DEF Between
  <2>2. OT!sender(0) = 1
    BY <1>1, <2>1 DEF OT!sender
  <2>3. \A j \in OT!TripleRows :
          Plus(OT!ZeroRows[j], OT!ZeroRows[j]) = BitsDone(V[0], U[1], j, 0)
    BY <1>1, <1>2, ProductStarts
  <2>4. 1 - 1 = 0
    OBVIOUS
  <2>5. at[0] = 0 /\ G[0] = OT!ZeroRows /\ G[1] = OT!ZeroRows
    BY <1>1, <2>1
  <2>6. \A j \in OT!TripleRows : Plus(G[0][j], G[1][j]) = BitsDone(V[0], U[1], j, at[0])
    BY <2>3, <2>5
  <2>7. i[0] = i[1] /\ FirstProduct /\ \A r \in Roles : pc[r] = "cot"
    BY <1>5 DEF Between
  <2> QED
    BY <1>3, <2>2, <2>4, <2>6, <2>7 DEF InProduct
<1>6. ASSUME NEW k \in 0 .. OTNum, AfterTriple(k) PROVE InProduct
  <2>1. \A r \in OT!Roles : i[r] = k /\ assign[r] /\ at[r] = 0 /\ G[r] = OT!ZeroRows
    <3>1. Roles = OT!Roles
      BY Sizes DEF Roles
    <3> QED
      BY <1>1, <1>6, <3>1 DEF AfterTriple, Ended, Waiting
  <2>2. OT!sender(0) = 0
    BY <1>1, <2>1 DEF OT!sender
  <2>3. \A j \in OT!TripleRows :
          Plus(OT!ZeroRows[j], OT!ZeroRows[j]) = BitsDone(V[1], U[0], j, 0)
    BY <1>1, <1>2, ProductStarts
  <2>4. 1 - 0 = 1
    OBVIOUS
  <2>5. at[0] = 0 /\ G[0] = OT!ZeroRows /\ G[1] = OT!ZeroRows /\ assign[0] /\ i[0] = i[1]
    BY <1>1, <2>1
  <2>6. \A j \in OT!TripleRows : Plus(G[0][j], G[1][j]) = BitsDone(V[1], U[0], j, at[0])
    BY <2>3, <2>5
  <2>7. \A r \in Roles : pc[r] = "cot"
    BY Sizes DEF Roles
  <2> QED
    BY <1>3, <2>2, <2>4, <2>5, <2>6, <2>7 DEF InProduct
<1> QED
  BY <1>4, <1>5, <1>6 DEF OTInv, OTTogether

(* A product that is done is between two, or makes a triple.               *)
LEMMA FirstDone ==
  ASSUME OT!OTParameters, OTInv, InProduct, at[0] = OT!N, assign[0], is_shared
  PROVE  Between
<1>1. 0 \in OT!Roles /\ 1 \in OT!Roles
  BY Sizes
<1>2. assign[1] /\ at[1] = OT!N /\ i[0] = i[1] /\ \A r \in Roles : pc[r] = "cot"
  BY DEF InProduct
<1>3. OT!sender(0) = 0 /\ 1 - 0 = 1
  BY DEF OT!sender
<1>4. \A j \in OT!TripleRows : Plus(G[0][j], G[1][j]) = BitsDone(V[1], U[0], j, OT!N)
  BY <1>3 DEF InProduct
<1>5. U[0] \in [OT!TripleRows -> T] /\ V[1] \in T
  BY <1>1, RoleTypes
<1>6. \A j \in OT!TripleRows : Plus(G[0][j], G[1][j]) = Times(U[0][j], V[1])
  BY <1>4, <1>5, ProductEnds
<1>7. FirstProduct
  BY <1>2, <1>6 DEF FirstProduct, FirstShare, OT!PlusRows, OT!TimesRows
<1> QED
  BY <1>2, <1>7 DEF Between, Roles

LEMMA LastDone ==
  ASSUME OT!OTParameters, OTInv, InProduct, at[0] = OT!N, assign[0] # is_shared
  PROVE  i[0] + 1 \in 0 .. OTNum /\ AfterTriple(i[0] + 1)
<1>1. 0 \in OT!Roles /\ 1 \in OT!Roles /\ is_shared \in BOOLEAN /\ OTNum \in Nat
  BY Sizes
<1>2. /\ assign[1] = assign[0] /\ at[1] = OT!N /\ i[1] = i[0]
      /\ pc[0] = "cot" /\ pc[1] = "cot"
  BY DEF InProduct, Roles
<1>3. i[0] \in Nat /\ i[0] < OTNum
  BY <1>1, <1>2, RoleTypes DEF Doing
<1>4. /\ U[0] \in [OT!TripleRows -> T] /\ U[1] \in [OT!TripleRows -> T]
      /\ V[0] \in T /\ V[1] \in T
      /\ R[0] \in [OT!TripleRows -> T] /\ R[1] \in [OT!TripleRows -> T]
      /\ G[0] \in [OT!TripleRows -> T] /\ G[1] \in [OT!TripleRows -> T]
      /\ assign[0] \in BOOLEAN
  BY <1>1, RoleTypes
<1>5. OT!IsTriple(is_shared, OTMade(0), OTMade(1))
  <2>1. CASE is_shared
    <3>1. ~assign[0] /\ ~assign[1]
      BY <1>2, <2>1
    <3>2. OT!sender(0) = 1 /\ 1 - 1 = 0
      BY <3>1 DEF OT!sender
    <3>3. \A j \in OT!TripleRows : Plus(G[0][j], G[1][j]) = BitsDone(V[0], U[1], j, OT!N)
      BY <3>2 DEF InProduct
    <3>4. \A j \in OT!TripleRows : Plus(G[0][j], G[1][j]) = Times(U[1][j], V[0])
      BY <1>4, <3>3, ProductEnds
    <3>5. OT!PlusRows(R[0], R[1]) = OT!TimesRows(U[0], V[1])
      BY <3>1 DEF InProduct, FirstProduct, FirstShare
    <3>6. \A j \in OT!TripleRows : Plus(R[0][j], R[1][j]) = Times(U[0][j], V[1])
      <4>1. \A j \in OT!TripleRows : OT!PlusRows(R[0], R[1])[j] = OT!TimesRows(U[0], V[1])[j]
        BY <3>5
      <4> QED
        BY <4>1 DEF OT!PlusRows, OT!TimesRows
    <3>7. OT!IsTriple(TRUE,
            [U |-> U[0], V |-> V[0], Z |-> OT!PlusRows(R[0], OT!PlusRows(OT!TimesRows(U[0], V[0]), G[0]))],
            [U |-> U[1], V |-> V[1], Z |-> OT!PlusRows(R[1], OT!PlusRows(OT!TimesRows(U[1], V[1]), G[1]))])
      <4> DEFINE u0 == U[0]
                 u1 == U[1]
                 v0 == V[0]
                 v1 == V[1]
                 f0 == R[0]
                 f1 == R[1]
                 g0 == G[0]
                 g1 == G[1]
      <4>1. /\ u0 \in [OT!TripleRows -> T] /\ u1 \in [OT!TripleRows -> T] /\ v0 \in T /\ v1 \in T
            /\ f0 \in [OT!TripleRows -> T] /\ f1 \in [OT!TripleRows -> T]
            /\ g0 \in [OT!TripleRows -> T] /\ g1 \in [OT!TripleRows -> T]
            /\ \A j \in OT!TripleRows : Plus(f0[j], f1[j]) = Times(u0[j], v1)
            /\ \A j \in OT!TripleRows : Plus(g0[j], g1[j]) = Times(u1[j], v0)
        BY <1>4, <3>4, <3>6
      <4> HIDE DEF u0, u1, v0, v1, f0, f1, g0, g1
      <4>2. OT!IsTriple(TRUE,
              [U |-> u0, V |-> v0, Z |-> OT!PlusRows(f0, OT!PlusRows(OT!TimesRows(u0, v0), g0))],
              [U |-> u1, V |-> v1, Z |-> OT!PlusRows(f1, OT!PlusRows(OT!TimesRows(u1, v1), g1))])
        BY <4>1, SharedTriple
      <4> QED
        BY <4>2 DEF u0, u1, v0, v1, f0, f1, g0, g1
    <3> QED
      BY <1>2, <2>1, <3>7 DEF OTMade
  <2>2. CASE ~is_shared
    <3>1. assign[0] /\ assign[1]
      BY <1>1, <1>2, <1>4, <2>2
    <3>2. OT!sender(0) = 0 /\ 1 - 0 = 1
      BY <3>1 DEF OT!sender
    <3>3. \A j \in OT!TripleRows : Plus(G[0][j], G[1][j]) = BitsDone(V[1], U[0], j, OT!N)
      BY <3>2 DEF InProduct
    <3>4. \A j \in OT!TripleRows : Plus(G[0][j], G[1][j]) = Times(U[0][j], V[1])
      BY <1>4, <3>3, ProductEnds
    <3>5. V[0] = Zero /\ U[1] = OT!ZeroRows
      BY <1>1, <1>2, <3>1, RoleTypes DEF Doing, Missing
    <3>6. OT!IsTriple(FALSE, [U |-> U[0], V |-> Zero, Z |-> G[0]],
                             [U |-> OT!ZeroRows, V |-> V[1], Z |-> G[1]])
      BY <1>4, <3>4, UnsharedTriple
    <3> QED
      BY <1>1, <1>2, <2>2, <3>5, <3>6 DEF OTMade
  <2> QED
    BY <1>1, <2>1, <2>2
<1>6. \A r \in Roles : Ended(r, i[0] + 1)
  <2>1. (i[0] + 1) - 1 = i[0]
    BY <1>3
  <2> QED
    BY <1>2, <2>1 DEF Roles, Ended, Waiting
<1>7. MadeOrPushed(0, i[0] + 1) = OTMade(0) /\ MadeOrPushed(1, i[0] + 1) = OTMade(1)
  BY <1>2, <1>3 DEF MadeOrPushed
<1> QED
  BY <1>1, <1>3, <1>5, <1>6, <1>7 DEF AfterTriple

-----------------------------------------------------------------------------
(* The steps.                                                              *)
LEMMA SameRoles == OT!Roles = Roles
  BY DEF OT!Roles, Roles

LEMMA CotInv ==
  ASSUME OT!OTParameters, OTInv, OT!Cot
  PROVE  OTInv'
<1>1. /\ \A r \in OT!Roles : pc[r] = "cot" /\ at[r] < OT!N
      /\ OT!sender(0) = OT!sender(1) /\ at[0] = at[1]
      /\ at' = [r \in OT!Roles |-> at[r] + 1]
      /\ UNCHANGED <<pc, i, U, V, assign, R, queue, taken, last>>
  BY DEF OT!Cot
<1>2. InProduct
  BY <1>1, Meeting
<1>3. /\ 0 \in OT!Roles /\ 1 \in OT!Roles /\ OT!N \in Nat \ {0}
      /\ OT!Roles = {0, 1}
  BY Sizes
<1> DEFINE s == OT!sender(0)
           t == 1 - s
           c == at[0]
<1>4. s \in OT!Roles /\ t \in OT!Roles /\ s # t /\ OT!Roles = {s, t}
  BY <1>3 DEF OT!sender
<1>5. c \in 0 .. OT!N - 1 /\ at[s] = c /\ at[t] = c
  <2>1. c \in 0 .. OT!N /\ c < OT!N
    BY <1>1, <1>3, RoleTypes
  <2> QED
    BY <1>1, <1>3, <1>4, <2>1
<1>6. /\ G[s] \in [OT!TripleRows -> T] /\ G[t] \in [OT!TripleRows -> T]
      /\ U[s] \in [OT!TripleRows -> T] /\ V[t] \in T
  BY <1>4, RoleTypes
<1>7. PICK pad \in Pads :
        G' = [G EXCEPT ![s] = OT!SenderShare(@, c, pad),
                       ![t] = OT!ReceiverShare(@, c, pad, U[s], V[t])]
  BY <1>5 DEF OT!Cot
<1>8. \A j \in OT!TripleRows : Plus(G[s][j], G[t][j]) = BitsDone(V[t], U[s], j, c)
  <2>1. \A j \in OT!TripleRows : Plus(G[0][j], G[1][j]) = BitsDone(V[t], U[s], j, c)
    BY <1>2 DEF InProduct
  <2>2. \A j \in OT!TripleRows : Plus(G[0][j], G[1][j]) = Plus(G[1][j], G[0][j])
    <3>1. \A j \in OT!TripleRows : G[0][j] \in T /\ G[1][j] \in T
      BY <1>3, RoleTypes
    <3> QED
      BY <3>1, RingGroup
  <2>3. CASE s = 0
    BY <2>1, <2>3
  <2>4. CASE s = 1
    <3>1. t = 0
      BY <2>4
    <3> QED
      BY <2>1, <2>2, <2>4, <3>1
  <2> QED
    BY <1>3, <1>4, <2>3, <2>4
<1> DEFINE x == OT!SenderShare(G[s], c, pad)
           y == OT!ReceiverShare(G[t], c, pad, U[s], V[t])
<1> HIDE DEF s, t, c
<1>9. /\ x \in [OT!TripleRows -> T] /\ y \in [OT!TripleRows -> T]
      /\ \A j \in OT!TripleRows : Plus(x[j], y[j]) = BitsDone(V[t], U[s], j, c + 1)
  <2> DEFINE g == G[s]
             h == G[t]
             u == U[s]
             v == V[t]
  <2>1. /\ g \in [OT!TripleRows -> T] /\ h \in [OT!TripleRows -> T]
        /\ u \in [OT!TripleRows -> T] /\ v \in T
        /\ \A j \in OT!TripleRows : Plus(g[j], h[j]) = BitsDone(v, u, j, c)
    BY <1>6, <1>8
  <2> HIDE DEF g, h, u, v, x, y
  <2>2. /\ OT!SenderShare(g, c, pad) \in [OT!TripleRows -> T]
        /\ OT!ReceiverShare(h, c, pad, u, v) \in [OT!TripleRows -> T]
        /\ \A j \in OT!TripleRows :
             Plus(OT!SenderShare(g, c, pad)[j], OT!ReceiverShare(h, c, pad, u, v)[j])
               = BitsDone(v, u, j, c + 1)
    BY <1>5, <2>1, CotProduct
  <2> QED
    BY <2>2 DEF g, h, u, v, x, y
<1>10. G \in [OT!Roles -> [OT!TripleRows -> T]]
  BY DEF OTInv, OT!TypeOK
<1>11. G'[s] = x /\ G'[t] = y /\ DOMAIN G' = OT!Roles
  BY <1>4, <1>7, <1>10
<1> HIDE DEF x, y
<1>12. G' \in [OT!Roles -> [OT!TripleRows -> T]]
  <2>1. G' = [r \in OT!Roles |-> G'[r]]
    BY <1>7, <1>10
  <2>2. \A r \in OT!Roles : G'[r] \in [OT!TripleRows -> T]
    BY <1>4, <1>9, <1>11
  <2> QED
    BY <2>1, <2>2
<1>13. \A r \in OT!Roles : at'[r] = c + 1 /\ c + 1 \in 0 .. OT!N
  <2>1. \A r \in OT!Roles : at[r] = c
    BY <1>4, <1>5
  <2> QED
    BY <1>1, <1>3, <1>5, <2>1
<1>14. OT!TypeOK'
  <2>1. at' \in [OT!Roles -> 0 .. OT!N]
    BY <1>1, <1>13
  <2> QED
    BY <1>1, <1>12, <2>1 DEF OTInv, OT!TypeOK
<1>15. \A r \in Roles : Doing(r)'
  BY <1>1 DEF OTInv, Doing, Missing
<1>16. InProduct'
  <2>1. /\ \A r \in Roles : pc[r] = "cot"
        /\ i[0] = i[1] /\ assign[0] = assign[1]
        /\ ~assign[0] => FirstProduct
    BY <1>2 DEF InProduct
  <2>2. ~assign[0] => FirstProduct'
    BY <1>1, <2>1 DEF FirstProduct, FirstShare
  <2>3. at'[0] = c + 1 /\ at'[1] = c + 1
    BY <1>3, <1>13
  <2>4. OT!sender(0)' = s /\ 1 - s = t
    BY <1>1 DEF OT!sender, s, t
  <2>5. \A j \in OT!TripleRows : Plus(G'[s][j], G'[t][j]) = BitsDone(V[t], U[s], j, c + 1)
    BY <1>9, <1>11
  <2>6. \A j \in OT!TripleRows : Plus(G'[0][j], G'[1][j]) = Plus(G'[1][j], G'[0][j])
    <3>1. \A j \in OT!TripleRows : G'[0][j] \in T /\ G'[1][j] \in T
      BY <1>3, <1>12
    <3> QED
      BY <3>1, RingGroup
  <2>7. \A j \in OT!TripleRows : Plus(G'[0][j], G'[1][j]) = BitsDone(V[t], U[s], j, c + 1)
    <3>1. (s = 0 /\ t = 1) \/ (s = 1 /\ t = 0)
      BY <1>3, <1>4
    <3> QED
      BY <2>5, <2>6, <3>1
  <2>8. \A j \in OT!TripleRows :
          Plus(G'[0][j], G'[1][j]) = BitsDone(V[1 - OT!sender(0)'], U[OT!sender(0)'], j, at'[0])
    BY <2>3, <2>4, <2>7
  <2> QED
    BY <1>1, <2>1, <2>2, <2>3, <2>8 DEF InProduct, BitsDone, Done, BlockNo
<1>17. OT!TriplesFit'
  BY <1>1, FitStays DEF OTInv
<1> QED
  BY <1>14, <1>15, <1>16, <1>17 DEF OTInv, OTTogether

(* A party whose state and triples stay keeps what was said of it.         *)
LEMMA PartyStays ==
  ASSUME NEW q \in OT!Roles, NEW k \in Nat,
         pc'[q] = pc[q], i'[q] = i[q], U'[q] = U[q], V'[q] = V[q], assign'[q] = assign[q],
         at'[q] = at[q], G'[q] = G[q], R'[q] = R[q], queue'[q] = queue[q],
         taken'[q] = taken[q], last'[q] = last[q]
  PROVE  /\ Doing(q) => Doing(q)'
         /\ Ended(q, k) => Ended(q, k)'
         /\ MadeOrPushed(q, k)' = MadeOrPushed(q, k)
         /\ \A z : OT!KthTriple(q, z)' = OT!KthTriple(q, z)
         /\ OT!Kept(q)' = OT!Kept(q)
<1>1. Doing(q) => Doing(q)'
  BY Sizes DEF Doing, Missing, OT!Roles
<1>2. Ended(q, k) => Ended(q, k)'
  BY DEF Ended, Waiting
<1>3. \A z : OT!KthTriple(q, z)' = OT!KthTriple(q, z)
  BY DEF OT!KthTriple
<1>4. OTMade(q)' = OTMade(q)
  BY DEF OTMade
<1>5. MadeOrPushed(q, k)' = MadeOrPushed(q, k)
  BY <1>3, <1>4 DEF MadeOrPushed
<1>6. OT!Kept(q)' = OT!Kept(q)
  BY DEF OT!Kept
<1> QED
  BY <1>1, <1>2, <1>3, <1>5, <1>6

LEMMA DrawInv ==
  ASSUME OT!OTParameters, OTInv, NEW r \in OT!Roles, OT!Draw(r)
  PROVE  OTInv'
<1> DEFINE q == 1 - r
<1>1. PICK u \in URows, v \in VBlocks :
        /\ pc[r] = "draw" /\ i[r] < OTNum
        /\ U' = [U EXCEPT ![r] = IF r = 0 THEN u ELSE OT!ZeroRows]
        /\ V' = [V EXCEPT ![r] = IF r = 0 THEN Zero ELSE v]
        /\ assign' = [assign EXCEPT ![r] = TRUE]
        /\ at' = [at EXCEPT ![r] = 0]
        /\ G' = [G EXCEPT ![r] = OT!ZeroRows]
        /\ pc' = [pc EXCEPT ![r] = "cot"]
        /\ UNCHANGED <<i, R, queue, taken, last>>
  BY DEF OT!Draw, OT!Multiply
<1>2. u \in [OT!TripleRows -> T] /\ v \in T /\ Zero \in T /\ OT!ZeroRows \in [OT!TripleRows -> T]
  BY RingClosed DEF OT!OTParameters, OT!ZeroRows
<1>3. OT!TypeOK
  BY DEF OTInv
<1>4. OT!TypeOK'
  <2>1. 0 \in 0 .. OT!N
    BY Sizes
  <2> QED
    BY <1>1, <1>2, <1>3, <2>1 DEF OT!TypeOK
<1>5. q \in OT!Roles /\ q # r /\ \A z \in OT!Roles : z = r \/ z = q
  BY OtherRole
<1> HIDE DEF q
<1>6. /\ pc'[r] = "cot" /\ assign'[r] = TRUE /\ at'[r] = 0 /\ G'[r] = OT!ZeroRows
      /\ U'[r] = (IF r = 0 THEN u ELSE OT!ZeroRows) /\ V'[r] = (IF r = 0 THEN Zero ELSE v)
      /\ i'[r] = i[r]
  BY <1>1, <1>3 DEF OT!TypeOK
<1>7. /\ pc'[q] = pc[q] /\ i'[q] = i[q] /\ U'[q] = U[q] /\ V'[q] = V[q]
      /\ assign'[q] = assign[q] /\ at'[q] = at[q] /\ G'[q] = G[q] /\ R'[q] = R[q]
      /\ queue'[q] = queue[q] /\ taken'[q] = taken[q] /\ last'[q] = last[q]
  BY <1>1, <1>3, <1>5 DEF OT!TypeOK
<1>8. Doing(r) /\ Doing(q) /\ i[r] \in Nat
  BY <1>5, RoleTypes, Sizes
<1>9. Doing(r)'
  <2>1. Missing(r)'
    <3>1. r = 0 \/ r = 1
      BY Sizes
    <3> QED
      BY <1>6, <3>1 DEF Missing
  <2> QED
    BY <1>1, <1>6, <1>8, <2>1 DEF Doing
<1>10. \A z \in Roles : Doing(z)'
  BY <1>5, <1>7, <1>8, <1>9, PartyStays, SameRoles
<1>11. PICK k \in 0 .. OTNum : AfterTriple(k)
  BY <1>1, SameRoles DEF OTInv, OTTogether, InProduct, Between
<1>12. i[r] = k
  BY <1>1, <1>11, SameRoles DEF AfterTriple, Ended, Waiting
<1>13. AfterTriple(k)'
  <2>1. k \in Nat
    BY Sizes
  <2>2. Ended(r, k)'
    BY <1>6, <1>12 DEF Ended
  <2>3. Ended(q, k)'
    BY <1>5, <1>7, <1>11, <2>1, PartyStays, SameRoles DEF AfterTriple
  <2>4. MadeOrPushed(q, k)' = MadeOrPushed(q, k)
    BY <1>5, <1>7, <2>1, PartyStays
  <2>5. MadeOrPushed(r, k)' = MadeOrPushed(r, k)
    BY <1>1, <1>12 DEF MadeOrPushed, OT!KthTriple
  <2>6. MadeOrPushed(0, k)' = MadeOrPushed(0, k) /\ MadeOrPushed(1, k)' = MadeOrPushed(1, k)
    BY <1>5, <2>4, <2>5, OtherRole
  <2>7. \A z \in Roles : Ended(z, k)'
    BY <1>5, <2>2, <2>3, SameRoles
  <2> QED
    BY <1>11, <2>6, <2>7 DEF AfterTriple
<1>14. OT!TriplesFit'
  BY <1>1, FitStays DEF OTInv
<1> QED
  BY <1>4, <1>10, <1>11, <1>13, <1>14 DEF OTInv, OTTogether

LEMMA SecondInv ==
  ASSUME OT!OTParameters, OTInv, NEW r \in OT!Roles, OT!Second(r)
  PROVE  OTInv'
<1> DEFINE q == 1 - r
<1>1. PICK u \in URows, v \in VBlocks :
        /\ pc[r] = "cot" /\ at[r] = OT!N /\ assign[r] /\ is_shared
        /\ R' = [R EXCEPT ![r] = G[r]]
        /\ IF r = 0 THEN V' = [V EXCEPT ![r] = v] /\ U' = U
                    ELSE U' = [U EXCEPT ![r] = u] /\ V' = V
        /\ assign' = [assign EXCEPT ![r] = FALSE]
        /\ at' = [at EXCEPT ![r] = 0]
        /\ G' = [G EXCEPT ![r] = OT!ZeroRows]
        /\ pc' = [pc EXCEPT ![r] = "cot"]
        /\ UNCHANGED <<i, queue, taken, last>>
  BY DEF OT!Second, OT!Multiply
<1>2. u \in [OT!TripleRows -> T] /\ v \in T /\ OT!ZeroRows \in [OT!TripleRows -> T]
  BY RingClosed DEF OT!OTParameters, OT!ZeroRows
<1>3. OT!TypeOK
  BY DEF OTInv
<1>4. OT!N \in Nat \ {0} /\ OT!Roles = {0, 1} /\ is_shared \in BOOLEAN
  BY Sizes
<1>5. OT!TypeOK'
  <2>1. 0 \in 0 .. OT!N
    BY <1>4
  <2>2. R' \in [OT!Roles -> [OT!TripleRows -> T]]
    BY <1>1, <1>3 DEF OT!TypeOK
  <2>3. U' \in [OT!Roles -> [OT!TripleRows -> T]] /\ V' \in [OT!Roles -> T]
    BY <1>1, <1>2, <1>3 DEF OT!TypeOK
  <2> QED
    BY <1>1, <1>2, <1>3, <2>1, <2>2, <2>3 DEF OT!TypeOK
<1>6. q \in OT!Roles /\ q # r /\ \A z \in OT!Roles : z = r \/ z = q
  BY OtherRole
<1> HIDE DEF q
<1>7. /\ pc'[r] = "cot" /\ assign'[r] = FALSE /\ at'[r] = 0 /\ G'[r] = OT!ZeroRows
      /\ R'[r] = G[r] /\ i'[r] = i[r]
  BY <1>1, <1>3 DEF OT!TypeOK
<1>8. /\ pc'[q] = pc[q] /\ i'[q] = i[q] /\ U'[q] = U[q] /\ V'[q] = V[q]
      /\ assign'[q] = assign[q] /\ at'[q] = at[q] /\ G'[q] = G[q] /\ R'[q] = R[q]
      /\ queue'[q] = queue[q] /\ taken'[q] = taken[q] /\ last'[q] = last[q]
  BY <1>1, <1>3, <1>6 DEF OT!TypeOK
<1>9. Doing(r) /\ Doing(q)
  BY <1>6, RoleTypes
<1>10. Doing(r)'
  BY <1>1, <1>7, <1>9 DEF Doing
<1>11. \A z \in Roles : Doing(z)'
  <2>1. Doing(q)'
    <3>1. 0 \in Nat
      OBVIOUS
    <3> QED
      BY <1>6, <1>8, <1>9, <3>1, PartyStays
  <2> QED
    BY <1>6, <1>10, <2>1, SameRoles
<1>12. Between
  <2>1. CASE InProduct
    <3>1. at[0] = OT!N /\ assign[0]
      BY <1>1, <1>4, <2>1 DEF InProduct
    <3> QED
      BY <1>1, <2>1, <3>1, FirstDone
  <2>2. ASSUME NEW k \in 0 .. OTNum, AfterTriple(k) PROVE FALSE
    <3>1. Ended(r, k)
      BY <2>2, SameRoles DEF AfterTriple
    <3> QED
      BY <1>1, <1>4, <3>1 DEF Ended, Waiting
  <2> QED
    BY <2>1, <2>2 DEF OTInv, OTTogether
<1>13. Between'
  <2>1. FirstShare(r)' = FirstShare(r) /\ FirstShare(q)' = FirstShare(q)
    BY <1>1, <1>7, <1>8 DEF FirstShare
  <2>2. FirstShare(0)' = FirstShare(0) /\ FirstShare(1)' = FirstShare(1)
    BY <1>6, <2>1, OtherRole
  <2>3. U'[0] = U[0] /\ V'[1] = V[1]
    BY <1>1, <1>3, <1>4 DEF OT!TypeOK
  <2>4. FirstProduct'
    BY <1>12, <2>2, <2>3 DEF Between, FirstProduct
  <2>5. i'[0] = i'[1]
    BY <1>1, <1>12 DEF Between
  <2>6. \A z \in Roles :
          /\ pc'[z] = "cot"
          /\ IF assign'[z] THEN at'[z] = OT!N ELSE at'[z] = 0 /\ G'[z] = OT!ZeroRows
    BY <1>6, <1>7, <1>8, <1>12, SameRoles DEF Between
  <2> QED
    BY <1>1, <2>4, <2>5, <2>6 DEF Between
<1>14. OT!TriplesFit'
  BY <1>1, FitStays DEF OTInv
<1> QED
  BY <1>5, <1>11, <1>13, <1>14 DEF OTInv, OTTogether

LEMMA FinishInv ==
  ASSUME OT!OTParameters, OTInv, NEW r \in OT!Roles, OT!Finish(r)
  PROVE  OTInv'
<1> DEFINE q == 1 - r
           z_share == IF is_shared THEN OT!PlusRows(R[r], OT!PlusRows(OT!TimesRows(U[r], V[r]), G[r]))
                                   ELSE G[r]
<1>1. /\ pc[r] = "cot" /\ at[r] = OT!N /\ assign[r] # is_shared
      /\ R' = [R EXCEPT ![r] = z_share]
      /\ pc' = [pc EXCEPT ![r] = "push"]
      /\ UNCHANGED <<i, U, V, assign, at, G, queue, taken, last>>
  <2>1. R' = [R EXCEPT ![r] = IF is_shared THEN OT!PlusRows(@, OT!PlusRows(OT!TimesRows(U[r], V[r]), G[r]))
                                          ELSE G[r]]
    BY DEF OT!Finish
  <2>2. OT!TypeOK
    BY DEF OTInv
  <2> QED
    BY <2>1, <2>2 DEF OT!Finish, OT!TypeOK
<1>2. z_share \in [OT!TripleRows -> T]
  <2>1. R[r] \in [OT!TripleRows -> T] /\ G[r] \in [OT!TripleRows -> T]
        /\ U[r] \in [OT!TripleRows -> T] /\ V[r] \in T
    BY RoleTypes
  <2>2. OT!TimesRows(U[r], V[r]) \in [OT!TripleRows -> T]
    BY <2>1, RowTypes
  <2>3. OT!PlusRows(OT!TimesRows(U[r], V[r]), G[r]) \in [OT!TripleRows -> T]
    BY <2>1, <2>2, RowTypes
  <2>4. OT!PlusRows(R[r], OT!PlusRows(OT!TimesRows(U[r], V[r]), G[r])) \in [OT!TripleRows -> T]
    BY <2>1, <2>3, RowTypes
  <2> QED
    BY <2>1, <2>4
<1>3. OT!TypeOK
  BY DEF OTInv
<1>4. OT!N \in Nat \ {0} /\ OT!Roles = {0, 1} /\ is_shared \in BOOLEAN
  BY Sizes
<1>5. OTMade(r)' = OTMade(r)
  <2>1. R'[r] = z_share /\ pc'[r] = "push"
    BY <1>1, <1>3 DEF OT!TypeOK
  <2> QED
    BY <1>1, <2>1 DEF OTMade
<1> HIDE DEF z_share
<1>6. OT!TypeOK'
  BY <1>1, <1>2, <1>3 DEF OT!TypeOK
<1>7. q \in OT!Roles /\ q # r /\ \A z \in OT!Roles : z = r \/ z = q
  BY OtherRole
<1> HIDE DEF q
<1>8. /\ pc'[r] = "push" /\ assign'[r] = assign[r] /\ i'[r] = i[r]
      /\ pc'[q] = pc[q] /\ i'[q] = i[q] /\ U'[q] = U[q] /\ V'[q] = V[q]
      /\ assign'[q] = assign[q] /\ at'[q] = at[q] /\ G'[q] = G[q] /\ R'[q] = R[q]
      /\ queue'[q] = queue[q] /\ taken'[q] = taken[q] /\ last'[q] = last[q]
  BY <1>1, <1>3, <1>7 DEF OT!TypeOK
<1>9. Doing(r) /\ Doing(q)
  BY <1>7, RoleTypes
<1>10. Doing(r)'
  BY <1>1, <1>8, <1>9 DEF Doing, Missing
<1>11. \A z \in Roles : Doing(z)'
  <2>1. Doing(q)'
    <3>1. 0 \in Nat
      OBVIOUS
    <3> QED
      BY <1>7, <1>8, <1>9, <3>1, PartyStays
  <2> QED
    BY <1>7, <1>10, <2>1, SameRoles
<1>12. PICK k \in 0 .. OTNum : AfterTriple(k)
  <2>1. CASE InProduct
    <3>1. at[0] = OT!N /\ assign[0] # is_shared
      BY <1>1, <1>4, <2>1 DEF InProduct
    <3> QED
      BY <2>1, <3>1, LastDone
  <2>2. CASE Between
    BY <1>1, <1>4, <2>2, SameRoles DEF Between
  <2> QED
    BY <2>1, <2>2 DEF OTInv, OTTogether
<1>13. i[r] = k - 1 /\ k \in Nat
  <2>1. Ended(r, k)
    BY <1>12, SameRoles DEF AfterTriple
  <2> QED
    BY <1>1, <1>4, <2>1 DEF Ended
<1>14. AfterTriple(k)'
  <2>1. Ended(r, k)'
    BY <1>8, <1>13 DEF Ended
  <2>2. Ended(q, k)'
    <3>1. Ended(q, k)
      BY <1>7, <1>12, SameRoles DEF AfterTriple
    <3> QED
      BY <1>7, <1>8, <1>13, <3>1, PartyStays
  <2>3. MadeOrPushed(q, k)' = MadeOrPushed(q, k)
    BY <1>7, <1>8, <1>13, PartyStays
  <2>4. MadeOrPushed(r, k)' = MadeOrPushed(r, k)
    BY <1>5, <1>8, <1>13 DEF MadeOrPushed
  <2>5. MadeOrPushed(0, k)' = MadeOrPushed(0, k) /\ MadeOrPushed(1, k)' = MadeOrPushed(1, k)
    BY <1>7, <2>3, <2>4, OtherRole
  <2>6. \A z \in Roles : Ended(z, k)'
    BY <1>7, <2>1, <2>2, SameRoles
  <2> QED
    BY <1>12, <2>5, <2>6 DEF AfterTriple
<1>15. OT!TriplesFit'
  BY <1>1, FitStays DEF OTInv
<1> QED
  BY <1>6, <1>11, <1>12, <1>14, <1>15 DEF OTInv, OTTogether

(* What Push leaves: one triple more, which is the one that was made.      *)
LEMMA PushedTriple ==
  ASSUME OT!OTParameters, OTInv, NEW r \in OT!Roles, OT!Push(r)
  PROVE  /\ OTMade(r) \in OT!TripleType
         /\ queue'[r] \in Seq(OT!TripleType) /\ Len(queue'[r]) = Len(queue[r]) + 1
         /\ \A x \in taken[r] .. i[r] : OT!KthTriple(r, x)' = OT!KthTriple(r, x)
         /\ \A x : x = i[r] + 1 => OT!KthTriple(r, x)' = OTMade(r)
<1> DEFINE t == [U |-> U[r], V |-> V[r], Z |-> R[r]]
           Q == queue[r]
<1>1. /\ pc[r] = "push" /\ queue' = [queue EXCEPT ![r] = Append(Q, t)]
      /\ taken' = taken /\ last' = last
  BY DEF OT!Push
<1>2. t = OTMade(r)
  BY <1>1 DEF OTMade
<1>3. t \in OT!TripleType
  BY RoleTypes DEF OT!TripleType
<1>4. /\ Q \in Seq(OT!TripleType) /\ Len(Q) \in Nat
      /\ taken[r] + Len(Q) = i[r] /\ taken[r] \in Nat
  BY RoleTypes, KeptFacts DEF Doing
<1>5. queue'[r] = Append(Q, t)
  BY <1>1 DEF OTInv, OT!TypeOK
<1> HIDE DEF t, Q
<1>6. /\ Append(Q, t) \in Seq(OT!TripleType) /\ Len(Append(Q, t)) = Len(Q) + 1
      /\ \A x \in 1 .. Len(Q) : Append(Q, t)[x] = Q[x]
      /\ Append(Q, t)[Len(Q) + 1] = t
  BY <1>3, <1>4, AppendProperties
<1>7. ASSUME NEW x \in taken[r] .. i[r] PROVE OT!KthTriple(r, x)' = OT!KthTriple(r, x)
  <2>1. CASE x = taken[r]
    BY <1>1, <2>1 DEF OT!KthTriple
  <2>2. CASE x # taken[r]
    <3>1. x - taken[r] \in 1 .. Len(Q)
      BY <1>4, <2>2
    <3>2. queue'[r][x - taken[r]] = Q[x - taken[r]]
      BY <1>5, <1>6, <3>1
    <3> QED
      BY <1>1, <2>2, <3>2 DEF OT!KthTriple, Q
  <2> QED
    BY <2>1, <2>2
<1>8. ASSUME NEW x, x = i[r] + 1 PROVE OT!KthTriple(r, x)' = t
  <2>1. x - taken[r] = Len(Q) + 1 /\ x # taken[r]
    BY <1>4, <1>8
  <2>2. queue'[r][x - taken[r]] = t
    BY <1>5, <1>6, <2>1
  <2> QED
    BY <1>1, <2>1, <2>2 DEF OT!KthTriple
<1> QED
  BY <1>2, <1>3, <1>4, <1>5, <1>6, <1>7, <1>8 DEF Q

LEMMA PushInv ==
  ASSUME OT!OTParameters, OTInv, NEW r \in OT!Roles, OT!Push(r)
  PROVE  OTInv'
<1> DEFINE q == 1 - r
<1>1. /\ pc[r] = "push"
      /\ i' = [i EXCEPT ![r] = i[r] + 1]
      /\ pc' = [pc EXCEPT ![r] = "draw"]
      /\ UNCHANGED <<U, V, assign, at, G, R, taken, last>>
  BY DEF OT!Push
<1>2. queue' = [queue EXCEPT ![r] = queue'[r]]
  BY DEF OT!Push, OTInv, OT!TypeOK
<1>3. OT!TypeOK
  BY DEF OTInv
<1>4. /\ OTMade(r) \in OT!TripleType
      /\ queue'[r] \in Seq(OT!TripleType) /\ Len(queue'[r]) = Len(queue[r]) + 1
      /\ \A x \in taken[r] .. i[r] : OT!KthTriple(r, x)' = OT!KthTriple(r, x)
      /\ \A x : x = i[r] + 1 => OT!KthTriple(r, x)' = OTMade(r)
  BY PushedTriple
<1>5. Doing(r) /\ i[r] \in Nat /\ taken[r] \in Nat /\ taken[r] <= i[r] /\ i[r] + 1 \in 0 .. OTNum
      /\ Len(queue[r]) \in Nat
  <2>1. i[r] \in Nat /\ taken[r] \in Nat /\ taken[r] <= i[r]
    BY KeptFacts
  <2>2. Doing(r) /\ i[r] < OTNum
    BY <1>1, RoleTypes DEF Doing
  <2> QED
    BY <2>1, <2>2, RoleTypes, Sizes
<1>6. OT!TypeOK'
  <2>1. queue' \in [OT!Roles -> Seq(OT!TripleType)]
    BY <1>2, <1>3, <1>4 DEF OT!TypeOK
  <2>2. i' \in [OT!Roles -> 0 .. OTNum]
    BY <1>1, <1>3, <1>5 DEF OT!TypeOK
  <2> QED
    BY <1>1, <1>3, <2>1, <2>2 DEF OT!TypeOK
<1>7. q \in OT!Roles /\ q # r /\ \A z \in OT!Roles : z = r \/ z = q
  BY OtherRole
<1> HIDE DEF q
<1>8. /\ pc'[r] = "draw" /\ i'[r] = i[r] + 1
      /\ pc'[q] = pc[q] /\ i'[q] = i[q] /\ U'[q] = U[q] /\ V'[q] = V[q]
      /\ assign'[q] = assign[q] /\ at'[q] = at[q] /\ G'[q] = G[q] /\ R'[q] = R[q]
      /\ taken'[q] = taken[q] /\ last'[q] = last[q]
  BY <1>1, <1>3, <1>7 DEF OT!TypeOK
<1>9. queue'[q] = queue[q]
  BY <1>2, <1>3, <1>7 DEF OT!TypeOK
<1>10. Doing(q)
  BY <1>7, RoleTypes
<1>11. Doing(r)'
  <2>1. taken[r] + Len(queue[r]) = i[r]
    BY <1>5 DEF Doing
  <2>2. taken'[r] + Len(queue'[r]) = i'[r]
    BY <1>1, <1>4, <1>5, <1>8, <2>1
  <2> QED
    BY <1>8, <2>2 DEF Doing
<1>12. \A z \in Roles : Doing(z)'
  <2>1. Doing(q)'
    <3>1. 0 \in Nat
      OBVIOUS
    <3> QED
      BY <1>7, <1>8, <1>9, <1>10, <3>1, PartyStays
  <2> QED
    BY <1>7, <1>11, <2>1, SameRoles
<1>13. PICK k \in 0 .. OTNum : AfterTriple(k)
  BY <1>1, SameRoles DEF OTInv, OTTogether, InProduct, Between
<1>14. i[r] = k - 1 /\ k \in Nat /\ k > 0 /\ i[r] + 1 = k
  <2>1. Ended(r, k)
    BY <1>13, SameRoles DEF AfterTriple
  <2>2. k \in Nat
    BY Sizes
  <2> QED
    BY <1>1, <1>5, <2>1, <2>2 DEF Ended
<1>15. MadeOrPushed(r, k) = OTMade(r) /\ OT!KthTriple(r, k)' = OTMade(r)
  BY <1>4, <1>14 DEF MadeOrPushed
<1>16. MadeOrPushed(q, k)' = MadeOrPushed(q, k)
  BY <1>7, <1>8, <1>9, <1>14, PartyStays
<1>17. AfterTriple(k)'
  <2>1. Ended(r, k)'
    BY <1>8, <1>14 DEF Ended
  <2>2. Ended(q, k)'
    <3>1. Ended(q, k)
      BY <1>7, <1>13, SameRoles DEF AfterTriple
    <3> QED
      BY <1>7, <1>8, <1>9, <1>14, <3>1, PartyStays
  <2>3. MadeOrPushed(r, k)' = MadeOrPushed(r, k)
    BY <1>8, <1>14, <1>15 DEF MadeOrPushed
  <2>4. MadeOrPushed(0, k)' = MadeOrPushed(0, k) /\ MadeOrPushed(1, k)' = MadeOrPushed(1, k)
    BY <1>7, <1>16, <2>3, OtherRole
  <2>5. \A z \in Roles : Ended(z, k)'
    BY <1>7, <2>1, <2>2, SameRoles
  <2> QED
    BY <1>13, <2>4, <2>5 DEF AfterTriple
<1>18. OT!IsTriple(is_shared, MadeOrPushed(0, k), MadeOrPushed(1, k))
  BY <1>13, <1>14 DEF AfterTriple
<1>19. /\ OT!Kept(r) = (IF taken[r] = 0 THEN 1 ELSE taken[r]) .. i[r]
       /\ OT!Kept(r)' = (IF taken[r] = 0 THEN 1 ELSE taken[r]) .. i[r] + 1
  <2>1. OT!Kept(r)' = (IF taken'[r] = 0 THEN 1 ELSE taken'[r]) .. taken'[r] + Len(queue'[r])
    BY DEF OT!Kept
  <2>2. taken'[r] + Len(queue'[r]) = i[r] + 1 /\ taken'[r] = taken[r]
    BY <1>1, <1>8, <1>11 DEF Doing
  <2> QED
    BY <2>1, <2>2, KeptFacts
<1>20. /\ OT!Kept(q)' = OT!Kept(q) /\ \A z : OT!KthTriple(q, z)' = OT!KthTriple(q, z)
       /\ OT!Kept(q) = (IF taken[q] = 0 THEN 1 ELSE taken[q]) .. i[q]
       /\ i[q] \in Nat
  BY <1>7, <1>8, <1>9, <1>14, PartyStays, KeptFacts
<1>21. i[q] = k \/ i[q] = k - 1
  BY <1>7, <1>13, SameRoles DEF AfterTriple, Ended
<1>22. OT!TriplesFit'
  <2> SUFFICES ASSUME NEW x \in OT!Kept(0)' \cap OT!Kept(1)'
               PROVE  OT!IsTriple(is_shared, OT!KthTriple(0, x)', OT!KthTriple(1, x)')
    BY DEF OT!TriplesFit, OT!IsTriple, OT!TimesRows, OT!PlusRows, OT!ZeroRows
  <2>1. x \in OT!Kept(r)' /\ x \in OT!Kept(q)'
    BY <1>7, OtherRole
  <2>2. x \in Nat /\ x > 0 /\ x >= taken[r] /\ x <= k
    BY <1>5, <1>14, <1>19, <2>1
  <2>3. CASE x = k
    <3>1. i[q] = k
      BY <1>14, <1>20, <1>21, <2>1, <2>3
    <3>2. OT!KthTriple(q, k)' = MadeOrPushed(q, k)
      BY <1>20, <3>1 DEF MadeOrPushed
    <3>3. OT!KthTriple(r, k)' = MadeOrPushed(r, k)
      BY <1>15
    <3>4. OT!KthTriple(0, k)' = MadeOrPushed(0, k) /\ OT!KthTriple(1, k)' = MadeOrPushed(1, k)
      BY <1>7, <3>2, <3>3, OtherRole
    <3> QED
      BY <1>18, <2>3, <3>4
  <2>4. CASE x # k
    <3>1. x \in taken[r] .. i[r]
      BY <1>5, <1>14, <2>2, <2>4
    <3>2. x \in OT!Kept(r) /\ x \in OT!Kept(q)
      BY <1>5, <1>14, <1>19, <1>20, <2>1, <2>2, <2>4
    <3>3. OT!KthTriple(r, x)' = OT!KthTriple(r, x) /\ OT!KthTriple(q, x)' = OT!KthTriple(q, x)
      BY <1>4, <1>20, <3>1
    <3>4. /\ x \in OT!Kept(0) \cap OT!Kept(1)
          /\ OT!KthTriple(0, x)' = OT!KthTriple(0, x) /\ OT!KthTriple(1, x)' = OT!KthTriple(1, x)
      BY <1>7, <3>2, <3>3, OtherRole
    <3>5. OT!IsTriple(is_shared, OT!KthTriple(0, x), OT!KthTriple(1, x))
      BY <3>4 DEF OTInv, OT!TriplesFit
    <3> QED
      BY <3>4, <3>5
  <2> QED
    BY <2>3, <2>4
<1> QED
  BY <1>6, <1>12, <1>13, <1>17, <1>22 DEF OTInv, OTTogether

LEMMA TakeInv ==
  ASSUME OT!OTParameters, OTInv, NEW r \in OT!Roles, OT!GetTriple(r)
  PROVE  OTInv'
<1> DEFINE q == 1 - r
           Q == queue[r]
<1>1. /\ Q # <<>>
      /\ last' = [last EXCEPT ![r] = Head(Q)]
      /\ queue' = [queue EXCEPT ![r] = Tail(Q)]
      /\ taken' = [taken EXCEPT ![r] = taken[r] + 1]
      /\ UNCHANGED <<pc, i, U, V, assign, at, G, R>>
  BY DEF OT!GetTriple
<1>2. OT!TypeOK
  BY DEF OTInv
<1>3. /\ Q \in Seq(OT!TripleType) /\ Len(Q) \in Nat /\ taken[r] \in Nat /\ i[r] \in 0 .. OTNum
      /\ taken[r] + Len(Q) = i[r]
  BY RoleTypes, KeptFacts DEF Doing
<1> HIDE DEF Q
<1>4. /\ Head(Q) \in OT!TripleType /\ Head(Q) = Q[1]
      /\ Tail(Q) \in Seq(OT!TripleType) /\ Len(Tail(Q)) = Len(Q) - 1 /\ Len(Q) > 0
      /\ \A x \in 1 .. Len(Tail(Q)) : Tail(Q)[x] = Q[x + 1]
  <2>1. Len(Q) # 0
    BY <1>1, <1>3, EmptySeq
  <2>2. /\ Head(Q) \in OT!TripleType /\ Head(Q) = Q[1]
        /\ Tail(Q) \in Seq(OT!TripleType) /\ Len(Tail(Q)) = Len(Q) - 1
        /\ \A x \in 1 .. Len(Tail(Q)) : Tail(Q)[x] = Q[x + 1]
    BY <1>1, <1>3, HeadTailProperties
  <2> QED
    BY <1>3, <2>1, <2>2
<1>5. taken[r] + 1 \in 0 .. OTNum
  BY <1>3, <1>4, Sizes
<1>6. OT!TypeOK'
  <2>1. /\ queue' \in [OT!Roles -> Seq(OT!TripleType)] /\ taken' \in [OT!Roles -> 0 .. OTNum]
        /\ last' \in [OT!Roles -> OT!TripleType]
    BY <1>1, <1>2, <1>4, <1>5 DEF OT!TypeOK
  <2> QED
    BY <1>1, <1>2, <2>1 DEF OT!TypeOK
<1>7. q \in OT!Roles /\ q # r /\ \A z \in OT!Roles : z = r \/ z = q
  BY OtherRole
<1> HIDE DEF q
<1>8. /\ queue'[r] = Tail(Q) /\ taken'[r] = taken[r] + 1 /\ last'[r] = Head(Q)
      /\ queue'[q] = queue[q] /\ taken'[q] = taken[q] /\ last'[q] = last[q]
  BY <1>1, <1>2, <1>7 DEF OT!TypeOK
<1>9. Doing(r) /\ Doing(q)
  BY <1>7, RoleTypes
<1>10. Doing(r)'
  <2>1. taken'[r] + Len(queue'[r]) = i'[r]
    BY <1>1, <1>3, <1>4, <1>8
  <2> QED
    BY <1>1, <1>9, <2>1 DEF Doing, Missing
<1>11. Doing(q)'
  <2>1. 0 \in Nat
    OBVIOUS
  <2> QED
    BY <1>1, <1>7, <1>8, <1>9, <2>1, PartyStays
<1>12. \A z \in Roles : Doing(z)'
  BY <1>7, <1>10, <1>11, SameRoles
<1>13. ASSUME NEW x \in taken[r] + 1 .. i[r] PROVE OT!KthTriple(r, x)' = OT!KthTriple(r, x)
  <2>1. x # taken[r] /\ OT!KthTriple(r, x) = Q[x - taken[r]]
    BY <1>3 DEF OT!KthTriple, Q
  <2>2. CASE x = taken[r] + 1
    <3>1. x - taken[r] = 1
      BY <1>3, <2>2
    <3>2. OT!KthTriple(r, x)' = last'[r]
      BY <1>8, <2>2 DEF OT!KthTriple
    <3> QED
      BY <1>4, <1>8, <2>1, <3>1, <3>2
  <2>3. CASE x # taken[r] + 1
    <3>1. /\ x - (taken[r] + 1) \in 1 .. Len(Tail(Q))
          /\ (x - (taken[r] + 1)) + 1 = x - taken[r]
      <4> DEFINE len == Len(Q)
                 rest == Len(Tail(Q))
                 had == taken[r]
                 end == i[r]
      <4>1. /\ len \in Nat /\ rest = len - 1 /\ had \in Nat /\ end = had + len
            /\ x \in had + 1 .. end /\ x # had + 1
        BY <1>3, <1>4, <2>3
      <4> HIDE DEF len, rest, had, end
      <4>2. x - (had + 1) \in 1 .. rest /\ (x - (had + 1)) + 1 = x - had
        BY <4>1
      <4> QED
        BY <4>2 DEF rest, had
    <3>2. OT!KthTriple(r, x)' = Tail(Q)[x - (taken[r] + 1)]
      BY <1>8, <2>3 DEF OT!KthTriple
    <3> QED
      BY <1>4, <2>1, <3>1, <3>2
  <2> QED
    BY <2>2, <2>3
<1>14. \A z : OT!KthTriple(q, z)' = OT!KthTriple(q, z)
  BY <1>8 DEF OT!KthTriple
<1>15. OTTogether'
  <2>1. CASE InProduct
    <3>1. InProduct'
      BY <1>1, <2>1 DEF InProduct, FirstProduct, FirstShare, OT!sender
    <3> QED
      BY <3>1 DEF OTTogether
  <2>2. CASE Between
    <3>1. Between'
      BY <1>1, <2>2 DEF Between, FirstProduct, FirstShare
    <3> QED
      BY <3>1 DEF OTTogether
  <2>3. ASSUME NEW k \in 0 .. OTNum, AfterTriple(k) PROVE OTTogether'
    <3>1. \A z \in Roles : Ended(z, k)'
      BY <1>1, <2>3 DEF AfterTriple, Ended, Waiting
    <3>2. k \in Nat
      BY Sizes
    <3>3. MadeOrPushed(q, k)' = MadeOrPushed(q, k)
      BY <1>1, <1>7, <1>8, <3>2, PartyStays
    <3>4. MadeOrPushed(r, k)' = MadeOrPushed(r, k)
      <4>1. CASE i[r] = k
        <5>1. k \in taken[r] + 1 .. i[r]
          BY <1>3, <1>4, <4>1
        <5> QED
          BY <1>1, <1>13, <4>1, <5>1 DEF MadeOrPushed
      <4>2. CASE i[r] # k
        BY <1>1, <4>2 DEF MadeOrPushed, OTMade
      <4> QED
        BY <4>1, <4>2
    <3>5. MadeOrPushed(0, k)' = MadeOrPushed(0, k) /\ MadeOrPushed(1, k)' = MadeOrPushed(1, k)
      BY <1>7, <3>3, <3>4, OtherRole
    <3>6. AfterTriple(k)'
      BY <2>3, <3>1, <3>5 DEF AfterTriple
    <3> QED
      BY <3>6 DEF OTTogether
  <2> QED
    BY <2>1, <2>2, <2>3 DEF OTInv, OTTogether
<1>16. OT!TriplesFit'
  <2> SUFFICES ASSUME NEW x \in OT!Kept(0)' \cap OT!Kept(1)'
               PROVE  OT!IsTriple(is_shared, OT!KthTriple(0, x)', OT!KthTriple(1, x)')
    BY DEF OT!TriplesFit, OT!IsTriple, OT!TimesRows, OT!PlusRows, OT!ZeroRows
  <2>1. x \in OT!Kept(r)' /\ x \in OT!Kept(q)'
    BY <1>7, OtherRole
  <2>2. x \in taken[r] + 1 .. i[r]
    <3>1. OT!Kept(r)' = (IF taken'[r] = 0 THEN 1 ELSE taken'[r]) .. taken'[r] + Len(queue'[r])
      BY DEF OT!Kept
    <3>2. taken'[r] + Len(queue'[r]) = i[r] /\ taken'[r] # 0
      BY <1>3, <1>4, <1>8
    <3> QED
      BY <1>8, <2>1, <3>1, <3>2
  <2>3. x \in OT!Kept(r)
    BY <1>3, <2>2, KeptFacts
  <2>4. x \in OT!Kept(q)
    <3>1. OT!Kept(q)' = OT!Kept(q)
      BY <1>8 DEF OT!Kept
    <3> QED
      BY <2>1, <3>1
  <2>5. OT!KthTriple(r, x)' = OT!KthTriple(r, x) /\ OT!KthTriple(q, x)' = OT!KthTriple(q, x)
    BY <1>13, <1>14, <2>2
  <2>6. /\ x \in OT!Kept(0) \cap OT!Kept(1)
        /\ OT!KthTriple(0, x)' = OT!KthTriple(0, x) /\ OT!KthTriple(1, x)' = OT!KthTriple(1, x)
    BY <1>7, <2>3, <2>4, <2>5, OtherRole
  <2>7. OT!IsTriple(is_shared, OT!KthTriple(0, x), OT!KthTriple(1, x))
    BY <2>6 DEF OTInv, OT!TriplesFit
  <2> QED
    BY <2>6, <2>7
<1> QED
  BY <1>6, <1>12, <1>15, <1>16 DEF OTInv

(* Every step of the two parties.                                          *)
LEMMA OTNextInv == OT!OTParameters /\ OTInv /\ OT!Next => OTInv'
<1> SUFFICES ASSUME OT!OTParameters, OTInv, OT!Next PROVE OTInv'
  OBVIOUS
<1>1. CASE OT!Cot
  BY <1>1, CotInv
<1>2. ASSUME NEW r \in OT!Roles, OT!Precompute(r) PROVE OTInv'
  BY <1>2, DrawInv, SecondInv, FinishInv, PushInv DEF OT!Precompute
<1>3. ASSUME NEW r \in OT!Roles, OT!GetTriple(r) PROVE OTInv'
  BY <1>3, TakeInv
<1> QED
  BY <1>1, <1>2, <1>3 DEF OT!Next

LEMMA OTStutters == OTInv /\ UNCHANGED OT!vars => OTInv'
<1> SUFFICES ASSUME OTInv, UNCHANGED OT!vars PROVE OTInv'
  OBVIOUS
<1>1. /\ pc' = pc /\ i' = i /\ U' = U /\ V' = V /\ assign' = assign /\ at' = at
      /\ G' = G /\ R' = R /\ queue' = queue /\ taken' = taken /\ last' = last
  BY DEF OT!vars
<1>2. OT!TypeOK' /\ OT!TriplesFit'
  BY <1>1 DEF OTInv, OT!TypeOK, OT!TriplesFit, OT!Kept, OT!KthTriple
<1>3. \A r \in Roles : Doing(r)'
  BY <1>1 DEF OTInv, Doing, Missing
<1>4. OTTogether'
  <2>1. InProduct' = InProduct /\ Between' = Between
    BY <1>1 DEF InProduct, Between, FirstProduct, FirstShare, OT!sender
  <2>2. \A k : AfterTriple(k)' = AfterTriple(k)
    BY <1>1 DEF AfterTriple, Ended, Waiting, MadeOrPushed, OTMade, OT!KthTriple
  <2> QED
    BY <2>1, <2>2 DEF OTInv, OTTogether
<1> QED
  BY <1>2, <1>3, <1>4 DEF OTInv

(* The OT provider keeps its invariant: the parties' COTs pair up, the    *)
(* shares of a product are right after every COT, and a triple that both   *)
(* have fits, whoever finishes, pushes or takes it first.                  *)
THEOREM OTInvHolds == ASSUME OT!OTParameters PROVE OT!Spec => []OTInv
<1>1. OTInv /\ [OT!Next]_(OT!vars) => OTInv'
  BY OTNextInv, OTStutters
<1> QED
  BY <1>1, PartiesInit, PTL DEF OT!Spec

-----------------------------------------------------------------------------
(* Either provider.                                                        *)
PInv ==
  /\ provider \in {"fake", "OT"}
  /\ provider = "fake" => FakeInv
  /\ provider = "OT" => OTInv /\ got = [r \in Roles |-> <<>>]

LEMMA PInitInv == OT!OTParameters /\ PInit => PInv
<1> SUFFICES ASSUME OT!OTParameters, PInit PROVE PInv
  OBVIOUS
<1>1. CASE provider = "fake"
  BY <1>1, InitInv DEF PInit, PInv
<1>2. CASE provider = "OT"
  BY <1>2, PartiesInit DEF PInit, PInv
<1> QED
  BY <1>1, <1>2 DEF PInit

LEMMA PNextInv == OT!OTParameters /\ PInv /\ [PNext]_pvars => PInv'
<1> SUFFICES ASSUME OT!OTParameters, PInv, [PNext]_pvars PROVE PInv'
  OBVIOUS
<1>1. CASE OfFake(Next)
  <2>1. provider = "fake" /\ provider' = "fake" /\ [Next]_vars
    BY <1>1 DEF OfFake
  <2>2. FakeInv'
    BY <2>1, FakeNextInv DEF PInv
  <2> QED
    BY <2>1, <2>2 DEF PInv
<1>2. CASE OfOT(OT!Next)
  <2>1. /\ provider = "OT" /\ provider' = "OT" /\ got' = got
        /\ OT!Next
    BY <1>2 DEF OfOT, fakevars
  <2>2. OTInv'
    BY <2>1, OTNextInv DEF PInv
  <2> QED
    BY <2>1, <2>2 DEF PInv
<1>3. CASE UNCHANGED pvars
  <2>1. UNCHANGED vars /\ UNCHANGED OT!vars /\ provider' = provider /\ got' = got
    BY <1>3 DEF pvars, vars, otvars, OT!vars
  <2>2. provider = "fake" => FakeInv'
    BY <2>1, FakeNextInv DEF PInv
  <2>3. provider = "OT" => OTInv'
    BY <2>1, OTStutters DEF PInv
  <2> QED
    BY <2>1, <2>2, <2>3 DEF PInv
<1> QED
  BY <1>1, <1>2, <1>3 DEF PNext

LEMMA PInvHolds == ASSUME OT!OTParameters PROVE PSpec => []PInv
  BY PInitInv, PNextInv, PTL DEF PSpec

(* Every variable of the provider that the parties have keeps its type:    *)
(* no loop of Precompute makes or hands over more than it was asked for.   *)
THEOREM ProviderTypesCorrect ==
  ASSUME OT!OTParameters PROVE PSpec => []ProviderTypeOK
<1>1. PInv => ProviderTypeOK
  BY DEF PInv, FakeInv, OTInv, ProviderTypeOK
<1> QED
  BY <1>1, PInvHolds, PTL

(* The k-th triples that GilboaProduct gives the two parties fit, however  *)
(* many of them one party has pushed or taken before the other.            *)
THEOREM OTTriplesAlwaysFit ==
  ASSUME OT!OTParameters PROVE PSpec => []OTTriplesFit
<1>1. PInv => OTTriplesFit
  BY DEF PInv, OTInv, OTTriplesFit
<1> QED
  BY <1>1, PInvHolds, PTL

(* The same of what the fake provider hands over: its triples fit, and no  *)
(* draw of the generator is used for two of them.                          *)
THEOREM FakeTriplesAlwaysFit ==
  ASSUME OT!OTParameters PROVE PSpec => []TriplesFit /\ []NoTripleReused
<1>1. ASSUME PInv PROVE TriplesFit /\ NoTripleReused
  <2>1. CASE provider = "fake"
    BY <1>1, <2>1, FakeFits, FakeOnce DEF PInv
  <2>2. CASE provider = "OT"
    <3>1. \A r \in Roles : got[r] = <<>>
      BY <1>1, <2>2 DEF PInv
    <3>2. \A r \in Roles : Len(got[r]) = 0
      BY <3>1
    <3>3. \A r \in Roles : 1 .. Len(got[r]) = {}
      BY <3>2
    <3> QED
      BY <3>3 DEF TriplesFit, NoTripleReused, Roles
  <2> QED
    BY <1>1, <2>1, <2>2 DEF PInv
<1> QED
  BY <1>1, PInvHolds, PTL
=============================================================================
