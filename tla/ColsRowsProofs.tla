--------------------------- MODULE ColsRowsProofs ---------------------------
(* cols-rows.hpp for any dimension, any matrices and any k: the parties    *)
(* agree on the positions of the indices they both have, and what they     *)
(* return are shares of the product of A and B.                            *)
EXTENDS ColsRows, FiniteSetTheorems, WellFoundedInduction, SequenceTheorems, TLAPS

(* A nonempty set of natural numbers has a least element.                  *)
LEMMA NatLeast ==
  ASSUME NEW S \in SUBSET Nat, S # {}
  PROVE  \E x \in S : \A y \in S : x <= y
<1> DEFINE R == OpToRel(<, Nat)
<1>1. IsWellFoundedOn(R, Nat)
  BY NatLessThanWellFounded
<1>2. \A x, y \in Nat : y < x => <<y, x>> \in R
  BY DEF OpToRel
<1> HIDE DEF R
<1>3. PICK x \in S : \A y \in S : ~(<<y, x>> \in R)
  BY <1>1, WFMin
<1>4. \A y \in S : ~(y < x)
  BY <1>2, <1>3
<1> QED
  BY <1>4

(* A nonempty set of finite sets has one of the fewest elements.           *)
LEMMA SmallestSet ==
  ASSUME NEW B, B # {}, \A u \in B : IsFiniteSet(u)
  PROVE  \E u \in B : \A w \in B : Cardinality(u) <= Cardinality(w)
<1>1. \A u \in B : Cardinality(u) \in Nat
  BY FS_CardinalityType
<1> DEFINE C == {Cardinality(u) : u \in B}
<1>2. C \in SUBSET Nat /\ C # {}
  BY <1>1
<1>3. PICK c \in C : \A d \in C : c <= d
  <2> HIDE DEF C
  <2> QED
    BY <1>2, NatLeast
<1> QED
  BY <1>3

-----------------------------------------------------------------------------
(* SumOf.  The sums of f over the subsets of its domain are a function g   *)
(* that is defined from itself; there is one.                              *)
AnyOf(u) == CHOOSE x \in u : TRUE
SumsFrom(f, g, D) ==
  [u \in D |-> IF u = {} THEN Zero ELSE Plus(f[AnyOf(u)], g[u \ {AnyOf(u)}])]
Sums(f) == CHOOSE g : g = SumsFrom(f, g, SUBSET DOMAIN f)

LEMMA SumOfIs == ASSUME NEW f PROVE SumOf(f) = Sums(f)[DOMAIN f]
  BY DEF SumOf, FoldFunction, FoldFunctionOnSet, MapThenFoldSet, Sums, SumsFrom, AnyOf

LEMMA SumsExist ==
  ASSUME NEW f, IsFiniteSet(DOMAIN f)
  PROVE  Sums(f) = SumsFrom(f, Sums(f), SUBSET DOMAIN f)
<1> DEFINE S == DOMAIN f
           Up(n) == {u \in SUBSET S : Cardinality(u) <= n}
           Without == {n \in Nat : ~ \E g : g = SumsFrom(f, g, Up(n))}
<1>1. \A u \in SUBSET S : IsFiniteSet(u) /\ Cardinality(u) \in Nat
  BY FS_Subset, FS_CardinalityType
<1>2. \A u \in SUBSET S : u # {} => Cardinality(u \ {AnyOf(u)}) = Cardinality(u) - 1
  BY <1>1, FS_RemoveElement DEF AnyOf
<1> HIDE DEF S
<1>3. \E g : g = SumsFrom(f, g, Up(0))
  <2>1. Up(0) = {{}}
    <3>1. \A u \in SUBSET S : Cardinality(u) <= 0 <=> u = {}
      BY <1>1, FS_EmptySet
    <3>2. {} \in SUBSET S
      OBVIOUS
    <3> QED
      BY <3>1, <3>2
  <2> DEFINE g == [u \in {{}} |-> Zero]
  <2>2. g = SumsFrom(f, g, {{}})
    BY DEF SumsFrom
  <2> QED
    BY <2>1, <2>2
<1>4. ASSUME NEW n \in Nat, NEW g, g = SumsFrom(f, g, Up(n))
      PROVE  \E h : h = SumsFrom(f, h, Up(n + 1))
  <2> DEFINE h == SumsFrom(f, g, Up(n + 1))
  <2>1. \A u \in Up(n + 1) : u # {} => u \ {AnyOf(u)} \in Up(n)
    BY <1>1, <1>2
  <2>2. Up(n) \subseteq Up(n + 1)
    BY <1>1
  <2> HIDE DEF Up
  <2>3. \A u \in Up(n) : h[u] = g[u]
    <3>1. \A u \in Up(n) : g[u] = IF u = {} THEN Zero ELSE Plus(f[AnyOf(u)], g[u \ {AnyOf(u)}])
      BY <1>4 DEF SumsFrom
    <3> QED
      BY <2>2, <3>1 DEF SumsFrom
  <2> HIDE DEF h
  <2>4. \A u \in Up(n + 1) : u # {} => h[u \ {AnyOf(u)}] = g[u \ {AnyOf(u)}]
    BY <2>1, <2>3
  <2>5. SumsFrom(f, g, Up(n + 1)) = SumsFrom(f, h, Up(n + 1))
    BY <2>4 DEF SumsFrom
  <2> QED
    BY <2>5 DEF h
<1>5. Without = {}
  <2> SUFFICES ASSUME Without # {} PROVE FALSE
    OBVIOUS
  <2>1. PICK n \in Without : \A m \in Without : n <= m
    <3> HIDE DEF Without
    <3>1. Without \in SUBSET Nat
      BY DEF Without
    <3> QED
      BY <3>1, NatLeast
  <2>2. n # 0 /\ n \in Nat
    BY <1>3
  <2>3. n - 1 \in Nat /\ (n - 1) + 1 = n /\ ~(n <= n - 1)
    BY <2>2
  <2>4. \E g : g = SumsFrom(f, g, Up(n - 1))
    BY <2>1, <2>3
  <2> QED
    BY <1>4, <2>3, <2>4
<1>6. Up(Cardinality(S)) = SUBSET S /\ Cardinality(S) \in Nat
  <2>1. \A u \in SUBSET S : Cardinality(u) <= Cardinality(S)
    BY <1>1, FS_Subset
  <2> QED
    BY <1>1, <2>1
<1>7. \E g : g = SumsFrom(f, g, SUBSET S)
  BY <1>5, <1>6
<1> QED
  BY <1>7 DEF Sums, S

(* What the sums are: of no elements, and of some elements.                *)
LEMMA SumsStep ==
  ASSUME NEW f, IsFiniteSet(DOMAIN f), NEW u \in SUBSET DOMAIN f
  PROVE  /\ u = {} => Sums(f)[u] = Zero
         /\ u # {} => Sums(f)[u] = Plus(f[AnyOf(u)], Sums(f)[u \ {AnyOf(u)}])
<1>1. Sums(f) = SumsFrom(f, Sums(f), SUBSET DOMAIN f)
  BY SumsExist
<1> DEFINE g == Sums(f)
<1>2. g = [v \in SUBSET DOMAIN f |-> IF v = {} THEN Zero ELSE Plus(f[AnyOf(v)], g[v \ {AnyOf(v)}])]
  BY <1>1 DEF SumsFrom
<1> HIDE DEF g
<1>3. g[u] = IF u = {} THEN Zero ELSE Plus(f[AnyOf(u)], g[u \ {AnyOf(u)}])
  BY <1>2
<1> QED
  BY <1>3 DEF g

(* A set of subsets of a finite set is empty if a smaller member follows   *)
(* from each: induction on their size.                                     *)
LEMMA NoSmallest ==
  ASSUME NEW S, IsFiniteSet(S), NEW B \in SUBSET SUBSET S,
         \A u \in B : \E x \in u : u \ {x} \in B
  PROVE  B = {}
<1> SUFFICES ASSUME B # {} PROVE FALSE
  OBVIOUS
<1>1. \A u \in B : IsFiniteSet(u) /\ Cardinality(u) \in Nat
  BY FS_Subset, FS_CardinalityType
<1>2. PICK u \in B : \A w \in B : Cardinality(u) <= Cardinality(w)
  BY <1>1, SmallestSet
<1>3. PICK x \in u : u \ {x} \in B
  OBVIOUS
<1>4. Cardinality(u \ {x}) = Cardinality(u) - 1
  BY <1>1, FS_RemoveElement
<1> QED
  BY <1>1, <1>2, <1>3, <1>4

LEMMA SumsClosed ==
  ASSUME NEW S, IsFiniteSet(S), NEW f \in [S -> T], NEW u \in SUBSET S
  PROVE  Sums(f)[u] \in T
<1> DEFINE B == {w \in SUBSET S : Sums(f)[w] \notin T}
<1>1. ASSUME NEW w \in B PROVE \E x \in w : w \ {x} \in B
  <2>1. w # {}
    BY SumsStep, RingClosed
  <2>2. Sums(f)[w] = Plus(f[AnyOf(w)], Sums(f)[w \ {AnyOf(w)}])
    BY <2>1, SumsStep
  <2>3. AnyOf(w) \in w
    BY <2>1 DEF AnyOf
  <2>4. f[AnyOf(w)] \in T /\ w \ {AnyOf(w)} \in SUBSET S
    BY <2>3
  <2>5. Sums(f)[w \ {AnyOf(w)}] \notin T
    BY <2>2, <2>4, RingClosed
  <2> QED
    BY <2>3, <2>4, <2>5
<1> HIDE DEF B
<1>2. B = {}
  <2>1. B \in SUBSET SUBSET S
    BY DEF B
  <2> QED
    BY <1>1, <2>1, NoSmallest
<1> QED
  BY <1>2 DEF B

(* Any element may be the first.                                           *)
LEMMA SumsAny ==
  ASSUME NEW S, IsFiniteSet(S), NEW f \in [S -> T], NEW u \in SUBSET S, NEW x \in u
  PROVE  Sums(f)[u] = Plus(f[x], Sums(f)[u \ {x}])
<1> DEFINE g == Sums(f)
           B == {w \in SUBSET S : \E y \in w : g[w] # Plus(f[y], g[w \ {y}])}
<1>1. ASSUME NEW w \in B PROVE \E y \in w : w \ {y} \in B
  <2>1. PICK y \in w : g[w] # Plus(f[y], g[w \ {y}])
    OBVIOUS
  <2> DEFINE c == AnyOf(w)
  <2>2. c \in w
    BY <2>1 DEF AnyOf
  <2>3. g[w] = Plus(f[c], g[w \ {c}])
    BY <2>1, SumsStep
  <2>4. y # c
    BY <2>1, <2>3
  <2> SUFFICES ASSUME w \ {c} \notin B, w \ {y} \notin B PROVE FALSE
    BY <2>1, <2>2
  <2> DEFINE v == g[w \ {c, y}]
  <2>5. g[w \ {c}] = Plus(f[y], v)
    <3>1. y \in w \ {c} /\ (w \ {c}) \ {y} = w \ {c, y}
      BY <2>1, <2>4
    <3> QED
      BY <3>1
  <2>6. g[w \ {y}] = Plus(f[c], v)
    <3>1. c \in w \ {y} /\ (w \ {y}) \ {c} = w \ {c, y}
      BY <2>2, <2>4
    <3> QED
      BY <3>1
  <2>7. v \in T /\ f[c] \in T /\ f[y] \in T
    BY <2>1, <2>2, SumsClosed
  <2> HIDE DEF v, c, g
  <2>8. Plus(f[c], Plus(f[y], v)) = Plus(f[y], Plus(f[c], v))
    BY <2>7, RingGroup
  <2> QED
    BY <2>1, <2>3, <2>5, <2>6, <2>8
<1> HIDE DEF B
<1>2. B = {}
  <2>1. B \in SUBSET SUBSET S
    BY DEF B
  <2> QED
    BY <1>1, <2>1, NoSmallest
<1> QED
  BY <1>2 DEF B

(* Zeros do not count.                                                     *)
LEMMA SumsOfSupport ==
  ASSUME NEW S, IsFiniteSet(S), NEW f \in [S -> T], NEW u \in SUBSET S,
         \A x \in S \ u : f[x] = Zero
  PROVE  Sums(f)[S] = Sums(f)[u]
<1> DEFINE g == Sums(f)
           B == {w \in SUBSET S : g[w] # g[w \cap u]}
<1>1. ASSUME NEW w \in B PROVE \E x \in w : w \ {x} \in B
  <2>1. w # w \cap u
    OBVIOUS
  <2>2. PICK x \in w : x \notin u
    BY <2>1
  <2>3. g[w] = Plus(Zero, g[w \ {x}])
    BY <2>2, SumsAny
  <2>4. g[w \ {x}] \in T
    BY SumsClosed
  <2>5. g[w] = g[w \ {x}]
    <3> HIDE DEF g
    <3> QED
      BY <2>3, <2>4, RingGroup, RingClosed
  <2>6. (w \ {x}) \cap u = w \cap u
    BY <2>2
  <2> QED
    BY <2>5, <2>6
<1> HIDE DEF B
<1>2. B = {}
  <2>1. B \in SUBSET SUBSET S
    BY DEF B
  <2> QED
    BY <1>1, <2>1, NoSmallest
<1>3. S \cap u = u /\ S \in SUBSET S
  OBVIOUS
<1>4. g[S] = g[S \cap u]
  BY <1>2, <1>3 DEF B
<1> QED
  BY <1>3, <1>4

(* Nor does it matter where the elements are.                              *)
LEMMA SumsMoved ==
  ASSUME NEW S, IsFiniteSet(S), NEW f \in [S -> T],
         NEW P, IsFiniteSet(P), NEW g \in [P -> T],
         NEW u \in SUBSET S, NEW h \in [u -> P],
         \A x, y \in u : h[x] = h[y] => x = y,
         \A x \in u : f[x] = g[h[x]]
  PROVE  Sums(f)[u] = Sums(g)[{h[x] : x \in u}]
<1> DEFINE Image(w) == {h[x] : x \in w}
           B == {w \in SUBSET u : Sums(f)[w] # Sums(g)[Image(w)]}
<1>1. \A w \in SUBSET u : Image(w) \in SUBSET P /\ w \in SUBSET S
  OBVIOUS
<1>2. ASSUME NEW w \in B PROVE \E x \in w : w \ {x} \in B
  <2>1. w # {}
    <3>1. Sums(f)[{}] = Zero /\ Sums(g)[{}] = Zero
      BY SumsStep
    <3>2. Image({}) = {}
      OBVIOUS
    <3> QED
      BY <3>1, <3>2
  <2>2. PICK x \in w : TRUE
    BY <2>1
  <2>3. Sums(f)[w] = Plus(f[x], Sums(f)[w \ {x}])
    <3>1. w \in SUBSET S
      BY <1>1
    <3> QED
      BY <3>1, SumsAny
  <2>4. h[x] \in Image(w) /\ Image(w) \ {h[x]} = Image(w \ {x})
    OBVIOUS
  <2> HIDE DEF Image
  <2>5. Sums(g)[Image(w)] = Plus(g[h[x]], Sums(g)[Image(w) \ {h[x]}])
    BY <1>1, <2>4, SumsAny
  <2>6. Sums(f)[w \ {x}] # Sums(g)[Image(w \ {x})]
    BY <2>3, <2>4, <2>5
  <2> QED
    BY <2>6
<1> HIDE DEF B
<1>3. B = {}
  <2>1. IsFiniteSet(u) /\ B \in SUBSET SUBSET u
    BY FS_Subset DEF B
  <2> QED
    BY <1>2, <2>1, NoSmallest
<1> QED
  BY <1>3 DEF B

(* Two functions that agree up to where their elements are, and but for    *)
(* zeros, have the same sum.                                               *)
LEMMA SameSum ==
  ASSUME NEW S, IsFiniteSet(S), NEW f \in [S -> T],
         NEW P, IsFiniteSet(P), NEW g \in [P -> T],
         NEW u \in SUBSET S, NEW h \in [u -> P],
         \A x, y \in u : h[x] = h[y] => x = y,
         \A x \in u : f[x] = g[h[x]],
         \A x \in S \ u : f[x] = Zero,
         \A p \in P \ {h[x] : x \in u} : g[p] = Zero
  PROVE  SumOf(f) = SumOf(g)
<1> DEFINE w == {h[x] : x \in u}
<1>1. w \in SUBSET P
  OBVIOUS
<1>2. Sums(f)[S] = Sums(f)[u]
  BY SumsOfSupport
<1>3. Sums(f)[u] = Sums(g)[w]
  BY SumsMoved
<1> HIDE DEF w
<1>4. Sums(g)[P] = Sums(g)[w]
  <2>1. \A p \in P \ w : g[p] = Zero
    BY DEF w
  <2> QED
    BY <1>1, <2>1, SumsOfSupport
<1>5. DOMAIN f = S /\ DOMAIN g = P
  OBVIOUS
<1> QED
  BY <1>2, <1>3, <1>4, <1>5, SumOfIs

LEMMA SumClosed ==
  ASSUME NEW S, IsFiniteSet(S), NEW f \in [S -> T]
  PROVE  SumOf(f) \in T
<1>1. DOMAIN f = S /\ S \in SUBSET S
  OBVIOUS
<1> QED
  BY <1>1, SumOfIs, SumsClosed

-----------------------------------------------------------------------------
(* Whether party r has yet to send its k, or to receive the other's.       *)
HasToSend(r) == pc[r] \in IF r = 0 THEN {"start", "sendk"} ELSE {"start", "recvk", "sendk"}
HasToReceive(r) == pc[r] \in IF r = 0 THEN {"start", "sendk", "recvk"} ELSE {"start", "recvk"}

(* The k of party r: nobody knows it, it is on its way, or both know it.   *)
KNowhere(r) ==
  /\ KOf(r, r) = -1 /\ KOf(Other(r), r) = -1 /\ chan[Other(r)] = <<>>
  /\ HasToSend(r) /\ HasToReceive(Other(r))
KOnItsWay(r) ==
  /\ KOf(r, r) # -1 /\ KOf(Other(r), r) = -1 /\ chan[Other(r)] = <<KOf(r, r)>>
  /\ ~HasToSend(r) /\ HasToReceive(Other(r))
KKnown(r) == KOf(r, r) # -1 /\ KOf(Other(r), r) = KOf(r, r) /\ chan[Other(r)] = <<>>
KAgreed == \A r \in Roles : KNowhere(r) \/ KOnItsWay(r) \/ KKnown(r)

(* The k of party r is at least its number of indices, or it serves and    *)
(* will refuse its k.                                                      *)
KFits ==
  \A r \in Roles : KOf(r, r) # -1 =>
    \/ Size(M[r]) <= KOf(r, r)
    \/ KOf(r, Other(r)) # -1 /\ Serves(r) /\ Size(M[r]) > Total(r)

(* The indices are those of the nonzero columns or rows, each once.        *)
Indexed ==
  \A r \in Roles : pc[r] # "start" =>
    /\ Len(inner[r]) = Size(M[r])
    /\ \A x \in Nonzero(M[r]) : \E n \in 1 .. Len(inner[r]) : inner[r][n] = x
    /\ \A n \in 1 .. Len(inner[r]) : inner[r][n] \in Nonzero(M[r])
    /\ \A m, n \in 1 .. Len(inner[r]) : inner[r][m] = inner[r][n] => m = n

(* The server's pairs have its indices; their positions and those that are *)
(* unmapped are all different.  The client's keys begin with its indices.  *)
Mapped(r) ==
  DOMAIN perm[r] = 1 .. Len(inner[r]) /\ \A n \in 1 .. Len(inner[r]) : perm[r][n][1] = inner[r][n]
Spot(r, n) == IF n <= Len(inner[r]) THEN perm[r][n][2] ELSE unmapped[n - Len(inner[r])]
Served(r) ==
  /\ Len(inner[r]) + Len(unmapped) = Total(r)
  /\ Mapped(r)
  /\ \A n \in 1 .. Total(r) : Spot(r, n) \in 0 .. Total(r) - 1
  /\ \A m, n \in 1 .. Total(r) : Spot(r, m) = Spot(r, n) => m = n
Padded(r) ==
  /\ DOMAIN perm[r] = 1 .. KOf(r, r) /\ Len(perm[r]) = KOf(r, r)
  /\ \A n \in 1 .. KOf(r, r) : perm[r][n] = IF n <= Len(inner[r]) THEN inner[r][n] ELSE Dummy
Placed == \A r \in Roles : pc[r] = "room" => IF Serves(r) THEN Served(r) ELSE Padded(r)

(* The parties leave the map together, and the multiplication.             *)
Joined ==
  /\ \A ph \in {"multiply", "returned"} : pc[0] = ph <=> pc[1] = ph
  /\ pc[0] = "multiply" => k[0] = k[1] /\ Mapped(0) /\ Mapped(1)

IInv ==
  TypeOK /\ KAgreed /\ KFits /\ Indexed /\ Placed /\ Joined /\ PositionsAgree /\ ProductShared

Phases == {"start", "sendk", "recvk", "permute", "room", "unpromised", "multiply",
           "returned", "thrown"}
MaybeNat == Nat \cup {-1}

LEMMA RolesFacts ==
  ASSUME NEW r \in Roles
  PROVE  /\ Other(r) \in Roles /\ Other(Other(r)) = r /\ Other(r) # r
         /\ \A q \in Roles : q = r \/ q = Other(r)
         /\ r + 1 \in {1, 2} /\ (r = 0 \/ r = 1)
         /\ 0 \in Roles /\ 1 \in Roles
  BY DEF Roles, Other

LEMMA TypeFacts ==
  ASSUME TypeOK, NEW r \in Roles
  PROVE  /\ M[r] \in [Inner -> T]
         /\ k[r] \in MaybeNat \X MaybeNat
         /\ \A q \in Roles : KOf(r, q) \in MaybeNat
         /\ inner[r] \in Seq(Inner) /\ Len(inner[r]) \in Nat
         /\ pc[r] \in Phases
         /\ chan[r] \in Seq(Nat)
         /\ ret[r] \in T
         /\ Size(M[r]) \in Nat /\ IsFiniteSet(Nonzero(M[r]))
<1>1. /\ M[r] \in [Inner -> T] /\ k[r] \in MaybeNat \X MaybeNat /\ inner[r] \in Seq(Inner)
      /\ pc[r] \in Phases /\ chan[r] \in Seq(Nat) /\ ret[r] \in T
  BY DEF TypeOK, Phases, MaybeNat
<1>2. \A q \in Roles : KOf(r, q) \in MaybeNat
  BY <1>1 DEF KOf, Roles
<1>3. Len(inner[r]) \in Nat
  BY <1>1, LenProperties
<1>4. Nonzero(M[r]) \in SUBSET Inner
  BY DEF Nonzero
<1>5. Size(M[r]) \in Nat /\ IsFiniteSet(Nonzero(M[r]))
  BY <1>4, ColsRowsAssumption, FS_Subset, FS_CardinalityType DEF Size
<1> QED
  BY <1>1, <1>2, <1>3, <1>5

LEMMA InitInv == Init => IInv
<1> SUFFICES ASSUME Init PROVE IInv
  OBVIOUS
<1>1. PICK a \in As, b \in Bs, ks \in Ks :
        /\ (Fits(Size(a), ks[1]) /\ Fits(Size(b), ks[2])) \/ Refused(a, b, ks)
        /\ M = [r \in Roles |-> IF r = 0 THEN a ELSE b]
        /\ k = [r \in Roles |-> ks]
  BY DEF Init
<1>2. /\ inner = [r \in Roles |-> <<>>] /\ pc = [r \in Roles |-> "start"]
      /\ chan = [r \in Roles |-> <<>>] /\ unmapped = <<>>
      /\ perm = [r \in Roles |-> <<>>] /\ ret = [r \in Roles |-> Zero]
      /\ prot \in Maps
  BY DEF Init
<1>3. TypeOK
  <2>1. a \in [Inner -> T] /\ b \in [Inner -> T] /\ ks \in (Nat \cup {-1}) \X (Nat \cup {-1})
    BY ColsRowsAssumption
  <2>2. /\ M \in [Roles -> [Inner -> T]] /\ M[0] \in As /\ M[1] \in Bs
        /\ k \in [Roles -> (Nat \cup {-1}) \X (Nat \cup {-1})]
    BY <1>1, <2>1 DEF Roles
  <2>3. /\ inner \in [Roles -> Seq(Inner)] /\ chan \in [Roles -> Seq(Nat)] /\ unmapped \in Seq(Nat)
        /\ DOMAIN perm = Roles /\ ret \in [Roles -> T]
    BY <1>2, RingClosed
  <2> QED
    BY <1>2, <2>2, <2>3 DEF TypeOK
<1>4. KAgreed
  <2> SUFFICES ASSUME NEW r \in Roles PROVE KNowhere(r) \/ KKnown(r)
    BY DEF KAgreed
  <2>1. KOf(Other(r), r) = KOf(r, r) /\ chan[Other(r)] = <<>>
    BY <1>1, <1>2, RolesFacts DEF KOf
  <2>2. HasToSend(r) /\ HasToReceive(Other(r))
    BY <1>2, RolesFacts DEF HasToSend, HasToReceive
  <2> QED
    BY <2>1, <2>2 DEF KNowhere, KKnown
<1>5. KFits
  <2>1. M[0] = a /\ M[1] = b /\ k[0] = ks /\ k[1] = ks
    BY <1>1 DEF Roles
  <2>2. KOf(0, 0) = ks[1] /\ KOf(1, 1) = ks[2] /\ KOf(1, 0) = ks[1] /\ KOf(0, 1) = ks[2]
    BY <2>1 DEF KOf
  <2>3. /\ ks[1] \in MaybeNat /\ ks[2] \in MaybeNat /\ Size(a) \in Nat /\ Size(b) \in Nat
    BY <1>3, <2>1, <2>2, TypeFacts DEF Roles
  <2>4. Other(0) = 1 /\ Other(1) = 0 /\ Total(0) = ks[1] + ks[2] /\ Total(1) = ks[1] + ks[2]
    BY <2>2 DEF Other, Total
  <2>5. (Serves(0) <=> ks[1] > ks[2]) /\ (Serves(1) <=> ~(ks[1] > ks[2]))
    BY <2>2 DEF Serves
  <2>6. CASE Fits(Size(a), ks[1]) /\ Fits(Size(b), ks[2])
    BY <2>1, <2>2, <2>6 DEF KFits, Fits, Roles
  <2>7. CASE Refused(a, b, ks)
    <3>1. ks[1] # -1 /\ ks[2] # -1
      BY <2>7 DEF Refused
    <3>2. Size(a) <= ks[1] \/ (Serves(0) /\ Size(a) > Total(0))
      BY <2>4, <2>5, <2>7, <3>1 DEF Refused, Fits
    <3>3. Size(b) <= ks[2] \/ (Serves(1) /\ Size(b) > Total(1))
      BY <2>4, <2>5, <2>7, <3>1 DEF Refused, Fits
    <3> QED
      BY <2>1, <2>2, <2>4, <3>1, <3>2, <3>3 DEF KFits, Roles
  <2> QED
    BY <1>1, <2>6, <2>7
<1>6. \A r \in Roles : pc[r] = "start"
  BY <1>2
<1>7. Indexed /\ Placed /\ Joined /\ PositionsAgree /\ ProductShared
  <2>1. pc[0] = "start" /\ pc[1] = "start"
    BY <1>6 DEF Roles
  <2> QED
    BY <1>6, <2>1 DEF Indexed, Placed, Joined, PositionsAgree, ProductShared, Roles
<1> QED
  BY <1>3, <1>4, <1>5, <1>7 DEF IInv

(* A party that is not yet multiplying: neither is the other.              *)
LEMMA NotJoined ==
  ASSUME IInv, NEW r \in Roles, pc[r] \notin {"multiply", "returned"},
         NEW to \in {"sendk", "recvk", "permute", "room", "thrown"},
         pc' = [pc EXCEPT ![r] = to]
  PROVE  /\ Joined' /\ PositionsAgree' /\ ProductShared'
         /\ pc'[r] = to /\ pc'[Other(r)] = pc[Other(r)] /\ pc' \in [Roles -> Phases]
<1>1. pc'[r] = to /\ pc'[Other(r)] = pc[Other(r)] /\ pc' \in [Roles -> Phases]
  BY RolesFacts DEF IInv, TypeOK, Phases
<1>2. \A q \in Roles : pc[q] \notin {"multiply", "returned"}
  BY DEF IInv, Joined, Roles
<1>3. \A q \in Roles : pc'[q] \notin {"multiply", "returned"}
  BY <1>1, <1>2, RolesFacts
<1>4. Joined'
  BY <1>3 DEF Joined, Roles
<1>5. PositionsAgree'
  BY <1>3 DEF PositionsAgree, Roles
<1>6. ProductShared'
  BY <1>3 DEF ProductShared, Roles
<1> QED
  BY <1>1, <1>4, <1>5, <1>6

(* A step that leaves the k alone and comes neither before nor after they  *)
(* are sent and received.                                                  *)
LEMMA KUntouched ==
  ASSUME IInv, NEW r \in Roles, NEW to \in {"sendk", "recvk", "room", "thrown"},
         pc[r] \in {"start", "permute"},
         pc[r] = "start" => to = IF r = 0 THEN "sendk" ELSE "recvk",
         pc[r] = "permute" => to \in {"room", "thrown"},
         pc' = [pc EXCEPT ![r] = to], M' = M, k' = k, chan' = chan
  PROVE  KAgreed' /\ KFits'
<1>1. pc'[r] = to /\ pc'[Other(r)] = pc[Other(r)]
  BY RolesFacts DEF IInv, TypeOK
<1>2. \A q \in Roles : (HasToSend(q)' <=> HasToSend(q)) /\ (HasToReceive(q)' <=> HasToReceive(q))
  <2>1. (HasToSend(r)' <=> HasToSend(r)) /\ (HasToReceive(r)' <=> HasToReceive(r))
    BY <1>1 DEF HasToSend, HasToReceive
  <2>2. (HasToSend(Other(r))' <=> HasToSend(Other(r))) /\ (HasToReceive(Other(r))' <=> HasToReceive(Other(r)))
    BY <1>1 DEF HasToSend, HasToReceive
  <2> QED
    BY <2>1, <2>2, RolesFacts
<1>3. KAgreed'
  <2>1. \A q \in Roles : KNowhere(q) \/ KOnItsWay(q) \/ KKnown(q)
    BY DEF IInv, KAgreed
  <2>2. \A q \in Roles : (KNowhere(q) \/ KOnItsWay(q) \/ KKnown(q))'
    BY <1>2, <2>1, RolesFacts DEF KNowhere, KOnItsWay, KKnown, KOf, Other
  <2> QED
    BY <2>2 DEF KAgreed
<1>4. KFits'
  BY DEF IInv, KFits, KOf, Serves, Total
<1> QED
  BY <1>3, <1>4

LEMMA ComputeIndicesStep == ASSUME IInv, NEW r \in Roles, ComputeIndices(r) PROVE IInv'
<1> DEFINE to == IF r = 0 THEN "sendk" ELSE "recvk"
<1>1. /\ pc[r] = "start" /\ pc' = [pc EXCEPT ![r] = to]
      /\ UNCHANGED <<prot, M, k, chan, unmapped, perm, ret>>
  BY DEF ComputeIndices
<1>2. PICK order \in Orders(Nonzero(M[r])) : inner' = [inner EXCEPT ![r] = order]
  BY DEF ComputeIndices
<1>3. /\ Joined' /\ PositionsAgree' /\ ProductShared'
      /\ pc'[r] = to /\ pc'[Other(r)] = pc[Other(r)] /\ pc' \in [Roles -> Phases]
  BY <1>1, NotJoined
<1>4. KAgreed' /\ KFits'
  <2>1. /\ M' = M /\ k' = k /\ chan' = chan
        /\ to = (IF r = 0 THEN "sendk" ELSE "recvk") /\ to \in {"sendk", "recvk", "room", "thrown"}
    BY <1>1
  <2> HIDE DEF to
  <2> QED
    BY <1>1, <2>1, KUntouched
<1> DEFINE S == Nonzero(M[r])
           N == Cardinality(S)
<1>5. N \in Nat /\ IsFiniteSet(S) /\ S \subseteq Inner /\ N = Size(M[r])
  BY TypeFacts DEF IInv, Size, Nonzero
<1>6. /\ order \in [1 .. N -> S] /\ \A x \in S : \E n \in 1 .. N : order[n] = x
  BY <1>2 DEF Orders, Range
<1>7. order \in Seq(Inner) /\ Len(order) = N
  <2> HIDE DEF S, N
  <2> QED
    BY <1>5, <1>6, SeqDef, LenProperties
<1>8. \A m, n \in 1 .. N : order[m] = order[n] => m = n
  <2>1. order \in Surjection(1 .. N, S)
    BY <1>6 DEF Surjection
  <2>2. IsFiniteSet(1 .. N) /\ Cardinality(1 .. N) = N
    BY <1>5, FS_Interval
  <2>3. order \in Injection(1 .. N, S)
    <3> HIDE DEF N
    <3> QED
      BY <1>5, <2>1, <2>2, FS_Surjection DEF N
  <2> QED
    BY <2>3 DEF Injection, IsInjective
<1>9. inner'[r] = order /\ inner'[Other(r)] = inner[Other(r)] /\ inner' \in [Roles -> Seq(Inner)]
  <2> HIDE DEF S, N
  <2> QED
    BY <1>2, <1>7, RolesFacts DEF IInv, TypeOK
<1>10. TypeOK'
  BY <1>1, <1>3, <1>9 DEF IInv, TypeOK, Phases
<1>11. Indexed'
  <2> SUFFICES ASSUME NEW q \in Roles, pc'[q] # "start"
               PROVE  (/\ Len(inner[q]) = Size(M[q])
                       /\ \A x \in Nonzero(M[q]) : \E n \in 1 .. Len(inner[q]) : inner[q][n] = x
                       /\ \A n \in 1 .. Len(inner[q]) : inner[q][n] \in Nonzero(M[q])
                       /\ \A m, n \in 1 .. Len(inner[q]) : inner[q][m] = inner[q][n] => m = n)'
    BY DEF Indexed
  <2>1. CASE q = r
    <3>1. \A n \in 1 .. N : order[n] \in S
      BY <1>6
    <3>2. M' = M
      BY <1>1
    <3> HIDE DEF N
    <3> QED
      BY <1>5, <1>6, <1>7, <1>8, <1>9, <2>1, <3>1, <3>2
  <2>2. CASE q = Other(r)
    <3>1. pc[q] # "start" /\ inner'[q] = inner[q] /\ M' = M
      BY <1>1, <1>3, <1>9, <2>2
    <3>2. /\ Len(inner[q]) = Size(M[q])
          /\ \A x \in Nonzero(M[q]) : \E n \in 1 .. Len(inner[q]) : inner[q][n] = x
          /\ \A n \in 1 .. Len(inner[q]) : inner[q][n] \in Nonzero(M[q])
          /\ \A m, n \in 1 .. Len(inner[q]) : inner[q][m] = inner[q][n] => m = n
      BY <3>1 DEF IInv, Indexed
    <3> QED
      BY <3>1, <3>2
  <2> QED
    BY <2>1, <2>2, RolesFacts
<1>12. Placed'
  <2> SUFFICES ASSUME NEW q \in Roles, pc'[q] = "room"
               PROVE  (IF Serves(q) THEN Served(q) ELSE Padded(q))'
    BY DEF Placed
  <2>1. q = Other(r) /\ pc[q] = "room" /\ inner'[q] = inner[q]
    BY <1>3, <1>9, RolesFacts
  <2>2. IF Serves(q) THEN Served(q) ELSE Padded(q)
    BY <2>1 DEF IInv, Placed
  <2> QED
    BY <1>1, <2>1, <2>2 DEF Serves, Served, Padded, KOf, Total, Mapped, Spot
<1> QED
  BY <1>3, <1>4, <1>10, <1>11, <1>12 DEF IInv

(* What a step of the other party leaves alone stays in its place.         *)
LEMMA PlacedKept ==
  ASSUME IInv, NEW q \in Roles, pc'[q] = pc[q], k'[q] = k[q], inner'[q] = inner[q],
         perm'[q] = perm[q], unmapped' = unmapped, pc'[q] = "room"
  PROVE  (IF Serves(q) THEN Served(q) ELSE Padded(q))'
<1>1. IF Serves(q) THEN Served(q) ELSE Padded(q)
  BY DEF IInv, Placed
<1> QED
  BY <1>1 DEF Serves, Served, Padded, KOf, Total, Mapped, Spot

LEMMA IndexedKept ==
  ASSUME IInv, M' = M, inner' = inner, \A q \in Roles : pc'[q] # "start" => pc[q] # "start"
  PROVE  Indexed'
<1> SUFFICES ASSUME NEW q \in Roles, pc'[q] # "start"
             PROVE  (/\ Len(inner[q]) = Size(M[q])
                     /\ \A x \in Nonzero(M[q]) : \E n \in 1 .. Len(inner[q]) : inner[q][n] = x
                     /\ \A n \in 1 .. Len(inner[q]) : inner[q][n] \in Nonzero(M[q])
                     /\ \A m, n \in 1 .. Len(inner[q]) : inner[q][m] = inner[q][n] => m = n)'
  BY DEF Indexed
<1>1. /\ Len(inner[q]) = Size(M[q])
      /\ \A x \in Nonzero(M[q]) : \E n \in 1 .. Len(inner[q]) : inner[q][n] = x
      /\ \A n \in 1 .. Len(inner[q]) : inner[q][n] \in Nonzero(M[q])
      /\ \A m, n \in 1 .. Len(inner[q]) : inner[q][m] = inner[q][n] => m = n
  BY DEF IInv, Indexed
<1> QED
  BY <1>1

LEMMA KUpdated ==
  ASSUME TypeOK, NEW r \in Roles, NEW q \in Roles, NEW v \in Nat,
         k' = [k EXCEPT ![r][q + 1] = v]
  PROVE  /\ k' \in [Roles -> MaybeNat \X MaybeNat]
         /\ KOf(r, q)' = v /\ KOf(r, Other(q))' = KOf(r, Other(q))
         /\ k'[Other(r)] = k[Other(r)] /\ \A p \in Roles : KOf(Other(r), p)' = KOf(Other(r), p)
<1>1. k \in [Roles -> MaybeNat \X MaybeNat] /\ k[r] \in MaybeNat \X MaybeNat /\ v \in MaybeNat
  BY TypeFacts DEF TypeOK, MaybeNat
<1>2. k' = [k EXCEPT ![r] = [k[r] EXCEPT ![q + 1] = v]]
  BY <1>1
<1> DEFINE w == [k[r] EXCEPT ![q + 1] = v]
<1>3. w \in MaybeNat \X MaybeNat /\ w[q + 1] = v /\ w[Other(q) + 1] = k[r][Other(q) + 1]
  <2>1. CASE q = 0
    BY <1>1, <2>1 DEF Other
  <2>2. CASE q = 1
    BY <1>1, <2>2 DEF Other
  <2> QED
    BY <2>1, <2>2, RolesFacts
<1> HIDE DEF w
<1>4. k'[r] = w /\ k'[Other(r)] = k[Other(r)] /\ k' \in [Roles -> MaybeNat \X MaybeNat]
  BY <1>1, <1>2, <1>3, RolesFacts DEF w
<1> QED
  BY <1>3, <1>4 DEF KOf

LEMMA SendKStep == ASSUME IInv, NEW r \in Roles, SendK(r) PROVE IInv'
<1> DEFINE o == Other(r)
           to == IF r = 0 THEN "recvk" ELSE "permute"
<1>1. /\ pc[r] = "sendk" /\ pc' = [pc EXCEPT ![r] = to]
      /\ UNCHANGED <<prot, M, inner, unmapped, perm, ret>>
  BY DEF SendK
<1>2. /\ Joined' /\ PositionsAgree' /\ ProductShared'
      /\ pc'[r] = to /\ pc'[o] = pc[o] /\ pc' \in [Roles -> Phases]
  BY <1>1, NotJoined
<1>3. o \in Roles /\ Other(o) = r /\ o # r /\ \A q \in Roles : q = r \/ q = o
  BY RolesFacts
<1>4. /\ HasToSend(r) /\ ~HasToSend(r)' /\ (HasToReceive(r)' <=> HasToReceive(r))
      /\ (HasToSend(o)' <=> HasToSend(o)) /\ (HasToReceive(o)' <=> HasToReceive(o))
  BY <1>1, <1>2, RolesFacts DEF HasToSend, HasToReceive
<1>5. /\ KNowhere(r) \/ KOnItsWay(r) \/ KKnown(r)
      /\ KNowhere(o) \/ KOnItsWay(o) \/ KKnown(o)
  BY <1>3 DEF IInv, KAgreed
<1>6. \A q \in Roles : KOf(q, q) # -1 =>
        \/ Size(M[q]) <= KOf(q, q)
        \/ KOf(q, Other(q)) # -1 /\ Serves(q) /\ Size(M[q]) > Total(q)
  BY DEF IInv, KFits
<1>7. Indexed'
  <2>1. \A q \in Roles : pc'[q] # "start" => pc[q] # "start"
    BY <1>1, <1>2, <1>3
  <2> QED
    BY <1>1, <2>1, IndexedKept
<1> HIDE DEF o, to
<1>8. CASE KOf(r, r) = -1
  <2> DEFINE v == Len(inner[r])
  <2>1. k' = [k EXCEPT ![r][r + 1] = v] /\ chan' = [chan EXCEPT ![o] = Append(@, v)]
    BY <1>8 DEF SendK, o
  <2>2. v \in Nat /\ v # -1 /\ v = Size(M[r])
    BY <1>1, TypeFacts DEF IInv, Indexed
  <2> HIDE DEF v
  <2>3. /\ k' \in [Roles -> MaybeNat \X MaybeNat] /\ KOf(r, r)' = v
        /\ KOf(r, o)' = KOf(r, o) /\ k'[o] = k[o] /\ \A p \in Roles : KOf(o, p)' = KOf(o, p)
    BY <2>1, <2>2, KUpdated DEF IInv, o
  <2>4. KNowhere(r)
    BY <1>5, <1>8 DEF KOnItsWay, KKnown
  <2>5. chan'[o] = <<v>> /\ chan'[r] = chan[r] /\ chan' \in [Roles -> Seq(Nat)]
    <3>1. chan[o] = <<>> /\ chan \in [Roles -> Seq(Nat)]
      BY <2>4 DEF KNowhere, o, IInv, TypeOK
    <3> QED
      BY <1>3, <2>1, <2>2, <3>1
  <2>6. KOnItsWay(r)'
    BY <1>3, <1>4, <2>2, <2>3, <2>4, <2>5 DEF KNowhere, KOnItsWay, o
  <2>7. (KNowhere(o) \/ KOnItsWay(o) \/ KKnown(o))'
    BY <1>3, <1>4, <1>5, <2>3, <2>5 DEF KNowhere, KOnItsWay, KKnown
  <2>8. KAgreed'
    BY <1>3, <2>6, <2>7 DEF KAgreed
  <2>9. KFits'
    <3>1. Serves(o)' = Serves(o) /\ Total(o)' = Total(o)
      BY <2>3 DEF Serves, Total, Roles
    <3>2. Size(M[r])' = KOf(r, r)' /\ Size(M[r])' <= KOf(r, r)'
      BY <1>1, <2>2, <2>3
    <3>3. KOf(o, o)' = KOf(o, o) /\ KOf(o, r)' = KOf(o, r) /\ M' = M
      BY <1>1, <1>3, <2>3
    <3>4. (KOf(o, o) # -1 => \/ Size(M[o]) <= KOf(o, o)
                             \/ KOf(o, r) # -1 /\ Serves(o) /\ Size(M[o]) > Total(o))'
      BY <1>3, <1>6, <3>1, <3>3
    <3> QED
      BY <1>3, <3>2, <3>4 DEF KFits
  <2>10. TypeOK'
    BY <1>1, <1>2, <2>3, <2>5 DEF IInv, TypeOK, Phases, MaybeNat
  <2>11. Placed'
    <3>1. \A q \in Roles : pc'[q] = "room" => q = o
      BY <1>2, <1>3 DEF to
    <3> QED
      BY <1>1, <1>2, <1>3, <2>3, <3>1, PlacedKept DEF Placed
  <2> QED
    BY <1>2, <1>7, <2>8, <2>9, <2>10, <2>11 DEF IInv
<1>9. CASE KOf(r, r) # -1
  <2>1. k' = k /\ chan' = chan
    BY <1>9 DEF SendK
  <2>2. KKnown(r)
    BY <1>4, <1>5, <1>9 DEF KNowhere, KOnItsWay
  <2>3. KKnown(r)'
    BY <2>1, <2>2 DEF KKnown, KOf
  <2>4. (KNowhere(o) \/ KOnItsWay(o) \/ KKnown(o))'
    BY <1>3, <1>4, <1>5, <2>1 DEF KNowhere, KOnItsWay, KKnown, KOf
  <2>5. KAgreed'
    BY <1>3, <2>3, <2>4 DEF KAgreed
  <2>6. KFits'
    BY <1>1, <2>1 DEF IInv, KFits, KOf, Serves, Total
  <2>7. TypeOK'
    BY <1>1, <1>2, <2>1 DEF IInv, TypeOK, Phases
  <2>8. Placed'
    <3>1. \A q \in Roles : pc'[q] = "room" => q = o
      BY <1>2, <1>3 DEF to
    <3> QED
      BY <1>1, <1>2, <1>3, <2>1, <3>1, PlacedKept DEF Placed
  <2> QED
    BY <1>2, <1>7, <2>5, <2>6, <2>7, <2>8 DEF IInv
<1> QED
  BY <1>8, <1>9

LEMMA RecvKStep == ASSUME IInv, NEW r \in Roles, RecvK(r) PROVE IInv'
<1> DEFINE o == Other(r)
           to == IF r = 0 THEN "permute" ELSE "sendk"
<1>1. /\ pc[r] = "recvk" /\ pc' = [pc EXCEPT ![r] = to]
      /\ UNCHANGED <<prot, M, inner, unmapped, perm, ret>>
  BY DEF RecvK
<1>2. /\ Joined' /\ PositionsAgree' /\ ProductShared'
      /\ pc'[r] = to /\ pc'[o] = pc[o] /\ pc' \in [Roles -> Phases]
  BY <1>1, NotJoined
<1>3. o \in Roles /\ Other(o) = r /\ o # r /\ \A q \in Roles : q = r \/ q = o
  BY RolesFacts
<1>4. /\ HasToReceive(r) /\ ~HasToReceive(r)' /\ (HasToSend(r)' <=> HasToSend(r))
      /\ (HasToSend(o)' <=> HasToSend(o)) /\ (HasToReceive(o)' <=> HasToReceive(o))
  BY <1>1, <1>2, RolesFacts DEF HasToSend, HasToReceive
<1>5. /\ KNowhere(r) \/ KOnItsWay(r) \/ KKnown(r)
      /\ KNowhere(o) \/ KOnItsWay(o) \/ KKnown(o)
  BY <1>3 DEF IInv, KAgreed
<1>6. \A q \in Roles : KOf(q, q) # -1 =>
        \/ Size(M[q]) <= KOf(q, q)
        \/ KOf(q, Other(q)) # -1 /\ Serves(q) /\ Size(M[q]) > Total(q)
  BY DEF IInv, KFits
<1>7. Indexed'
  <2>1. \A q \in Roles : pc'[q] # "start" => pc[q] # "start"
    BY <1>1, <1>2, <1>3
  <2> QED
    BY <1>1, <2>1, IndexedKept
<1>8. \A q \in Roles : pc'[q] = "room" => q = o
  BY <1>2, <1>3
<1> HIDE DEF o, to
<1>9. CASE KOf(r, o) = -1
  <2> DEFINE v == Head(chan[r])
  <2>1. /\ k' = [k EXCEPT ![r][o + 1] = v] /\ chan' = [chan EXCEPT ![r] = Tail(@)]
        /\ chan[r] # <<>>
    BY <1>9 DEF RecvK, o
  <2>2. KOnItsWay(o)
    BY <1>3, <1>5, <1>9, <2>1 DEF KNowhere, KKnown
  <2>3. KOf(o, o) \in Nat /\ v = KOf(o, o) /\ Tail(chan[r]) = <<>>
    <3>1. KOf(o, o) \in MaybeNat /\ KOf(o, o) # -1 /\ chan[r] = <<KOf(o, o)>>
      BY <1>3, <2>2, TypeFacts DEF KOnItsWay, IInv
    <3> QED
      BY <3>1 DEF MaybeNat
  <2> HIDE DEF v
  <2>4. /\ k' \in [Roles -> MaybeNat \X MaybeNat] /\ KOf(r, o)' = v
        /\ KOf(r, r)' = KOf(r, r) /\ k'[o] = k[o] /\ \A p \in Roles : KOf(o, p)' = KOf(o, p)
    <3>1. TypeOK /\ v \in Nat /\ k' = [k EXCEPT ![r][o + 1] = v]
      BY <2>1, <2>3 DEF IInv
    <3>2. /\ k' \in [Roles -> MaybeNat \X MaybeNat]
          /\ KOf(r, o)' = v /\ KOf(r, Other(o))' = KOf(r, Other(o))
          /\ k'[Other(r)] = k[Other(r)] /\ \A p \in Roles : KOf(Other(r), p)' = KOf(Other(r), p)
      BY <1>3, <3>1, KUpdated
    <3>3. Other(r) = o /\ Other(o) = r
      BY <1>3 DEF o
    <3> QED
      BY <3>2, <3>3
  <2>5. chan'[r] = <<>> /\ chan'[o] = chan[o] /\ chan' \in [Roles -> Seq(Nat)]
    BY <1>3, <2>1, <2>3 DEF IInv, TypeOK
  <2>6. KKnown(o)'
    BY <1>3, <2>2, <2>3, <2>4, <2>5 DEF KOnItsWay, KKnown
  <2>7. (KNowhere(r) \/ KOnItsWay(r) \/ KKnown(r))'
    BY <1>3, <1>4, <1>5, <2>4, <2>5 DEF KNowhere, KOnItsWay, KKnown, o
  <2>8. KAgreed'
    BY <1>3, <2>6, <2>7 DEF KAgreed
  <2>9. KFits'
    <3>1. Serves(o)' = Serves(o) /\ Total(o)' = Total(o)
      BY <2>4 DEF Serves, Total, Roles
    <3>2. (KOf(r, r) # -1 => Size(M[r]) <= KOf(r, r))'
      BY <1>1, <1>6, <1>9, <2>4 DEF o
    <3>3. KOf(o, o)' = KOf(o, o) /\ KOf(o, r)' = KOf(o, r) /\ M' = M
      BY <1>1, <1>3, <2>4
    <3>4. (KOf(o, o) # -1 => \/ Size(M[o]) <= KOf(o, o)
                             \/ KOf(o, r) # -1 /\ Serves(o) /\ Size(M[o]) > Total(o))'
      BY <1>3, <1>6, <3>1, <3>3
    <3> QED
      BY <1>3, <3>2, <3>4 DEF KFits
  <2>10. TypeOK'
    BY <1>1, <1>2, <2>4, <2>5 DEF IInv, TypeOK, Phases, MaybeNat
  <2>11. Placed'
    BY <1>1, <1>2, <1>3, <1>8, <2>4, PlacedKept DEF Placed
  <2> QED
    BY <1>2, <1>7, <2>8, <2>9, <2>10, <2>11 DEF IInv
<1>10. CASE KOf(r, o) # -1
  <2>1. k' = k /\ chan' = chan
    BY <1>10 DEF RecvK, o
  <2>2. KKnown(o)
    BY <1>3, <1>5, <1>10 DEF KNowhere, KOnItsWay
  <2>3. KKnown(o)'
    BY <2>1, <2>2 DEF KKnown, KOf
  <2>4. (KNowhere(r) \/ KOnItsWay(r) \/ KKnown(r))'
    BY <1>3, <1>4, <1>5, <2>1 DEF KNowhere, KOnItsWay, KKnown, KOf, o
  <2>5. KAgreed'
    BY <1>3, <2>3, <2>4 DEF KAgreed
  <2>6. KFits'
    BY <1>1, <2>1 DEF IInv, KFits, KOf, Serves, Total
  <2>7. TypeOK'
    BY <1>1, <1>2, <2>1 DEF IInv, TypeOK, Phases
  <2>8. Placed'
    BY <1>1, <1>2, <1>3, <1>8, <2>1, PlacedKept DEF Placed
  <2> QED
    BY <1>2, <1>7, <2>5, <2>6, <2>7, <2>8 DEF IInv
<1> QED
  BY <1>9, <1>10

(* A party past the messages knows both k, and two of them the same.       *)
LEMMA KMine ==
  ASSUME IInv, NEW r \in Roles, pc[r] \notin {"start", "sendk", "recvk"}
  PROVE  /\ \A q \in Roles : KOf(r, q) \in Nat
         /\ Total(r) \in Nat /\ Total(r) = KOf(r, r) + KOf(r, Other(r))
         /\ KKnown(Other(r))
<1>1. ~HasToSend(r) /\ ~HasToReceive(r) /\ Other(r) \in Roles /\ Other(Other(r)) = r
  BY RolesFacts DEF HasToSend, HasToReceive
<1>2. KOf(r, r) # -1
  BY <1>1 DEF IInv, KAgreed, KNowhere, KOnItsWay, KKnown
<1>3. KKnown(Other(r))
  BY <1>1 DEF IInv, KAgreed, KNowhere, KOnItsWay
<1>4. KOf(r, Other(r)) # -1
  BY <1>1, <1>3 DEF KKnown
<1>5. \A q \in Roles : KOf(r, q) \in Nat
  BY <1>2, <1>4, TypeFacts, RolesFacts DEF IInv, MaybeNat
<1>6. Total(r) \in Nat /\ Total(r) = KOf(r, r) + KOf(r, Other(r))
  BY <1>5 DEF Total, Roles, Other
<1> QED
  BY <1>3, <1>5, <1>6

LEMMA KSame ==
  ASSUME IInv, \A r \in Roles : pc[r] \notin {"start", "sendk", "recvk"}
  PROVE  k[0] = k[1] /\ \A r \in Roles : Serves(Other(r)) <=> ~Serves(r)
<1>1. KKnown(0) /\ KKnown(1)
  <2>1. \A r \in Roles : KKnown(Other(r))
    BY KMine
  <2> QED
    BY <2>1 DEF Roles, Other
<1>2. KOf(0, 0) = KOf(1, 0) /\ KOf(0, 1) = KOf(1, 1)
  BY <1>1 DEF KKnown, Other
<1>3. k[0] \in MaybeNat \X MaybeNat /\ k[1] \in MaybeNat \X MaybeNat
  BY TypeFacts DEF IInv, Roles
<1>4. k[0] = k[1]
  BY <1>2, <1>3 DEF KOf
<1> QED
  BY <1>2, <1>4 DEF Serves, Roles, Other

LEMMA Tabulated ==
  ASSUME NEW n \in Nat, NEW S, NEW f, f = [x \in 1 .. n |-> f[x]], \A x \in 1 .. n : f[x] \in S
  PROVE  f \in Seq(S) /\ Len(f) = n /\ DOMAIN f = 1 .. n
<1>1. f \in [1 .. n -> S]
  OBVIOUS
<1> QED
  BY <1>1, SeqDef, LenProperties

LEMMA PermuteStep == ASSUME IInv, NEW r \in Roles, Permute(r) PROVE IInv'
<1> DEFINE o == Other(r)
           L == Len(inner[r])
           N == Total(r)
<1>1. /\ pc[r] = "permute" /\ Serves(r) /\ L <= N
      /\ pc' = [pc EXCEPT ![r] = "room"] /\ UNCHANGED <<prot, M, k, inner, chan, ret>>
  BY DEF Permute
<1>2. PICK dense \in Orders(0 .. N - 1) :
        /\ perm' = [perm EXCEPT ![r] = [n \in DOMAIN inner[r] |-> <<inner[r][n], dense[n]>>]]
        /\ unmapped' = SubSeq(dense, L + 1, N)
  BY DEF Permute
<1>3. /\ Joined' /\ PositionsAgree' /\ ProductShared'
      /\ pc'[r] = "room" /\ pc'[o] = pc[o] /\ pc' \in [Roles -> Phases]
  BY <1>1, NotJoined
<1>4. KAgreed' /\ KFits'
  BY <1>1, KUntouched
<1>5. o \in Roles /\ Other(o) = r /\ o # r /\ \A q \in Roles : q = r \/ q = o
  BY RolesFacts
<1>6. N \in Nat /\ L \in Nat /\ inner[r] \in Seq(Inner) /\ DOMAIN inner[r] = 1 .. L
  BY <1>1, KMine, TypeFacts, LenProperties DEF IInv
<1>7. /\ dense \in Seq(0 .. N - 1) /\ Len(dense) = N /\ \A n \in 1 .. N : dense[n] \in 0 .. N - 1
      /\ \A m, n \in 1 .. N : dense[m] = dense[n] => m = n
  <2> DEFINE S == 0 .. N - 1
  <2>1. IsFiniteSet(S) /\ Cardinality(S) = N
    BY <1>6, FS_Interval
  <2>2. dense \in [1 .. N -> S] /\ \A x \in S : \E n \in 1 .. N : dense[n] = x
    BY <1>2, <2>1 DEF Orders, Range
  <2> HIDE DEF S, N
  <2>3. dense \in Surjection(1 .. N, S) /\ IsFiniteSet(1 .. N) /\ Cardinality(1 .. N) = N
    <3>1. N \in Nat
      BY <1>6
    <3>2. IsFiniteSet(1 .. N) /\ Cardinality(1 .. N) = N
      BY <3>1, FS_Interval
    <3>3. dense \in Surjection(1 .. N, S)
      BY <2>2 DEF Surjection
    <3> QED
      BY <3>2, <3>3
  <2>4. dense \in Injection(1 .. N, S)
    BY <2>1, <2>3, FS_Surjection
  <2>5. \A m, n \in 1 .. N : dense[m] = dense[n] => m = n
    BY <2>4 DEF Injection, IsInjective
  <2>6. dense \in Seq(S) /\ Len(dense) = N
    BY <1>6, <2>2, SeqDef, LenProperties
  <2> QED
    BY <2>2, <2>5, <2>6 DEF S
<1>8. /\ unmapped' \in Seq(0 .. N - 1) /\ Len(unmapped') = N - L
      /\ \A n \in 1 .. N - L : unmapped'[n] = dense[L + n]
  <2> HIDE DEF L, N
  <2>1. L + 1 \in 1 .. N + 1 /\ N \in L .. N /\ (L + 1 <= N => L + 1 \in 1 .. N)
    BY <1>1, <1>6
  <2> QED
    BY <1>1, <1>2, <1>6, <1>7, <2>1, SubSeqProperties
<1>9. /\ perm'[r] = [n \in 1 .. L |-> <<inner[r][n], dense[n]>>]
      /\ perm'[o] = perm[o] /\ DOMAIN perm' = Roles
  BY <1>2, <1>5, <1>6 DEF IInv, TypeOK
<1>10. TypeOK'
  <2>1. unmapped' \in Seq(Nat)
    <3>1. 0 .. N - 1 \subseteq Nat
      BY <1>6
    <3> HIDE DEF N, L
    <3>2. Len(unmapped') \in Nat /\ unmapped' \in [1 .. Len(unmapped') -> 0 .. N - 1]
      BY <1>8, LenProperties
    <3>3. unmapped' \in [1 .. Len(unmapped') -> Nat]
      BY <3>1, <3>2
    <3> QED
      BY <3>2, <3>3, SeqDef
  <2> QED
    BY <1>1, <1>3, <1>9, <2>1 DEF IInv, TypeOK, Phases
<1>11. Indexed'
  <2>1. \A q \in Roles : pc'[q] # "start" => pc[q] # "start"
    BY <1>1, <1>3, <1>5
  <2> QED
    BY <1>1, <2>1, IndexedKept
<1>12. Placed'
  <2>1. Served(r)' /\ Serves(r)'
    <3>1. Serves(r)' /\ (N = Total(r))' /\ (L = Len(inner[r]))' /\ N' = N /\ L' = L
      BY <1>1 DEF Serves, KOf, Total
    <3> HIDE DEF N, L
    <3>2. Mapped(r)'
      BY <1>1, <1>6, <1>9, <3>1 DEF Mapped
    <3>3. \A n \in 1 .. N : Spot(r, n)' = dense[n]
      <4> SUFFICES ASSUME NEW n \in 1 .. N PROVE Spot(r, n)' = dense[n]
        OBVIOUS
      <4>1. CASE n <= L
        BY <1>6, <1>9, <3>1, <4>1 DEF Spot
      <4>2. CASE ~(n <= L)
        <5>1. n - L \in 1 .. N - L /\ L + (n - L) = n
          BY <1>6, <4>2
        <5> QED
          BY <1>8, <3>1, <4>2, <5>1 DEF Spot
      <4> QED
        BY <4>1, <4>2
    <3>4. L + Len(unmapped') = N
      BY <1>6, <1>8
    <3> QED
      BY <1>7, <3>1, <3>2, <3>3, <3>4 DEF Served
  <2>2. ASSUME pc'[o] = "room" PROVE ~Serves(o)' /\ Padded(o)'
    <3>1. pc[o] = "room"
      BY <1>3, <2>2
    <3>2. ~Serves(o)
      BY <1>1, <1>5, <3>1, KSame
    <3>3. Padded(o)
      BY <1>5, <3>1, <3>2 DEF IInv, Placed
    <3> QED
      BY <1>1, <1>9, <3>2, <3>3 DEF Serves, Padded, KOf
  <2> QED
    BY <1>5, <2>1, <2>2 DEF Placed
<1> QED
  BY <1>3, <1>4, <1>10, <1>11, <1>12 DEF IInv

LEMMA RefuseStep == ASSUME IInv, NEW r \in Roles, Refuse(r) PROVE IInv'
<1> DEFINE o == Other(r)
<1>1. /\ pc[r] = "permute" /\ pc' = [pc EXCEPT ![r] = "thrown"]
      /\ UNCHANGED <<prot, M, k, inner, chan, unmapped, perm, ret>>
  BY DEF Refuse
<1>2. /\ Joined' /\ PositionsAgree' /\ ProductShared'
      /\ pc'[r] = "thrown" /\ pc'[o] = pc[o] /\ pc' \in [Roles -> Phases]
  BY <1>1, NotJoined
<1>3. KAgreed' /\ KFits'
  BY <1>1, KUntouched
<1>4. o \in Roles /\ \A q \in Roles : q = r \/ q = o
  BY RolesFacts
<1>5. TypeOK'
  BY <1>1, <1>2 DEF IInv, TypeOK, Phases
<1>6. Indexed'
  <2>1. \A q \in Roles : pc'[q] # "start" => pc[q] # "start"
    BY <1>1, <1>2, <1>4
  <2> QED
    BY <1>1, <2>1, IndexedKept
<1>7. Placed'
  <2>1. \A q \in Roles : pc'[q] = "room" => q = o
    BY <1>2, <1>4
  <2> QED
    BY <1>1, <1>2, <1>4, <2>1, PlacedKept DEF Placed
<1> QED
  BY <1>2, <1>3, <1>5, <1>6, <1>7 DEF IInv

LEMMA PadStep == ASSUME IInv, NEW r \in Roles, Pad(r) PROVE IInv'
<1> DEFINE o == Other(r)
           N == KOf(r, r)
           keys == [n \in 1 .. N |-> IF n <= Len(inner[r]) THEN inner[r][n] ELSE Dummy]
<1>1. /\ pc[r] = "permute" /\ ~Serves(r) /\ pc' = [pc EXCEPT ![r] = "room"]
      /\ perm' = [perm EXCEPT ![r] = keys]
      /\ UNCHANGED <<prot, M, k, inner, chan, unmapped, ret>>
  BY DEF Pad
<1>2. /\ Joined' /\ PositionsAgree' /\ ProductShared'
      /\ pc'[r] = "room" /\ pc'[o] = pc[o] /\ pc' \in [Roles -> Phases]
  BY <1>1, NotJoined
<1>3. KAgreed' /\ KFits'
  BY <1>1, KUntouched
<1>4. o \in Roles /\ o # r /\ \A q \in Roles : q = r \/ q = o
  BY RolesFacts
<1>5. N \in Nat /\ inner[r] \in Seq(Inner) /\ Len(inner[r]) \in Nat
  BY <1>1, KMine, TypeFacts DEF IInv
<1>6. Len(keys) = N /\ DOMAIN keys = 1 .. N
  <2>1. \A n \in 1 .. N : keys[n] \in Inner \cup {Dummy}
    BY <1>5, ElementOfSeq
  <2> HIDE DEF N
  <2> QED
    BY <1>5, <2>1, Tabulated
<1>7. perm'[r] = keys /\ perm'[o] = perm[o] /\ DOMAIN perm' = Roles
  BY <1>1, <1>4 DEF IInv, TypeOK
<1>8. TypeOK'
  BY <1>1, <1>2, <1>7 DEF IInv, TypeOK, Phases
<1>9. Indexed'
  <2>1. \A q \in Roles : pc'[q] # "start" => pc[q] # "start"
    BY <1>1, <1>2, <1>4
  <2> QED
    BY <1>1, <2>1, IndexedKept
<1>10. Placed'
  <2>1. Padded(r)' /\ ~Serves(r)'
    <3>1. (N = KOf(r, r))' /\ N' = N /\ ~Serves(r)'
      BY <1>1 DEF Serves, KOf
    <3>2. \A n \in 1 .. N : keys[n] = IF n <= Len(inner[r]) THEN inner[r][n] ELSE Dummy
      OBVIOUS
    <3> HIDE DEF N, keys
    <3> QED
      BY <1>1, <1>6, <1>7, <3>1, <3>2 DEF Padded
  <2>2. pc'[o] = "room" => (IF Serves(o) THEN Served(o) ELSE Padded(o))'
    BY <1>1, <1>2, <1>4, <1>7, PlacedKept
  <2> QED
    BY <1>4, <2>1, <2>2 DEF Placed
<1> QED
  BY <1>2, <1>3, <1>8, <1>9, <1>10 DEF IInv

(* The number of keys up to a key is its rank, which grows with the key.   *)
RankIn(s, S, a) == Cardinality({m \in S : s[m] <= s[a]})

LEMMA RankFacts ==
  ASSUME NEW S, IsFiniteSet(S), NEW s, \A a \in S : s[a] \in Int
  PROVE  /\ \A a \in S : RankIn(s, S, a) \in 1 .. Cardinality(S)
         /\ \A a, b \in S : s[a] < s[b] => RankIn(s, S, a) < RankIn(s, S, b)
<1> DEFINE n == Cardinality(S)
           Below(a) == {m \in S : s[m] <= s[a]}
<1>1. \A a \in S : RankIn(s, S, a) = Cardinality(Below(a))
  BY DEF RankIn
<1>2. n \in Nat
  BY FS_CardinalityType
<1>3. \A a \in S : /\ Below(a) \in SUBSET S /\ IsFiniteSet(Below(a))
                   /\ Cardinality(Below(a)) \in Nat /\ Cardinality(Below(a)) <= n
  <2> TAKE a \in S
  <2>1. Below(a) \in SUBSET S
    OBVIOUS
  <2> HIDE DEF Below
  <2>2. IsFiniteSet(Below(a)) /\ Cardinality(Below(a)) <= n
    BY <2>1, FS_Subset
  <2> QED
    BY <2>1, <2>2, FS_CardinalityType
<1>4. \A a \in S : a \in Below(a)
  OBVIOUS
<1>5. ASSUME NEW a \in S, NEW b \in S, s[a] < s[b]
      PROVE  Cardinality(Below(a)) < Cardinality(Below(b))
  <2>1. Below(a) \in SUBSET Below(b) /\ b \notin Below(a)
    BY <1>5
  <2>2. b \in Below(b)
    BY <1>4
  <2> HIDE DEF Below
  <2>3. Cardinality(Below(a)) <= Cardinality(Below(b)) /\ Cardinality(Below(b)) # Cardinality(Below(a))
    BY <1>3, <2>1, <2>2, FS_Subset
  <2> QED
    BY <1>3, <2>3
<1> HIDE DEF Below
<1>6. \A a \in S : Cardinality(Below(a)) # 0
  BY <1>3, <1>4, FS_EmptySet
<1> QED
  BY <1>1, <1>2, <1>3, <1>5, <1>6

(* The client's own keys have a default each, and no two the same.         *)
LEMMA PlaceFacts ==
  ASSUME IInv, NEW s \in Roles, pc[s] = "room", pc[Other(s)] = "room",
         Serves(s), ~Serves(Other(s)), Promised(s)
  PROVE  LET c == Other(s)
             keys == perm[c]
         IN  /\ \A n \in 1 .. Len(inner[c]) : /\ Place(keys, n) \in 1 .. Len(unmapped)
                                              /\ Place(keys, n) \in Nat /\ Place(keys, n) >= 1
             /\ \A m, n \in 1 .. Len(inner[c]) : Place(keys, m) = Place(keys, n) => m = n
<1> DEFINE c == Other(s)
           keys == perm[c]
           N == KOf(c, c)
           L == Len(inner[c])
<1>1. c \in Roles
  BY RolesFacts
<1>2. L \in Nat /\ N \in Nat /\ inner[c] \in Seq(Inner)
  BY <1>1, TypeFacts, KMine DEF IInv
<1>3. /\ DOMAIN keys = 1 .. N /\ Len(keys) = N
      /\ \A n \in 1 .. N : keys[n] = IF n <= L THEN inner[c][n] ELSE Dummy
  BY <1>1 DEF IInv, Placed, Padded
<1>4. L <= N
  <2>1. L = Size(M[c])
    BY <1>1 DEF IInv, Indexed
  <2>2. N # -1
    BY <1>2
  <2> HIDE DEF c
  <2>3. Size(M[c]) <= KOf(c, c)
    BY <1>1, <2>2 DEF IInv, KFits, c
  <2> QED
    BY <2>1, <2>3
<1>5. \A m, n \in 1 .. L : inner[c][m] = inner[c][n] => m = n
  BY <1>1 DEF IInv, Indexed
<1>6. N <= Len(unmapped) /\ Len(unmapped) \in Nat
  <2>1. Len(unmapped) \in Nat
    BY LenProperties DEF IInv, TypeOK
  <2> QED
    BY <1>3, <2>1 DEF Promised
<1> HIDE DEF c, keys, N, L
<1>7. \A n \in 1 .. N : keys[n] \in Int
  <2> TAKE n \in 1 .. N
  <2>1. CASE n <= L
    <3>1. n \in 1 .. L
      BY <1>2, <2>1
    <3>2. inner[c][n] \in Inner
      BY <1>2, <3>1, ElementOfSeq DEF L
    <3>3. \A x \in Inner : x \in Int
      BY ColsRowsAssumption
    <3>4. keys[n] = inner[c][n]
      BY <1>3, <2>1
    <3> QED
      BY <3>2, <3>3, <3>4
  <2>2. CASE ~(n <= L)
    BY <1>3, <2>2 DEF Dummy
  <2> QED
    BY <2>1, <2>2
<1> DEFINE S == 1 .. N
<1>8. IsFiniteSet(S) /\ Cardinality(S) = N /\ \A n \in S : keys[n] \in Int
  BY <1>2, <1>7, FS_Interval
<1>9. \A n \in S : RankOf(keys, n) = RankIn(keys, S, n)
  BY <1>3 DEF RankOf, RankIn
<1> HIDE DEF S
<1>10. /\ \A n \in S : RankIn(keys, S, n) \in 1 .. N
       /\ \A m, n \in S : keys[m] < keys[n] => RankIn(keys, S, m) < RankIn(keys, S, n)
  BY <1>8, RankFacts
<1>11. ASSUME NEW m \in 1 .. L, NEW n \in 1 .. L, RankOf(keys, m) = RankOf(keys, n)
       PROVE  m = n
  <2>1. m \in S /\ n \in S
    BY <1>2, <1>4 DEF S
  <2>2. keys[m] = inner[c][m] /\ keys[n] = inner[c][n] /\ keys[m] \in Int /\ keys[n] \in Int
    BY <1>2, <1>3, <1>8, <2>1 DEF S
  <2>3. /\ RankIn(keys, S, m) = RankIn(keys, S, n)
        /\ RankIn(keys, S, m) \in Nat /\ RankIn(keys, S, n) \in Nat
    BY <1>2, <1>9, <1>10, <1>11, <2>1
  <2>4. ~(keys[m] < keys[n]) /\ ~(keys[n] < keys[m])
    BY <1>10, <2>1, <2>3
  <2> QED
    BY <1>5, <2>2, <2>4
<1>12. ASSUME NEW n \in 1 .. L
       PROVE  /\ Place(keys, n) \in 1 .. Len(unmapped)
              /\ Place(keys, n) \in Nat /\ Place(keys, n) >= 1
  <2>1. n \in S /\ n \in 1 .. N
    BY <1>2, <1>4 DEF S
  <2>2. RankOf(keys, n) \in 1 .. N
    BY <1>9, <1>10, <2>1
  <2>3. Place(keys, n) \in 1 .. N
    BY <2>1, <2>2 DEF Place
  <2> QED
    BY <1>2, <1>6, <2>3
<1>13. \A m, n \in 1 .. L : Place(keys, m) = Place(keys, n) => m = n
  BY <1>11 DEF Place
<1> QED
  BY <1>12, <1>13 DEF c, keys, L

(* The n-th index of the client is at a place of the server: that of the   *)
(* same index, or the one of its place among those the server has no index *)
(* for.                                                                    *)
SpotOfClient(s, n, d) ==
  /\ d \in 1 .. Total(s) /\ Position(s, perm[Other(s)], n) = Spot(s, d)
  /\ \/ d <= Len(inner[s]) /\ inner[s][d] = inner[Other(s)][n]
     \/ /\ d = Len(inner[s]) + Place(perm[Other(s)], n)
        /\ \A x \in 1 .. Len(inner[s]) : inner[s][x] # inner[Other(s)][n]

LEMMA ClientHasSpots ==
  ASSUME IInv, NEW s \in Roles, pc[s] = "room", pc[Other(s)] = "room",
         Serves(s), ~Serves(Other(s)), Promised(s),
         NEW n \in 1 .. Len(inner[Other(s)])
  PROVE  \E d \in 1 .. Total(s) : SpotOfClient(s, n, d)
<1> DEFINE c == Other(s)
           L == Len(inner[s])
<1>1. c \in Roles
  BY RolesFacts
<1>2. L \in Nat /\ Len(inner[c]) \in Nat /\ Total(s) \in Nat /\ KOf(c, c) \in Nat
  BY <1>1, TypeFacts, KMine DEF IInv
<1>3. L + Len(unmapped) = Total(s) /\ Mapped(s)
  BY DEF IInv, Placed, Served
<1>4. Padded(c)
  BY <1>1 DEF IInv, Placed
<1>5. Len(inner[c]) <= KOf(c, c)
  <2>1. Len(inner[c]) = Size(M[c])
    BY <1>1 DEF IInv, Indexed
  <2>2. KOf(c, c) # -1
    BY <1>2
  <2> HIDE DEF c
  <2>3. Size(M[c]) <= KOf(c, c)
    BY <1>1, <2>2 DEF IInv, KFits, c
  <2> QED
    BY <2>1, <2>3
<1> HIDE DEF c, L
<1>6. n \in Nat /\ n >= 1 /\ n <= Len(inner[c]) /\ n \in 1 .. KOf(c, c)
  BY <1>2, <1>5 DEF c
<1> DEFINE pl == Place(perm[c], n)
<1>7. perm[c][n] = inner[c][n] /\ pl \in Nat /\ pl >= 1 /\ pl <= Len(unmapped)
  <2>1. Len(perm[c]) = KOf(c, c) /\ perm[c][n] = IF n <= Len(inner[c]) THEN inner[c][n] ELSE Dummy
    BY <1>4, <1>6 DEF Padded
  <2>2. Len(unmapped) \in Nat
    BY LenProperties DEF IInv, TypeOK
  <2>3. pl \in 1 .. Len(unmapped) /\ pl \in Nat
    BY PlaceFacts DEF c
  <2> HIDE DEF pl
  <2> QED
    BY <1>2, <1>6, <2>1, <2>2, <2>3
<1> DEFINE found == {x \in DOMAIN perm[s] : perm[s][x][1] = perm[c][n]}
<1>8. found = {x \in 1 .. L : inner[s][x] = inner[c][n]}
  BY <1>3, <1>7 DEF Mapped, L
<1>9. Position(s, perm[c], n) = IF found = {} THEN unmapped[pl] ELSE perm[s][CHOOSE x \in found : TRUE][2]
  BY DEF Position
<1> HIDE DEF found, pl
<1>10. CASE found = {}
  <2>1. L + pl \in 1 .. Total(s) /\ ~(L + pl <= L) /\ (L + pl) - L = pl
    <3>1. Len(unmapped) \in Nat
      BY LenProperties DEF IInv, TypeOK
    <3> QED
      BY <1>2, <1>3, <1>6, <1>7, <3>1
  <2>2. Position(s, perm[c], n) = Spot(s, L + pl)
    BY <1>9, <1>10, <2>1 DEF Spot, L
  <2>3. \A x \in 1 .. L : inner[s][x] # inner[c][n]
    BY <1>8, <1>10
  <2> QED
    BY <2>1, <2>2, <2>3 DEF SpotOfClient, c, L, pl
<1>11. CASE found # {}
  <2> DEFINE d == CHOOSE x \in found : TRUE
  <2>1. d \in found
    BY <1>11
  <2> HIDE DEF d
  <2>2. d \in 1 .. L /\ inner[s][d] = inner[c][n]
    BY <1>8, <2>1
  <2>3. Position(s, perm[c], n) = perm[s][d][2]
    BY <1>9, <1>11 DEF d
  <2>4. d <= L /\ d \in 1 .. Total(s)
    <3>1. Len(unmapped) \in Nat
      BY LenProperties DEF IInv, TypeOK
    <3> QED
      BY <1>2, <1>3, <2>2, <3>1
  <2>5. Position(s, perm[c], n) = Spot(s, d)
    BY <2>3, <2>4 DEF Spot, L
  <2> QED
    BY <2>2, <2>4, <2>5 DEF SpotOfClient, c, L
<1> QED
  BY <1>10, <1>11

LEMMA RoomStep == IInv /\ Room => IInv'
<1> SUFFICES ASSUME IInv, Room PROVE IInv'
  OBVIOUS
<1>1. /\ pc[0] = "room" /\ pc[1] = "room" /\ pc' = [r \in Roles |-> "multiply"]
      /\ UNCHANGED <<prot, M, k, inner, chan, unmapped, ret>>
  BY DEF Room, Roles
<1>2. PICK s \in Roles :
        /\ Serves(s) /\ ~Serves(Other(s)) /\ Promised(s)
        /\ perm' = [perm EXCEPT ![Other(s)] =
                      [n \in DOMAIN inner[Other(s)] |->
                         <<inner[Other(s)][n], Position(s, perm[Other(s)], n)>>]]
  BY DEF Room
<1> DEFINE c == Other(s)
           L == Len(inner[s])
<1>3. c \in Roles /\ c # s /\ Other(c) = s /\ \A q \in Roles : q = s \/ q = c
  BY RolesFacts
<1>4. \A q \in Roles : pc[q] = "room"
  BY <1>1 DEF Roles
<1>5. /\ \A q \in Roles : inner[q] \in Seq(Inner) /\ Len(inner[q]) \in Nat /\ DOMAIN inner[q] = 1 .. Len(inner[q])
      /\ Total(s) \in Nat
  BY <1>4, TypeFacts, KMine, LenProperties DEF IInv
<1>6. k[0] = k[1] /\ Total(c) = Total(s)
  <2>1. k[0] = k[1]
    BY <1>4, KSame
  <2>2. k[c] = k[s]
    BY <2>1, <1>3 DEF Roles
  <2> HIDE DEF c
  <2> QED
    BY <2>1, <2>2 DEF Total, KOf
<1>7. /\ perm'[c] = [n \in 1 .. Len(inner[c]) |-> <<inner[c][n], Position(s, perm[c], n)>>]
      /\ perm'[s] = perm[s] /\ DOMAIN perm' = Roles
  BY <1>2, <1>3, <1>5 DEF IInv, TypeOK
<1>8. /\ Mapped(s)
      /\ \A d \in 1 .. Total(s) : Spot(s, d) \in 0 .. Total(s) - 1
      /\ \A d, e \in 1 .. Total(s) : Spot(s, d) = Spot(s, e) => d = e
      /\ L <= Total(s)
  <2>1. Served(s)
    BY <1>2, <1>4 DEF IInv, Placed
  <2>2. Len(unmapped) \in Nat
    BY LenProperties DEF IInv, TypeOK
  <2> QED
    BY <1>5, <2>1, <2>2 DEF Served
<1>9. \A q \in Roles : /\ DOMAIN perm'[q] = 1 .. Len(inner[q])
                       /\ \A n \in 1 .. Len(inner[q]) : perm'[q][n][1] = inner[q][n]
  <2>1. DOMAIN perm'[s] = 1 .. Len(inner[s]) /\ \A n \in 1 .. Len(inner[s]) : perm'[s][n][1] = inner[s][n]
    BY <1>7, <1>8 DEF Mapped
  <2>2. DOMAIN perm'[c] = 1 .. Len(inner[c]) /\ \A n \in 1 .. Len(inner[c]) : perm'[c][n][1] = inner[c][n]
    BY <1>7
  <2> HIDE DEF c
  <2> QED
    BY <1>3, <2>1, <2>2
(* Every pair, of either party, is at a place d of the server.             *)
<1> DEFINE pl(n) == Place(perm[c], n)
           At(q, n, d) ==
             /\ perm'[q][n][2] = Spot(s, d)
             /\ \/ d <= L /\ inner[s][d] = inner[q][n]
                \/ /\ q = c /\ d = L + pl(n)
                   /\ \A x \in 1 .. L : inner[s][x] # inner[q][n]
<1>10. ASSUME NEW q \in Roles, NEW n \in 1 .. Len(inner[q])
       PROVE  \E d \in 1 .. Total(s) : At(q, n, d)
  <2>1. CASE q = s
    <3>1. n \in 1 .. Total(s) /\ n <= L
      BY <1>5, <1>8, <2>1
    <3>2. perm'[s][n][2] = Spot(s, n)
      BY <1>7, <2>1, <3>1 DEF Spot
    <3> QED
      BY <2>1, <3>1, <3>2
  <2>2. CASE q = c
    <3>1. PICK d \in 1 .. Total(s) : SpotOfClient(s, n, d)
      BY <1>2, <1>3, <1>4, <2>2, ClientHasSpots
    <3>2. perm'[c][n][2] = Position(s, perm[c], n)
      BY <1>7, <2>2
    <3>3. At(q, n, d)
      BY <2>2, <3>1, <3>2 DEF SpotOfClient
    <3> QED
      BY <3>3
  <2> QED
    BY <1>3, <2>1, <2>2
<1>11. \A q \in Roles : \A m, n \in 1 .. Len(inner[q]) : inner[q][m] = inner[q][n] => m = n
  BY <1>4 DEF IInv, Indexed
<1>12. ASSUME NEW q \in Roles, NEW r \in Roles,
              NEW n \in 1 .. Len(inner[q]), NEW m \in 1 .. Len(inner[r])
       PROVE  /\ perm'[q][n][2] \in 0 .. Total(q) - 1
              /\ perm'[q][n][1] = perm'[r][m][1] <=> perm'[q][n][2] = perm'[r][m][2]
  <2>1. PICK d \in 1 .. Total(s) : At(q, n, d)
    BY <1>10
  <2>2. PICK e \in 1 .. Total(s) : At(r, m, e)
    BY <1>10
  <2>3. Total(q) = Total(s)
    BY <1>3, <1>6
  <2>4. perm'[q][n][1] = inner[q][n] /\ perm'[r][m][1] = inner[r][m]
    BY <1>9
  <2>5. d \in Nat /\ e \in Nat /\ L \in Nat /\ n \in Nat /\ m \in Nat /\ d >= 1 /\ e >= 1 /\ n >= 1 /\ m >= 1
    BY <1>5
  <2>10. /\ \A x \in 1 .. Len(inner[c]) : pl(x) \in Nat /\ pl(x) >= 1
         /\ \A x, y \in 1 .. Len(inner[c]) : pl(x) = pl(y) => x = y
    BY <1>2, <1>3, <1>4, PlaceFacts
  <2>11. (q = c => pl(n) \in Nat /\ pl(n) >= 1) /\ (r = c => pl(m) \in Nat /\ pl(m) >= 1)
    BY <2>10
  <2> HIDE DEF c, L, pl
  <2>6. perm'[q][n][2] \in 0 .. Total(q) - 1
    BY <1>8, <2>1, <2>3
  <2>7. ASSUME inner[q][n] = inner[r][m] PROVE d = e
    <3>1. CASE d <= L
      <4>1. d \in 1 .. L /\ inner[s][d] = inner[q][n]
        BY <2>1, <2>5, <2>11, <3>1
      <4>2. e \in 1 .. L /\ inner[s][e] = inner[r][m]
        BY <2>2, <2>5, <2>7, <2>11, <4>1
      <4> QED
        BY <1>11, <2>7, <4>1, <4>2 DEF L
    <3>2. CASE ~(d <= L)
      <4>1. q = c /\ d = L + pl(n) /\ \A x \in 1 .. L : inner[s][x] # inner[q][n]
        BY <2>1, <3>2
      <4>2. r = c /\ e = L + pl(m)
        BY <2>2, <2>5, <2>7, <4>1
      <4>3. n = m
        BY <1>11, <2>7, <4>1, <4>2
      <4> QED
        BY <4>1, <4>2, <4>3
    <3> QED
      BY <3>1, <3>2
  <2>8. ASSUME d = e PROVE inner[q][n] = inner[r][m]
    <3>1. CASE d <= L
      <4>1. inner[s][d] = inner[q][n]
        BY <2>1, <2>5, <2>11, <3>1
      <4>2. inner[s][d] = inner[r][m]
        BY <2>2, <2>5, <2>8, <2>11, <3>1
      <4> QED
        BY <4>1, <4>2
    <3>2. CASE ~(d <= L)
      <4>1. q = c /\ d = L + pl(n)
        BY <2>1, <3>2
      <4>2. ~(e <= L)
        BY <2>8, <3>2
      <4>3. r = c /\ e = L + pl(m)
        BY <2>2, <4>2
      <4>4. n = m
        <5>1. L + pl(n) = L + pl(m)
          BY <2>8, <4>1, <4>3
        <5>2. n \in 1 .. Len(inner[c]) /\ m \in 1 .. Len(inner[c])
          BY <4>1, <4>3
        <5>3. pl(n) \in Nat /\ pl(m) \in Nat
          BY <2>10, <5>2
        <5>4. pl(n) = pl(m)
          BY <2>5, <5>1, <5>3
        <5> QED
          BY <2>10, <5>2, <5>4
      <4> QED
        BY <4>1, <4>3, <4>4
    <3> QED
      BY <3>1, <3>2
  <2>9. perm'[q][n][2] = perm'[r][m][2] <=> d = e
    BY <1>8, <2>1, <2>2
  <2> QED
    BY <2>4, <2>6, <2>7, <2>8, <2>9
<1> HIDE DEF c, L, At, pl
<1>13. pc'[0] = "multiply" /\ pc'[1] = "multiply" /\ pc' \in [Roles -> Phases]
  BY <1>1 DEF Roles, Phases
<1>14. TypeOK'
  BY <1>1, <1>7, <1>13 DEF IInv, TypeOK, Phases
<1>15. PositionsAgree'
  <2> SUFFICES ASSUME NEW q \in Roles, NEW r \in Roles,
                      NEW n \in DOMAIN perm'[q], NEW m \in DOMAIN perm'[r]
               PROVE  /\ perm'[q][n][2] \in 0 .. Total(q)' - 1
                      /\ perm'[q][n][1] = perm'[r][m][1] <=> perm'[q][n][2] = perm'[r][m][2]
    BY DEF PositionsAgree
  <2>1. n \in 1 .. Len(inner[q]) /\ m \in 1 .. Len(inner[r])
    BY <1>9
  <2>2. Total(q)' = Total(q)
    BY <1>1 DEF Total, KOf
  <2> QED
    BY <1>12, <2>1, <2>2
<1>16. Joined'
  <2>1. Mapped(0)' /\ Mapped(1)'
    BY <1>1, <1>9 DEF Mapped, Roles
  <2> QED
    BY <1>1, <1>6, <1>13, <2>1 DEF Joined
<1>17. KAgreed' /\ KFits'
  <2>1. KKnown(0) /\ KKnown(1)
    <3>1. \A r \in Roles : KKnown(Other(r))
      BY <1>4, KMine
    <3> QED
      BY <3>1 DEF Roles, Other
  <2>2. KKnown(0)' /\ KKnown(1)'
    BY <1>1, <2>1 DEF KKnown, KOf
  <2>3. KAgreed'
    BY <2>2 DEF KAgreed, Roles
  <2>4. KFits'
    BY <1>1 DEF IInv, KFits, KOf, Serves, Total
  <2> QED
    BY <2>3, <2>4
<1>18. Indexed'
  BY <1>1, <1>4, IndexedKept
<1>19. Placed' /\ ProductShared'
  BY <1>13, <1>1 DEF Placed, ProductShared, Roles
<1> QED
  BY <1>14, <1>15, <1>16, <1>17, <1>18, <1>19 DEF IInv

(* Beyond what the map promises nothing more is claimed.                   *)
LEMMA UnpromisedStep == IInv /\ RoomUnpromised => IInv'
<1> SUFFICES ASSUME IInv, RoomUnpromised PROVE IInv'
  OBVIOUS
<1>1. /\ \A r \in Roles : pc[r] = "room"
      /\ pc' = [r \in Roles |-> "unpromised"]
      /\ UNCHANGED <<prot, M, k, inner, chan, unmapped, perm, ret>>
  BY DEF RoomUnpromised
<1>2. \A r \in Roles : pc'[r] = "unpromised"
  BY <1>1
<1>3. TypeOK'
  BY <1>1 DEF IInv, TypeOK
<1>4. Joined' /\ PositionsAgree' /\ ProductShared' /\ Placed'
  BY <1>2 DEF Joined, PositionsAgree, ProductShared, Placed, Roles
<1>5. Indexed'
  <2>1. \A q \in Roles : pc'[q] # "start" => pc[q] # "start"
    BY <1>1
  <2> QED
    BY <1>1, <2>1, IndexedKept
<1>6. \A q \in Roles : (HasToSend(q)' <=> HasToSend(q)) /\ (HasToReceive(q)' <=> HasToReceive(q))
  BY <1>1, <1>2 DEF HasToSend, HasToReceive
<1>7. KAgreed'
  <2>1. \A q \in Roles : KNowhere(q) \/ KOnItsWay(q) \/ KKnown(q)
    BY DEF IInv, KAgreed
  <2>2. \A q \in Roles : (KNowhere(q) \/ KOnItsWay(q) \/ KKnown(q))'
    BY <1>1, <1>6, <2>1, RolesFacts DEF KNowhere, KOnItsWay, KKnown, KOf, Other
  <2> QED
    BY <2>2 DEF KAgreed
<1>8. KFits'
  BY <1>1 DEF IInv, KFits, KOf, Serves, Total
<1> QED
  BY <1>3, <1>4, <1>5, <1>7, <1>8 DEF IInv

-----------------------------------------------------------------------------
(* Zero annihilates: Zero + Zero = Zero, and a sum can be undone.          *)
LEMMA TimesZero ==
  ASSUME NEW a \in T
  PROVE  Times(a, Zero) = Zero /\ Times(Zero, a) = Zero
<1>1. ASSUME NEW t \in T, Plus(t, t) = t PROVE t = Zero
  <2>1. Minus(Plus(t, t), t) = t
    BY RingGroup
  <2>2. Minus(Plus(Zero, t), t) = Zero
    BY RingGroup, RingClosed
  <2>3. Plus(Zero, t) = t
    BY RingGroup, RingClosed
  <2> QED
    BY <1>1, <2>1, <2>2, <2>3
<1>2. Plus(Zero, Zero) = Zero
  BY RingGroup, RingClosed
<1>3. Times(a, Zero) \in T /\ Times(Zero, a) \in T
  BY RingClosed
<1>4. Times(a, Zero) = Plus(Times(a, Zero), Times(a, Zero))
  <2>1. Times(a, Plus(Zero, Zero)) = Plus(Times(a, Zero), Times(a, Zero))
    BY RingDistributes, RingClosed
  <2> QED
    BY <1>2, <2>1
<1>5. Times(Zero, a) = Plus(Times(Zero, a), Times(Zero, a))
  <2>1. Times(Plus(Zero, Zero), a) = Plus(Times(Zero, a), Times(Zero, a))
    BY RingDistributes, RingClosed
  <2> QED
    BY <1>2, <2>1
<1> QED
  BY <1>1, <1>3, <1>4, <1>5

(* What is known of the pairs when both parties are about to multiply.     *)
LEMMA PairsFacts ==
  ASSUME IInv, \A q \in Roles : pc[q] = "multiply"
  PROVE  /\ Total(1) = Total(0) /\ Total(0) \in Nat
         /\ \A r \in Roles :
              /\ DOMAIN perm[r] = 1 .. Len(inner[r])
              /\ \A n \in 1 .. Len(inner[r]) :
                   perm[r][n][1] = inner[r][n] /\ perm[r][n][2] \in 0 .. Total(0) - 1
              /\ \A n \in 1 .. Len(inner[r]) : inner[r][n] \in Nonzero(M[r])
              /\ \A x \in Nonzero(M[r]) : \E n \in 1 .. Len(inner[r]) : inner[r][n] = x
              /\ \A m, n \in 1 .. Len(inner[r]) : inner[r][m] = inner[r][n] => m = n
         /\ \A r, q \in Roles : \A n \in 1 .. Len(inner[r]), m \in 1 .. Len(inner[q]) :
              inner[r][n] = inner[q][m] <=> perm[r][n][2] = perm[q][m][2]
<1>1. 0 \in Roles /\ 1 \in Roles
  BY DEF Roles
<1>2. k[0] = k[1] /\ Mapped(0) /\ Mapped(1)
  BY <1>1 DEF IInv, Joined
<1>3. Total(1) = Total(0)
  BY <1>2 DEF Total, KOf
<1>4. \A r \in Roles : Total(r) = Total(0) /\ Mapped(r)
  BY <1>2, <1>3 DEF Roles
<1>5. \A r \in Roles : /\ DOMAIN perm[r] = 1 .. Len(inner[r])
                       /\ \A n \in 1 .. Len(inner[r]) : perm[r][n][1] = inner[r][n]
  BY <1>4 DEF Mapped
<1>6. PositionsAgree /\ Indexed /\ TypeOK
  BY DEF IInv
<1>7. \A r, q \in Roles : \A n \in 1 .. Len(inner[r]), m \in 1 .. Len(inner[q]) :
        /\ perm[r][n][2] \in 0 .. Total(0) - 1
        /\ inner[r][n] = inner[q][m] <=> perm[r][n][2] = perm[q][m][2]
  <2> SUFFICES ASSUME NEW r \in Roles, NEW q \in Roles,
                      NEW n \in 1 .. Len(inner[r]), NEW m \in 1 .. Len(inner[q])
               PROVE  /\ perm[r][n][2] \in 0 .. Total(0) - 1
                      /\ inner[r][n] = inner[q][m] <=> perm[r][n][2] = perm[q][m][2]
    OBVIOUS
  <2>1. n \in DOMAIN perm[r] /\ m \in DOMAIN perm[q]
    BY <1>5
  <2>2. /\ perm[r][n][2] \in 0 .. Total(r) - 1
        /\ perm[r][n][1] = perm[q][m][1] <=> perm[r][n][2] = perm[q][m][2]
    BY <1>6, <2>1 DEF PositionsAgree
  <2> QED
    BY <1>4, <1>5, <2>2
<1>8. \A r \in Roles :
        /\ \A n \in 1 .. Len(inner[r]) : inner[r][n] \in Nonzero(M[r])
        /\ \A x \in Nonzero(M[r]) : \E n \in 1 .. Len(inner[r]) : inner[r][n] = x
        /\ \A m, n \in 1 .. Len(inner[r]) : inner[r][m] = inner[r][n] => m = n
  BY <1>6 DEF Indexed
<1>9. Total(0) \in Nat
  BY <1>1, KMine
<1>10. \A r \in Roles : \A n \in 1 .. Len(inner[r]) : perm[r][n][2] \in 0 .. Total(0) - 1
  BY <1>7
<1>11. \A r, q \in Roles : \A n \in 1 .. Len(inner[r]), m \in 1 .. Len(inner[q]) :
         inner[r][n] = inner[q][m] <=> perm[r][n][2] = perm[q][m][2]
  BY <1>7
<1>12. \A r \in Roles :
         /\ DOMAIN perm[r] = 1 .. Len(inner[r])
         /\ \A n \in 1 .. Len(inner[r]) :
              perm[r][n][1] = inner[r][n] /\ perm[r][n][2] \in 0 .. Total(0) - 1
         /\ \A n \in 1 .. Len(inner[r]) : inner[r][n] \in Nonzero(M[r])
         /\ \A x \in Nonzero(M[r]) : \E n \in 1 .. Len(inner[r]) : inner[r][n] = x
         /\ \A m, n \in 1 .. Len(inner[r]) : inner[r][m] = inner[r][n] => m = n
  <2> TAKE r \in Roles
  <2> QED
    BY <1>5, <1>8, <1>10
<1> QED
  BY <1>3, <1>9, <1>11, <1>12

(* A column or row is at its position of the small matrix, and the others  *)
(* are zero: of the pairs no two have the same position.                   *)
LEMMA PermutedAt ==
  ASSUME IInv, \A q \in Roles : pc[q] = "multiply",
         NEW r \in Roles, NEW p \in 0 .. Total(0) - 1
  PROVE  /\ \A n \in 1 .. Len(inner[r]) : perm[r][n][2] = p => Permuted(r)[p] = M[r][inner[r][n]]
         /\ (\A n \in 1 .. Len(inner[r]) : perm[r][n][2] # p) => Permuted(r)[p] = Zero
         /\ Permuted(r)[p] \in T
<1> DEFINE here == {n \in DOMAIN perm[r] : perm[r][n][2] = p}
<1>1. here = {n \in 1 .. Len(inner[r]) : perm[r][n][2] = p}
  BY PairsFacts
<1>2. Permuted(r)[p] =
        IF here = {} THEN Zero
        ELSE M[r][perm[r][CHOOSE n \in here : \A q \in here : q <= n][1]]
  <2>1. p \in 0 .. Total(r) - 1
    BY PairsFacts DEF Roles
  <2> QED
    BY <2>1 DEF Permuted
<1> HIDE DEF here
<1>3. ASSUME NEW n \in 1 .. Len(inner[r]), perm[r][n][2] = p
      PROVE  Permuted(r)[p] = M[r][inner[r][n]]
  <2>1. \A q \in here : q = n
    <3> SUFFICES ASSUME NEW q \in here PROVE q = n
      OBVIOUS
    <3>1. q \in 1 .. Len(inner[r]) /\ perm[r][q][2] = perm[r][n][2]
      BY <1>1, <1>3
    <3>2. inner[r][q] = inner[r][n]
      BY <3>1, PairsFacts
    <3> QED
      BY <3>1, <3>2, PairsFacts
  <2>2. n \in here
    BY <1>1, <1>3
  <2>3. here = {n}
    BY <2>1, <2>2
  <2>4. (CHOOSE q \in here : \A x \in here : x <= q) = n
    BY <2>3
  <2>5. perm[r][n][1] = inner[r][n]
    BY PairsFacts
  <2> QED
    BY <1>2, <2>2, <2>4, <2>5
<1>4. ASSUME \A n \in 1 .. Len(inner[r]) : perm[r][n][2] # p
      PROVE  Permuted(r)[p] = Zero
  BY <1>1, <1>2, <1>4
<1>5. Permuted(r)[p] \in T
  <2>1. \A n \in 1 .. Len(inner[r]) : M[r][inner[r][n]] \in T
    <3>1. \A n \in 1 .. Len(inner[r]) : inner[r][n] \in Inner
      BY PairsFacts DEF Nonzero
    <3>2. M[r] \in [Inner -> T]
      BY TypeFacts DEF IInv
    <3> QED
      BY <3>1, <3>2
  <2>2. CASE \E n \in 1 .. Len(inner[r]) : perm[r][n][2] = p
    BY <1>3, <2>1, <2>2
  <2>3. CASE \A n \in 1 .. Len(inner[r]) : perm[r][n][2] # p
    BY <1>4, <2>3, RingClosed
  <2> QED
    BY <2>2, <2>3
<1> QED
  BY <1>3, <1>4, <1>5

(* The product of the small matrices is the product of A and B: the        *)
(* indices that both parties have are at the same position, and at any     *)
(* other position, as at any other index, one of the factors is zero.      *)
LEMMA ProductMoved ==
  ASSUME IInv, \A q \in Roles : pc[q] = "multiply"
  PROVE  LET f == [p \in 0 .. Total(0) - 1 |-> Times(Permuted(0)[p], Permuted(1)[p])]
         IN  SumOf(f) = SumOf([x \in Inner |-> Times(M[0][x], M[1][x])]) /\ SumOf(f) \in T
<1> DEFINE P == 0 .. Total(0) - 1
           f == [p \in P |-> Times(Permuted(0)[p], Permuted(1)[p])]
           g == [x \in Inner |-> Times(M[0][x], M[1][x])]
           u == Nonzero(M[0]) \cap Nonzero(M[1])
           N(x) == CHOOSE n \in 1 .. Len(inner[0]) : inner[0][n] = x
           h == [x \in u |-> perm[0][N(x)][2]]
<1>1. 0 \in Roles /\ 1 \in Roles
  BY DEF Roles
<1>2. IsFiniteSet(Inner) /\ IsFiniteSet(P) /\ u \in SUBSET Inner
  <2>1. IsFiniteSet(P)
    BY PairsFacts, FS_Interval
  <2> QED
    BY <2>1, ColsRowsAssumption DEF Nonzero
<1>3. \A x \in Inner : M[0][x] \in T /\ M[1][x] \in T
  <2>1. M[0] \in [Inner -> T] /\ M[1] \in [Inner -> T]
    BY <1>1, TypeFacts DEF IInv
  <2> QED
    BY <2>1
<1>4. f \in [P -> T]
  <2>1. \A p \in P : Permuted(0)[p] \in T /\ Permuted(1)[p] \in T
    BY <1>1, PermutedAt
  <2> HIDE DEF P
  <2> QED
    BY <2>1, RingClosed
<1>5. g \in [Inner -> T]
  BY <1>3, RingClosed
<1>6. \A x \in u : N(x) \in 1 .. Len(inner[0]) /\ inner[0][N(x)] = x
  <2> SUFFICES ASSUME NEW x \in u
               PROVE  N(x) \in 1 .. Len(inner[0]) /\ inner[0][N(x)] = x
    OBVIOUS
  <2>1. \E n \in 1 .. Len(inner[0]) : inner[0][n] = x
    BY <1>1, PairsFacts
  <2> QED
    BY <2>1
<1> HIDE DEF N
<1>7. h \in [u -> P]
  <2>1. \A n \in 1 .. Len(inner[0]) : perm[0][n][2] \in P
    BY <1>1, PairsFacts
  <2> HIDE DEF P, u
  <2> QED
    BY <1>6, <2>1
<1>8. \A x, y \in u : h[x] = h[y] => x = y
  <2> SUFFICES ASSUME NEW x \in u, NEW y \in u, h[x] = h[y] PROVE x = y
    OBVIOUS
  <2>1. perm[0][N(x)][2] = perm[0][N(y)][2]
    OBVIOUS
  <2> HIDE DEF h, u
  <2>2. inner[0][N(x)] = inner[0][N(y)]
    BY <1>1, <1>6, <2>1, PairsFacts
  <2> QED
    BY <1>6, <2>2
<1>9. \A x \in u : g[x] = f[h[x]]
  <2> SUFFICES ASSUME NEW x \in u PROVE g[x] = f[h[x]]
    OBVIOUS
  <2>1. PICK m \in 1 .. Len(inner[1]) : inner[1][m] = x
    BY <1>1, PairsFacts
  <2>2. h[x] = perm[0][N(x)][2] /\ h[x] \in P
    BY <1>7
  <2>3. g[x] = Times(M[0][x], M[1][x])
    BY <1>2
  <2>4. f[h[x]] = Times(Permuted(0)[h[x]], Permuted(1)[h[x]])
    <3> HIDE DEF P, h
    <3> QED
      BY <2>2
  <2>5. perm[1][m][2] = h[x]
    <3>1. inner[0][N(x)] = inner[1][m]
      BY <1>6, <2>1
    <3> HIDE DEF h, u
    <3> QED
      BY <1>1, <1>6, <2>1, <2>2, <3>1, PairsFacts
  <2> DEFINE p == h[x]
  <2>6. p \in 0 .. Total(0) - 1 /\ perm[0][N(x)][2] = p /\ perm[1][m][2] = p
    BY <2>2, <2>5
  <2> HIDE DEF p, h, f, g, u
  <2>7. Permuted(0)[p] = M[0][x]
    BY <1>1, <1>6, <2>6, PermutedAt
  <2>8. Permuted(1)[p] = M[1][x]
    BY <1>1, <2>1, <2>6, PermutedAt
  <2> QED
    BY <2>3, <2>4, <2>7, <2>8 DEF p
<1>10. \A x \in Inner \ u : g[x] = Zero
  <2> SUFFICES ASSUME NEW x \in Inner, x \notin u PROVE g[x] = Zero
    OBVIOUS
  <2>1. M[0][x] = Zero \/ M[1][x] = Zero
    BY DEF Nonzero
  <2> HIDE DEF u
  <2> QED
    BY <1>3, <2>1, TimesZero
<1>11. \A p \in P \ {h[x] : x \in u} : f[p] = Zero
  <2> SUFFICES ASSUME NEW p \in P, \A x \in u : h[x] # p PROVE f[p] = Zero
    OBVIOUS
  <2>1. /\ f[p] = Times(Permuted(0)[p], Permuted(1)[p])
        /\ Permuted(0)[p] \in T /\ Permuted(1)[p] \in T
    BY <1>1, PermutedAt
  <2>2. Permuted(0)[p] = Zero \/ Permuted(1)[p] = Zero
    <3>1. CASE \A n \in 1 .. Len(inner[0]) : perm[0][n][2] # p
      BY <1>1, <3>1, PermutedAt
    <3>2. CASE \A m \in 1 .. Len(inner[1]) : perm[1][m][2] # p
      BY <1>1, <3>2, PermutedAt
    <3>3. ASSUME NEW n \in 1 .. Len(inner[0]), perm[0][n][2] = p,
                 NEW m \in 1 .. Len(inner[1]), perm[1][m][2] = p
          PROVE  FALSE
      <4> DEFINE x == inner[0][n]
      <4>1. inner[0][n] = inner[1][m]
        BY <1>1, <3>3, PairsFacts
      <4>2. x \in u
        BY <1>1, <4>1, PairsFacts
      <4>3. N(x) = n
        BY <1>1, <1>6, <4>2, PairsFacts
      <4>4. h[x] = p
        <5> HIDE DEF x, u
        <5> QED
          BY <3>3, <4>2, <4>3
      <4> QED
        BY <4>2, <4>4
    <3> QED
      BY <3>1, <3>2, <3>3
  <2> HIDE DEF f
  <2> QED
    BY <2>1, <2>2, TimesZero
<1> HIDE DEF P, f, g, u, h
<1>12. SumOf(g) = SumOf(f)
  BY <1>2, <1>4, <1>5, <1>7, <1>8, <1>9, <1>10, <1>11, SameSum
<1>13. SumOf(f) \in T
  BY <1>2, <1>4, SumClosed
<1> QED
  BY <1>12, <1>13 DEF f, g, P

LEMMA MultiplyStep == IInv /\ Multiply => IInv'
<1> SUFFICES ASSUME IInv, Multiply PROVE IInv'
  OBVIOUS
<1> DEFINE f == [p \in 0 .. Total(0) - 1 |-> Times(Permuted(0)[p], Permuted(1)[p])]
<1>1. /\ \A r \in Roles : pc[r] = "multiply"
      /\ pc' = [r \in Roles |-> "returned"]
      /\ UNCHANGED <<prot, M, k, inner, chan, unmapped, perm>>
  BY DEF Multiply
<1>2. PICK share \in Shares :
        ret' = [r \in Roles |-> IF r = 0 THEN share ELSE Minus(SumOf(f), share)]
  BY DEF Multiply
<1>3. SumOf(f) = SumOf([x \in Inner |-> Times(M[0][x], M[1][x])]) /\ SumOf(f) \in T
  BY <1>1, ProductMoved
<1> DEFINE product == SumOf(f)
<1>4. ret' = [r \in Roles |-> IF r = 0 THEN share ELSE Minus(product, share)]
  BY <1>2
<1>5. product \in T /\ share \in T /\ Minus(product, share) \in T
  BY <1>3, ColsRowsAssumption, RingClosed
<1>6. pc'[0] = "returned" /\ pc'[1] = "returned" /\ pc' \in [Roles -> Phases]
  BY <1>1 DEF Roles, Phases
<1>7. TypeOK'
  <2> HIDE DEF product
  <2>1. ret' \in [Roles -> T]
    BY <1>4, <1>5
  <2> QED
    BY <1>1, <1>6, <2>1 DEF IInv, TypeOK, Phases
<1>8. ProductShared'
  <2>1. SumOf([x \in Inner |-> Times(M[0][x], M[1][x])])' = product
    BY <1>1, <1>3
  <2> HIDE DEF product
  <2>2. ret'[0] = share /\ ret'[1] = Minus(product, share)
    BY <1>4 DEF Roles
  <2>3. Reveal(ret[0], ret[1])' = product
    BY <1>5, <2>2, RingGroup DEF Reveal
  <2> QED
    BY <2>1, <2>3 DEF ProductShared
<1>9. KAgreed' /\ KFits'
  <2>1. KKnown(0) /\ KKnown(1)
    <3>1. \A r \in Roles : KKnown(Other(r))
      BY <1>1, KMine
    <3> QED
      BY <3>1 DEF Roles, Other
  <2>2. KKnown(0)' /\ KKnown(1)'
    BY <1>1, <2>1 DEF KKnown, KOf
  <2>3. KAgreed'
    BY <2>2 DEF KAgreed, Roles
  <2>4. KFits'
    BY <1>1 DEF IInv, KFits, KOf, Serves, Total
  <2> QED
    BY <2>3, <2>4
<1>10. Indexed'
  BY <1>1, IndexedKept
<1>11. Placed' /\ Joined' /\ PositionsAgree'
  BY <1>6 DEF Placed, Joined, PositionsAgree, Roles
<1> QED
  BY <1>7, <1>8, <1>9, <1>10, <1>11 DEF IInv

LEMMA NextInv == IInv /\ [Next]_vars => IInv'
<1> SUFFICES ASSUME IInv, [Next]_vars PROVE IInv'
  OBVIOUS
<1>1. CASE Room
  BY <1>1, RoomStep
<1>5. CASE RoomUnpromised
  BY <1>5, UnpromisedStep
<1>2. CASE Multiply
  BY <1>2, MultiplyStep
<1>3. ASSUME NEW r \in Roles, Local(r) PROVE IInv'
  BY <1>3, ComputeIndicesStep, SendKStep, RecvKStep, PermuteStep, RefuseStep, PadStep DEF Local
<1>4. CASE UNCHANGED vars
  <2>1. UNCHANGED <<prot, M, k, inner, pc, chan, unmapped, perm, ret>>
    BY <1>4 DEF vars
  <2>2. TypeOK' /\ PositionsAgree' /\ ProductShared'
    BY <2>1 DEF IInv, TypeOK, PositionsAgree, ProductShared, Total, KOf
  <2>3. KAgreed'
    BY <2>1 DEF IInv, KAgreed, KNowhere, KOnItsWay, KKnown, KOf, HasToSend, HasToReceive
  <2>4. KFits' /\ Joined'
    BY <2>1 DEF IInv, KFits, Joined, Mapped, KOf, Serves, Total
  <2>5. Indexed'
    BY <2>1, IndexedKept
  <2>6. Placed'
    BY <2>1, PlacedKept DEF Placed
  <2> QED
    BY <2>2, <2>3, <2>4, <2>5, <2>6 DEF IInv
<1> QED
  BY <1>1, <1>2, <1>3, <1>4, <1>5 DEF Next

-----------------------------------------------------------------------------
(* The inductive invariant of the multiplication: each k is unknown, on    *)
(* its way or agreed, and no party writes beyond it; the pairs of the      *)
(* server and of the client are what the two steps of the map need.        *)
THEOREM InvHolds == Spec => []IInv
  BY InitInv, NextInv, PTL DEF Spec

(* Every variable always has its type.                                     *)
THEOREM TypeCorrect == Spec => []TypeOK
<1>1. IInv => TypeOK
  BY DEF IInv
<1> QED
  BY <1>1, InvHolds, PTL

(* For any matrices, of any inner dimension, and any k: when both parties  *)
(* are about to multiply, an index they both have is at the same position  *)
(* of both small matrices, which have room for it, and no two indices are  *)
(* at the same.                                                            *)
THEOREM PositionsAlwaysAgree == Spec => []PositionsAgree
<1>1. IInv => PositionsAgree
  BY DEF IInv
<1> QED
  BY <1>1, InvHolds, PTL

(* What the parties return are shares of the product of A and B.           *)
THEOREM ProductIsShared == Spec => []ProductShared
<1>1. IInv => ProductShared
  BY DEF IInv
<1> QED
  BY <1>1, InvHolds, PTL

(* Both parties are at the map: it promises to answer or is used beyond it.*)
RoomReached == \A r \in Roles : pc[r] = "room"
PromiseIsExact ==
  RoomReached => \A s \in Roles : Serves(s) => (Promised(s) <=> ~Beyond(s))

(* cols-rows.hpp: whether the map is left without what it needs is decided *)
(* by the k of the caller and the indices, on exactly these runs: a basic  *)
(* map if the server's k is loose or its first index is 0, a polynomial map*)
(* if there is no pair or no key, a sorting map if the client's k is loose.*)
THEOREM MapPromisesExactly == Spec => []PromiseIsExact
<1>1. ASSUME IInv, RoomReached, NEW s \in Roles, Serves(s)
      PROVE  Promised(s) <=> ~Beyond(s)
  <2> DEFINE c == Other(s)
             keys == perm[c]
             N == KOf(c, c)
             L == Len(inner[c])
             D == Len(inner[s])
  <2>1. c \in Roles /\ Other(c) = s /\ pc[c] = "room" /\ pc[s] = "room"
    BY <1>1, RolesFacts DEF RoomReached
  <2>2. k[0] = k[1] /\ ~Serves(c)
    <3>1. \A r \in Roles : pc[r] \notin {"start", "sendk", "recvk"}
      BY <1>1 DEF RoomReached
    <3> QED
      BY <1>1, <3>1, KSame
  <2>3. /\ D \in Nat /\ L \in Nat /\ N \in Nat /\ KOf(s, s) \in Nat /\ Len(unmapped) \in Nat
        /\ Total(s) = KOf(s, s) + KOf(s, c) /\ KOf(s, c) = N /\ KKnown(c)
    <3>1. /\ Len(inner[s]) \in Nat /\ Len(inner[c]) \in Nat /\ Len(unmapped) \in Nat
      BY <1>1, <2>1, TypeFacts, LenProperties DEF IInv, TypeOK
    <3>2. /\ KOf(s, s) \in Nat /\ KOf(c, c) \in Nat /\ Total(s) = KOf(s, s) + KOf(s, c)
          /\ KKnown(c)
      BY <1>1, <2>1, KMine
    <3>3. k[s] = k[c]
      BY <1>1, <2>1, <2>2 DEF Roles
    <3> QED
      BY <3>1, <3>2, <3>3 DEF KOf
  <2>4. Len(keys) = N /\ DOMAIN keys = 1 .. N
        /\ \A n \in 1 .. N : keys[n] = IF n <= L THEN inner[c][n] ELSE Dummy
    BY <1>1, <2>1, <2>2 DEF IInv, Placed, Padded
  <2>5. D + Len(unmapped) = KOf(s, s) + N
    BY <1>1, <2>1, <2>3 DEF IInv, Placed, Served
  <2>6. L <= N
    <3>1. L = Size(M[c])
      BY <1>1, <2>1 DEF IInv, Indexed
    <3>2. N # -1
      BY <2>3
    <3>3. Size(M[c]) <= KOf(c, c)
      BY <1>1, <2>1, <2>2, <3>2 DEF IInv, KFits
    <3> QED
      BY <3>1, <3>3
  <2>7. D <= KOf(s, s)
    <3>1. D = Size(M[s]) /\ Size(M[s]) \in Nat
      BY <1>1, <2>1, TypeFacts DEF IInv, Indexed
    <3>2. Size(M[s]) <= KOf(s, s) \/ Size(M[s]) > Total(s)
      BY <1>1, <2>1, <2>3 DEF IInv, KFits
    <3> QED
      BY <2>3, <2>5, <3>1, <3>2
  <2>8. \A n \in 1 .. L : inner[c][n] # Dummy
    <3> TAKE n \in 1 .. L
    <3>1. inner[c] \in Seq(Inner)
      BY <1>1, <2>1, TypeFacts DEF IInv
    <3>2. inner[c][n] \in Inner
      BY <3>1, ElementOfSeq
    <3>3. \A x \in Inner : x \in Nat
      BY ColsRowsAssumption
    <3> QED
      BY <3>2, <3>3 DEF Dummy
  <2>9. inner[s] = <<>> <=> D = 0
    <3>1. inner[s] \in Seq(Inner)
      BY <1>1, TypeFacts DEF IInv
    <3> QED
      BY <3>1, EmptySeq
  <2> HIDE DEF c, keys, N, L, D
  <2>10. (\A n \in DOMAIN keys : keys[n] # Dummy) <=> ~(L < N)
    <3>1. CASE L < N
      <4>1. N \in 1 .. N /\ ~(N <= L)
        BY <2>3, <3>1
      <4>2. keys[N] = Dummy
        BY <2>4, <4>1
      <4> QED
        BY <2>4, <3>1, <4>1, <4>2
    <3>2. CASE ~(L < N)
      <4>1. \A n \in 1 .. N : n \in 1 .. L /\ n <= L
        BY <2>3, <3>2
      <4> QED
        BY <2>4, <2>8, <3>2, <4>1
    <3> QED
      BY <3>1, <3>2
  <2>11. Len(keys) <= Len(unmapped) /\ (Len(unmapped) <= Len(keys) <=> ~(D < KOf(s, s)))
    BY <2>3, <2>4, <2>5, <2>7
  <2>12. Promised(s) <=>
           /\ prot = "basic" => ~(D < KOf(s, s)) /\ (inner[s] # <<>> => inner[s][1] # 0)
           /\ prot = "poly" => inner[s] # <<>> /\ N # 0
           /\ prot = "sorting" => ~(L < N)
    BY <2>3, <2>4, <2>10, <2>11 DEF Promised, c, keys
  <2>13. Beyond(s) <=>
           \/ prot = "basic" /\ (D < KOf(s, s) \/ (inner[s] # <<>> /\ inner[s][1] = 0))
           \/ prot = "poly" /\ (inner[s] = <<>> \/ N = 0)
           \/ prot = "sorting" /\ L < N
    BY DEF Beyond, c, N, L, D
  <2> QED
    BY <2>12, <2>13
<1>2. IInv => PromiseIsExact
  BY <1>1 DEF PromiseIsExact
<1> QED
  BY <1>2, InvHolds, PTL
=============================================================================
