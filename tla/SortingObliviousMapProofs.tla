---------------------- MODULE SortingObliviousMapProofs ----------------------
(* sorting_oblivious_map for any jobs, any number of runs and any shuffle: *)
(* the merge and the moves lose and duplicate none of the keys the client  *)
(* fed, whatever they are; and of a job whose keys are distinct and not    *)
(* negative every run returns the values of the server's pairs, or the     *)
(* defaults in the order of the keys: what oblivious_map.hpp promises, if  *)
(* the keys are in ascending order.                                        *)
EXTENDS SortingObliviousMap, FiniteSetTheorems, SequenceTheorems, WellFoundedInduction,
        TLAPS

(* The runs party p has been through the circuit in.                       *)
Merged(p) == IF pc[p] = "yao" THEN run[p] - 1 ELSE run[p]

(* The parties are in the circuit together, each with what its job gives.  *)
InStep ==
  /\ \A p \in Parties : pc[p] # "idle" => run[p] >= 1
  /\ Merged("server") = Merged("client")
  /\ circuit = "compare" => pc["server"] = "yao" /\ pc["client"] = "yao"
InOrder(keys) == [x \in DOMAIN keys |-> keys[Ascending(keys, DOMAIN keys)[x]]]
Sorted ==
  /\ pc["server"] = "yao" => input["server"] = SortedPairs(Job("server").pairs)
  /\ pc["client"] = "yao" =>
       /\ Len(input["client"]) = Len(Job("client").keys)
       /\ Proper(Job("client")) => input["client"] = InOrder(Job("client").keys)

(* b is a merge of what was fed: ascending, all of it, and nothing twice.  *)
Places == 1 .. len1 + len2
TheFed == Fed(Job("server").defaults, Job("client").shared)
IsMerged(b) ==
  /\ \A x, y \in Places : x < y => b[x].key <= b[y].key
  /\ \A x, y \in Places : b[x].key = b[y].key /\ b[x].client = b[y].client => x = y
  /\ \A a \in Places : \E x \in Places : b[x] = TheFed[a]
  /\ \A x \in Places : \E a \in Places : b[x] = TheFed[a]

(* The pairs at x and y, which have one key, have been compared before the *)
(* turn c of the loop, and each has got from the other what it should.     *)
Met(b, c, x, y) ==
  /\ b[x].key = b[y].key
  /\ (y = x + 1 /\ x < c) \/ (x = y + 1 /\ y < c)
Changed(o, p, shared) ==
  IF shared THEN [o EXCEPT !.value = Plus(o.value, p.value)]
            ELSE [o EXCEPT !.client = p.client]
Through(b, c) ==
  \A x \in Places :
    /\ (\A y \in Places : ~Met(b, c, x, y)) => opairs[x] = b[x]
    /\ \A y \in Places :
         Met(b, c, x, y) => opairs[x] = Changed(b[x], b[y], Job("client").shared)
(* g says where the marked pair is of each key the client fed.             *)
IsOwned(g, o) ==
  /\ \A m, n \in 1 .. len2 : g[m] = g[n] => m = n
  /\ \A n \in 1 .. len2 : o[g[n]].client /\ o[g[n]].key = input["client"][n]
  /\ \A x \in Places : o[x].client => \E n \in 1 .. len2 : g[n] = x
Compared ==
  circuit = "compare" =>
    /\ i \in Nat \ {0} /\ DOMAIN opairs = Places
    /\ \E g \in [1 .. len2 -> Places] : IsOwned(g, opairs)
    /\ Proper(Job("client")) =>
         \E b \in [Places -> Opairs] : IsMerged(b) /\ Through(b, i)

(* What is revealed to the client are its keys, once each, with what they  *)
(* stand for.                                                              *)
Reveals(res, j) ==
  /\ \A x, y \in DOMAIN res : res[x].key = res[y].key => x = y
  /\ \A x \in DOMAIN res : \E m \in DOMAIN j.keys : res[x].key = j.keys[m]
  /\ \A m \in DOMAIN j.keys :
       \E x \in DOMAIN res : res[x].key = j.keys[m] /\ res[x].value = Answer(j)[m]
Replied ==
  pc["client"] = "reply" /\ Proper(Job("client")) => Reveals(result, RankJob(Job("client")))

(* There is an output of each run the client has returned from.            *)
Answered ==
  /\ Len(out) = Returned("client")
  /\ \A n \in DOMAIN out : Proper(job[n]) => out[n] = Answer(RankJob(job[n]))

IInv == TypeOK /\ InStep /\ Sorted /\ Compared /\ Replied /\ Answered

-----------------------------------------------------------------------------
(* Orders of a finite set reach all of it.                                 *)
LEMMA OrdersFacts ==
  ASSUME NEW S, IsFiniteSet(S), NEW f \in Orders(S)
  PROVE  /\ Cardinality(S) \in Nat /\ f \in [1 .. Cardinality(S) -> S]
         /\ \A x, y \in 1 .. Cardinality(S) : f[x] = f[y] => x = y
         /\ \A z \in S : \E x \in 1 .. Cardinality(S) : f[x] = z
<1> DEFINE n == Cardinality(S)
<1>1. n \in Nat
  BY FS_CardinalityType
<1> HIDE DEF n
<1>2. f \in [1 .. n -> S] /\ \A x, y \in 1 .. n : f[x] = f[y] => x = y
  BY DEF Orders, n
<1>3. f \in Injection(1 .. n, S)
  BY <1>2 DEF Injection, IsInjective
<1>4. Cardinality(1 .. n) = n
  BY <1>1, FS_Interval
<1>5. f \in Surjection(1 .. n, S)
  BY <1>3, <1>4, FS_Injection DEF n
<1>6. \A z \in S : \E x \in 1 .. n : f[x] = z
  BY <1>5 DEF Surjection
<1> QED
  BY <1>1, <1>2, <1>6 DEF n

LEMMA CountUpTo == ASSUME NEW n \in Nat PROVE IsFiniteSet(1 .. n) /\ Cardinality(1 .. n) = n
  BY FS_Interval

LEMMA OrdersUpTo ==
  ASSUME NEW n \in Nat, NEW f \in Orders(1 .. n)
  PROVE  /\ f \in [1 .. n -> 1 .. n]
         /\ \A x, y \in 1 .. n : f[x] = f[y] => x = y
         /\ \A z \in 1 .. n : \E x \in 1 .. n : f[x] = z
<1> DEFINE S == 1 .. n
<1>1. IsFiniteSet(S) /\ Cardinality(S) = n /\ f \in Orders(S)
  BY CountUpTo
<1> HIDE DEF S
<1>2. /\ f \in [1 .. n -> S]
      /\ \A x, y \in 1 .. n : f[x] = f[y] => x = y
      /\ \A z \in S : \E x \in 1 .. n : f[x] = z
  BY <1>1, OrdersFacts
<1> QED
  BY <1>2 DEF S

(* The number of keys up to a key is its rank, which grows with the key.   *)
RankIn(s, S, a) == Cardinality({m \in S : s[m] <= s[a]})

LEMMA RankFacts ==
  ASSUME NEW S, IsFiniteSet(S), NEW s, \A a \in S : s[a] \in Int
  PROVE  /\ \A a \in S : RankIn(s, S, a) \in 1 .. Cardinality(S)
         /\ \A a, b \in S : s[a] < s[b] => RankIn(s, S, a) < RankIn(s, S, b)
<1> DEFINE n == Cardinality(S)
           Below(a) == {m \in S : s[m] <= s[a]}
<1>1. \A a \in S : RankIn(s, S, a) = Cardinality(Below(a))
  BY DEF RankIn
<1>2. n \in Nat
  BY FS_CardinalityType
<1>3. \A a \in S : /\ Below(a) \in SUBSET S /\ IsFiniteSet(Below(a))
                   /\ Cardinality(Below(a)) \in Nat /\ Cardinality(Below(a)) <= n
  <2> TAKE a \in S
  <2>1. Below(a) \in SUBSET S
    OBVIOUS
  <2> HIDE DEF Below
  <2>2. IsFiniteSet(Below(a)) /\ Cardinality(Below(a)) <= n
    BY <2>1, FS_Subset
  <2> QED
    BY <2>1, <2>2, FS_CardinalityType
<1>4. \A a \in S : a \in Below(a)
  OBVIOUS
<1>5. ASSUME NEW a \in S, NEW b \in S, s[a] < s[b]
      PROVE  Cardinality(Below(a)) < Cardinality(Below(b))
  <2>1. Below(a) \in SUBSET Below(b) /\ b \notin Below(a)
    BY <1>5
  <2>2. b \in Below(b)
    BY <1>4
  <2> HIDE DEF Below
  <2>3. Cardinality(Below(a)) <= Cardinality(Below(b)) /\ Cardinality(Below(b)) # Cardinality(Below(a))
    BY <1>3, <2>1, <2>2, FS_Subset
  <2> QED
    BY <1>3, <2>3
<1> HIDE DEF Below
<1>6. \A a \in S : Cardinality(Below(a)) # 0
  BY <1>3, <1>4, FS_EmptySet
<1> QED
  BY <1>1, <1>2, <1>3, <1>5, <1>6

(* Distinct keys have an ascending order: that of their ranks.             *)
LEMMA AscendingFacts ==
  ASSUME NEW S, IsFiniteSet(S), NEW s, \A a \in S : s[a] \in Int,
         \A a, b \in S : s[a] = s[b] => a = b
  PROVE  LET f == Ascending(s, S)
             n == Cardinality(S)
         IN  /\ n \in Nat /\ f \in [1 .. n -> S]
             /\ \A x, y \in 1 .. n : x < y => s[f[x]] < s[f[y]]
             /\ \A a \in S : \E x \in 1 .. n : f[x] = a
             /\ \A x \in 1 .. n : RankIn(s, S, f[x]) = x
<1> DEFINE n == Cardinality(S)
           rank == [a \in S |-> RankIn(s, S, a)]
           up == [x \in 1 .. n |-> CHOOSE a \in S : rank[a] = x]
<1>1. rank \in [S -> 1 .. n] /\ n \in Nat
  BY RankFacts, FS_CardinalityType
<1>2. \A a, b \in S : s[a] < s[b] => rank[a] < rank[b]
  BY RankFacts
<1> HIDE DEF rank
<1>3. \A a, b \in S : rank[a] = rank[b] => a = b
  <2> SUFFICES ASSUME NEW a \in S, NEW b \in S, rank[a] = rank[b] PROVE a = b
    OBVIOUS
  <2>1. s[a] \in Int /\ s[b] \in Int /\ rank[a] \in Nat /\ rank[b] \in Nat
    BY <1>1
  <2>2. ~(s[a] < s[b]) /\ ~(s[b] < s[a])
    BY <1>2, <2>1
  <2>3. s[a] = s[b]
    BY <2>1, <2>2
  <2> QED
    BY <2>3
<1>4. \A x \in 1 .. n : \E a \in S : rank[a] = x
  <2>1. rank \in Injection(S, 1 .. n)
    BY <1>1, <1>3 DEF Injection, IsInjective
  <2>2. Cardinality(1 .. n) = n /\ IsFiniteSet(1 .. n)
    BY <1>1, CountUpTo
  <2>3. rank \in Surjection(S, 1 .. n)
    <3> DEFINE U == 1 .. n
    <3>1. IsFiniteSet(U) /\ Cardinality(U) = Cardinality(S) /\ rank \in Injection(S, U)
      BY <2>1, <2>2
    <3> HIDE DEF U, n
    <3> QED
      BY <3>1, FS_Injection DEF U
  <2> QED
    BY <2>3 DEF Surjection
<1> HIDE DEF n
<1>5. \A x \in 1 .. n : up[x] \in S /\ rank[up[x]] = x
  BY <1>4
<1>6. up \in [1 .. n -> S]
  BY <1>4
<1> HIDE DEF up
<1>7. \A x, y \in 1 .. n : x < y => s[up[x]] < s[up[y]]
  <2> SUFFICES ASSUME NEW x \in 1 .. n, NEW y \in 1 .. n, x < y PROVE s[up[x]] < s[up[y]]
    OBVIOUS
  <2> DEFINE a == up[x]
             b == up[y]
  <2>1. a \in S /\ b \in S /\ rank[a] = x /\ rank[b] = y
    BY <1>5
  <2> HIDE DEF a, b
  <2>2. s[a] \in Int /\ s[b] \in Int /\ s[a] # s[b] /\ ~(s[b] < s[a])
    <3>1. a # b
      BY <2>1
    <3>2. ~(y < x)
      OBVIOUS
    <3> QED
      BY <1>2, <2>1, <3>1, <3>2
  <2>3. s[a] < s[b]
    BY <2>2
  <2> QED
    BY <2>3 DEF a, b
<1>8. up \in Orders(S)
  <2>1. \A x, y \in 1 .. n : up[x] = up[y] => x = y
    BY <1>5
  <2> QED
    BY <1>6, <2>1 DEF Orders, n
<1> DEFINE f == Ascending(s, S)
<1>9. f \in Orders(S) /\ \A x, y \in 1 .. n : x < y => s[f[x]] < s[f[y]]
  BY <1>7, <1>8 DEF Ascending, n
<1> HIDE DEF f
<1>10. /\ f \in [1 .. n -> S]
       /\ \A a \in S : \E x \in 1 .. n : f[x] = a
       /\ \A x, y \in 1 .. n : f[x] = f[y] => x = y
  BY <1>9, OrdersFacts DEF n
<1>11. ASSUME NEW x \in 1 .. n PROVE RankIn(s, S, f[x]) = x
  <2> DEFINE Below == {m \in S : s[m] <= s[f[x]]}
             g == [y \in 1 .. x |-> f[y]]
  <2>1. f[x] \in S /\ RankIn(s, S, f[x]) = Cardinality(Below)
    BY <1>10 DEF RankIn
  <2>2. \A y \in 1 .. n : s[f[y]] <= s[f[x]] <=> y <= x
    <3> TAKE y \in 1 .. n
    <3>1. s[f[y]] \in Int /\ s[f[x]] \in Int
      BY <1>10
    <3>2. CASE y < x
      <4>1. s[f[y]] < s[f[x]]
        BY <1>9, <3>2
      <4> QED
        BY <3>1, <3>2, <4>1
    <3>3. CASE y = x
      BY <3>1, <3>3
    <3>4. CASE x < y
      <4>1. s[f[x]] < s[f[y]]
        BY <1>9, <3>4
      <4> QED
        BY <3>1, <3>4, <4>1
    <3> QED
      BY <3>2, <3>3, <3>4
  <2>3. \A y \in 1 .. x : y \in 1 .. n /\ f[y] \in Below
    <3> TAKE y \in 1 .. x
    <3>1. y \in 1 .. n /\ y <= x
      BY <1>1
    <3>2. f[y] \in S /\ s[f[y]] <= s[f[x]]
      BY <1>10, <2>2, <3>1
    <3> QED
      BY <3>1, <3>2
  <2>4. \A m \in Below : \E y \in 1 .. x : f[y] = m
    <3> TAKE m \in Below
    <3>1. PICK y \in 1 .. n : f[y] = m
      BY <1>10
    <3>2. y <= x
      BY <2>2, <3>1
    <3> QED
      BY <3>1, <3>2
  <2> HIDE DEF Below
  <2>5. g \in Bijection(1 .. x, Below)
    <3>1. g \in [1 .. x -> Below]
      BY <2>3
    <3>2. \A y, z \in 1 .. x : g[y] = g[z] => y = z
      BY <1>10, <2>3
    <3>3. \A m \in Below : \E y \in 1 .. x : g[y] = m
      BY <2>4
    <3> HIDE DEF g
    <3> QED
      BY <3>1, <3>2, <3>3 DEF Bijection, Injection, IsInjective, Surjection
  <2>6. ExistsBijection(1 .. x, Below)
    <3> HIDE DEF g
    <3> QED
      BY <2>5 DEF ExistsBijection
  <2>7. Cardinality(Below) = x
    BY <2>6, FS_CountingElements
  <2> QED
    BY <2>1, <2>7
<1> QED
  BY <1>1, <1>9, <1>10, <1>11 DEF f, n

(* The sorted keys: each is where its rank says.                           *)
LEMMA SortedKeysFacts ==
  ASSUME NEW j \in Jobs, Proper(j)
  PROVE  LET s == InOrder(j.keys)
             L == Len(j.keys)
         IN  /\ L \in Nat /\ DOMAIN j.keys = 1 .. L /\ s \in Seq(Nat) /\ Len(s) = L
             /\ \A x, y \in 1 .. L : x < y => s[x] < s[y]
             /\ \A m \in 1 .. L : RankOf(j.keys, m) \in 1 .. L /\ s[RankOf(j.keys, m)] = j.keys[m]
             /\ \A x \in 1 .. L : \E m \in 1 .. L : RankOf(j.keys, m) = x /\ s[x] = j.keys[m]
<1> DEFINE k == j.keys
           L == Len(k)
           s == InOrder(k)
           f == Ascending(k, DOMAIN k)
<1>1. k \in Seq(Int)
  BY JobsAssumption DEF JobType
<1>2. L \in Nat /\ DOMAIN k = 1 .. L /\ k \in [1 .. L -> Nat]
  <2>1. L \in Nat /\ DOMAIN k = 1 .. L /\ k \in [1 .. L -> Int]
    BY <1>1, LenProperties
  <2>2. \A a \in 1 .. L : k[a] \in Nat
    <3> TAKE a \in 1 .. L
    <3>1. k[a] \in Int /\ k[a] >= 0
      BY <2>1 DEF Proper
    <3> QED
      BY <3>1
  <2> HIDE DEF L, k
  <2> QED
    BY <2>1, <2>2
<1>3. \A a, b \in 1 .. L : k[a] = k[b] => a = b
  BY <1>2 DEF Proper
<1> HIDE DEF L, k
<1>4. /\ f \in [1 .. L -> 1 .. L]
      /\ \A x, y \in 1 .. L : x < y => k[f[x]] < k[f[y]]
      /\ \A a \in 1 .. L : \E x \in 1 .. L : f[x] = a
      /\ \A x \in 1 .. L : RankOf(k, f[x]) = x
  <2> DEFINE S == 1 .. L
  <2>1. IsFiniteSet(S) /\ Cardinality(S) = L
    BY <1>2, CountUpTo
  <2>2. (\A a \in S : k[a] \in Int) /\ \A a, b \in S : k[a] = k[b] => a = b
    BY <1>2, <1>3
  <2>3. f = Ascending(k, S) /\ \A a : RankIn(k, S, a) = RankOf(k, a)
    BY <1>2 DEF RankIn, RankOf
  <2> HIDE DEF S, f
  <2>4. /\ f \in [1 .. L -> S]
        /\ \A x, y \in 1 .. L : x < y => k[f[x]] < k[f[y]]
        /\ \A a \in S : \E x \in 1 .. L : f[x] = a
    BY <2>1, <2>2, <2>3, AscendingFacts
  <2>5. \A x \in 1 .. Cardinality(S) : RankIn(k, S, Ascending(k, S)[x]) = x
    BY <2>1, <2>2, AscendingFacts, Zenon
  <2>6. \A x \in 1 .. L : RankOf(k, f[x]) = x
    BY <2>1, <2>3, <2>5
  <2> QED
    BY <2>4, <2>6 DEF S
<1>5. s = [x \in 1 .. L |-> k[f[x]]]
  BY <1>2 DEF InOrder
<1> HIDE DEF s, f
<1>6. s \in Seq(Nat) /\ Len(s) = L
  <2>1. \A x \in 1 .. L : k[f[x]] \in Nat
    BY <1>2, <1>4
  <2> QED
    BY <1>2, <1>5, <2>1
<1>7. \A x, y \in 1 .. L : x < y => s[x] < s[y]
  BY <1>4, <1>5
<1>8. \A x \in 1 .. L : \E m \in 1 .. L : RankOf(k, m) = x /\ s[x] = k[m]
  BY <1>4, <1>5
<1>9. \A m \in 1 .. L : RankOf(k, m) \in 1 .. L /\ s[RankOf(k, m)] = k[m]
  <2> TAKE m \in 1 .. L
  <2>1. PICK x \in 1 .. L : f[x] = m
    BY <1>4
  <2>2. RankOf(k, m) = x
    BY <1>4, <2>1
  <2> QED
    BY <1>5, <2>1, <2>2
<1> QED
  BY <1>2, <1>6, <1>7, <1>8, <1>9 DEF k, L, s

(* A proper job's keys are all read from the map, and so in order.         *)
LEMMA SortedKeysIs ==
  ASSUME NEW j \in Jobs, NEW beyond
  PROVE  LET s == SortedKeys(j.keys, beyond)
         IN  /\ DOMAIN s = DOMAIN j.keys
             /\ Proper(j) => s = InOrder(j.keys)
<1> DEFINE k == j.keys
           n == Cardinality(Firsts(k))
<1>1. ASSUME Proper(j) PROVE SortedKeys(k, beyond) = InOrder(k)
  <2>1. Len(k) \in Nat /\ DOMAIN k = 1 .. Len(k)
    BY <1>1, SortedKeysFacts
  <2>2. Firsts(k) = DOMAIN k
    <3>1. \A a \in DOMAIN k : \A b \in 1 .. a - 1 : b \in DOMAIN k /\ b # a
      BY <2>1
    <3> QED
      BY <1>1, <3>1 DEF Firsts, Proper
  <2>3. n = Len(k)
    BY <2>1, <2>2, CountUpTo
  <2>4. \A x \in DOMAIN k : x <= n
    BY <2>1, <2>3
  <2> HIDE DEF n
  <2> QED
    BY <2>2, <2>4 DEF SortedKeys, InOrder, n
<1>2. DOMAIN SortedKeys(k, beyond) = DOMAIN k
  BY DEF SortedKeys
<1> QED
  BY <1>1, <1>2

(* Whatever the keys, what the client feeds are as many integers.          *)
LEMMA SortedKeysType ==
  ASSUME NEW j \in Jobs, NEW beyond \in [DOMAIN j.keys -> KeysBeyond]
  PROVE  LET s == SortedKeys(j.keys, beyond)
         IN  s \in Seq(Int) /\ Len(s) = Len(j.keys)
<1> DEFINE k == j.keys
           L == Len(k)
           S == Firsts(k)
           n == Cardinality(S)
           f == Ascending(k, S)
           s == SortedKeys(k, beyond)
<1>1. k \in Seq(Int)
  BY JobsAssumption DEF JobType
<1>2. L \in Nat /\ DOMAIN k = 1 .. L /\ k \in [1 .. L -> Int]
  BY <1>1, LenProperties
<1>3. S \in SUBSET (1 .. L) /\ \A a, b \in S : k[a] = k[b] => a = b
  <2>1. \A a, b \in 1 .. L : a < b => a \in 1 .. b - 1
    OBVIOUS
  <2>2. \A a, b \in 1 .. L : a # b => a < b \/ b < a
    OBVIOUS
  <2> QED
    BY <1>2, <2>1, <2>2 DEF Firsts
<1>4. IsFiniteSet(S)
  BY <1>2, <1>3, CountUpTo, FS_Subset
<1>5. \A a \in S : k[a] \in Int
  BY <1>2, <1>3
<1> HIDE DEF S, L, k
<1>6. n \in Nat /\ f \in [1 .. n -> S]
  BY <1>3, <1>4, <1>5, AscendingFacts
<1> HIDE DEF n, f
<1>7. s = [x \in 1 .. L |-> IF x <= n THEN k[f[x]] ELSE beyond[x]]
  BY <1>2 DEF SortedKeys, n, f, S
<1>8. \A x \in 1 .. L : beyond[x] \in Int
  BY <1>2, KeysBeyondAssumption DEF k
<1>9. \A x \in 1 .. L : x <= n => k[f[x]] \in Int
  BY <1>5, <1>6
<1>10. s \in [1 .. L -> Int]
  BY <1>7, <1>8, <1>9
<1> HIDE DEF s
<1>11. s \in Seq(Int) /\ Len(s) = L
  BY <1>2, <1>10, SeqDef, LenProperties
<1> QED
  BY <1>11 DEF s, L, k

LEMMA SortedPairsFacts ==
  ASSUME NEW j \in Jobs
  PROVE  LET s == SortedPairs(j.pairs)
             L == Len(j.pairs)
         IN  /\ L \in Nat /\ DOMAIN j.pairs = 1 .. L /\ s \in Seq(Nat \X T) /\ Len(s) = L
             /\ \A x, y \in 1 .. L : x < y => s[x][1] < s[y][1]
             /\ \A m \in 1 .. L : \E x \in 1 .. L : s[x] = j.pairs[m]
             /\ \A x \in 1 .. L : \E m \in 1 .. L : s[x] = j.pairs[m]
<1> DEFINE p == j.pairs
           L == Len(p)
           s == SortedPairs(p)
           k == [x \in 1 .. L |-> p[x][1]]
           f == Ascending(k, 1 .. L)
<1>1. p \in Seq(Nat \X T)
  BY JobsAssumption DEF JobType
<1>2. L \in Nat /\ DOMAIN p = 1 .. L /\ p \in [1 .. L -> Nat \X T]
  BY <1>1, LenProperties
<1>3. \A a, b \in 1 .. L : p[a][1] = p[b][1] => a = b
  BY <1>2, JobsAssumption
<1> HIDE DEF L, p
<1>4. k \in [1 .. L -> Nat] /\ \A a, b \in 1 .. L : k[a] = k[b] => a = b
  BY <1>2, <1>3
<1>5. s = [x \in 1 .. L |-> p[f[x]]]
  <2>1. k = [x \in DOMAIN p |-> p[x][1]]
    BY <1>2
  <2> QED
    BY <1>2, <2>1 DEF SortedPairs
<1>6. \A a \in 1 .. L : k[a] = p[a][1]
  OBVIOUS
<1> HIDE DEF k
<1>7. /\ f \in [1 .. L -> 1 .. L]
      /\ \A x, y \in 1 .. L : x < y => k[f[x]] < k[f[y]]
      /\ \A a \in 1 .. L : \E x \in 1 .. L : f[x] = a
  <2> DEFINE S == 1 .. L
  <2>1. IsFiniteSet(S) /\ Cardinality(S) = L
    BY <1>2, CountUpTo
  <2>2. (\A a \in S : k[a] \in Int) /\ \A a, b \in S : k[a] = k[b] => a = b
    BY <1>4
  <2>3. f = Ascending(k, S)
    OBVIOUS
  <2> HIDE DEF S, f
  <2>4. /\ f \in [1 .. L -> S]
        /\ \A x, y \in 1 .. L : x < y => k[f[x]] < k[f[y]]
        /\ \A a \in S : \E x \in 1 .. L : f[x] = a
    BY <2>1, <2>2, <2>3, AscendingFacts
  <2> QED
    BY <2>4 DEF S
<1> HIDE DEF s, f
<1>8. s \in Seq(Nat \X T) /\ Len(s) = L
  <2>1. \A x \in 1 .. L : p[f[x]] \in Nat \X T
    BY <1>2, <1>7
  <2> QED
    BY <1>2, <1>5, <2>1
<1>9. \A x, y \in 1 .. L : x < y => s[x][1] < s[y][1]
  <2>1. \A x \in 1 .. L : s[x][1] = k[f[x]]
    BY <1>5, <1>6, <1>7
  <2> QED
    BY <1>7, <2>1
<1>10. \A m \in 1 .. L : \E x \in 1 .. L : s[x] = p[m]
  BY <1>5, <1>7
<1>11. \A x \in 1 .. L : \E m \in 1 .. L : s[x] = p[m]
  BY <1>5, <1>7
<1> QED
  BY <1>2, <1>8, <1>9, <1>10, <1>11 DEF p, L, s

-----------------------------------------------------------------------------
(* A nonempty set of natural numbers has a least element.                  *)
LEMMA NatLeast ==
  ASSUME NEW S \in SUBSET Nat, S # {}
  PROVE  \E x \in S : \A y \in S : x <= y
<1> DEFINE R == OpToRel(<, Nat)
<1>1. IsWellFoundedOn(R, Nat)
  BY NatLessThanWellFounded
<1>2. \A x, y \in Nat : y < x => <<y, x>> \in R
  BY DEF OpToRel
<1> HIDE DEF R
<1>3. PICK x \in S : \A y \in S : ~(<<y, x>> \in R)
  BY <1>1, WFMin
<1>4. \A y \in S : ~(y < x)
  BY <1>2, <1>3
<1> QED
  BY <1>4

(* What grows from each place to the next grows.                           *)
LEMMA Climbs ==
  ASSUME NEW n \in Nat, NEW k \in [1 .. n -> Int],
         \A x \in 1 .. n - 1 : k[x] <= k[x + 1]
  PROVE  \A x, y \in 1 .. n : x < y => k[x] <= k[y]
<1> SUFFICES ASSUME NEW x \in 1 .. n,
                    \E y \in 1 .. n : x < y /\ ~(k[x] <= k[y])
             PROVE  FALSE
  OBVIOUS
<1> DEFINE S == {y \in 1 .. n : x < y /\ ~(k[x] <= k[y])}
<1>1. S \in SUBSET Nat /\ S # {}
  <2>1. \A y \in 1 .. n : y \in Nat
    OBVIOUS
  <2> QED
    BY <2>1
<1> HIDE DEF S
<1>2. PICK y \in S : \A z \in S : y <= z
  BY <1>1, NatLeast
<1>3. y \in 1 .. n /\ x < y /\ ~(k[x] <= k[y])
  BY DEF S
<1>4. y - 1 \in 1 .. n - 1 /\ y - 1 \in 1 .. n /\ (y - 1) + 1 = y /\ ~(y <= y - 1) /\ x <= y - 1
  BY <1>3
<1>5. k[y - 1] <= k[y]
  BY <1>4
<1>6. k[x] <= k[y - 1]
  <2>1. CASE x = y - 1
    BY <2>1
  <2>2. CASE x # y - 1
    <3>1. x < y - 1
      BY <1>4, <2>2
    <3>2. y - 1 \notin S
      BY <1>2, <1>4
    <3> QED
      BY <1>4, <3>1, <3>2 DEF S
  <2> QED
    BY <2>1, <2>2
<1>7. k[x] \in Int /\ k[y] \in Int /\ k[y - 1] \in Int
  BY <1>3, <1>4
<1> QED
  BY <1>3, <1>5, <1>6, <1>7

-----------------------------------------------------------------------------
(* Both parties in the circuit: they have the same job, and each feeds as  *)
(* much as the job has; and each in ascending order, if the job is proper. *)
TheyAreIn == TypeOK /\ InStep /\ Sorted /\ pc["server"] = "yao" /\ pc["client"] = "yao"
BothIn == TheyAreIn /\ Proper(Job("client"))

LEMMA SameJob ==
  ASSUME TypeOK, InStep, pc["server"] = "yao", pc["client"] = "yao"
  PROVE  /\ run["server"] = run["client"] /\ run["client"] \in 1 .. NumRuns
         /\ Job("server") = Job("client") /\ Job("client") \in Jobs
<1>1. run["server"] \in 0 .. NumRuns /\ run["client"] \in 0 .. NumRuns
  BY DEF TypeOK, Parties
<1>2. run["server"] - 1 = run["client"] - 1 /\ run["client"] >= 1
  BY DEF InStep, Merged, Parties
<1>3. run["server"] = run["client"] /\ run["client"] \in 1 .. NumRuns
  BY <1>1, <1>2, JobsAssumption
<1> QED
  BY <1>3 DEF Job, TypeOK

LEMMA OpairIs ==
  ASSUME NEW k \in Int, NEW v \in T, NEW b \in BOOLEAN
  PROVE  [key |-> k, value |-> v, client |-> b] \in Opairs
  BY DEF Opairs

ClientValue(j, r) == IF j.shared THEN Neg(j.defaults[r]) ELSE j.defaults[r]

LEMMA FedTypes ==
  ASSUME TheyAreIn
  PROVE  LET j == Job("client")
         IN  /\ len1 = Len(j.pairs) /\ len1 \in Nat /\ len2 = Len(j.keys) /\ len2 \in Nat
             /\ TheFed \in [Places -> Opairs]
             /\ \A x \in 1 .. len1 :
                  /\ x \in Places
                  /\ TheFed[x] = [key |-> input["server"][x][1],
                                  value |-> input["server"][x][2], client |-> FALSE]
             /\ \A r \in 1 .. len2 :
                  /\ len1 + r \in Places
                  /\ TheFed[len1 + r] = [key |-> input["client"][r],
                                         value |-> ClientValue(j, r), client |-> TRUE]
             /\ \A a \in Places : (a \in 1 .. len1) \/ \E r \in 1 .. len2 : a = len1 + r
             /\ \A x, y \in 1 .. len1 : x < y => input["server"][x][1] < input["server"][y][1]
             /\ \A x \in 1 .. len1 : input["server"][x] \in Nat \X T
             /\ \A r \in 1 .. len2 : input["client"][r] \in Int
<1> DEFINE j == Job("client")
           s == input["server"]
           c == input["client"]
<1>1. j \in Jobs /\ Job("server") = j
  BY SameJob DEF TheyAreIn
<1>2. s = SortedPairs(j.pairs) /\ Len(c) = Len(j.keys) /\ c \in Seq(Int)
  BY <1>1 DEF TheyAreIn, Sorted, TypeOK
<1> HIDE DEF j
<1>3. /\ len1 = Len(j.pairs) /\ len1 \in Nat /\ s \in Seq(Nat \X T)
      /\ \A x, y \in 1 .. len1 : x < y => s[x][1] < s[y][1]
  <2>1. len1 = Len(s)
    BY DEF len1
  <2> HIDE DEF s
  <2> QED
    BY <1>1, <1>2, <2>1, SortedPairsFacts
<1>4. len2 = Len(j.keys) /\ len2 \in Nat
  <2>1. len2 = Len(c)
    BY DEF len2
  <2> HIDE DEF c
  <2> QED
    BY <1>2, <2>1, LenProperties
<1>5. s \in [1 .. len1 -> Nat \X T] /\ c \in [1 .. len2 -> Int]
  BY <1>2, <1>3, <1>4, LenProperties DEF len1, len2
<1>18. len1 \in Nat /\ len2 \in Nat
  BY <1>3, <1>4
<1>6. \A r \in 1 .. len2 : j.defaults[r] \in T
  <2>1. j.defaults \in Seq(T) /\ Len(j.keys) <= Len(j.defaults)
    BY <1>1, JobsAssumption DEF JobType
  <2> DEFINE d == j.defaults
  <2>2. d \in [1 .. Len(d) -> T] /\ Len(d) \in Nat
    BY <2>1, LenProperties
  <2>3. \A r \in 1 .. len2 : r \in 1 .. Len(d)
    BY <1>4, <2>1, <2>2
  <2> HIDE DEF d
  <2> QED
    BY <2>2, <2>3 DEF d
<1>7. \A r \in 1 .. len2 : ClientValue(j, r) \in T
  BY <1>6, RingClosed DEF ClientValue, Neg
<1>8. TheFed = [x \in Places |->
                  IF x <= len1
                    THEN [key |-> s[x][1], value |-> s[x][2], client |-> FALSE]
                    ELSE [key |-> c[x - len1],
                          value |-> IF j.shared THEN Neg(j.defaults[x - len1])
                                                ELSE j.defaults[x - len1],
                          client |-> TRUE]]
  BY <1>1 DEF TheFed, Fed, Places, j
<1> HIDE DEF s, c
<1>9. \A x \in 1 .. len1 : x \in Places /\ x <= len1
  BY <1>18 DEF Places
<1>10. \A r \in 1 .. len2 : len1 + r \in Places /\ ~(len1 + r <= len1) /\ (len1 + r) - len1 = r
  BY <1>18 DEF Places
<1>11. \A x \in 1 .. len1 : TheFed[x] = [key |-> s[x][1], value |-> s[x][2], client |-> FALSE]
  BY <1>8, <1>9
<1>12. \A r \in 1 .. len2 :
         TheFed[len1 + r] = [key |-> c[r], value |-> ClientValue(j, r), client |-> TRUE]
  BY <1>8, <1>10 DEF ClientValue
<1>13. \A a \in Places : (a \in 1 .. len1) \/ \E r \in 1 .. len2 : a = len1 + r
  <2> TAKE a \in Places
  <2>1. CASE a <= len1
    BY <1>18, <2>1 DEF Places
  <2>2. CASE ~(a <= len1)
    <3>1. a - len1 \in 1 .. len2 /\ a = len1 + (a - len1)
      BY <1>18, <2>2 DEF Places
    <3> QED
      BY <3>1
  <2> QED
    BY <2>1, <2>2
<1>14. \A x \in 1 .. len1 : TheFed[x] \in Opairs
  <2> TAKE x \in 1 .. len1
  <2>1. s[x] \in Nat \X T
    BY <1>5
  <2>2. s[x][1] \in Int /\ s[x][2] \in T
    BY <2>1
  <2> QED
    BY <1>11, <2>2, OpairIs
<1>15. \A r \in 1 .. len2 : TheFed[len1 + r] \in Opairs
  <2> TAKE r \in 1 .. len2
  <2>1. c[r] \in Int /\ ClientValue(j, r) \in T
    BY <1>5, <1>7
  <2> HIDE DEF j
  <2> QED
    BY <1>12, <2>1, OpairIs
<1>16. TheFed \in [Places -> Opairs]
  <2>1. \A a \in Places : TheFed[a] \in Opairs
    BY <1>13, <1>14, <1>15
  <2>2. TheFed = [a \in Places |-> TheFed[a]]
    BY <1>8
  <2> QED
    BY <2>1, <2>2
<1>17. (\A x \in 1 .. len1 : s[x] \in Nat \X T) /\ \A r \in 1 .. len2 : c[r] \in Int
  BY <1>5
<1> QED
  BY <1>3, <1>4, <1>9, <1>10, <1>11, <1>12, <1>13, <1>16, <1>17 DEF j, s, c

LEMMA FedFacts ==
  ASSUME BothIn
  PROVE  LET j == Job("client")
         IN  /\ len1 = Len(j.pairs) /\ len1 \in Nat /\ len2 = Len(j.keys) /\ len2 \in Nat
             /\ TheFed \in [Places -> Opairs]
             /\ \A x \in 1 .. len1 :
                  /\ x \in Places
                  /\ TheFed[x] = [key |-> input["server"][x][1],
                                  value |-> input["server"][x][2], client |-> FALSE]
             /\ \A r \in 1 .. len2 :
                  /\ len1 + r \in Places
                  /\ TheFed[len1 + r] = [key |-> input["client"][r],
                                         value |-> ClientValue(j, r), client |-> TRUE]
             /\ \A a \in Places : (a \in 1 .. len1) \/ \E r \in 1 .. len2 : a = len1 + r
             /\ \A x, y \in 1 .. len1 : x < y => input["server"][x][1] < input["server"][y][1]
             /\ \A x, y \in 1 .. len2 : x < y => input["client"][x] < input["client"][y]
             /\ \A x \in 1 .. len1 : input["server"][x] \in Nat \X T
             /\ \A r \in 1 .. len2 : input["client"][r] \in Nat
<1> DEFINE j == Job("client")
           c == input["client"]
<1>1. j \in Jobs /\ Proper(j) /\ TheyAreIn
  BY SameJob DEF BothIn, TheyAreIn
<1>2. c = InOrder(j.keys)
  BY <1>1 DEF TheyAreIn, Sorted
<1>3. len2 = Len(j.keys)
  BY <1>1, FedTypes
<1> HIDE DEF j
<1>4. /\ len2 \in Nat /\ c \in Seq(Nat) /\ Len(c) = len2
      /\ \A x, y \in 1 .. len2 : x < y => c[x] < c[y]
  BY <1>1, <1>2, <1>3, SortedKeysFacts
<1> HIDE DEF c
<1>5. \A r \in 1 .. len2 : c[r] \in Nat
  BY <1>4, LenProperties
<1> QED
  BY <1>1, <1>4, <1>5, FedTypes DEF c

-----------------------------------------------------------------------------
(* A merge of what was fed.                                                *)
LEMMA OpairFacts ==
  ASSUME NEW o \in Opairs
  PROVE  o.key \in Int /\ o.value \in T /\ o.client \in BOOLEAN
  BY DEF Opairs

LEMMA ChangedFacts ==
  ASSUME NEW o \in Opairs, NEW p \in Opairs, NEW shared \in BOOLEAN
  PROVE  LET q == Changed(o, p, shared)
         IN  /\ q \in Opairs /\ q.key = o.key
             /\ shared => q.value = Plus(o.value, p.value) /\ q.client = o.client
             /\ ~shared => q.value = o.value /\ q.client = p.client
<1>1. /\ o.key \in Int /\ o.value \in T /\ o.client \in BOOLEAN
      /\ p.value \in T /\ p.client \in BOOLEAN
  BY OpairFacts
<1>2. o = [key |-> o.key, value |-> o.value, client |-> o.client]
  BY DEF Opairs
<1>3. Plus(o.value, p.value) \in T
  BY <1>1, RingClosed
<1>4. CASE shared
  <2>1. Changed(o, p, shared)
          = [key |-> o.key, value |-> Plus(o.value, p.value), client |-> o.client]
    BY <1>2, <1>4 DEF Changed
  <2>2. Changed(o, p, shared) \in Opairs
    BY <1>1, <1>3, <2>1, OpairIs
  <2> DEFINE q == Changed(o, p, shared)
             sum == Plus(o.value, p.value)
  <2> HIDE DEF q, sum
  <2>3. q = [key |-> o.key, value |-> sum, client |-> o.client]
    BY <2>1 DEF q, sum
  <2>4. q.key = o.key /\ q.value = sum /\ q.client = o.client
    BY <2>3
  <2> QED
    BY <1>4, <2>2, <2>4 DEF q, sum
<1>5. CASE ~shared
  <2>1. Changed(o, p, shared) = [key |-> o.key, value |-> o.value, client |-> p.client]
    BY <1>2, <1>5 DEF Changed
  <2>2. Changed(o, p, shared) \in Opairs
    BY <1>1, <2>1, OpairIs
  <2> QED
    BY <1>5, <2>1, <2>2
<1> QED
  BY <1>4, <1>5

(* Of one key there are at most two pairs, of different owners.            *)
LEMMA TwoOfAKey ==
  ASSUME NEW b \in [Places -> Opairs], IsMerged(b),
         NEW x \in Places, NEW y \in Places, x # y, b[x].key = b[y].key
  PROVE  /\ b[y].client = ~b[x].client
         /\ \A z \in Places : z # x /\ b[z].key = b[x].key => z = y
<1>1. \A w, z \in Places : b[w].key = b[z].key /\ b[w].client = b[z].client => w = z
  BY DEF IsMerged
<1>2. \A z \in Places : b[z].client \in BOOLEAN
  BY OpairFacts
<1>3. \A z \in Places : z # x /\ b[z].key = b[x].key => b[z].client = ~b[x].client
  BY <1>1, <1>2
<1> QED
  BY <1>1, <1>3

(* They are neighbours.                                                    *)
LEMMA Neighbours ==
  ASSUME NEW b \in [Places -> Opairs], IsMerged(b), len1 \in Nat, len2 \in Nat,
         NEW x \in Places, NEW y \in Places, x < y, b[x].key = b[y].key
  PROVE  y = x + 1
<1>1. x \in Nat /\ y \in Nat
  BY DEF Places
<1> SUFFICES ASSUME x + 1 < y PROVE FALSE
  BY <1>1
<1>2. x + 1 \in Places /\ x + 1 # x /\ x + 1 # y /\ x < x + 1 /\ x # y
  BY <1>1 DEF Places
<1>3. b[x].key <= b[x + 1].key /\ b[x + 1].key <= b[y].key
  BY <1>2 DEF IsMerged
<1>4. b[x].key \in Int /\ b[x + 1].key \in Int /\ b[y].key \in Int
  BY <1>2, OpairFacts
<1>5. b[x + 1].key = b[x].key
  BY <1>3, <1>4
<1> QED
  BY <1>2, <1>5, TwoOfAKey

LEMMA MergeStep ==
  ASSUME BothIn, NEW f \in Orders(Places),
         LET b == [x \in Places |-> TheFed[f[x]]]
         IN  AscendingIn(TheFed, 1, len1) /\ AscendingIn(TheFed, len1 + 1, len1 + len2)
               => AscendingIn(b, 1, len1 + len2)
  PROVE  LET b == [x \in Places |-> TheFed[f[x]]]
         IN  b \in [Places -> Opairs] /\ IsMerged(b)
<1> DEFINE s == input["server"]
           c == input["client"]
           n == len1 + len2
           b == [x \in Places |-> TheFed[f[x]]]
<1>1. /\ len1 \in Nat /\ len2 \in Nat /\ TheFed \in [Places -> Opairs]
      /\ \A x, y \in 1 .. len1 : x < y => s[x][1] < s[y][1]
      /\ \A x, y \in 1 .. len2 : x < y => c[x] < c[y]
      /\ \A x \in 1 .. len1 : s[x] \in Nat \X T
      /\ \A r \in 1 .. len2 : c[r] \in Nat
  BY FedFacts
<1>2. \A x \in 1 .. len1 : x \in Places /\ TheFed[x].key = s[x][1] /\ TheFed[x].client = FALSE
  <2> TAKE x \in 1 .. len1
  <2>1. x \in Places /\ TheFed[x] = [key |-> s[x][1], value |-> s[x][2], client |-> FALSE]
    BY FedFacts
  <2> QED
    BY <2>1
<1>3. \A r \in 1 .. len2 :
        len1 + r \in Places /\ TheFed[len1 + r].key = c[r] /\ TheFed[len1 + r].client = TRUE
  <2> TAKE r \in 1 .. len2
  <2> DEFINE v == ClientValue(Job("client"), r)
  <2>1. len1 + r \in Places /\ TheFed[len1 + r] = [key |-> c[r], value |-> v, client |-> TRUE]
    BY FedFacts
  <2> HIDE DEF v
  <2> QED
    BY <2>1
<1>4. \A a \in Places : (a \in 1 .. len1) \/ \E r \in 1 .. len2 : a = len1 + r
  BY FedFacts
<1> HIDE DEF s, c
<1>5. n \in Nat /\ Places = 1 .. n
  BY <1>1 DEF Places
<1>6. AscendingIn(TheFed, 1, len1)
  <2> SUFFICES ASSUME NEW x \in 1 .. len1 - 1
               PROVE  UpTo(TheFed[x].key, TheFed[x + 1].key)
    BY DEF AscendingIn
  <2>1. x \in 1 .. len1 /\ x + 1 \in 1 .. len1 /\ x < x + 1
    BY <1>1
  <2>2. s[x][1] < s[x + 1][1] /\ s[x][1] \in Nat /\ s[x + 1][1] \in Nat
    BY <1>1, <2>1
  <2>3. UpTo(s[x][1], s[x + 1][1])
    BY <2>2 DEF UpTo
  <2> QED
    BY <1>2, <2>1, <2>3
<1>7. AscendingIn(TheFed, len1 + 1, n)
  <2> SUFFICES ASSUME NEW x \in len1 + 1 .. n - 1
               PROVE  UpTo(TheFed[x].key, TheFed[x + 1].key)
    BY DEF AscendingIn
  <2> DEFINE r == x - len1
  <2>1. /\ r \in 1 .. len2 /\ r + 1 \in 1 .. len2 /\ r < r + 1
        /\ x = len1 + r /\ x + 1 = len1 + (r + 1)
    BY <1>1
  <2> HIDE DEF r
  <2>2. c[r] < c[r + 1] /\ c[r] \in Nat /\ c[r + 1] \in Nat
    BY <1>1, <2>1
  <2>3. TheFed[x].key = c[r] /\ TheFed[x + 1].key = c[r + 1]
    BY <1>3, <2>1
  <2>4. UpTo(c[r], c[r + 1])
    BY <2>2 DEF UpTo
  <2> QED
    BY <2>3, <2>4
<1>8. AscendingIn(b, 1, n)
  BY <1>6, <1>7
<1>9. /\ f \in [1 .. n -> 1 .. n]
      /\ \A x, y \in 1 .. n : f[x] = f[y] => x = y
      /\ \A a \in 1 .. n : \E x \in 1 .. n : f[x] = a
  BY <1>5, OrdersUpTo
<1> HIDE DEF n
<1>10. b \in [Places -> Opairs]
  BY <1>1, <1>5, <1>9
<1>11. \A x \in Places : b[x] = TheFed[f[x]] /\ f[x] \in Places
  BY <1>5, <1>9
<1> HIDE DEF b
<1>12. \A x, y \in Places : x < y => b[x].key <= b[y].key
  <2> DEFINE k == [x \in 1 .. n |-> b[x].key]
  <2>5. \A a \in Places : TheFed[a].key \in Nat
    <3> TAKE a \in Places
    <3>1. CASE a \in 1 .. len1
      <4>1. s[a] \in Nat \X T
        BY <1>1, <3>1
      <4>2. s[a][1] \in Nat
        BY <4>1
      <4> QED
        BY <1>2, <3>1, <4>2
    <3>2. ASSUME NEW r \in 1 .. len2, a = len1 + r PROVE TheFed[a].key \in Nat
      BY <1>1, <1>3, <3>2
    <3> QED
      BY <1>4, <3>1, <3>2
  <2>6. \A x \in 1 .. n : b[x].key \in Nat
    BY <1>5, <1>11, <2>5
  <2>1. k \in [1 .. n -> Int]
    BY <2>6
  <2>2. \A x \in 1 .. n - 1 : k[x] <= k[x + 1]
    <3> TAKE x \in 1 .. n - 1
    <3>1. x \in 1 .. n /\ x + 1 \in 1 .. n /\ UpTo(b[x].key, b[x + 1].key)
      BY <1>5, <1>8 DEF AscendingIn
    <3>2. b[x].key <= b[x + 1].key
      BY <2>6, <3>1 DEF UpTo
    <3> QED
      BY <3>1, <3>2
  <2>3. \A x \in 1 .. n : k[x] = b[x].key
    OBVIOUS
  <2> HIDE DEF k
  <2>4. \A x, y \in 1 .. n : x < y => k[x] <= k[y]
    BY <1>5, <2>1, <2>2, Climbs
  <2> QED
    BY <1>5, <2>3, <2>4
<1>13. \A x, y \in Places :
         TheFed[x].key = TheFed[y].key /\ TheFed[x].client = TheFed[y].client => x = y
  <2> SUFFICES ASSUME NEW x \in Places, NEW y \in Places,
                      TheFed[x].key = TheFed[y].key, TheFed[x].client = TheFed[y].client
               PROVE  x = y
    OBVIOUS
  <2>1. CASE x \in 1 .. len1
    <3>1. y \in 1 .. len1
      BY <1>2, <1>3, <1>4, <2>1
    <3>2. s[x][1] = s[y][1] /\ s[x][1] \in Nat /\ s[y][1] \in Nat
      BY <1>1, <1>2, <2>1, <3>1
    <3>3. ~(x < y) /\ ~(y < x)
      BY <1>1, <2>1, <3>1, <3>2
    <3> QED
      BY <2>1, <3>1, <3>3
  <2>2. CASE ~(x \in 1 .. len1)
    <3>1. PICK r \in 1 .. len2 : x = len1 + r
      BY <1>4, <2>2
    <3>2. ~(y \in 1 .. len1)
      BY <1>2, <1>3, <3>1
    <3>3. PICK q \in 1 .. len2 : y = len1 + q
      BY <1>4, <3>2
    <3>4. c[r] = c[q] /\ c[r] \in Nat /\ c[q] \in Nat
      BY <1>1, <1>3, <3>1, <3>3
    <3>5. ~(r < q) /\ ~(q < r)
      BY <1>1, <3>4
    <3>6. r = q
      BY <3>5
    <3> QED
      BY <3>1, <3>3, <3>6
  <2> QED
    BY <2>1, <2>2
<1>14. \A x, y \in Places : b[x].key = b[y].key /\ b[x].client = b[y].client => x = y
  <2> SUFFICES ASSUME NEW x \in Places, NEW y \in Places,
                      b[x].key = b[y].key, b[x].client = b[y].client
               PROVE  x = y
    OBVIOUS
  <2>1. f[x] = f[y]
    BY <1>11, <1>13
  <2> QED
    BY <1>5, <1>9, <2>1
<1>15. \A a \in Places : \E x \in Places : b[x] = TheFed[a]
  <2> TAKE a \in Places
  <2>1. PICK x \in Places : f[x] = a
    BY <1>5, <1>9
  <2> QED
    BY <1>11, <2>1
<1>16. \A x \in Places : \E a \in Places : b[x] = TheFed[a]
  BY <1>11
<1>17. IsMerged(b)
  BY <1>12, <1>14, <1>15, <1>16 DEF IsMerged
<1> QED
  BY <1>10, <1>17 DEF b

-----------------------------------------------------------------------------
(* A turn of the loop.                                                     *)
LEMMA MovedIs ==
  ASSUME NEW x \in Opairs, NEW y \in Opairs, NEW shared \in BOOLEAN
  PROVE  /\ Moved(x, y, shared)[1] = Changed(x, y, shared)
         /\ Moved(x, y, shared)[2] = Changed(y, x, shared)
<1>1. x.value \in T /\ y.value \in T
  BY OpairFacts
<1>2. Plus(x.value, y.value) = Plus(y.value, x.value)
  BY <1>1, RingGroup
<1>3. CASE shared
  BY <1>2, <1>3 DEF Moved, Changed
<1>4. CASE ~shared
  BY <1>4 DEF Moved, Changed
<1> QED
  BY <1>3, <1>4

LEMMA MetFacts ==
  ASSUME NEW b \in [Places -> Opairs], IsMerged(b), NEW c \in Nat,
         NEW x \in Places, NEW y \in Places, Met(b, c, x, y)
  PROVE  /\ x # y /\ b[x].key = b[y].key /\ Met(b, c, y, x)
         /\ b[y].client = ~b[x].client
         /\ \A z \in Places : Met(b, c, x, z) => z = y
<1>1. x \in Int /\ y \in Int
  BY DEF Places
<1>2. x # y /\ b[x].key = b[y].key
  BY <1>1 DEF Met
<1>3. Met(b, c, y, x)
  BY DEF Met
<1>4. \A z \in Places : Met(b, c, x, z) => z # x /\ b[z].key = b[x].key
  BY <1>1 DEF Met
<1> QED
  BY <1>2, <1>3, <1>4, TwoOfAKey

LEMMA CompareThrough ==
  ASSUME BothIn, i \in Nat \ {0}, DOMAIN opairs = Places,
         NEW b \in [Places -> Opairs], IsMerged(b), Through(b, i), Compare
  PROVE  /\ DOMAIN opairs' = Places
         /\ \A x \in Places :
              /\ (\A y \in Places : ~Met(b, i + 1, x, y)) => opairs'[x] = b[x]
              /\ \A y \in Places :
                   Met(b, i + 1, x, y) => opairs'[x] = Changed(b[x], b[y], Job("client").shared)
<1> DEFINE sh == Job("client").shared
           j == i + 1
           moved == Moved(opairs[i], opairs[j], sh)
<1>1. /\ i < len1 + len2
      /\ opairs' = IF opairs[i].key = opairs[j].key
                     THEN [opairs EXCEPT ![i] = moved[1], ![j] = moved[2]] ELSE opairs
  BY DEF Compare
<1>2. len1 \in Nat /\ len2 \in Nat
  BY FedFacts
<1>3. i \in Places /\ j \in Places /\ i # j /\ j \in Nat /\ i \in Nat
  BY <1>1, <1>2 DEF Places
<1>4. \A x \in Places : x \in Nat
  BY <1>2 DEF Places
<1>5. sh \in BOOLEAN
  <2>1. Job("client") \in Jobs
    BY SameJob DEF BothIn, TheyAreIn
  <2> QED
    BY <2>1, JobsAssumption DEF JobType
<1> HIDE DEF sh, moved, j
<1>6. j = i + 1
  BY DEF j
(* What neither has met anything before.                                   *)
<1>7. ASSUME b[i].key = b[j].key
      PROVE  opairs[i] = b[i] /\ opairs[j] = b[j]
  <2>1. \A z \in Places : z # i /\ b[z].key = b[i].key => z = j
    BY <1>3, <1>7, TwoOfAKey
  <2>2. \A z \in Places : z # j /\ b[z].key = b[j].key => z = i
    BY <1>3, <1>7, TwoOfAKey
  <2>3. \A z \in Places : ~Met(b, i, i, z)
    BY <1>3, <1>4, <1>6, <2>1 DEF Met
  <2>4. \A z \in Places : ~Met(b, i, j, z)
    BY <1>3, <1>4, <1>6, <2>2 DEF Met
  <2> QED
    BY <1>3, <2>3, <2>4 DEF Through
<1>8. \A x \in Places : opairs[x].key = b[x].key
  <2> TAKE x \in Places
  <2>1. CASE \A y \in Places : ~Met(b, i, x, y)
    BY <2>1 DEF Through
  <2>2. ASSUME NEW y \in Places, Met(b, i, x, y) PROVE opairs[x].key = b[x].key
    <3>1. opairs[x] = Changed(b[x], b[y], sh)
      BY <2>2 DEF Through, sh
    <3>2. b[x] \in Opairs /\ b[y] \in Opairs
      OBVIOUS
    <3>3. Changed(b[x], b[y], sh).key = b[x].key
      BY <1>5, <3>2, ChangedFacts
    <3> QED
      BY <3>1, <3>3
  <2> QED
    BY <2>1, <2>2
<1>9. \A x, y \in Places :
        Met(b, j, x, y) <=> \/ Met(b, i, x, y)
                            \/ b[i].key = b[j].key /\ ((x = i /\ y = j) \/ (x = j /\ y = i))
  BY <1>3, <1>4, <1>6 DEF Met
<1>10. CASE b[i].key # b[j].key
  <2>1. opairs' = opairs
    BY <1>1, <1>3, <1>8, <1>10
  <2>2. \A x, y \in Places : Met(b, j, x, y) <=> Met(b, i, x, y)
    BY <1>9, <1>10
  <2> QED
    BY <1>6, <2>1, <2>2 DEF Through, sh
<1>11. CASE b[i].key = b[j].key
  <2>1. opairs[i] = b[i] /\ opairs[j] = b[j] /\ b[i] \in Opairs /\ b[j] \in Opairs
    BY <1>3, <1>7, <1>11
  <2>2. moved[1] = Changed(b[i], b[j], sh) /\ moved[2] = Changed(b[j], b[i], sh)
    BY <1>5, <2>1, MovedIs DEF moved
  <2>3. opairs' = [opairs EXCEPT ![i] = moved[1], ![j] = moved[2]]
    BY <1>1, <1>11, <2>1
  <2>4. /\ DOMAIN opairs' = Places
        /\ opairs'[i] = Changed(b[i], b[j], sh) /\ opairs'[j] = Changed(b[j], b[i], sh)
        /\ \A x \in Places : x # i /\ x # j => opairs'[x] = opairs[x]
    BY <1>3, <2>2, <2>3
  <2>5. Met(b, j, i, j) /\ Met(b, j, j, i)
    BY <1>3, <1>9, <1>11
  <2>6. ASSUME NEW x \in Places
        PROVE  /\ (\A y \in Places : ~Met(b, j, x, y)) => opairs'[x] = b[x]
               /\ \A y \in Places : Met(b, j, x, y) => opairs'[x] = Changed(b[x], b[y], sh)
    <3>1. CASE x = i
      <4>1. \A y \in Places : Met(b, j, x, y) => y = j
        BY <1>3, <2>5, <3>1, MetFacts
      <4> QED
        BY <1>3, <2>4, <2>5, <3>1, <4>1
    <3>2. CASE x = j
      <4>1. \A y \in Places : Met(b, j, x, y) => y = i
        BY <1>3, <2>5, <3>2, MetFacts
      <4> QED
        BY <1>3, <2>4, <2>5, <3>2, <4>1
    <3>3. CASE x # i /\ x # j
      <4>1. \A y \in Places : Met(b, j, x, y) <=> Met(b, i, x, y)
        BY <1>9, <3>3
      <4>2. opairs'[x] = opairs[x]
        BY <2>4, <3>3
      <4> QED
        BY <4>1, <4>2 DEF Through, sh
    <3> QED
      BY <3>1, <3>2, <3>3
  <2> QED
    BY <1>6, <2>4, <2>6 DEF sh
<1> QED
  BY <1>10, <1>11

-----------------------------------------------------------------------------
(* What the circuit holds in the loop.                                     *)
LEMMA SharedIsBoolean == ASSUME BothIn PROVE Job("client").shared \in BOOLEAN
<1>1. Job("client") \in Jobs
  BY SameJob DEF BothIn, TheyAreIn
<1> QED
  BY <1>1, JobsAssumption DEF JobType

(* A pair has its key; if it has met the other of its key, it has changed  *)
(* hands, or it has the sum of the values.                                 *)
LEMMA ThroughFacts ==
  ASSUME BothIn, NEW c \in Nat, NEW b \in [Places -> Opairs], IsMerged(b), Through(b, c),
         NEW x \in Places
  PROVE  /\ opairs[x] \in Opairs /\ opairs[x].key = b[x].key
         /\ (\A y \in Places : ~Met(b, c, x, y)) => opairs[x] = b[x]
         /\ \A y \in Places : Met(b, c, x, y) =>
              IF Job("client").shared
                THEN /\ opairs[x].client = b[x].client
                     /\ opairs[x].value = Plus(b[x].value, b[y].value)
                ELSE /\ opairs[x].client = ~b[x].client
                     /\ opairs[x].value = b[x].value
<1> DEFINE sh == Job("client").shared
<1>1. sh \in BOOLEAN
  BY SharedIsBoolean
<1>2. b[x] \in Opairs
  OBVIOUS
<1>3. CASE \A y \in Places : ~Met(b, c, x, y)
  BY <1>2, <1>3 DEF Through
<1>4. ASSUME NEW y \in Places, Met(b, c, x, y)
      PROVE  /\ opairs[x] \in Opairs /\ opairs[x].key = b[x].key
             /\ IF sh THEN /\ opairs[x].client = b[x].client
                           /\ opairs[x].value = Plus(b[x].value, b[y].value)
                      ELSE /\ opairs[x].client = ~b[x].client
                           /\ opairs[x].value = b[x].value
  <2> DEFINE q == Changed(b[x], b[y], sh)
  <2>1. opairs[x] = q
    BY <1>4 DEF Through
  <2>2. b[y] \in Opairs /\ b[y].client = ~b[x].client
    BY <1>4, MetFacts
  <2> HIDE DEF sh
  <2>3. /\ q \in Opairs /\ q.key = b[x].key
        /\ sh => q.value = Plus(b[x].value, b[y].value) /\ q.client = b[x].client
        /\ ~sh => q.value = b[x].value /\ q.client = b[y].client
    BY <1>1, <1>2, <2>2, ChangedFacts
  <2> HIDE DEF q
  <2> QED
    BY <1>1, <2>1, <2>2, <2>3
<1> QED
  BY <1>3, <1>4

(* The marked pairs are one for each of the client's keys.                 *)
LEMMA MarkedFacts ==
  ASSUME BothIn, NEW c \in Nat, NEW b \in [Places -> Opairs], IsMerged(b), Through(b, c),
         DOMAIN opairs = Places
  PROVE  /\ \A x \in Marked : x \in Places
         /\ \A x \in Marked : \E r \in 1 .. len2 : opairs[x].key = input["client"][r]
         /\ \A r \in 1 .. len2 : \E x \in Marked : opairs[x].key = input["client"][r]
         /\ \A x, y \in Marked : opairs[x].key = opairs[y].key => x = y
<1> DEFINE sh == Job("client").shared
           Meets(x) == \E y \in Places : Met(b, c, x, y)
<1>1. \A x \in Places : x \in Marked <=> opairs[x].client
  BY DEF Marked
<1>2. \A x \in Marked : x \in Places
  BY DEF Marked
<1>3. \A x \in Places : /\ opairs[x].client \in BOOLEAN /\ b[x].client \in BOOLEAN
                        /\ opairs[x].key = b[x].key
  BY ThroughFacts, OpairFacts
<1>4. \A x \in Places :
        opairs[x].client = IF ~sh /\ Meets(x) THEN ~b[x].client ELSE b[x].client
  <2> TAKE x \in Places
  <2>1. CASE Meets(x)
    BY <2>1, SharedIsBoolean, ThroughFacts
  <2>2. CASE ~Meets(x)
    BY <2>2, SharedIsBoolean, ThroughFacts
  <2> QED
    BY <2>1, <2>2
<1>5. ASSUME NEW x \in Places, NEW y \in Places, x # y, b[x].key = b[y].key
      PROVE  b[y].client = ~b[x].client /\ (Meets(x) <=> Meets(y))
  <2>1. /\ b[y].client = ~b[x].client
        /\ \A z \in Places : z # x /\ b[z].key = b[x].key => z = y
    BY <1>5, TwoOfAKey
  <2>2. \A z \in Places : z # y /\ b[z].key = b[y].key => z = x
    BY <1>5, TwoOfAKey
  <2>3. \A z \in Places : Met(b, c, x, z) => z = y /\ Met(b, c, y, x)
    BY <2>1, MetFacts
  <2>4. \A z \in Places : Met(b, c, y, z) => z = x /\ Met(b, c, x, y)
    BY <2>2, MetFacts
  <2> QED
    BY <2>1, <2>3, <2>4
<1> HIDE DEF sh, Meets
<1>6. ASSUME NEW x \in Marked, NEW y \in Marked, opairs[x].key = opairs[y].key
      PROVE  x = y
  <2> SUFFICES ASSUME x # y PROVE FALSE
    OBVIOUS
  <2>1. x \in Places /\ y \in Places /\ b[x].key = b[y].key
    BY <1>2, <1>3, <1>6
  <2>2. b[y].client = ~b[x].client /\ (Meets(x) <=> Meets(y))
    BY <1>5, <2>1
  <2>3. opairs[x].client /\ opairs[y].client
    BY <1>1, <2>1
  <2> QED
    BY <1>3, <1>4, <2>1, <2>2, <2>3
<1>7. \A r \in 1 .. len2 :
        /\ len1 + r \in Places /\ TheFed[len1 + r].key = input["client"][r]
        /\ TheFed[len1 + r].client = TRUE
  <2> TAKE r \in 1 .. len2
  <2> DEFINE k == input["client"][r]
             v == ClientValue(Job("client"), r)
  <2>1. len1 + r \in Places /\ TheFed[len1 + r] = [key |-> k, value |-> v, client |-> TRUE]
    BY FedFacts
  <2> HIDE DEF k, v
  <2>2. TheFed[len1 + r].key = k /\ TheFed[len1 + r].client = TRUE
    BY <2>1
  <2> QED
    BY <2>1, <2>2 DEF k
<1>8. \A a \in 1 .. len1 : TheFed[a].client = FALSE
  <2> TAKE a \in 1 .. len1
  <2>1. TheFed[a] = [key |-> input["server"][a][1], value |-> input["server"][a][2],
                     client |-> FALSE]
    BY FedFacts
  <2> QED
    BY <2>1
<1>9. ASSUME NEW x \in Places, b[x].client
      PROVE  \E r \in 1 .. len2 : b[x].key = input["client"][r]
  <2>1. PICK a \in Places : b[x] = TheFed[a]
    BY DEF IsMerged
  <2>2. ~(a \in 1 .. len1)
    BY <1>8, <1>9, <2>1
  <2>3. PICK r \in 1 .. len2 : a = len1 + r
    BY <2>2, FedFacts
  <2> QED
    BY <1>7, <2>1, <2>3
<1>10. ASSUME NEW x \in Marked
       PROVE  \E r \in 1 .. len2 : opairs[x].key = input["client"][r]
  <2>1. x \in Places /\ opairs[x].client /\ opairs[x].key = b[x].key
    BY <1>1, <1>2, <1>3
  <2>2. CASE b[x].client
    BY <1>9, <2>1, <2>2
  <2>3. CASE ~b[x].client
    <3>1. Meets(x)
      BY <1>4, <2>1, <2>3
    <3>2. PICK y \in Places : Met(b, c, x, y)
      BY <3>1 DEF Meets
    <3>3. b[y].client = ~b[x].client /\ b[y].key = b[x].key
      BY <2>1, <3>2, MetFacts
    <3>4. b[y].client
      BY <2>3, <3>3
    <3> QED
      BY <1>9, <2>1, <3>3, <3>4
  <2> QED
    BY <2>2, <2>3
<1>11. ASSUME NEW r \in 1 .. len2
       PROVE  \E x \in Marked : opairs[x].key = input["client"][r]
  <2>1. PICK x \in Places : b[x] = TheFed[len1 + r]
    BY <1>7 DEF IsMerged
  <2>2. b[x].client = TRUE /\ b[x].key = input["client"][r]
    BY <1>7, <2>1
  <2>3. CASE ~sh /\ Meets(x)
    <3>1. PICK y \in Places : Met(b, c, x, y)
      BY <2>3 DEF Meets
    <3>2. x # y /\ b[y].key = b[x].key /\ b[y].client = ~b[x].client
      BY <3>1, MetFacts
    <3>3. Meets(y)
      BY <1>5, <2>3, <3>2
    <3>4. opairs[y].client = TRUE
      BY <1>3, <1>4, <2>2, <2>3, <3>2, <3>3
    <3> QED
      BY <1>1, <1>3, <2>2, <3>2, <3>4
  <2>4. CASE ~(~sh /\ Meets(x))
    <3>1. opairs[x].client = TRUE
      BY <1>4, <2>2, <2>4
    <3> QED
      BY <1>1, <1>3, <2>2, <3>1
  <2> QED
    BY <2>3, <2>4
<1> QED
  BY <1>2, <1>6, <1>10, <1>11

-----------------------------------------------------------------------------
(* Whatever the keys are: where the pair is of each key the client fed.    *)
LEMMA OwnedFed ==
  ASSUME TheyAreIn, NEW f \in Orders(Places), NEW b, b = [x \in Places |-> TheFed[f[x]]]
  PROVE  b \in [Places -> Opairs] /\ \E g \in [1 .. len2 -> Places] : IsOwned(g, b)
<1> DEFINE c == input["client"]
           n == len1 + len2
           g == [m \in 1 .. len2 |-> CHOOSE x \in Places : f[x] = len1 + m]
<1>1. len1 \in Nat /\ len2 \in Nat /\ TheFed \in [Places -> Opairs]
  BY FedTypes
<1>2. n \in Nat /\ Places = 1 .. n
  BY <1>1 DEF Places
<1>3. /\ f \in [Places -> Places]
      /\ \A x, y \in Places : f[x] = f[y] => x = y
      /\ \A a \in Places : \E x \in Places : f[x] = a
  <2> HIDE DEF n
  <2> QED
    BY <1>2, OrdersUpTo
<1>4. \A r \in 1 .. len2 :
        len1 + r \in Places /\ TheFed[len1 + r].key = c[r] /\ TheFed[len1 + r].client = TRUE
  <2> TAKE r \in 1 .. len2
  <2> DEFINE v == ClientValue(Job("client"), r)
  <2>1. len1 + r \in Places /\ TheFed[len1 + r] = [key |-> c[r], value |-> v, client |-> TRUE]
    BY FedTypes
  <2> HIDE DEF v, c
  <2> QED
    BY <2>1
<1>5. \A x \in 1 .. len1 : TheFed[x].client = FALSE
  <2> TAKE x \in 1 .. len1
  <2>1. TheFed[x] = [key |-> input["server"][x][1], value |-> input["server"][x][2],
                     client |-> FALSE]
    BY FedTypes
  <2> QED
    BY <2>1
<1>6. \A a \in Places : (a \in 1 .. len1) \/ \E r \in 1 .. len2 : a = len1 + r
  BY FedTypes
<1>7. \A m \in 1 .. len2 : g[m] \in Places /\ f[g[m]] = len1 + m
  BY <1>3, <1>4
<1>8. g \in [1 .. len2 -> Places]
  BY <1>7
<1> HIDE DEF g, c, n
<1>9. b \in [Places -> Opairs] /\ \A x \in Places : b[x] = TheFed[f[x]]
  BY <1>1, <1>3
<1>10. \A m, q \in 1 .. len2 : g[m] = g[q] => m = q
  <2> TAKE m, q \in 1 .. len2
  <2>1. g[m] = g[q] => len1 + m = len1 + q
    BY <1>7
  <2> QED
    BY <1>1, <2>1
<1>11. \A m \in 1 .. len2 : b[g[m]].client /\ b[g[m]].key = c[m]
  BY <1>4, <1>7, <1>9
<1>12. ASSUME NEW x \in Places, b[x].client PROVE \E m \in 1 .. len2 : g[m] = x
  <2>1. f[x] \in Places /\ TheFed[f[x]].client
    BY <1>3, <1>9, <1>12
  <2>2. PICK r \in 1 .. len2 : f[x] = len1 + r
    BY <1>5, <1>6, <2>1
  <2> QED
    BY <1>3, <1>7, <2>2
<1>13. IsOwned(g, b)
  BY <1>10, <1>11, <1>12 DEF IsOwned, c
<1> QED
  BY <1>8, <1>9, <1>13

LEMMA OwnerChanged ==
  ASSUME NEW o \in Opairs, NEW p \in Opairs, NEW shared \in BOOLEAN
  PROVE  /\ Changed(o, p, shared).key = o.key
         /\ Changed(o, p, shared).client = (IF shared THEN o.client ELSE p.client)
<1> DEFINE q == Changed(o, p, shared)
<1>1. /\ q.key = o.key
      /\ shared => q.client = o.client
      /\ ~shared => q.client = p.client
  BY ChangedFacts
<1> HIDE DEF q
<1>2. q.client = (IF shared THEN o.client ELSE p.client)
  BY <1>1
<1> QED
  BY <1>1, <1>2 DEF q

(* A turn of the loop: of two pairs of one key either none or both change  *)
(* hands, so that the marked pairs are those they were or have swapped.    *)
LEMMA OwnedMoved ==
  ASSUME len2 \in Nat, NEW o \in [Places -> Opairs],
         NEW x \in Places, NEW y \in Places, x # y, o[x].key = o[y].key,
         NEW shared \in BOOLEAN, NEW g \in [1 .. len2 -> Places], IsOwned(g, o)
  PROVE  LET p == [o EXCEPT ![x] = Changed(o[x], o[y], shared),
                            ![y] = Changed(o[y], o[x], shared)]
         IN  \E h \in [1 .. len2 -> Places] : IsOwned(h, p)
<1> DEFINE a == Changed(o[x], o[y], shared)
           b == Changed(o[y], o[x], shared)
           p == [o EXCEPT ![x] = a, ![y] = b]
           swap(z) == IF shared THEN z ELSE IF z = x THEN y ELSE IF z = y THEN x ELSE z
           h == [m \in 1 .. len2 |-> swap(g[m])]
<1>10. /\ \A m, q \in 1 .. len2 : g[m] = g[q] => m = q
       /\ \A m \in 1 .. len2 : o[g[m]].client /\ o[g[m]].key = input["client"][m]
       /\ \A z \in Places : o[z].client => \E m \in 1 .. len2 : g[m] = z
  BY DEF IsOwned
<1>1. o[x] \in Opairs /\ o[y] \in Opairs
  OBVIOUS
<1>2. /\ a.key = o[x].key /\ b.key = o[y].key
      /\ a.client = (IF shared THEN o[x].client ELSE o[y].client)
      /\ b.client = (IF shared THEN o[y].client ELSE o[x].client)
  BY <1>1, OwnerChanged
<1> HIDE DEF a, b
<1>3. /\ p[x] = a /\ p[y] = b /\ \A z \in Places : z # x /\ z # y => p[z] = o[z]
  OBVIOUS
<1> HIDE DEF p
<1>4. \A z \in Places : /\ swap(z) \in Places /\ swap(swap(z)) = z
                        /\ p[swap(z)].client = o[z].client /\ p[swap(z)].key = o[z].key
  <2> TAKE z \in Places
  <2>1. CASE shared
    BY <1>2, <1>3, <2>1
  <2>2. CASE ~shared
    BY <1>2, <1>3, <2>2
  <2> QED
    BY <2>1, <2>2
<1> HIDE DEF swap
<1>5. \A m \in 1 .. len2 : g[m] \in Places /\ h[m] = swap(g[m])
  OBVIOUS
<1>6. h \in [1 .. len2 -> Places]
  BY <1>4, <1>5
<1> HIDE DEF h
<1>7. \A m, q \in 1 .. len2 : h[m] = h[q] => m = q
  <2> TAKE m, q \in 1 .. len2
  <2>1. swap(h[m]) = g[m] /\ swap(h[q]) = g[q]
    BY <1>4, <1>5
  <2> QED
    BY <1>10, <2>1
<1>8. \A m \in 1 .. len2 : p[h[m]].client /\ p[h[m]].key = input["client"][m]
  BY <1>4, <1>5, <1>10
<1>9. ASSUME NEW z \in Places, p[z].client PROVE \E m \in 1 .. len2 : h[m] = z
  <2>1. swap(z) \in Places /\ swap(swap(z)) = z /\ o[swap(z)].client
    <3>1. swap(z) \in Places /\ swap(swap(z)) = z
      BY <1>4
    <3>2. p[swap(swap(z))].client = o[swap(z)].client
      BY <1>4, <3>1
    <3> QED
      BY <1>9, <3>1, <3>2
  <2>2. PICK m \in 1 .. len2 : g[m] = swap(z)
    BY <1>10, <2>1
  <2> QED
    BY <1>5, <2>1, <2>2
<1>11. IsOwned(h, p)
  BY <1>7, <1>8, <1>9 DEF IsOwned
<1> QED
  BY <1>6, <1>11 DEF p, a, b

(* So there are as many marked pairs as there are keys.                    *)
LEMMA PairsKept ==
  ASSUME len1 \in Nat, len2 \in Nat, DOMAIN opairs = Places,
         NEW g \in [1 .. len2 -> Places], IsOwned(g, opairs)
  PROVE  /\ IsFiniteSet(Marked) /\ Cardinality(Marked) = len2
         /\ {opairs[x].key : x \in Marked} = {input["client"][n] : n \in 1 .. len2}
<1>1. /\ \A m, n \in 1 .. len2 : g[m] = g[n] => m = n
      /\ \A n \in 1 .. len2 : g[n] \in Marked /\ opairs[g[n]].key = input["client"][n]
      /\ \A x \in Marked : \E n \in 1 .. len2 : g[n] = x
  BY DEF IsOwned, Marked
<1>2. g \in [1 .. len2 -> Marked]
  BY <1>1
<1>3. ExistsBijection(1 .. len2, Marked)
  BY <1>1, <1>2 DEF ExistsBijection, Bijection, Injection, IsInjective, Surjection
<1>4. IsFiniteSet(Marked)
  <2>1. IsFiniteSet(Places)
    BY FS_Interval DEF Places
  <2>2. Marked \in SUBSET Places
    BY DEF Marked
  <2> QED
    BY <2>1, <2>2, FS_Subset
<1>5. Cardinality(Marked) = len2
  BY <1>3, FS_CountingElements
<1>6. {opairs[x].key : x \in Marked} = {input["client"][n] : n \in 1 .. len2}
  BY <1>1
<1> QED
  BY <1>4, <1>5, <1>6

-----------------------------------------------------------------------------
(* The answers to the job as the circuit takes it.                         *)
LEMMA RankJobIs ==
  ASSUME NEW j \in Jobs
  PROVE  LET K == RankJob(j)
         IN  /\ K.pairs = j.pairs /\ K.keys = j.keys /\ K.shared = j.shared
             /\ K.defaults = [m \in DOMAIN j.keys |-> j.defaults[RankOf(j.keys, m)]]
<1> DEFINE K == RankJob(j)
           D == [m \in DOMAIN j.keys |-> j.defaults[RankOf(j.keys, m)]]
<1>1. j \in JobType
  BY JobsAssumption
<1>2. K = [j EXCEPT !.defaults = D]
  BY DEF RankJob
<1> HIDE DEF D, K
<1>3. K.pairs = j.pairs /\ K.keys = j.keys /\ K.shared = j.shared /\ K.defaults = D
  BY <1>1, <1>2 DEF JobType
<1> QED
  BY <1>3 DEF D, K

LEMMA AnswerIs ==
  ASSUME NEW j \in Jobs, Proper(j), NEW m \in DOMAIN j.keys
  PROVE  LET k == j.keys[m]
             d == j.defaults[RankOf(j.keys, m)]
             v == ValueOf(j, k)
         IN  /\ d \in T
             /\ Answer(RankJob(j))[m]
                  = IF Has(j, k) THEN (IF j.shared THEN Minus(v, d) ELSE v)
                                 ELSE (IF j.shared THEN Minus(Zero, d) ELSE d)
<1> DEFINE K == RankJob(j)
           k == j.keys[m]
           d == j.defaults[RankOf(j.keys, m)]
           v == ValueOf(j, k)
<1>1. K.pairs = j.pairs /\ K.keys = j.keys /\ K.shared = j.shared /\ K.defaults[m] = d
  BY RankJobIs
<1>2. d \in T
  <2>1. /\ DOMAIN j.keys = 1 .. Len(j.keys) /\ Len(j.keys) \in Nat
        /\ RankOf(j.keys, m) \in 1 .. Len(j.keys)
    BY SortedKeysFacts
  <2>2. j.defaults \in Seq(T) /\ Len(j.keys) <= Len(j.defaults)
    BY JobsAssumption DEF JobType
  <2> DEFINE e == j.defaults
             rr == RankOf(j.keys, m)
             L == Len(j.keys)
  <2>3. e \in [1 .. Len(e) -> T] /\ Len(e) \in Nat
    BY <2>2, LenProperties
  <2>4. rr \in 1 .. L /\ L <= Len(e) /\ L \in Nat
    BY <2>1, <2>2
  <2> HIDE DEF e, rr, L
  <2>5. rr \in 1 .. Len(e)
    BY <2>3, <2>4
  <2>6. e[rr] \in T
    BY <2>3, <2>5
  <2> QED
    BY <2>6 DEF e, rr
<1> HIDE DEF K, d
<1>3. (Has(K, k) <=> Has(j, k)) /\ ValueOf(K, k) = v
  BY <1>1 DEF Has, ValueOf
<1>4. Answer(K)[m] = IF j.shared THEN Minus(Lookup(K, m), d) ELSE Lookup(K, m)
  BY <1>1 DEF Answer
<1> HIDE DEF v
<1>5. Lookup(K, m) = IF Has(j, k) THEN v ELSE IF j.shared THEN Zero ELSE d
  BY <1>1, <1>3 DEF Lookup
<1> QED
  BY <1>2, <1>4, <1>5 DEF K, d, v

(* A value that is moved to a key is the value the server has for it.      *)
LEMMA ValueFacts ==
  ASSUME NEW j \in Jobs, NEW p \in DOMAIN j.pairs
  PROVE  /\ j.pairs[p][1] \in Nat /\ j.pairs[p][2] \in T /\ Has(j, j.pairs[p][1])
         /\ ValueOf(j, j.pairs[p][1]) = j.pairs[p][2]
<1>1. j.pairs \in Seq(Nat \X T)
  BY JobsAssumption DEF JobType
<1>2. j.pairs[p] \in Nat \X T
  BY <1>1, LenProperties, ElementOfSeq
<1>3. Has(j, j.pairs[p][1])
  BY DEF Has
<1> DEFINE q == CHOOSE q \in DOMAIN j.pairs : j.pairs[q][1] = j.pairs[p][1]
<1>4. q \in DOMAIN j.pairs /\ j.pairs[q][1] = j.pairs[p][1]
  OBVIOUS
<1> HIDE DEF q
<1>5. q = p
  BY <1>4, JobsAssumption
<1> QED
  BY <1>2, <1>3, <1>5 DEF ValueOf, q

LEMMA NegatedSum == ASSUME NEW d \in T, NEW w \in T PROVE Plus(Neg(d), w) = Minus(w, d)
<1> DEFINE a == Neg(d)
<1>1. a \in T /\ Plus(a, d) = Zero /\ Plus(a, w) \in T
  BY RingClosed, RingGroup DEF Neg
<1> HIDE DEF a
<1>2. Plus(Plus(a, w), d) = w
  <2>1. Plus(a, w) = Plus(w, a) /\ Plus(Plus(w, a), d) = Plus(w, Plus(a, d))
    BY <1>1, RingGroup
  <2> QED
    BY <1>1, <2>1, RingGroup
<1>3. Minus(Plus(Plus(a, w), d), d) = Plus(a, w)
  BY <1>1, RingGroup
<1> QED
  BY <1>2, <1>3 DEF a

(* After the loop a pair has met the other of its key, if there is one.    *)
LEMMA AllMet ==
  ASSUME NEW b \in [Places -> Opairs], IsMerged(b), len1 \in Nat, len2 \in Nat,
         NEW c \in Nat, c >= len1 + len2,
         NEW x \in Places, NEW y \in Places, x # y, b[x].key = b[y].key
  PROVE  Met(b, c, x, y)
<1>1. x \in Nat /\ y \in Nat /\ x <= len1 + len2 /\ y <= len1 + len2
  BY DEF Places
<1>2. CASE x < y
  <2>1. y = x + 1
    BY <1>2, Neighbours
  <2> QED
    BY <1>1, <2>1 DEF Met
<1>3. CASE y < x
  <2>1. x = y + 1
    BY <1>3, Neighbours
  <2> QED
    BY <1>1, <2>1 DEF Met
<1> QED
  BY <1>1, <1>2, <1>3

(* Then the client's pair of a key has the value that is promised for it.  *)
LEMMA RevealedValue ==
  ASSUME BothIn, NEW c \in Nat, c >= len1 + len2,
         NEW b \in [Places -> Opairs], IsMerged(b), Through(b, c), DOMAIN opairs = Places,
         NEW m \in DOMAIN Job("client").keys
  PROVE  LET j == Job("client")
         IN  \E x \in Marked : /\ opairs[x].key = j.keys[m]
                               /\ opairs[x].value = Answer(RankJob(j))[m]
<1> DEFINE j == Job("client")
           k == j.keys[m]
           r == RankOf(j.keys, m)
           d == j.defaults[r]
           a == Answer(RankJob(j))[m]
           s == input["server"]
           w == ValueOf(j, k)
           u == ClientValue(j, r)
<1>1. j \in Jobs /\ Proper(j) /\ Job("server") = j /\ j.shared \in BOOLEAN
  BY SameJob, SharedIsBoolean DEF BothIn, TheyAreIn
<1>2. s = SortedPairs(j.pairs) /\ input["client"] = InOrder(j.keys)
  BY <1>1 DEF BothIn, TheyAreIn, Sorted
<1>3. /\ len1 \in Nat /\ len2 \in Nat /\ len1 = Len(j.pairs) /\ len2 = Len(j.keys)
      /\ TheFed \in [Places -> Opairs]
  BY FedFacts
<1>4. r \in 1 .. len2 /\ input["client"][r] = k
  <2>1. m \in DOMAIN j.keys
    OBVIOUS
  <2> HIDE DEF j
  <2>2. /\ DOMAIN j.keys = 1 .. len2
        /\ \A n \in 1 .. len2 : /\ RankOf(j.keys, n) \in 1 .. len2
                                /\ InOrder(j.keys)[RankOf(j.keys, n)] = j.keys[n]
    BY <1>1, <1>3, SortedKeysFacts
  <2> QED
    BY <1>2, <2>1, <2>2
<1>5. len1 + r \in Places /\ TheFed[len1 + r] = [key |-> k, value |-> u, client |-> TRUE]
  <2>1. TheFed[len1 + r] = [key |-> input["client"][r], value |-> u, client |-> TRUE]
    BY <1>4, FedFacts
  <2>2. len1 + r \in Places
    BY <1>4, FedFacts
  <2> QED
    BY <1>4, <2>1, <2>2
<1>6. /\ d \in T
      /\ a = IF Has(j, k) THEN (IF j.shared THEN Minus(w, d) ELSE w)
                          ELSE (IF j.shared THEN Minus(Zero, d) ELSE d)
  BY <1>1, AnswerIs
<1>7. u = IF j.shared THEN Neg(d) ELSE d
  BY DEF ClientValue
<1>8. \A x \in Places : x \in Marked <=> opairs[x].client
  BY DEF Marked
<1> HIDE DEF a, d, u, k, r, s, w
<1>9. PICK x \in Places : b[x] = TheFed[len1 + r]
  BY <1>5 DEF IsMerged
<1>10. b[x].key = k /\ b[x].value = u /\ b[x].client = TRUE
  BY <1>5, <1>9
<1>11. CASE Has(j, k)
  <2>1. PICK p \in DOMAIN j.pairs : j.pairs[p][1] = k
    BY <1>11 DEF Has
  <2>2. w = j.pairs[p][2] /\ w \in T
    BY <1>1, <2>1, ValueFacts DEF w
  <2>3. PICK q \in 1 .. len1 : s[q] = j.pairs[p]
    <3> HIDE DEF j
    <3> QED
      BY <1>1, <1>2, <1>3, <2>1, SortedPairsFacts
  <2>4. q \in Places /\ TheFed[q] = [key |-> k, value |-> w, client |-> FALSE]
    <3>1. q \in Places /\ TheFed[q] = [key |-> s[q][1], value |-> s[q][2], client |-> FALSE]
      BY FedFacts DEF s
    <3> QED
      BY <2>1, <2>2, <2>3, <3>1
  <2>5. PICK y \in Places : b[y] = TheFed[q]
    BY <2>4 DEF IsMerged
  <2>6. b[y].key = k /\ b[y].value = w /\ b[y].client = FALSE
    BY <2>4, <2>5
  <2>7. Met(b, c, x, y) /\ Met(b, c, y, x)
    <3>1. x # y /\ b[x].key = b[y].key
      BY <1>10, <2>6
    <3> QED
      BY <1>3, <3>1, AllMet
  <2>8. CASE j.shared
    <3>1. opairs[x].key = k /\ opairs[x].client = TRUE /\ opairs[x].value = Plus(u, w)
      BY <1>10, <2>6, <2>7, <2>8, ThroughFacts
    <3>2. a = Plus(u, w)
      BY <1>6, <1>7, <1>11, <2>2, <2>8, NegatedSum
    <3> QED
      BY <1>8, <3>1, <3>2 DEF a, k
  <2>9. CASE ~j.shared
    <3>1. opairs[y].key = k /\ opairs[y].client = ~b[y].client /\ opairs[y].value = w
      BY <1>10, <2>6, <2>7, <2>9, ThroughFacts
    <3>2. opairs[y].client = TRUE
      BY <2>6, <3>1
    <3>3. a = w
      BY <1>6, <1>11, <2>9
    <3> QED
      BY <1>8, <3>1, <3>2, <3>3 DEF a, k
  <2> QED
    BY <1>1, <2>8, <2>9
<1>12. CASE ~Has(j, k)
  <2>1. ASSUME NEW y \in Places, Met(b, c, x, y) PROVE FALSE
    <3>1. b[y].key = k /\ b[y].client = ~b[x].client
      BY <1>10, <2>1, MetFacts
    <3>2. b[y].client = FALSE
      BY <1>10, <3>1
    <3>3. PICK e \in Places : b[y] = TheFed[e]
      BY DEF IsMerged
    <3>4. ASSUME NEW t \in 1 .. len2, e = len1 + t PROVE FALSE
      <4> DEFINE v == ClientValue(j, t)
                 z == input["client"][t]
      <4>1. TheFed[e] = [key |-> z, value |-> v, client |-> TRUE]
        BY <3>4, FedFacts
      <4> HIDE DEF v, z
      <4> QED
        BY <3>2, <3>3, <4>1
    <3>5. e \in 1 .. len1
      BY <3>4, FedFacts
    <3>6. TheFed[e] = [key |-> s[e][1], value |-> s[e][2], client |-> FALSE]
      BY <3>5, FedFacts DEF s
    <3>7. s[e][1] = k
      BY <3>1, <3>3, <3>6
    <3>8. PICK p \in DOMAIN j.pairs : s[e] = j.pairs[p]
      <4> HIDE DEF j
      <4>1. /\ DOMAIN j.pairs = 1 .. len1
            /\ \A x0 \in 1 .. len1 : \E m0 \in 1 .. len1 : SortedPairs(j.pairs)[x0] = j.pairs[m0]
        BY <1>1, <1>3, SortedPairsFacts
      <4> QED
        BY <1>2, <3>5, <4>1
    <3> QED
      BY <1>12, <3>7, <3>8 DEF Has
  <2>2. opairs[x] = b[x]
    BY <2>1, ThroughFacts
  <2>3. a = u
    BY <1>6, <1>7, <1>12 DEF Neg
  <2> QED
    BY <1>8, <1>10, <2>2, <2>3 DEF a, k
<1> QED
  BY <1>11, <1>12

-----------------------------------------------------------------------------
LEMMA InitInv == Init => IInv
<1> SUFFICES ASSUME Init PROVE IInv
  OBVIOUS
<1>1. TypeOK
  <2>1. run \in [Parties -> 0 .. NumRuns]
    BY JobsAssumption DEF Init
  <2>2. /\ input["server"] \in Seq(Nat \X T) /\ input["client"] \in Seq(Int)
        /\ opairs \in Seq(Opairs) /\ result \in Seq(Opairs) /\ out \in Seq(Seq(T))
    BY DEF Init, Parties
  <2> QED
    BY <2>1, <2>2 DEF Init, TypeOK, Parties
<1>2. InStep
  BY DEF Init, InStep, Merged, Parties
<1>3. Sorted /\ Compared /\ Replied
  BY DEF Init, Sorted, Compared, Replied, Parties
<1>4. Answered
  <2>1. out = <<>> /\ Returned("client") = 0
    BY DEF Init, Returned, Parties
  <2>2. Len(out) = 0 /\ DOMAIN out = {}
    BY <2>1
  <2> QED
    BY <2>1, <2>2 DEF Answered
<1> QED
  BY <1>1, <1>2, <1>3, <1>4 DEF IInv

Phases == {"idle", "yao", "reply"}

(* Where the parties are.                                                  *)
LEMMA RunFacts ==
  ASSUME IInv
  PROVE  /\ run \in [Parties -> 0 .. NumRuns] /\ pc \in [Parties -> Phases]
         /\ "server" \in Parties /\ "client" \in Parties /\ "server" # "client"
         /\ run["server"] \in Nat /\ run["client"] \in Nat
         /\ pc["server"] \in {"idle", "yao"}
         /\ pc["client"] = "reply" => run["client"] <= run["server"]
         /\ \A p \in Parties : pc[p] # "idle" => run[p] \in 1 .. NumRuns /\ Job(p) \in Jobs
<1>1. /\ run \in [Parties -> 0 .. NumRuns] /\ pc \in [Parties -> Phases]
      /\ "server" \in Parties /\ "client" \in Parties
      /\ pc["server"] \in {"idle", "yao"}
  BY DEF IInv, TypeOK, Parties, Phases
<1>2. \A p \in Parties : run[p] \in Nat /\ run[p] <= NumRuns /\ NumRuns \in Nat
  BY <1>1, JobsAssumption
<1>3. ASSUME pc["client"] = "reply" PROVE run["client"] <= run["server"]
  <2>1. Merged("client") = run["client"] /\ Merged("server") = Merged("client")
    BY <1>3 DEF IInv, InStep, Merged
  <2> QED
    BY <1>1, <1>2, <2>1 DEF Merged
<1>4. ASSUME NEW p \in Parties, pc[p] # "idle" PROVE run[p] \in 1 .. NumRuns /\ Job(p) \in Jobs
  <2>1. run[p] \in 1 .. NumRuns
    BY <1>2, <1>4 DEF IInv, InStep
  <2> QED
    BY <2>1 DEF IInv, TypeOK, Job
<1> QED
  BY <1>1, <1>2, <1>3, <1>4

LEMMA ServerCallStep == IInv /\ ServerCall => IInv'
<1> SUFFICES ASSUME IInv, ServerCall PROVE IInv'
  OBVIOUS
<1> DEFINE next == job[run["server"] + 1]
<1>1. /\ pc["server"] = "idle" /\ run["server"] < NumRuns
      /\ run' = [run EXCEPT !["server"] = @ + 1]
      /\ input' = [input EXCEPT !["server"] = SortedPairs(next.pairs)]
      /\ pc' = [pc EXCEPT !["server"] = "yao"]
      /\ UNCHANGED <<job, circuit, opairs, i, result, out>>
  BY DEF ServerCall
<1>2. run["server"] + 1 \in 1 .. NumRuns /\ next \in Jobs
  BY <1>1, RunFacts, JobsAssumption DEF IInv, TypeOK
<1>3. SortedPairs(next.pairs) \in Seq(Nat \X T)
  <2> HIDE DEF next
  <2> QED
    BY <1>2, SortedPairsFacts
<1> HIDE DEF next
<1>4. /\ pc'["server"] = "yao" /\ pc'["client"] = pc["client"] /\ pc' \in [Parties -> Phases]
      /\ run'["server"] = run["server"] + 1 /\ run'["client"] = run["client"]
      /\ run' \in [Parties -> 0 .. NumRuns]
      /\ input'["server"] = SortedPairs(next.pairs) /\ input'["client"] = input["client"]
      /\ DOMAIN input' = Parties
  BY <1>1, <1>2, RunFacts DEF Phases, IInv, TypeOK
<1>5. circuit = "off"
  BY <1>1 DEF IInv, InStep, TypeOK
<1>6. TypeOK'
  BY <1>1, <1>3, <1>4 DEF IInv, TypeOK, Phases
<1>7. InStep'
  BY <1>1, <1>4, <1>5, RunFacts DEF IInv, InStep, Merged, Parties
<1>8. Sorted'
  <2>1. Job("server")' = next /\ Job("client")' = Job("client")
    BY <1>1, <1>4 DEF Job, next
  <2> QED
    BY <1>4, <2>1 DEF IInv, Sorted
<1>9. Compared' /\ Replied'
  BY <1>1, <1>4, <1>5 DEF IInv, Compared, Replied, Job
<1>10. Answered'
  BY <1>1, <1>4 DEF IInv, Answered, Returned
<1> QED
  BY <1>6, <1>7, <1>8, <1>9, <1>10 DEF IInv

LEMMA ClientCallStep == IInv /\ ClientCall => IInv'
<1> SUFFICES ASSUME IInv, ClientCall PROVE IInv'
  OBVIOUS
<1> DEFINE next == job[run["client"] + 1]
<1>1. /\ pc["client"] = "idle" /\ run["client"] < NumRuns
      /\ run' = [run EXCEPT !["client"] = @ + 1]
      /\ \E beyond \in [DOMAIN next.keys -> KeysBeyond] :
           input' = [input EXCEPT !["client"] = SortedKeys(next.keys, beyond)]
      /\ pc' = [pc EXCEPT !["client"] = "yao"]
      /\ UNCHANGED <<job, circuit, opairs, i, result, out>>
  BY DEF ClientCall
<1>2. run["client"] + 1 \in 1 .. NumRuns /\ next \in Jobs
  BY <1>1, RunFacts, JobsAssumption DEF IInv, TypeOK
<1>10. PICK beyond \in [DOMAIN next.keys -> KeysBeyond] :
          input' = [input EXCEPT !["client"] = SortedKeys(next.keys, beyond)]
  BY <1>1
<1> DEFINE fed == SortedKeys(next.keys, beyond)
<1>3. /\ fed \in Seq(Int) /\ Len(fed) = Len(next.keys)
      /\ Proper(next) => fed = InOrder(next.keys)
  <2> HIDE DEF next
  <2> QED
    BY <1>2, SortedKeysType, SortedKeysIs
<1> HIDE DEF next, fed
<1>4. /\ pc'["client"] = "yao" /\ pc'["server"] = pc["server"] /\ pc' \in [Parties -> Phases]
      /\ run'["client"] = run["client"] + 1 /\ run'["server"] = run["server"]
      /\ run' \in [Parties -> 0 .. NumRuns]
      /\ input'["client"] = fed /\ input'["server"] = input["server"]
      /\ DOMAIN input' = Parties
  BY <1>1, <1>2, <1>10, RunFacts DEF Phases, IInv, TypeOK, fed
<1>5. circuit = "off"
  BY <1>1 DEF IInv, InStep, TypeOK
<1>6. TypeOK'
  BY <1>1, <1>3, <1>4, RunFacts DEF IInv, TypeOK, Phases
<1>7. InStep'
  BY <1>1, <1>4, <1>5, RunFacts DEF IInv, InStep, Merged, Parties
<1>8. Sorted'
  <2>1. Job("client")' = next /\ Job("server")' = Job("server")
    BY <1>1, <1>4 DEF Job, next
  <2> QED
    BY <1>3, <1>4, <2>1 DEF IInv, Sorted
<1>9. Compared' /\ Replied'
  BY <1>1, <1>4, <1>5 DEF IInv, Compared, Replied, Job
<1>11. Answered'
  <2>1. Returned("client")' = Returned("client")
    BY <1>1, <1>4, RunFacts DEF Returned
  <2> QED
    BY <1>1, <2>1 DEF IInv, Answered
<1> QED
  BY <1>6, <1>7, <1>8, <1>9, <1>11 DEF IInv

(* What the loop does not change.                                          *)
LEMMA StillMerged ==
  ASSUME UNCHANGED <<job, run, input>>
  PROVE  /\ Places' = Places /\ TheFed' = TheFed /\ len1' = len1 /\ len2' = len2
         /\ Job("client")' = Job("client") /\ Job("server")' = Job("server")
<1>1. Job("client")' = Job("client") /\ Job("server")' = Job("server")
  BY DEF Job
<1>2. len1' = len1 /\ len2' = len2 /\ Places' = Places
  BY DEF len1, len2, Places
<1>3. TheFed' = TheFed
  BY <1>1, <1>2 DEF TheFed, Fed
<1> QED
  BY <1>1, <1>2, <1>3

LEMMA MergeInv == IInv /\ Merge => IInv'
<1> SUFFICES ASSUME IInv, Merge PROVE IInv'
  OBVIOUS
<1>1. /\ pc["server"] = "yao" /\ pc["client"] = "yao" /\ i' = 1 /\ circuit' = "compare"
      /\ UNCHANGED <<job, pc, run, input, result, out>>
  BY DEF Merge, Parties
<1>2. TheyAreIn
  BY <1>1 DEF IInv, TheyAreIn
<1>3. PICK f \in Orders(Places) :
        /\ AscendingIn(TheFed, 1, len1) /\ AscendingIn(TheFed, len1 + 1, len1 + len2)
             => AscendingIn([x \in Places |-> TheFed[f[x]]], 1, len1 + len2)
        /\ opairs' = [x \in Places |-> TheFed[f[x]]]
  BY DEF Merge, TheFed, Places
<1>4. PICK b : b = [x \in Places |-> TheFed[f[x]]]
  OBVIOUS
<1>5. /\ b \in [Places -> Opairs] /\ opairs' = b
      /\ \E g \in [1 .. len2 -> Places] : IsOwned(g, b)
  BY <1>2, <1>3, <1>4, OwnedFed
<1>6. len1 \in Nat /\ len2 \in Nat
  BY <1>2, FedTypes
<1>7. opairs' \in Seq(Opairs)
  BY <1>5, <1>6, SeqDef DEF Places
<1>8. TypeOK'
  BY <1>1, <1>7 DEF IInv, TypeOK
<1>9. InStep' /\ Sorted' /\ Replied' /\ Answered'
  BY <1>1 DEF IInv, InStep, Merged, Sorted, Replied, Answered, Returned, Job
<1>10. Compared'
  <2>1. Places' = Places /\ TheFed' = TheFed /\ len2' = len2 /\ Job("client")' = Job("client")
    BY <1>1, StillMerged
  <2>2. ASSUME Proper(Job("client")) PROVE IsMerged(b)' /\ Through(b, i)'
    <3>1. IsMerged(b)
      BY <1>2, <1>3, <1>4, <2>2, MergeStep DEF BothIn
    <3>2. IsMerged(b)'
      BY <2>1, <3>1 DEF IsMerged
    <3>3. \A x, y \in Places : ~Met(b, 1, x, y)
      BY <1>6 DEF Met, Places
    <3>4. Through(b, i)'
      BY <1>1, <1>5, <2>1, <3>3 DEF Through
    <3> QED
      BY <3>2, <3>4
  <2>3. i' \in Nat \ {0} /\ DOMAIN opairs' = Places /\ b \in [Places' -> Opairs]
    BY <1>1, <1>5, <2>1
  <2>4. PICK g \in [1 .. len2 -> Places] : IsOwned(g, b)
    BY <1>5
  <2>5. IsOwned(g, opairs)'
    BY <1>1, <1>5, <2>1, <2>4 DEF IsOwned
  <2>6. Proper(Job("client"))' = Proper(Job("client"))
    BY <2>1
  <2> QED
    BY <2>1, <2>2, <2>3, <2>5, <2>6 DEF Compared
<1> QED
  BY <1>8, <1>9, <1>10 DEF IInv

LEMMA CompareStep == IInv /\ Compare => IInv'
<1> SUFFICES ASSUME IInv, Compare PROVE IInv'
  OBVIOUS
<1> DEFINE sh == Job("client").shared
           x == opairs[i]
           y == opairs[i + 1]
           moved == Moved(x, y, sh)
<1>1. /\ circuit = "compare" /\ i < len1 + len2 /\ i' = i + 1
      /\ opairs' = IF x.key = y.key
                     THEN [opairs EXCEPT ![i] = moved[1], ![i + 1] = moved[2]] ELSE opairs
      /\ UNCHANGED <<job, pc, run, input, circuit, result, out>>
  BY DEF Compare
<1>2. TheyAreIn
  BY <1>1 DEF IInv, InStep, TheyAreIn
<1>3. i \in Nat \ {0} /\ DOMAIN opairs = Places
  BY <1>1 DEF IInv, Compared
<1>4. PICK g \in [1 .. len2 -> Places] : IsOwned(g, opairs)
  BY <1>1 DEF IInv, Compared
<1>6. len1 \in Nat /\ len2 \in Nat /\ sh \in BOOLEAN
  <2>1. Job("client") \in Jobs
    BY <1>2, SameJob DEF TheyAreIn
  <2> QED
    BY <1>2, <2>1, FedTypes, JobsAssumption DEF JobType
<1>11. opairs \in [Places -> Opairs]
  BY <1>3, LenProperties DEF IInv, TypeOK
<1>12. i \in Places /\ i + 1 \in Places /\ i # i + 1
  BY <1>1, <1>3, <1>6 DEF Places
<1>13. x \in Opairs /\ y \in Opairs
  BY <1>11, <1>12
<1>14. moved[1] = Changed(x, y, sh) /\ moved[2] = Changed(y, x, sh)
  <2> HIDE DEF x, y, sh
  <2> QED
    BY <1>6, <1>13, MovedIs
<1>15. moved[1] \in Opairs /\ moved[2] \in Opairs
  <2> HIDE DEF x, y, sh, moved
  <2>1. Changed(x, y, sh) \in Opairs /\ Changed(y, x, sh) \in Opairs
    BY <1>6, <1>13, ChangedFacts
  <2> QED
    BY <1>14, <2>1
<1>7. opairs' \in Seq(Opairs) /\ DOMAIN opairs' = Places
  <2> HIDE DEF moved, x, y
  <2>1. opairs' \in [Places -> Opairs]
    BY <1>1, <1>11, <1>15
  <2> QED
    BY <1>6, <2>1, SeqDef DEF Places
<1>8. TypeOK'
  <2>1. i' \in Nat
    BY <1>1, <1>3
  <2> QED
    BY <1>1, <1>7, <2>1 DEF IInv, TypeOK
<1>9. InStep' /\ Sorted' /\ Replied' /\ Answered'
  BY <1>1 DEF IInv, InStep, Merged, Sorted, Replied, Answered, Returned, Job
<1>16. \E h \in [1 .. len2 -> Places] : IsOwned(h, opairs')
  <2>1. CASE x.key # y.key
    BY <1>1, <1>4, <2>1
  <2>2. CASE x.key = y.key
    <3> DEFINE o == opairs
               a == i
               b == i + 1
               p == [o EXCEPT ![a] = Changed(o[a], o[b], sh), ![b] = Changed(o[b], o[a], sh)]
    <3>1. opairs' = p
      BY <1>1, <1>14, <2>2
    <3>2. o \in [Places -> Opairs] /\ a \in Places /\ b \in Places /\ a # b /\ o[a].key = o[b].key
      BY <1>11, <1>12, <2>2
    <3>3. IsOwned(g, o)
      BY <1>4
    <3> HIDE DEF sh, o, a, b
    <3>4. \E h \in [1 .. len2 -> Places] : IsOwned(h, p)
      BY <1>6, <3>2, <3>3, OwnedMoved
    <3> HIDE DEF p
    <3> QED
      BY <3>1, <3>4
  <2> QED
    BY <2>1, <2>2
<1>10. Compared'
  <2>1. /\ Places' = Places /\ TheFed' = TheFed /\ len2' = len2
        /\ Job("client")' = Job("client")
    BY <1>1, StillMerged
  <2>2. ASSUME Proper(Job("client"))
        PROVE  \E b \in [Places -> Opairs] : IsMerged(b)' /\ Through(b, i)'
    <3>1. BothIn
      BY <1>2, <2>2 DEF BothIn
    <3>2. PICK b \in [Places -> Opairs] : IsMerged(b) /\ Through(b, i)
      BY <1>1, <2>2 DEF IInv, Compared
    <3>6. Compare
      OBVIOUS
    <3> HIDE DEF moved, x, y
    <3>3. /\ DOMAIN opairs' = Places
          /\ \A z \in Places :
               /\ (\A w \in Places : ~Met(b, i + 1, z, w)) => opairs'[z] = b[z]
               /\ \A w \in Places : Met(b, i + 1, z, w) =>
                    opairs'[z] = Changed(b[z], b[w], Job("client").shared)
      BY <1>3, <3>1, <3>2, <3>6, CompareThrough
    <3>4. IsMerged(b)'
      BY <2>1, <3>2 DEF IsMerged
    <3>5. Through(b, i)'
      BY <1>1, <2>1, <3>3 DEF Through
    <3> QED
      BY <3>2, <3>4, <3>5
  <2>3. i' \in Nat \ {0} /\ DOMAIN opairs' = Places
    BY <1>1, <1>3, <1>7
  <2>4. PICK h \in [1 .. len2 -> Places] : IsOwned(h, opairs')
    BY <1>16
  <2>5. IsOwned(h, opairs)'
    BY <1>1, <2>1, <2>4 DEF IsOwned
  <2>6. Proper(Job("client"))' = Proper(Job("client"))
    BY <2>1
  <2> QED
    BY <2>1, <2>2, <2>3, <2>5, <2>6 DEF Compared
<1> QED
  BY <1>8, <1>9, <1>10 DEF IInv

LEMMA ShuffleRevealStep == IInv /\ ShuffleReveal => IInv'
<1> SUFFICES ASSUME IInv, ShuffleReveal PROVE IInv'
  OBVIOUS
<1> DEFINE j == Job("client")
           R == RankJob(j)
<1>1. /\ circuit = "compare" /\ i >= len1 + len2 /\ circuit' = "off" /\ opairs' = <<>>
      /\ pc' = [server |-> "idle", client |-> "reply"]
      /\ UNCHANGED <<job, run, input, i, out>>
  BY DEF ShuffleReveal
<1>2. pc["server"] = "yao" /\ pc["client"] = "yao" /\ TheyAreIn
  BY <1>1 DEF IInv, InStep, TheyAreIn
<1>3. i \in Nat /\ DOMAIN opairs = Places
  BY <1>1 DEF IInv, Compared
<1>4. PICK g \in [1 .. len2 -> Places] : IsOwned(g, opairs)
  BY <1>1 DEF IInv, Compared
<1>5. PICK f \in Orders(Marked) : result' = [x \in DOMAIN f |-> opairs[f[x]]]
  BY DEF ShuffleReveal
<1> DEFINE n == Cardinality(Marked)
<1>6. IsFiniteSet(Marked)
  BY <1>2, <1>3, <1>4, FedTypes, PairsKept
<1>7. /\ n \in Nat /\ f \in [1 .. n -> Marked]
      /\ \A x, y \in 1 .. n : f[x] = f[y] => x = y
      /\ \A z \in Marked : \E x \in 1 .. n : f[x] = z
  BY <1>6, OrdersFacts
<1>8. \A x \in Marked : x \in Places
  BY <1>3 DEF Marked
<1>9. \A x \in Marked : opairs[x] \in Opairs
  <2>1. opairs \in [Places -> Opairs]
    BY <1>3, LenProperties DEF IInv, TypeOK
  <2> QED
    BY <1>8, <2>1
<1> HIDE DEF n
<1>10. result' = [x \in 1 .. n |-> opairs[f[x]]]
  BY <1>5, <1>7
<1>11. result' \in Seq(Opairs)
  <2>1. result' \in [1 .. n -> Opairs]
    BY <1>7, <1>9, <1>10
  <2> QED
    BY <1>7, <2>1, SeqDef
<1>12. pc' \in [Parties -> Phases] /\ pc'["server"] = "idle" /\ pc'["client"] = "reply"
  BY <1>1 DEF Parties, Phases
<1>13. TypeOK'
  BY <1>1, <1>11, <1>12 DEF IInv, TypeOK, Phases
<1>14. InStep'
  <2>1. \A p \in Parties : run'[p] >= 1
    BY <1>1, <1>2 DEF IInv, InStep, Parties
  <2>2. run["server"] = run["client"]
    BY <1>2, SameJob DEF TheyAreIn
  <2>3. Merged("server")' = Merged("client")'
    BY <1>1, <1>12, <2>2 DEF Merged
  <2> QED
    BY <1>1, <2>1, <2>3 DEF InStep
<1>15. Sorted' /\ Compared'
  BY <1>1, <1>12 DEF Sorted, Compared
<1>16. Replied'
  <2>1. j' = j
    BY <1>1 DEF Job
  <2>2. SUFFICES ASSUME Proper(j) PROVE Reveals(result', R)
    BY <2>1 DEF Replied
  <2>3. j \in Jobs /\ BothIn
    BY <1>2, <2>2, SameJob DEF TheyAreIn, BothIn
  <2>4. R.keys = j.keys
    BY <2>3, RankJobIs
  <2>5. PICK b \in [Places -> Opairs] : IsMerged(b) /\ Through(b, i)
    BY <1>1, <2>2 DEF IInv, Compared
  <2>6. /\ \A x, y \in Marked : opairs[x].key = opairs[y].key => x = y
        /\ \A x \in Marked : \E r \in 1 .. len2 : opairs[x].key = input["client"][r]
    BY <1>3, <2>3, <2>5, MarkedFacts
  <2>7. \A r \in 1 .. len2 : \E m \in DOMAIN j.keys : input["client"][r] = j.keys[m]
    <3>1. input["client"] = InOrder(j.keys) /\ len2 = Len(j.keys)
      BY <1>2, <2>2, FedTypes DEF TheyAreIn, Sorted
    <3> HIDE DEF j
    <3>2. /\ DOMAIN j.keys = 1 .. Len(j.keys)
          /\ \A x \in 1 .. Len(j.keys) : \E m \in 1 .. Len(j.keys) : InOrder(j.keys)[x] = j.keys[m]
      BY <2>2, <2>3, SortedKeysFacts
    <3> QED
      BY <3>1, <3>2
  <2>8. ASSUME NEW m \in DOMAIN j.keys
        PROVE  \E x \in DOMAIN result' : /\ result'[x].key = j.keys[m]
                                         /\ result'[x].value = Answer(R)[m]
    <3>1. PICK z \in Marked : opairs[z].key = j.keys[m] /\ opairs[z].value = Answer(R)[m]
      BY <1>1, <1>3, <2>3, <2>5, RevealedValue
    <3>2. PICK x \in 1 .. n : f[x] = z
      BY <1>7
    <3> QED
      BY <1>10, <3>1, <3>2
  <2>9. \A x, y \in DOMAIN result' : result'[x].key = result'[y].key => x = y
    <3> SUFFICES ASSUME NEW x \in 1 .. n, NEW y \in 1 .. n,
                        opairs[f[x]].key = opairs[f[y]].key
                 PROVE  x = y
      BY <1>10
    <3>1. f[x] = f[y]
      BY <1>7, <2>6
    <3> QED
      BY <1>7, <3>1
  <2>10. ASSUME NEW x \in DOMAIN result'
         PROVE  \E m \in DOMAIN j.keys : result'[x].key = j.keys[m]
    <3>1. x \in 1 .. n /\ result'[x] = opairs[f[x]] /\ f[x] \in Marked
      BY <1>7, <1>10
    <3>2. PICK r \in 1 .. len2 : opairs[f[x]].key = input["client"][r]
      BY <2>6, <3>1
    <3> QED
      BY <2>7, <3>1, <3>2
  <2> QED
    BY <2>4, <2>8, <2>9, <2>10 DEF Reveals
<1>17. Answered'
  <2>1. Returned("client")' = Returned("client")
    BY <1>1, <1>2, <1>12 DEF Returned
  <2> QED
    BY <1>1, <2>1 DEF IInv, Answered
<1> QED
  BY <1>13, <1>14, <1>15, <1>16, <1>17 DEF IInv

(* The last of the values revealed for a place.                            *)
LEMMA NatLast ==
  ASSUME NEW n \in Nat, NEW S \in SUBSET (1 .. n), S # {}
  PROVE  \E x \in S : \A y \in S : y <= x
<1> DEFINE U == {z \in 0 .. n : n - z \in S}
<1>1. U \in SUBSET Nat /\ \A x \in S : n - x \in U
  OBVIOUS
<1>2. U # {}
  BY <1>1
<1>3. \A z \in U : z \in 0 .. n /\ n - z \in S
  OBVIOUS
<1> HIDE DEF U
<1>4. PICK u \in U : \A w \in U : u <= w
  BY <1>1, <1>2, NatLeast
<1>5. n - u \in S
  BY <1>3
<1>6. \A y \in S : y <= n - u
  <2> TAKE y \in S
  <2>1. u <= n - y
    BY <1>1, <1>4
  <2> QED
    BY <1>3, <2>1
<1> QED
  BY <1>5, <1>6

(* What the client returns is what was revealed for each of its keys.      *)
Output ==
  LET keys == Job("client").keys
      at(n) == {x \in DOMAIN result : IndexOf(keys, result[x].key) = n}
  IN  [n \in DOMAIN keys |->
         IF at(n) = {} THEN Zero
         ELSE result[CHOOSE x \in at(n) : \A y \in at(n) : y <= x].value]

LEMMA OutputType ==
  ASSUME IInv, pc["client"] = "reply"
  PROVE  Output \in Seq(T) /\ DOMAIN Output = DOMAIN Job("client").keys
<1> DEFINE j == Job("client")
           at(n) == {x \in DOMAIN result : IndexOf(j.keys, result[x].key) = n}
           last(n) == CHOOSE x \in at(n) : \A y \in at(n) : y <= x
<1>1. j \in Jobs
  BY RunFacts
<1>2. result \in Seq(Opairs) /\ DOMAIN result = 1 .. Len(result) /\ Len(result) \in Nat
  BY LenProperties DEF IInv, TypeOK
<1>3. Output = [n \in DOMAIN j.keys |-> IF at(n) = {} THEN Zero ELSE result[last(n)].value]
  BY DEF Output
<1>4. ASSUME NEW n, at(n) # {} PROVE last(n) \in DOMAIN result
  <2>1. at(n) \in SUBSET (1 .. Len(result))
    BY <1>2
  <2> HIDE DEF at
  <2>2. \E x \in at(n) : \A y \in at(n) : y <= x
    BY <1>2, <1>4, <2>1, NatLast
  <2> QED
    BY <1>2, <2>1, <2>2
<1> HIDE DEF at, last
<1>5. \A x \in DOMAIN result : result[x].value \in T
  BY <1>2, ElementOfSeq, OpairFacts
<1>6. Zero \in T
  BY RingClosed
<1>7. \A n \in DOMAIN j.keys : Output[n] \in T
  BY <1>3, <1>4, <1>5, <1>6
<1>8. DOMAIN j.keys = 1 .. Len(j.keys) /\ Len(j.keys) \in Nat
  <2>1. j.keys \in Seq(Int)
    BY <1>1, JobsAssumption DEF JobType
  <2> QED
    BY <2>1, LenProperties
<1>9. Output \in [1 .. Len(j.keys) -> T]
  BY <1>3, <1>7, <1>8
<1> QED
  BY <1>8, <1>9, SeqDef

LEMMA OutputIs ==
  ASSUME IInv, pc["client"] = "reply", Proper(Job("client"))
  PROVE  Output = Answer(RankJob(Job("client")))
<1> DEFINE j == Job("client")
           R == RankJob(j)
           at(n) == {x \in DOMAIN result : IndexOf(j.keys, result[x].key) = n}
           last(n) == CHOOSE x \in at(n) : \A y \in at(n) : y <= x
<1>1. j \in Jobs
  BY RunFacts
<1>2. R.keys = j.keys
  BY <1>1, RankJobIs
<1>3. /\ \A x, y \in DOMAIN result : result[x].key = result[y].key => x = y
      /\ \A x \in DOMAIN result : \E m \in DOMAIN j.keys : result[x].key = j.keys[m]
      /\ \A n \in DOMAIN j.keys :
           \E x \in DOMAIN result : result[x].key = j.keys[n] /\ result[x].value = Answer(R)[n]
  BY <1>2 DEF IInv, Replied, Reveals
<1>4. result \in Seq(Opairs) /\ DOMAIN result = 1 .. Len(result) /\ Len(result) \in Nat
  BY LenProperties DEF IInv, TypeOK
<1>5. \A m \in DOMAIN j.keys : IndexOf(j.keys, j.keys[m]) = m
  <2> DEFINE k == j.keys
  <2>1. k \in Seq(Int)
    BY <1>1, JobsAssumption DEF JobType
  <2>2. DOMAIN k = 1 .. Len(k) /\ Len(k) \in Nat
    BY <2>1, LenProperties
  <2>3. \A a, b \in DOMAIN k : k[a] = k[b] => a = b
    BY DEF Proper
  <2> HIDE DEF k
  <2>4. \A a \in DOMAIN k : \A b \in 1 .. a - 1 : b \in DOMAIN k /\ b # a
    BY <2>2
  <2>5. Firsts(k) = DOMAIN k
    BY <2>3, <2>4 DEF Firsts
  <2>6. \A m \in DOMAIN k : IndexOf(k, k[m]) = m
    BY <2>3, <2>5 DEF IndexOf
  <2> QED
    BY <2>6 DEF k
<1> HIDE DEF R
<1>6. ASSUME NEW n \in DOMAIN j.keys
      PROVE  Output[n] = Answer(R)[n]
  <2>1. PICK x \in DOMAIN result : result[x].key = j.keys[n] /\ result[x].value = Answer(R)[n]
    BY <1>3
  <2>2. x \in at(n)
    BY <1>5, <2>1
  <2>3. \A y \in at(n) : y = x
    <3> TAKE y \in at(n)
    <3>1. PICK m \in DOMAIN j.keys : result[y].key = j.keys[m]
      BY <1>3
    <3>2. m = n
      BY <1>5, <3>1
    <3> QED
      BY <1>3, <2>1, <3>1, <3>2
  <2>4. x <= x
    BY <1>4
  <2>5. at(n) # {}
    BY <2>2
  <2>6. last(n) = x
    BY <2>2, <2>3, <2>4
  <2>7. Output[n] = IF at(n) = {} THEN Zero ELSE result[last(n)].value
    BY DEF Output
  <2> HIDE DEF at, last
  <2> QED
    BY <2>1, <2>5, <2>6, <2>7
<1>7. DOMAIN Output = DOMAIN j.keys /\ Output = [n \in DOMAIN j.keys |-> Output[n]]
  BY DEF Output
<1>8. Answer(R) = [n \in DOMAIN j.keys |-> Answer(R)[n]]
  BY <1>2 DEF Answer
<1> QED
  BY <1>6, <1>7, <1>8 DEF R

LEMMA ClientReturnStep == IInv /\ ClientReturn => IInv'
<1> SUFFICES ASSUME IInv, ClientReturn PROVE IInv'
  OBVIOUS
<1>1. /\ pc["client"] = "reply" /\ pc' = [pc EXCEPT !["client"] = "idle"]
      /\ out' = Append(out, Output)
      /\ UNCHANGED <<job, run, input, circuit, opairs, i, result>>
  BY DEF ClientReturn, Output
<1>2. out' \in Seq(Seq(T))
  BY <1>1, OutputType, AppendProperties DEF IInv, TypeOK
<1>3. pc'["client"] = "idle" /\ pc'["server"] = pc["server"] /\ pc' \in [Parties -> Phases]
  BY <1>1, RunFacts DEF Phases
<1>4. circuit = "off"
  BY <1>1 DEF IInv, InStep, TypeOK
<1>5. TypeOK'
  BY <1>1, <1>2, <1>3 DEF IInv, TypeOK, Phases
<1>6. InStep'
  BY <1>1, <1>3, <1>4 DEF IInv, InStep, Merged, Parties
<1>7. Sorted' /\ Compared' /\ Replied'
  BY <1>1, <1>3, <1>4 DEF IInv, Sorted, Compared, Replied, Job
<1>8. Answered'
  <2>1. Returned("client") = run["client"] - 1 /\ Returned("client")' = run["client"]
    BY <1>1, <1>3 DEF Returned
  <2>2. run["client"] \in Nat /\ Len(out) = run["client"] - 1 /\ out \in Seq(Seq(T))
    BY <2>1, RunFacts DEF IInv, Answered, TypeOK
  <2>3. /\ Len(out') = run["client"] /\ DOMAIN out' = 1 .. run["client"]
        /\ out'[run["client"]] = Output
        /\ \A n \in DOMAIN out : out'[n] = out[n]
        /\ \A n \in DOMAIN out' : n \in DOMAIN out \/ n = run["client"]
    <3>1. Output \in Seq(T) /\ Len(out) + 1 = run["client"] /\ DOMAIN out = 1 .. Len(out)
      BY <1>1, <2>2, OutputType, LenProperties
    <3> DEFINE o == Output
    <3> HIDE DEF o
    <3>2. o \in Seq(T) /\ out' = Append(out, o)
      BY <1>1, <3>1 DEF o
    <3>3. /\ Len(out') = Len(out) + 1 /\ DOMAIN out' = 1 .. Len(out) + 1
          /\ out'[Len(out) + 1] = o /\ \A n \in 1 .. Len(out) : out'[n] = out[n]
      BY <2>2, <3>2, AppendProperties, LenProperties
    <3> QED
      BY <2>2, <3>1, <3>3 DEF o
  <2>4. Proper(job[run["client"]]) => Output = Answer(RankJob(job[run["client"]]))
    BY <1>1, OutputIs DEF Job
  <2>5. ASSUME NEW n \in DOMAIN out', Proper(job'[n])
        PROVE  out'[n] = Answer(RankJob(job'[n]))
    <3>1. CASE n = run["client"]
      BY <1>1, <2>3, <2>4, <2>5, <3>1
    <3>2. CASE n \in DOMAIN out
      BY <1>1, <2>3, <2>5, <3>2 DEF IInv, Answered
    <3> QED
      BY <2>3, <3>1, <3>2
  <2> QED
    BY <2>1, <2>3, <2>5 DEF Answered
<1> QED
  BY <1>5, <1>6, <1>7, <1>8 DEF IInv

LEMMA NextInv == IInv /\ [Next]_vars => IInv'
<1> SUFFICES ASSUME IInv, [Next]_vars PROVE IInv'
  OBVIOUS
<1>1. CASE ServerCall
  BY <1>1, ServerCallStep
<1>2. CASE ClientCall
  BY <1>2, ClientCallStep
<1>3. CASE Merge
  BY <1>3, MergeInv
<1>4. CASE Compare
  BY <1>4, CompareStep
<1>5. CASE ShuffleReveal
  BY <1>5, ShuffleRevealStep
<1>6. CASE ClientReturn
  BY <1>6, ClientReturnStep
<1>7. CASE UNCHANGED vars
  <2>1. UNCHANGED <<job, pc, run, input, circuit, opairs, i, result, out>>
    BY <1>7 DEF vars
  <2>2. TypeOK' /\ InStep' /\ Sorted' /\ Replied' /\ Answered'
    BY <2>1 DEF IInv, TypeOK, InStep, Merged, Sorted, Replied, Answered, Returned, Job
  <2>3. Compared'
    <3>1. /\ Places' = Places /\ TheFed' = TheFed /\ len2' = len2
          /\ Job("client")' = Job("client") /\ Proper(Job("client"))' = Proper(Job("client"))
      BY <2>1, StillMerged
    <3>2. ASSUME circuit = "compare" PROVE Compared'
      <4>1. i \in Nat \ {0} /\ DOMAIN opairs = Places
        BY <3>2 DEF IInv, Compared
      <4>2. PICK g \in [1 .. len2 -> Places] : IsOwned(g, opairs)
        BY <3>2 DEF IInv, Compared
      <4>3. IsOwned(g, opairs)'
        BY <2>1, <3>1, <4>2 DEF IsOwned
      <4>4. ASSUME Proper(Job("client"))
            PROVE  \E b \in [Places -> Opairs] : IsMerged(b)' /\ Through(b, i)'
        <5>1. PICK b \in [Places -> Opairs] : IsMerged(b) /\ Through(b, i)
          BY <3>2, <4>4 DEF IInv, Compared
        <5>2. IsMerged(b)'
          BY <3>1, <5>1 DEF IsMerged
        <5>3. Through(b, i)'
          BY <2>1, <3>1, <5>1 DEF Through
        <5> QED
          BY <5>2, <5>3
      <4> QED
        BY <2>1, <3>1, <4>1, <4>3, <4>4 DEF Compared
    <3> QED
      BY <2>1, <3>2 DEF Compared
  <2> QED
    BY <2>2, <2>3 DEF IInv
<1> QED
  BY <1>1, <1>2, <1>3, <1>4, <1>5, <1>6, <1>7 DEF Next, pir_scs_oblivc

(* The parties are in the circuit together, and there is a marked pair for *)
(* each key the client fed.  Of a proper job the circuit holds a merge of  *)
(* what they fed, of which the loop has moved what it has passed; and what *)
(* is revealed are the client's keys with what they stand for.             *)
THEOREM InvHolds == Spec => []IInv
  BY InitInv, NextInv, PTL DEF Spec, Safe

(* Every variable keeps its type, for any jobs and any number of runs.     *)
THEOREM TypeCorrect == Spec => []TypeOK
<1>1. IInv => TypeOK
  BY DEF IInv
<1> QED
  BY <1>1, InvHolds, PTL

(* In every turn of the loop, whatever the keys of the job, there is one   *)
(* marked pair for each key the client fed, and of no other key: what the  *)
(* check of sorting_oblivious_map.oc:138-143 counts.                       *)
THEOREM ClientPairsAlwaysKept == Spec => []ClientPairsKept
<1>1. ASSUME IInv PROVE ClientPairsKept
  <2> SUFFICES ASSUME circuit = "compare"
               PROVE  /\ Cardinality(Marked) = len2
                      /\ {opairs[x].key : x \in Marked} = {input["client"][n] : n \in 1 .. len2}
    BY DEF ClientPairsKept
  <2>1. TheyAreIn
    BY <1>1 DEF IInv, InStep, TheyAreIn
  <2>2. DOMAIN opairs = Places
    BY <1>1 DEF IInv, Compared
  <2>3. PICK g \in [1 .. len2 -> Places] : IsOwned(g, opairs)
    BY <1>1 DEF IInv, Compared
  <2> QED
    BY <2>1, <2>2, <2>3, FedTypes, PairsKept
<1> QED
  BY <1>1, InvHolds, PTL

-----------------------------------------------------------------------------
(* The jobs and the returns of the contract.                               *)
jobOM == [n \in 1 .. NumRuns |-> RankJob(job[n])]
returnedOM == [p \in Parties |-> Returned(p)]
outOM == [n \in DOMAIN out |-> IF Proper(job[n]) THEN out[n] ELSE Answer(RankJob(job[n]))]

(* What does not change a run's output does not change what stands for it. *)
LEMMA OutSame == ASSUME job' = job, out' = out PROVE outOM' = outOM /\ jobOM' = jobOM
  BY DEF outOM, jobOM

LEMMA CallRefines ==
  ASSUME IInv, NEW p \in Parties, pc[p] = "idle", run[p] < NumRuns,
         run' = [run EXCEPT ![p] = @ + 1], pc' = [pc EXCEPT ![p] = "yao"],
         job' = job, out' = out
  PROVE  RM!Call(p)
<1>1. pc \in [Parties -> Phases] /\ run \in [Parties -> 0 .. NumRuns]
  BY RunFacts
<1>2. run[p] \in Nat /\ run'[p] = run[p] + 1 /\ pc'[p] = "yao"
  BY <1>1, JobsAssumption
<1>3. Returned(p) = run[p] /\ Returned(p)' = run[p]
  BY <1>2 DEF Returned
<1>4. \A q \in Parties \ {p} : Returned(q)' = Returned(q)
  BY <1>1 DEF Returned
<1>5. returnedOM' = returnedOM
  BY <1>3, <1>4 DEF returnedOM
<1>6. returnedOM[p] = run[p]
  BY <1>3 DEF returnedOM
<1> QED
  BY <1>5, <1>6, OutSame DEF RM!Call, returnedOM, jobOM, outOM

(* The server returns when the pairs have been revealed.                   *)
LEMMA ShuffleRevealRefines == IInv /\ ShuffleReveal => RM!Return("server")
<1> SUFFICES ASSUME IInv, ShuffleReveal PROVE RM!Return("server")
  OBVIOUS
<1>1. /\ circuit = "compare" /\ pc' = [server |-> "idle", client |-> "reply"]
      /\ UNCHANGED <<job, run, out>>
  BY DEF ShuffleReveal
<1>2. pc["server"] = "yao" /\ pc["client"] = "yao"
  BY <1>1 DEF IInv, InStep
<1>3. run["server"] \in Nat /\ run["client"] = run["server"] /\ run["server"] >= 1
  BY <1>2, RunFacts, SameJob DEF IInv
<1>4. /\ Returned("server") = run["server"] - 1 /\ Returned("server")' = run["server"]
      /\ Returned("client")' = Returned("client")
  BY <1>1, <1>2 DEF Returned
<1>5. returnedOM["server"] = run["server"] - 1
  BY <1>4 DEF returnedOM, Parties
<1>6. returnedOM' = [returnedOM EXCEPT !["server"] = @ + 1]
  <2>1. returnedOM["server"] + 1 = run["server"]
    BY <1>3, <1>5
  <2>2. [returnedOM EXCEPT !["server"] = @ + 1]
          = [p \in Parties |-> IF p = "server" THEN run["server"] ELSE Returned(p)]
    BY <2>1 DEF returnedOM
  <2>3. returnedOM' = [p \in Parties |-> IF p = "server" THEN run["server"] ELSE Returned(p)]
    BY <1>4 DEF returnedOM, Parties
  <2> QED
    BY <2>2, <2>3
<1>7. returnedOM["server"] < run["server"] /\ \A q \in Parties : returnedOM["server"] < run[q]
  BY <1>3, <1>5 DEF Parties
<1> QED
  BY <1>1, <1>6, <1>7, OutSame
     DEF RM!Return, RM!CanReturn, RM!Parties, Parties, returnedOM, jobOM, outOM

(* The answers are the same in both modules.                               *)
LEMMA AnswerSame == ASSUME NEW j PROVE RM!Answer(j) = Answer(j)
<1> QED
  BY DEF RM!Answer, Answer, RM!Lookup, Lookup, RM!Has, Has, RM!ValueOf, ValueOf

LEMMA ClientReturnRefines == IInv /\ ClientReturn => RM!Return("client")
<1> SUFFICES ASSUME IInv, ClientReturn PROVE RM!Return("client")
  OBVIOUS
<1>1. /\ pc["client"] = "reply" /\ pc' = [pc EXCEPT !["client"] = "idle"]
      /\ out' = Append(out, Output) /\ UNCHANGED <<job, run>>
  BY DEF ClientReturn, Output
<1>2. /\ run["client"] \in Nat /\ run["server"] \in Nat
      /\ run["client"] \in 1 .. NumRuns /\ run["client"] <= run["server"]
  BY <1>1, RunFacts
<1>3. pc'["client"] = "idle" /\ pc'["server"] = pc["server"]
  BY <1>1, RunFacts
<1>4. /\ Returned("client") = run["client"] - 1 /\ Returned("client")' = run["client"]
      /\ Returned("server")' = Returned("server")
  BY <1>1, <1>3 DEF Returned
<1>5. returnedOM["client"] = run["client"] - 1
  BY <1>4 DEF returnedOM, Parties
<1>6. returnedOM' = [returnedOM EXCEPT !["client"] = @ + 1]
  <2>1. returnedOM["client"] + 1 = run["client"]
    BY <1>2, <1>5
  <2>2. [returnedOM EXCEPT !["client"] = @ + 1]
          = [p \in Parties |-> IF p = "client" THEN run["client"] ELSE Returned(p)]
    BY <2>1 DEF returnedOM
  <2>3. returnedOM' = [p \in Parties |-> IF p = "client" THEN run["client"] ELSE Returned(p)]
    BY <1>4 DEF returnedOM, Parties
  <2> QED
    BY <2>2, <2>3
<1>7. returnedOM["client"] < run["client"] /\ \A q \in Parties : returnedOM["client"] < run[q]
  BY <1>2, <1>5 DEF Parties
<1> DEFINE n == run["client"]
<1>8. Proper(job[n]) => Output = Answer(RankJob(job[n]))
  BY <1>1, OutputIs DEF Job
<1>9. jobOM[n] = RankJob(job[n])
  BY <1>2 DEF jobOM
<1>10. outOM' = Append(outOM, Answer(RankJob(job[n])))
  <2> DEFINE o == Output
             a == Answer(RankJob(job[n]))
             old == [m \in DOMAIN out |-> IF Proper(job[m]) THEN out[m] ELSE Answer(RankJob(job[m]))]
  <2>1. out \in Seq(Seq(T)) /\ o \in Seq(T) /\ Len(out) = n - 1
    BY <1>1, <1>4, OutputType DEF IInv, TypeOK, Answered
  <2>2. Proper(job[n]) => o = a
    BY <1>8
  <2>3. out' = Append(out, o)
    BY <1>1
  <2> HIDE DEF o, a
  <2>4. Len(out) \in Nat /\ DOMAIN out = 1 .. n - 1 /\ n \in Nat \ {0}
    BY <1>2, <2>1, LenProperties
  <2>5. /\ DOMAIN out' = 1 .. n /\ out'[n] = o
        /\ \A m \in 1 .. n - 1 : out'[m] = out[m]
    BY <2>1, <2>3, <2>4, AppendProperties, LenProperties
  <2>6. outOM' = [m \in 1 .. n |-> IF m = n THEN a ELSE old[m]]
    <3>1. outOM' = [m \in DOMAIN out' |->
                     IF Proper(job[m]) THEN out'[m] ELSE Answer(RankJob(job[m]))]
      BY <1>1 DEF outOM
    <3> DEFINE new(m) == IF Proper(job[m]) THEN out'[m] ELSE Answer(RankJob(job[m]))
               then(m) == IF m = n THEN a ELSE old[m]
    <3>2. new(n) = a
      BY <2>2, <2>5 DEF a
    <3>3. \A m \in 1 .. n - 1 : new(m) = old[m] /\ m # n
      BY <2>4, <2>5
    <3>4. \A m \in 1 .. n : m = n \/ m \in 1 .. n - 1
      BY <2>4
    <3>5. \A m \in 1 .. n : new(m) = then(m)
      BY <3>2, <3>3, <3>4
    <3>6. outOM' = [m \in 1 .. n |-> new(m)]
      BY <2>5, <3>1
    <3> HIDE DEF new, then
    <3>7. outOM' = [m \in 1 .. n |-> then(m)]
      BY <3>5, <3>6
    <3> QED
      BY <3>7 DEF then
  <2>7. outOM = old
    BY DEF outOM
  <2> DEFINE U == {a} \cup {old[m] : m \in DOMAIN out}
  <2>8. old \in Seq(U) /\ Len(old) = n - 1
    <3>1. old \in [1 .. n - 1 -> U]
      BY <2>4
    <3> HIDE DEF old, U
    <3> QED
      BY <2>4, <3>1, SeqDef, LenProperties
  <2>9. a \in U
    OBVIOUS
  <2> HIDE DEF old, U
  <2>10. Append(old, a) = [m \in 1 .. n |-> IF m = n THEN a ELSE old[m]]
    <3> DEFINE f == Append(old, a)
    <3>1. /\ f \in Seq(U) /\ Len(f) = n /\ f[n] = a
          /\ \A m \in 1 .. n - 1 : f[m] = old[m]
      BY <2>4, <2>8, <2>9, AppendProperties
    <3> HIDE DEF f
    <3>2. f = [m \in 1 .. n |-> f[m]]
      BY <3>1, <2>4, LenProperties
    <3>3. \A m \in 1 .. n : f[m] = IF m = n THEN a ELSE old[m]
      BY <3>1, <2>4
    <3>4. [m \in 1 .. n |-> f[m]]
          = [m \in 1 .. n |-> IF m = n THEN a ELSE old[m]]
      BY <3>3, Zenon
    <3>5. f = [m \in 1 .. n |-> IF m = n THEN a ELSE old[m]]
      BY <3>2, <3>4
    <3> QED
      BY <3>5 DEF f
  <2> QED
    BY <2>6, <2>7, <2>10 DEF a
<1>11. outOM' = Append(outOM, RM!Answer(jobOM[n])) /\ jobOM' = jobOM
  BY <1>1, <1>9, <1>10, AnswerSame DEF jobOM
<1> QED
  BY <1>1, <1>6, <1>7, <1>11
     DEF RM!Return, RM!CanReturn, RM!Parties, Parties, returnedOM, jobOM, outOM

LEMMA NextRefines == IInv /\ [Next]_vars => [RM!Next]_RM!vars
<1> SUFFICES ASSUME IInv, [Next]_vars PROVE RM!Next \/ UNCHANGED RM!vars
  OBVIOUS
<1>1. CASE ServerCall
  <2>1. RM!Call("server")
    BY <1>1, CallRefines DEF ServerCall, Parties
  <2> QED
    BY <2>1 DEF RM!Next, RM!Parties
<1>2. CASE ClientCall
  <2>1. RM!Call("client")
    BY <1>2, CallRefines DEF ClientCall, Parties
  <2> QED
    BY <2>1 DEF RM!Next, RM!Parties
<1>3. CASE Merge
  BY <1>3, OutSame DEF Merge, RM!vars, Returned, outOM
<1>4. CASE Compare
  BY <1>4, OutSame DEF Compare, RM!vars, Returned, outOM
<1>5. CASE ShuffleReveal
  BY <1>5, ShuffleRevealRefines DEF RM!Next, RM!Parties
<1>6. CASE ClientReturn
  BY <1>6, ClientReturnRefines DEF RM!Next, RM!Parties
<1>7. CASE UNCHANGED vars
  BY <1>7, OutSame DEF vars, RM!vars, Returned, outOM
<1> QED
  BY <1>1, <1>2, <1>3, <1>4, <1>5, <1>6, <1>7 DEF Next, pir_scs_oblivc

LEMMA RunOfOutput == ASSUME IInv, NEW n \in DOMAIN out PROVE job[n] \in Jobs
<1>1. run \in [Parties -> 0 .. NumRuns] /\ run["client"] \in Nat /\ "client" \in Parties
  BY RunFacts
<1>2. run["client"] <= NumRuns /\ NumRuns \in Nat
  BY <1>1, JobsAssumption
<1>3. Len(out) = Returned("client") /\ out \in Seq(Seq(T))
  BY DEF IInv, Answered, TypeOK
<1>4. Len(out) <= run["client"]
  BY <1>1, <1>3 DEF Returned
<1>5. DOMAIN out = 1 .. Len(out) /\ Len(out) \in Nat
  BY <1>3, LenProperties
<1>6. n \in 1 .. NumRuns
  BY <1>1, <1>2, <1>4, <1>5
<1> QED
  BY <1>6 DEF IInv, TypeOK

(* Neither party returns from a run before both have called it, whatever   *)
(* the jobs; and of a job with distinct keys that are not negative the     *)
(* client returns, whatever the shuffle, for each key in the order it asked*)
(* in, the value of the server's pair or else the default of the key's rank*)
(* (less that default, if the output is shared).  This is less than        *)
(* oblivious_map.hpp promises; it is the safety part of ImplementsRankedMap*)
THEOREM RefinesRankedMap == Spec => RM!Safe
<1>1. Init => RM!Init
  <2> SUFFICES ASSUME Init PROVE RM!Init
    OBVIOUS
  <2>1. jobOM \in [1 .. NumRuns -> {RankJob(j) : j \in Jobs}]
    BY DEF Init, jobOM
  <2>2. returnedOM = [p \in Parties |-> 0]
    BY DEF Init, Returned, returnedOM
  <2>3. outOM = <<>>
    BY DEF Init, outOM
  <2> QED
    BY <2>1, <2>2, <2>3 DEF Init, RM!Init, RM!Parties, Parties, jobOM, returnedOM, outOM
<1> QED
  BY <1>1, NextRefines, InvHolds, PTL DEF Spec, Safe, RM!Safe

(* Keys in ascending order are at their ranks: the default of the rank is  *)
(* that of the index.                                                      *)
AscendingKeys(j) ==
  \A m, n \in DOMAIN j.keys : j.keys[m] >= 0 /\ (m < n => j.keys[m] < j.keys[n])

LEMMA AscendingIsProper ==
  ASSUME NEW j \in Jobs, AscendingKeys(j)
  PROVE  Proper(j) /\ Answer(RankJob(j)) = Answer(j)
<1> DEFINE k == j.keys
           L == Len(k)
<1>1. k \in Seq(Int)
  BY JobsAssumption DEF JobType
<1>2. L \in Nat /\ DOMAIN k = 1 .. L /\ k \in [1 .. L -> Int]
  BY <1>1, LenProperties
<1>3. \A m, n \in 1 .. L : k[m] >= 0 /\ (m < n => k[m] < k[n])
  BY <1>2 DEF AscendingKeys
<1> HIDE DEF L, k
<1>4. \A m, n \in 1 .. L : k[m] <= k[n] <=> m <= n
  <2> TAKE m, n \in 1 .. L
  <2>1. k[m] \in Int /\ k[n] \in Int
    BY <1>2
  <2>2. m < n => k[m] < k[n]
    BY <1>3
  <2>3. n < m => k[n] < k[m]
    BY <1>3
  <2>4. m = n \/ m < n \/ n < m
    BY <1>2
  <2>5. CASE m = n
    BY <2>1, <2>5
  <2>6. CASE m < n
    BY <2>1, <2>2, <2>6
  <2>7. CASE n < m
    BY <2>1, <2>3, <2>7
  <2> QED
    BY <2>4, <2>5, <2>6, <2>7
<1>5. Proper(j)
  <2>1. \A m, n \in 1 .. L : k[m] = k[n] => m = n
    <3> TAKE m, n \in 1 .. L
    <3>1. k[m] = k[n] => k[m] <= k[n] /\ k[n] <= k[m]
      BY <1>2
    <3> QED
      BY <1>2, <1>4, <3>1
  <2> QED
    BY <1>2, <1>3, <2>1 DEF Proper, k
<1>6. ASSUME NEW n \in 1 .. L PROVE RankOf(k, n) = n
  <2>1. {m \in DOMAIN k : k[m] <= k[n]} = 1 .. n
    <3>1. \A m \in 1 .. L : k[m] <= k[n] <=> m \in 1 .. n
      BY <1>2, <1>4
    <3>2. \A m \in 1 .. n : m \in 1 .. L
      BY <1>2
    <3> QED
      BY <1>2, <3>1, <3>2
  <2> DEFINE S == {m \in DOMAIN k : k[m] <= k[n]}
  <2>2. RankOf(k, n) = Cardinality(S)
    BY DEF RankOf
  <2>3. S = 1 .. n
    BY <2>1 DEF S
  <2> HIDE DEF S
  <2>4. Cardinality(S) = Cardinality(1 .. n) /\ n \in Nat
    BY <2>3, <1>2
  <2>5. Cardinality(1 .. n) = n
    BY <2>4, CountUpTo
  <2> QED
    BY <2>2, <2>4, <2>5
<1> DEFINE K == RankJob(j)
<1>7. /\ K.pairs = j.pairs /\ K.keys = k /\ K.shared = j.shared
      /\ \A n \in 1 .. L : K.defaults[n] = j.defaults[n]
  <2>1. /\ K.pairs = j.pairs /\ K.keys = j.keys /\ K.shared = j.shared
        /\ K.defaults = [m \in DOMAIN j.keys |-> j.defaults[RankOf(j.keys, m)]]
    BY RankJobIs
  <2> HIDE DEF K
  <2> QED
    BY <1>2, <1>6, <2>1 DEF k
<1> HIDE DEF K
<1>8. \A n \in 1 .. L : Lookup(K, n) = Lookup(j, n)
  BY <1>7 DEF Lookup, Has, ValueOf, k
<1>9. Answer(K) = Answer(j)
  <2> DEFINE F(x, n) == IF x.shared THEN Minus(Lookup(x, n), x.defaults[n]) ELSE Lookup(x, n)
  <2>1. \A n \in 1 .. L : F(K, n) = F(j, n)
    BY <1>7, <1>8
  <2>2. Answer(K) = [n \in 1 .. L |-> F(K, n)] /\ Answer(j) = [n \in 1 .. L |-> F(j, n)]
    BY <1>2, <1>7 DEF Answer, k
  <2> HIDE DEF F
  <2> QED
    BY <2>1, <2>2
<1> QED
  BY <1>5, <1>9 DEF K

(* What oblivious_map.hpp promises is returned by every run whose keys are *)
(* in ascending order and not negative; and Contract holds if all are.     *)
THEOREM AscendingKeysGetTheirDefaults ==
  Spec => [](/\ \A n \in DOMAIN out : AscendingKeys(job[n]) => out[n] = Answer(job[n])
             /\ (\A j \in Jobs : AscendingKeys(j)) => Contract)
<1>1. ASSUME IInv, NEW n \in DOMAIN out, AscendingKeys(job[n]) PROVE out[n] = Answer(job[n])
  <2>1. job[n] \in Jobs
    BY <1>1, RunOfOutput
  <2>2. Proper(job[n]) /\ Answer(RankJob(job[n])) = Answer(job[n])
    BY <1>1, <2>1, AscendingIsProper
  <2> QED
    BY <1>1, <2>2 DEF IInv, Answered
<1>2. ASSUME IInv
      PROVE  /\ \A n \in DOMAIN out : AscendingKeys(job[n]) => out[n] = Answer(job[n])
             /\ (\A j \in Jobs : AscendingKeys(j)) => Contract
  <2>1. \A n \in DOMAIN out : AscendingKeys(job[n]) => out[n] = Answer(job[n])
    BY <1>1, <1>2
  <2>2. \A n \in DOMAIN out : job[n] \in Jobs
    BY <1>2, RunOfOutput
  <2> QED
    BY <2>1, <2>2 DEF Contract
<1> QED
  BY <1>2, InvHolds, PTL
=============================================================================
