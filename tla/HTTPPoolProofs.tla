--------------------------- MODULE HTTPPoolProofs --------------------------
(***************************************************************************)
(* Proofs about the ring and the pools that are set with it, for any hash  *)
(* function, any number of virtual nodes and any lists of peers.           *)
(*                                                                         *)
(* Everything rests on one lemma about the ring, Nearest: Get returns a    *)
(* peer whose virtual node is the first in clockwise direction.            *)
(***************************************************************************)
EXTENDS HTTPPool, SequenceTheorems, FiniteSetTheorems, WellFoundedInduction, TLAPS

\* The hash functions, and the virtual nodes of some peers.
HashFunctions == [Nodes -> [0 .. Replicas - 1 -> KeyHashes]]
Points(f, S) == UNION {Range(f[p]) : p \in S}

\* x is among the first of P in clockwise direction from h.
First(P, h, x) == x \in P /\ \A y \in P : Distance(h, x) <= Distance(h, y)

\* A pool that is set has the ring of a list and getters for the peers on it.
PoolInv ==
    /\ hash \in HashFunctions
    /\ peers = [n \in Pools |-> peers[n]] /\ httpGetters = [n \in Pools |-> httpGetters[n]]
    /\ registered \in [Pools -> BOOLEAN]
    /\ \A n \in Pools :
         /\ IsSet(n) => \E l \in Lists : /\ peers[n] = Add(New, hash, l)
                                         /\ httpGetters[n] = Range(l)
         /\ registered[n] => IsSet(n)

-----------------------------------------------------------------------------
(* The ring.                                                               *)

\* A set of numbers has a first one.
LEMMA FirstOne ==
    ASSUME NEW T, T \subseteq Nat, T # {}
    PROVE  \E x \in T : \A y \in T : x <= y
<1>1. PICK x \in T : \A y \in T : ~(<<y, x>> \in OpToRel(<, Nat))
  BY NatLessThanWellFounded, WFMin
<1>2. \A y \in T : ~(y < x)
  BY <1>1 DEF OpToRel
<1> QED
  BY <1>2

\* And a bounded one has a last one.
LEMMA LastOne ==
    ASSUME NEW n \in Nat, NEW F, F \subseteq 0 .. n, F # {}
    PROVE  \E i \in F : \A j \in F : j <= i
<1> DEFINE T == {n - i : i \in F}
<1>1. T \subseteq Nat /\ T # {}
  <2>1. PICK i \in F : TRUE
    OBVIOUS
  <2>2. n - i \in T
    BY <2>1
  <2> QED
    BY <2>2
<1>2. PICK x \in T : \A y \in T : x <= y
  BY <1>1, FirstOne
<1>3. PICK i \in F : x = n - i
  OBVIOUS
<1>4. ASSUME NEW j \in F PROVE j <= i
  <2>1. n - j \in T
    OBVIOUS
  <2>2. x <= n - j
    BY <1>2, <2>1
  <2> QED
    BY <1>3, <2>2
<1> QED
  BY <1>4

\* The way round the ring.
LEMMA DistanceFacts ==
    ASSUME NEW a \in KeyHashes, NEW b \in KeyHashes
    PROVE  Distance(a, b) = IF a <= b THEN b - a ELSE b - a + MaxHash + 1
<1>1. MaxHash \in Nat /\ a \in 0 .. MaxHash /\ b \in 0 .. MaxHash
  BY PoolAssumption DEF KeyHashes
<1>2. PICK m \in Nat \ {0} : m = MaxHash + 1
  BY <1>1
<1>3. CASE a <= b
  <2>1. 0 <= b - a /\ b - a < m
    BY <1>1, <1>2, <1>3
  <2>2. (b - a) % m = b - a
    BY <1>1, <2>1
  <2> QED
    BY <1>2, <1>3, <2>2 DEF Distance
<1>4. CASE ~(a <= b)
  <2>1. -m < b - a /\ b - a < 0
    BY <1>1, <1>2, <1>4
  <2>2. (b - a) % m = b - a + m
    BY <1>1, <2>1
  <2> QED
    BY <1>1, <1>2, <1>4, <2>2 DEF Distance
<1> QED
  BY <1>3, <1>4

\* Two places at the same distance are the same.
LEMMA DistanceIsInjective ==
    ASSUME NEW h \in KeyHashes, NEW x \in KeyHashes, NEW y \in KeyHashes,
           Distance(h, x) <= Distance(h, y), Distance(h, y) <= Distance(h, x)
    PROVE  x = y
  BY DistanceFacts, PoolAssumption DEF KeyHashes

\* The hashes that Add appends are the virtual nodes of the peers.
LEMMA HashesArePoints ==
    ASSUME NEW f \in HashFunctions, NEW l \in Lists
    PROVE  /\ Hashes(f, l) \in Seq(KeyHashes)
           /\ Range(Hashes(f, l)) = Points(f, Range(l))
<1>1. l \in Seq(Nodes) /\ Len(l) \in Nat /\ \A i \in 1 .. Len(l) : l[i] \in Nodes
  BY PoolAssumption, LenProperties, ElementOfSeq
<1>2. Replicas \in Nat \ {0}
  BY PoolAssumption
<1>3. PICK n : n = IF l = << >> THEN 0 ELSE Cardinality(DOMAIN f[l[1]])
  OBVIOUS
<1>4. n \in Nat /\ (Len(l) > 0 => n = Replicas)
  <2>1. CASE l = << >>
    BY <1>3, <2>1, EmptySeq
  <2>2. CASE l # << >>
    <3>1. Len(l) > 0 /\ l[1] \in Nodes
      BY <1>1, <2>2, EmptySeq
    <3>2. DOMAIN f[l[1]] = 0 .. Replicas - 1
      BY <3>1 DEF HashFunctions
    <3>3. Cardinality(0 .. Replicas - 1) = Replicas
      BY <1>2, FS_Interval
    <3> QED
      BY <1>2, <1>3, <2>2, <3>2, <3>3
  <2> QED
    BY <2>1, <2>2
<1>5. PICK k \in Nat : k = n * Len(l)
  BY <1>1, <1>4
<1>6. Hashes(f, l) = [j \in 1 .. k |-> f[l[((j - 1) \div n) + 1]][(j - 1) % n]]
  BY <1>3, <1>5 DEF Hashes
<1>7. ASSUME NEW j \in 1 .. k
      PROVE  /\ ((j - 1) \div n) + 1 \in 1 .. Len(l) /\ (j - 1) % n \in 0 .. Replicas - 1
             /\ n = Replicas
  <2>1. Len(l) > 0
    BY <1>1, <1>4, <1>5, <1>7
  <2>2. n = Replicas
    BY <1>4, <2>1
  <2>3. PICK m \in Nat \ {0} : m = n
    BY <1>2, <2>2
  <2>4. j \in 1 .. m * Len(l)
    BY <1>5, <1>7, <2>3
  <2>5. ((j - 1) \div m) + 1 \in 1 .. Len(l)
    BY <1>1, <2>4
  <2>6. (j - 1) % m \in 0 .. m - 1
    BY <1>1, <2>4
  <2> QED
    BY <2>2, <2>3, <2>5, <2>6
<1>8. ASSUME NEW j \in 1 .. k PROVE Hashes(f, l)[j] \in KeyHashes
  <2>1. PICK i \in 1 .. Len(l), r \in 0 .. Replicas - 1 : Hashes(f, l)[j] = f[l[i]][r]
    BY <1>6, <1>7
  <2>2. l[i] \in Nodes
    BY <1>1
  <2> QED
    BY <2>1, <2>2 DEF HashFunctions
<1>9. Hashes(f, l) \in Seq(KeyHashes) /\ DOMAIN Hashes(f, l) = 1 .. k
  BY <1>6, <1>8
<1>10. ASSUME NEW x \in Range(Hashes(f, l)) PROVE x \in Points(f, Range(l))
  <2>1. PICK j \in 1 .. k : x = Hashes(f, l)[j]
    BY <1>9 DEF Range
  <2>2. PICK i \in 1 .. Len(l), r \in 0 .. Replicas - 1 : x = f[l[i]][r]
    BY <1>6, <1>7, <2>1
  <2>3. l[i] \in Range(l) /\ l[i] \in Nodes
    BY <1>1, LenProperties DEF Range
  <2>4. x \in Range(f[l[i]])
    BY <2>2, <2>3 DEF Range, HashFunctions
  <2> QED
    BY <2>3, <2>4 DEF Points
<1>11. ASSUME NEW x \in Points(f, Range(l)) PROVE x \in Range(Hashes(f, l))
  <2>1. PICK p \in Range(l) : x \in Range(f[p])
    BY DEF Points
  <2>2. PICK i \in 1 .. Len(l) : p = l[i]
    BY <1>1, LenProperties DEF Range
  <2>3. PICK r \in 0 .. Replicas - 1 : x = f[l[i]][r]
    BY <1>1, <2>1, <2>2 DEF Range, HashFunctions
  <2>4. PICK m \in Nat \ {0} : m = n /\ m = Replicas
    BY <1>1, <1>2, <1>4
  <2>5. PICK q \in Nat : q = i - 1
    OBVIOUS
  <2>6. PICK j \in Nat : j = q * m + r + 1
    BY <2>4, <2>5
  <2>7. j \in 1 .. m * Len(l)
    <3>1. (i - 1) * m + r + 1 \in 1 .. m * Len(l)
      BY <1>1, <2>4
    <3> QED
      BY <2>5, <2>6, <3>1
  <2>8. (q * m + r) \div m = q /\ (q * m + r) % m = r
    <3>1. r \in 0 .. m - 1
      BY <2>4
    <3>2. (q * m + r) \div m = q
      BY <3>1
    <3>3. (q * m + r) % m = r
      BY <3>1
    <3> QED
      BY <3>2, <3>3
  <2>9. j - 1 = q * m + r
    BY <2>6
  <2>10. ((j - 1) \div n) + 1 = i /\ (j - 1) % n = r
    BY <2>4, <2>5, <2>8, <2>9
  <2>11. j \in 1 .. k /\ Hashes(f, l)[j] = x
    BY <1>5, <1>6, <2>3, <2>4, <2>7, <2>10
  <2> QED
    BY <1>9, <2>11 DEF Range
<1> QED
  BY <1>9, <1>10, <1>11

\* The ring of a list: the sorted points, each of which belongs to one of its peers.
LEMMA RingOfList ==
    ASSUME NEW f \in HashFunctions, NEW l \in Lists, NEW m, m = Add(New, f, l),
           NEW P, P = Points(f, Range(l))
    PROVE  /\ m.keys \in Seq(Int) /\ Range(m.keys) = P /\ P \subseteq KeyHashes
           /\ \A i, j \in 1 .. Len(m.keys) : i < j => m.keys[i] <= m.keys[j]
           /\ \A x \in P : m.hashMap[x] \in Range(l) /\ x \in Range(f[m.hashMap[x]])
<1> DEFINE new == Hashes(f, l)
           last(h) == CHOOSE i \in 1 .. Len(l) :
                        /\ h \in Range(f[l[i]])
                        /\ \A j \in i + 1 .. Len(l) : h \notin Range(f[l[j]])
<1>1. /\ m.keys = SortInts(New.keys \o new)
      /\ m.hashMap = [h \in DOMAIN New.hashMap \cup Range(new) |->
                        IF h \in Range(new) THEN l[last(h)] ELSE New.hashMap[h]]
  BY DEF Add, Sorted
<1>2. new \in Seq(KeyHashes) /\ Range(new) = P
  BY HashesArePoints
<1>3. New.keys \o new = new
  <2>1. New.keys = << >>
    BY DEF New
  <2> QED
    BY <1>2, <2>1, ConcatEmptySeq
<1>4. l \in Seq(Nodes) /\ Len(l) \in Nat /\ DOMAIN l = 1 .. Len(l)
  BY PoolAssumption, LenProperties
<1>5. SortInts(new) \in Seq(Int) /\ SortedVersion(SortInts(new), new)
  <2>1. f \in [Nodes -> [0 .. Replicas - 1 -> 0 .. MaxHash]]
    BY DEF HashFunctions, KeyHashes
  <2> QED
    BY <2>1, PoolAssumption
<1>6. P \subseteq KeyHashes
  BY <1>2, LenProperties, ElementOfSeq DEF Range
<1>7. ASSUME NEW x \in P
      PROVE  m.hashMap[x] \in Range(l) /\ x \in Range(f[m.hashMap[x]])
  <2>1. m.hashMap[x] = l[last(x)]
    BY <1>1, <1>2, <1>7
  <2> DEFINE F == {i \in 1 .. Len(l) : x \in Range(f[l[i]])}
  <2>2. PICK p \in Range(l) : x \in Range(f[p])
    BY <1>7 DEF Points
  <2>3. PICK i0 \in 1 .. Len(l) : p = l[i0]
    BY <1>4 DEF Range
  <2>4. F # {} /\ F \subseteq 0 .. Len(l)
    <3>1. i0 \in F
      BY <2>2, <2>3
    <3> QED
      BY <1>4, <3>1
  <2>5. PICK i \in F : \A j \in F : j <= i
    BY <1>4, <2>4, LastOne
  <2>6. /\ i \in 1 .. Len(l) /\ x \in Range(f[l[i]])
        /\ \A j \in i + 1 .. Len(l) : x \notin Range(f[l[j]])
    <3>1. ASSUME NEW j \in i + 1 .. Len(l), x \in Range(f[l[j]]) PROVE FALSE
      <4>1. j \in F /\ j > i
        BY <1>4, <3>1
      <4> QED
        BY <1>4, <2>5, <4>1
    <3> QED
      BY <3>1
  <2> HIDE DEF F
  <2>7. last(x) \in 1 .. Len(l) /\ x \in Range(f[l[last(x)]])
    BY <2>6
  <2> HIDE DEF last
  <2> QED
    BY <1>4, <2>1, <2>7 DEF Range
<1> HIDE DEF new, last
<1>8. m.keys = SortInts(new)
  BY <1>1, <1>3
<1> QED
  BY <1>2, <1>5, <1>6, <1>7, <1>8 DEF SortedVersion

\* sort.Search: nothing before the place it finds is as large as h.
LEMMA SearchFacts ==
    ASSUME NEW t \in Seq(Int), NEW h \in Int
    PROVE  \/ Search(t, h) = 0 /\ \A i \in 1 .. Len(t) : t[i] < h
           \/ /\ Search(t, h) \in 1 .. Len(t) /\ t[Search(t, h)] >= h
              /\ \A i \in 1 .. Search(t, h) - 1 : t[i] < h
<1> DEFINE I == {i \in 1 .. Len(t) : t[i] >= h}
<1>1. Search(t, h) = IF I # {} THEN Min(I) ELSE 0
  BY DEF Search, SelectInSeq
<1>2. Len(t) \in Nat /\ \A i \in 1 .. Len(t) : t[i] \in Int
  BY LenProperties, ElementOfSeq
<1>3. CASE I = {}
  BY <1>1, <1>2, <1>3
<1>4. CASE I # {}
  <2>1. I \subseteq Nat
    OBVIOUS
  <2>2. \E x \in I : \A y \in I : x <= y
    BY <1>4, <2>1, FirstOne
  <2>3. Min(I) \in I /\ \A y \in I : Min(I) <= y
    BY <2>2 DEF Min
  <2>4. Search(t, h) \in I /\ \A y \in I : Search(t, h) <= y
    BY <1>1, <1>4, <2>3
  <2>5. PICK s \in 1 .. Len(t) : s = Search(t, h)
    BY <2>4
  <2>6. ASSUME NEW i \in 1 .. s - 1 PROVE t[i] < h
    <3>1. i \in 1 .. Len(t) /\ ~(s <= i)
      BY <1>2
    <3>2. i \notin I
      BY <2>4, <2>5, <3>1
    <3> QED
      BY <1>2, <3>1, <3>2
  <2> QED
    BY <2>4, <2>5, <2>6
<1> QED
  BY <1>3, <1>4

\* Get returns a peer with a virtual node that is first in clockwise direction from
\* the key, and nobody when there is none, for every hash function.
LEMMA Nearest ==
    ASSUME NEW f \in HashFunctions, NEW l \in Lists, NEW h \in KeyHashes,
           NEW P, P = Points(f, Range(l)), NEW g, g = Get(Add(New, f, l), h)
    PROVE  /\ P = {} => g = Nobody
           /\ P # {} => /\ g \in Range(l)
                        /\ \E x \in Range(f[g]) : First(P, h, x)
<1>1. PICK m : m = Add(New, f, l)
  OBVIOUS
<1>2. /\ m.keys \in Seq(Int) /\ Range(m.keys) = P /\ P \subseteq KeyHashes
      /\ \A i, j \in 1 .. Len(m.keys) : i < j => m.keys[i] <= m.keys[j]
      /\ \A x \in P : m.hashMap[x] \in Range(l) /\ x \in Range(f[m.hashMap[x]])
  BY <1>1, RingOfList
<1>3. PICK t \in Seq(Int) : t = m.keys
  BY <1>2
<1>4. Len(t) \in Nat /\ DOMAIN t = 1 .. Len(t)
  BY LenProperties
<1>5. \A x : x \in P <=> \E i \in 1 .. Len(t) : x = t[i]
  BY <1>2, <1>3, <1>4 DEF Range
<1>6. CASE P = {}
  <2>1. t = << >>
    BY <1>4, <1>5, <1>6, EmptySeq
  <2> QED
    BY <1>1, <1>3, <1>6, <2>1 DEF Get
<1>7. CASE P # {}
  <2>1. Len(t) > 0 /\ t # << >>
    BY <1>4, <1>5, <1>7, EmptySeq
  <2>2. PICK s \in 1 .. Len(t) : s = IF Search(t, h) = 0 THEN 1 ELSE Search(t, h)
    BY <1>3, <1>4, <2>1, SearchFacts DEF KeyHashes
  <2>3. g = m.hashMap[t[s]]
    BY <1>1, <1>3, <2>1, <2>2 DEF Get
  <2>4. t[s] \in P
    BY <1>5
  <2>5. ASSUME NEW y \in P PROVE Distance(h, t[s]) <= Distance(h, y)
    <3>1. PICK j \in 1 .. Len(t) : y = t[j]
      BY <1>5
    <3>2. MaxHash \in Nat /\ h \in 0 .. MaxHash /\ y \in 0 .. MaxHash /\ t[s] \in 0 .. MaxHash
      BY <1>2, <2>4, PoolAssumption DEF KeyHashes
    <3>3. /\ Distance(h, t[s]) = IF h <= t[s] THEN t[s] - h ELSE t[s] - h + MaxHash + 1
          /\ Distance(h, y) = IF h <= y THEN y - h ELSE y - h + MaxHash + 1
      BY <3>2, DistanceFacts DEF KeyHashes
    <3>4. \A i \in 1 .. Len(t) : s < i => t[s] <= t[i]
      BY <1>2, <1>3
    <3>5. CASE Search(t, h) = 0 /\ \A i \in 1 .. Len(t) : t[i] < h
      <4>1. s = 1
        BY <2>2, <3>5
      <4>2. t[s] < h /\ y < h /\ t[s] <= y
        BY <1>4, <3>1, <3>2, <3>4, <3>5, <4>1
      <4> QED
        BY <3>2, <3>3, <4>2
    <3>6. CASE /\ Search(t, h) \in 1 .. Len(t) /\ t[Search(t, h)] >= h
               /\ \A i \in 1 .. Search(t, h) - 1 : t[i] < h
      <4>1. s = Search(t, h) /\ t[s] >= h
        BY <1>4, <2>2, <3>6
      <4>2. y < h \/ t[s] <= y
        <5>1. CASE j < s
          BY <1>4, <3>1, <3>6, <4>1, <5>1
        <5>2. CASE j = s
          BY <3>1, <3>2, <5>2
        <5>3. CASE s < j
          BY <3>1, <3>4, <5>3
        <5> QED
          BY <1>4, <5>1, <5>2, <5>3
      <4> QED
        BY <3>2, <3>3, <4>1, <4>2
    <3>7. h \in Int
      BY <3>2
    <3> QED
      BY <3>5, <3>6, <3>7, SearchFacts
  <2>6. g \in Range(l) /\ t[s] \in Range(f[g])
    BY <1>2, <2>3, <2>4
  <2> QED
    BY <1>7, <2>4, <2>5, <2>6 DEF First
<1> QED
  BY <1>6, <1>7

-----------------------------------------------------------------------------
(* The pools.                                                              *)

\* A ring that was made is not the nil pointer.
LEMMA RingsAreNotNil ==
    ASSUME NEW f \in HashFunctions, NEW l \in Lists
    PROVE  Add(New, f, l) # NilRing
<1> SUFFICES ASSUME Add(New, f, l) = NilRing PROVE FALSE
  OBVIOUS
<1>1. NilRing.keys = <<-1>>
  BY DEF NilRing
<1>2. Range(NilRing.keys) = Points(f, Range(l)) /\ Points(f, Range(l)) \subseteq KeyHashes
  BY RingOfList
<1>3. -1 \in Range(NilRing.keys)
  BY <1>1 DEF Range
<1> QED
  BY <1>2, <1>3 DEF KeyHashes

\* Every reachable state satisfies the invariant.
LEMMA PoolInvariance == Spec => []PoolInv
<1>1. Init => PoolInv
  <2> SUFFICES ASSUME Init PROVE PoolInv
    OBVIOUS
  <2>1. hash \in HashFunctions
    BY DEF Init, HashFunctions, KeyHashes
  <2> QED
    BY <2>1 DEF Init, PoolInv, IsSet
<1>2. PoolInv /\ [Next]_vars => PoolInv'
  <2> SUFFICES ASSUME PoolInv, [Next]_vars PROVE PoolInv'
    OBVIOUS
  <2>1. ASSUME NEW n \in Pools, NEW l \in Lists, Set(n, l) PROVE PoolInv'
    <3>1. /\ peers' = [peers EXCEPT ![n] = Add(New, hash, l)]
          /\ httpGetters' = [httpGetters EXCEPT ![n] = Range(l)]
          /\ UNCHANGED <<hash, registered>>
      BY <2>1 DEF Set, NewRing
    <3>2. Add(New, hash, l) # NilRing
      BY RingsAreNotNil DEF PoolInv
    <3> QED
      BY <3>1, <3>2 DEF PoolInv, IsSet
  <2>2. ASSUME NEW n \in Pools, RegisterPeers(n) PROVE PoolInv'
    BY <2>2 DEF RegisterPeers, PoolInv, IsSet
  <2>3. CASE UNCHANGED vars
    BY <2>3 DEF vars, PoolInv, IsSet
  <2> QED
    BY <2>1, <2>2, <2>3 DEF Next
<1> QED
  BY <1>1, <1>2, PTL DEF Spec

\* The owner of a key in a pool that is set.
LEMMA OwnerFacts ==
    ASSUME PoolInv, NEW n \in Pools, IsSet(n), NEW h \in KeyHashes,
           NEW P, P = Points(hash, httpGetters[n])
    PROVE  /\ hash \in HashFunctions /\ httpGetters[n] \subseteq Nodes
           /\ P \subseteq KeyHashes
           /\ P = {} => Owner(n, h) = Nobody
           /\ P # {} => /\ Owner(n, h) \in httpGetters[n]
                        /\ \E x \in Range(hash[Owner(n, h)]) : First(P, h, x)
<1>1. PICK l \in Lists : peers[n] = Add(New, hash, l) /\ httpGetters[n] = Range(l)
  BY DEF PoolInv
<1>2. hash \in HashFunctions
  BY DEF PoolInv
<1>3. PICK g : g = Owner(n, h)
  OBVIOUS
<1>4. g = Get(Add(New, hash, l), h) /\ P = Points(hash, Range(l))
  BY <1>1, <1>3 DEF Owner
<1>5. /\ P = {} => g = Nobody
      /\ P # {} => g \in Range(l) /\ \E x \in Range(hash[g]) : First(P, h, x)
  BY <1>2, <1>4, Nearest
<1>6. P \subseteq KeyHashes
  BY <1>2, <1>4, RingOfList
<1>7. Range(l) \subseteq Nodes
  <2>1. l \in Seq(Nodes)
    BY PoolAssumption
  <2> QED
    BY <2>1, LenProperties, ElementOfSeq DEF Range
<1> QED
  BY <1>1, <1>2, <1>3, <1>5, <1>6, <1>7

\* A key belongs to a peer with a virtual node next to it in clockwise direction,
\* for every hash function and every list of peers.
THEOREM KeysGoToTheirSuccessor == Spec => []SuccessorOwns
<1>1. PoolInv => SuccessorOwns
  <2> SUFFICES ASSUME PoolInv, NEW n \in Pools, IsSet(n), NEW h \in KeyHashes
               PROVE  LET points == UNION {Range(hash[p]) : p \in httpGetters[n]}
                      IN  IF points = {} THEN Owner(n, h) = Nobody
                          ELSE \E x \in Range(hash[Owner(n, h)]) :
                                  \A y \in points : Distance(h, x) <= Distance(h, y)
    BY DEF SuccessorOwns
  <2> DEFINE P == Points(hash, httpGetters[n])
  <2>1. /\ P = {} => Owner(n, h) = Nobody
        /\ P # {} => \E x \in Range(hash[Owner(n, h)]) : First(P, h, x)
    BY OwnerFacts
  <2> QED
    BY <2>1 DEF Points, First
<1> QED
  BY <1>1, PoolInvariance, PTL

\* A Group asks only peers that its pool has a getter for, and never itself.
THEOREM PickedPeersHaveGetters == Spec => []PickedPeerCanBeAsked
<1>1. PoolInv => PickedPeerCanBeAsked
  <2> SUFFICES ASSUME PoolInv, NEW n \in Pools, registered[n],
                      NEW h \in KeyHashes, PickPeer(n, h) # Nobody
               PROVE  PickPeer(n, h) \in httpGetters[n] \ {n}
    BY DEF PickedPeerCanBeAsked
  <2>1. IsSet(n)
    BY DEF PoolInv
  <2>2. Owner(n, h) \notin {Nobody, n} /\ PickPeer(n, h) = Owner(n, h)
    BY DEF PickPeer
  <2>3. Owner(n, h) \in httpGetters[n]
    BY <2>1, <2>2, OwnerFacts
  <2> QED
    BY <2>2, <2>3
<1> QED
  BY <1>1, PoolInvariance, PTL

\* Without a collision a virtual node has one peer.
LEMMA OnePeer ==
    ASSUME NEW S, NoCollision(S), NEW p \in S, NEW q \in S, NEW x,
           x \in Range(hash[p]), x \in Range(hash[q])
    PROVE  p = q
  BY DEF NoCollision

\* Nodes that were given the same peers, in whatever order, agree on every owner.
THEOREM OwnersAgree == Spec => []RingsAgree
<1>1. PoolInv => RingsAgree
  <2> SUFFICES ASSUME PoolInv, NEW m \in Pools, NEW n \in Pools, IsSet(m), IsSet(n),
                      httpGetters[m] = httpGetters[n], NoCollision(httpGetters[n]),
                      NEW h \in KeyHashes
               PROVE  Owner(m, h) = Owner(n, h)
    BY DEF RingsAgree
  <2>1. PICK P : P = Points(hash, httpGetters[n])
    OBVIOUS
  <2>2. CASE P = {}
    BY <2>1, <2>2, OwnerFacts
  <2>3. CASE P # {}
    <3>1. /\ P \subseteq KeyHashes
          /\ Owner(n, h) \in httpGetters[n] /\ Owner(m, h) \in httpGetters[n]
      BY <2>1, <2>3, OwnerFacts
    <3>2. PICK x \in Range(hash[Owner(n, h)]) : First(P, h, x)
      BY <2>1, <2>3, OwnerFacts
    <3>3. PICK y \in Range(hash[Owner(m, h)]) : First(P, h, y)
      BY <2>1, <2>3, OwnerFacts
    <3>4. x = y
      BY <3>1, <3>2, <3>3, DistanceIsInjective DEF First
    <3> QED
      BY <3>1, <3>2, <3>3, <3>4, OnePeer
  <2> QED
    BY <2>2, <2>3
<1> QED
  BY <1>1, PoolInvariance, PTL

\* When the peers change, a key moves only from a peer that left or to one that
\* joined.
THEOREM KeysMoveForAReason == Spec => MinimalMovement
<1>1. PoolInv /\ PoolInv' /\ [Next]_vars => [\A n \in Pools : MovesMatter(n)]_vars
  <2> SUFFICES ASSUME PoolInv, PoolInv', [Next]_vars, NEW n \in Pools, IsSet(n),
                      NoCollision(httpGetters[n] \cup httpGetters'[n]), NEW h \in KeyHashes,
                      Owner(n, h) \in httpGetters'[n], Owner(n, h)' \in httpGetters[n]
               PROVE  Owner(n, h)' = Owner(n, h)
    BY DEF MovesMatter
  <2>1. hash' = hash
    BY DEF Next, Set, RegisterPeers, vars
  <2>2. IsSet(n)'
    BY RingsAreNotNil DEF Next, Set, NewRing, RegisterPeers, vars, IsSet, PoolInv
  <2>3. PICK P, Q : P = Points(hash, httpGetters[n]) /\ Q = Points(hash, httpGetters'[n])
    OBVIOUS
  <2>4. PICK p, q : p = Owner(n, h) /\ q = Owner(n, h)'
    OBVIOUS
  <2>5. /\ P \subseteq KeyHashes
        /\ P = {} => p = Nobody
        /\ httpGetters[n] \subseteq Nodes
        /\ P # {} => p \in httpGetters[n] /\ \E x \in Range(hash[p]) : First(P, h, x)
    BY <2>3, <2>4, OwnerFacts
  <2>6. /\ Q \subseteq KeyHashes
        /\ Q = {} => q = Nobody
        /\ httpGetters'[n] \subseteq Nodes
        /\ Q # {} => q \in httpGetters'[n] /\ \E x \in Range(hash[q]) : First(Q, h, x)
    <3>1. PICK l \in Lists : peers'[n] = Add(New, hash', l) /\ httpGetters'[n] = Range(l)
      BY <2>2 DEF PoolInv
    <3>2. hash \in HashFunctions
      BY DEF PoolInv
    <3>3. q = Get(Add(New, hash, l), h) /\ Q = Points(hash, Range(l))
      BY <2>1, <2>3, <2>4, <3>1 DEF Owner
    <3>4. /\ Q = {} => q = Nobody
          /\ Q # {} => q \in Range(l) /\ \E x \in Range(hash[q]) : First(Q, h, x)
      BY <3>2, <3>3, Nearest
    <3>5. Q \subseteq KeyHashes
      BY <3>2, <3>3, RingOfList
    <3>6. l \in Seq(Nodes)
      BY PoolAssumption
    <3>7. Range(l) \subseteq Nodes
      BY <3>6, LenProperties, ElementOfSeq DEF Range
    <3> QED
      BY <3>1, <3>4, <3>5, <3>7
  <2>7. p # Nobody /\ q # Nobody
    BY <2>4, <2>5, <2>6, PoolAssumption
  <2>8. p \in httpGetters[n] /\ q \in httpGetters'[n]
    BY <2>5, <2>6, <2>7
  <2>9. PICK x \in Range(hash[p]) : First(P, h, x)
    BY <2>5, <2>7
  <2>10. PICK y \in Range(hash[q]) : First(Q, h, y)
    BY <2>6, <2>7
  <2>11. x \in Q /\ y \in P
    BY <2>3, <2>4, <2>9, <2>10 DEF Points
  <2>12. x = y
    <3>1. /\ x \in KeyHashes /\ y \in KeyHashes
          /\ Distance(h, x) <= Distance(h, y)
          /\ Distance(h, y) <= Distance(h, x)
      BY <2>5, <2>6, <2>9, <2>10, <2>11 DEF First
    <3> QED
      BY <3>1, DistanceIsInjective
  <2>13. PICK S : S = httpGetters[n] \cup httpGetters'[n]
    OBVIOUS
  <2>14. NoCollision(S) /\ p \in S /\ q \in S
    BY <2>8, <2>13
  <2> QED
    BY <2>4, <2>9, <2>10, <2>12, <2>14, OnePeer
<1> QED
  BY <1>1, PoolInvariance, PTL DEF Spec, MinimalMovement
=============================================================================
