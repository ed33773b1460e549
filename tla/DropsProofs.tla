---------------------------- MODULE DropsProofs ----------------------------
EXTENDS DropsSettle, FiniteSetTheorems, FunctionTheorems, SequenceTheorems, TLAPS

-----------------------------------------------------------------------------
(* Orders.                                                                 *)

\* In a finite set that is totally ordered, each rank is somebody's.
LEMMA EveryRankIsHeld ==
    ASSUME NEW S, IsFiniteSet(S), NEW below \in [S -> SUBSET S],
           \A x \in S : x \notin below[x],
           \A x, y \in S : x \in below[y] => below[x] \subseteq below[y],
           \A x, y \in S : x = y \/ x \in below[y] \/ y \in below[x]
    PROVE  /\ Cardinality(S) \in Nat
           /\ \A k \in 1..Cardinality(S) : \E x \in S : Cardinality(below[x]) = k - 1
           /\ \A x, y \in S : x \in below[y] => Cardinality(below[x]) < Cardinality(below[y])
           /\ \A x \in S : Cardinality(below[x]) + 1 \in 1..Cardinality(S)
<1>1. PICK n, size : /\ n = Cardinality(S) /\ size = [x \in S |-> Cardinality(below[x])]
  OBVIOUS
<1>2. n \in Nat /\ \A x \in S : size[x] \in Nat
  BY <1>1, FS_CardinalityType, FS_Subset
<1>3. \A x \in S, T \in SUBSET S :
          below[x] \cup {x} \subseteq T => size[x] + 1 <= Cardinality(T)
  <2> SUFFICES ASSUME NEW x \in S, NEW T \in SUBSET S, below[x] \cup {x} \subseteq T
               PROVE  size[x] + 1 <= Cardinality(T)
    OBVIOUS
  <2>1. /\ IsFiniteSet(below[x])
        /\ Cardinality(below[x] \cup {x}) = Cardinality(below[x]) + 1
    BY FS_Subset, FS_AddElement
  <2>2. IsFiniteSet(T) /\ below[x] \cup {x} \in SUBSET T
    BY FS_Subset
  <2> QED
    BY <1>1, <2>1, <2>2, FS_Subset
<1>4. \A x, y \in S : x \in below[y] => size[x] < size[y]
  <2> SUFFICES ASSUME NEW x \in S, NEW y \in S, x \in below[y]
               PROVE  size[x] < size[y]
    OBVIOUS
  <2>1. below[y] \in SUBSET S /\ below[x] \cup {x} \subseteq below[y]
    OBVIOUS
  <2>2. size[x] + 1 <= size[y]
    BY <1>1, <1>3, <2>1
  <2> QED
    BY <1>2, <2>2
<1>5. \A x \in S : size[x] + 1 <= n
  BY <1>1, <1>3
<1>6. PICK rank : rank = [x \in S |-> size[x] + 1]
  OBVIOUS
<1>7. rank \in Injection(S, 1..n)
  <2>1. rank \in [S -> 1..n]
    BY <1>2, <1>5, <1>6
  <2>2. \A x, y \in S : rank[x] = rank[y] => x = y
    BY <1>2, <1>4, <1>6
  <2> QED
    BY <2>1, <2>2 DEF Injection, IsInjective
<1>8. IsFiniteSet(1..n) /\ Cardinality(1..n) = n
  BY <1>2, FS_Interval
<1>9. rank \in Surjection(S, 1..n)
  BY <1>1, <1>7, <1>8, FS_Injection
<1>10. \A k \in 1..n : \E x \in S : size[x] = k - 1
  <2> SUFFICES ASSUME NEW k \in 1..n
               PROVE  \E x \in S : size[x] = k - 1
    OBVIOUS
  <2>1. PICK x \in S : rank[x] = k
    BY <1>9 DEF Surjection
  <2> QED
    BY <2>1, <1>2, <1>6
<1> QED
  BY <1>1, <1>2, <1>4, <1>5, <1>10

LEMMA FiniteImage ==
    ASSUME NEW S, IsFiniteSet(S), NEW f
    PROVE  IsFiniteSet({f[x] : x \in S})
<1>1. PICK g, T : g = [x \in S |-> f[x]] /\ T = {f[x] : x \in S}
  OBVIOUS
<1>2. g \in Surjection(S, T)
  BY <1>1 DEF Surjection
<1> QED
  BY <1>1, <1>2, FS_Surjection

\* The numbers of a finite set, each once, the least first.
LEMMA AscendingIs ==
    ASSUME NEW S, IsFiniteSet(S), S \subseteq Int
    PROVE  /\ Cardinality(S) \in Nat
           /\ Ascending(S) \in [1..Cardinality(S) -> S]
           /\ \A i, j \in 1..Cardinality(S) : i < j => Ascending(S)[i] < Ascending(S)[j]
           /\ \A x \in S : \E i \in 1..Cardinality(S) : Ascending(S)[i] = x
<1>1. PICK n, below, size, a :
        /\ n = Cardinality(S) /\ a = Ascending(S)
        /\ below = [x \in S |-> {y \in S : y < x}]
        /\ size = [x \in S |-> Cardinality(below[x])]
  OBVIOUS
<1>2. /\ n \in Nat
      /\ \A k \in 1..n : \E x \in S : size[x] = k - 1
      /\ \A x, y \in S : x < y => size[x] < size[y]
      /\ \A x \in S : size[x] + 1 \in 1..n
  <2>1. below \in [S -> SUBSET S]
    BY <1>1
  <2>2. \A x, y \in S : x \in below[y] <=> x < y
    BY <1>1
  <2>3. /\ \A x \in S : x \notin below[x]
        /\ \A x, y \in S : x = y \/ x \in below[y] \/ y \in below[x]
    <3>1. \A x, y \in S : ~(x < x) /\ (x = y \/ x < y \/ y < x)
      OBVIOUS
    <3> QED
      BY <2>2, <3>1, Zenon
  <2>4. \A x, y \in S : x \in below[y] => below[x] \subseteq below[y]
    <3> SUFFICES ASSUME NEW x \in S, NEW y \in S, x < y, NEW z \in below[x]
                 PROVE  z \in below[y]
      BY <2>2
    <3>1. z \in S /\ z < x
      BY <2>1, <2>2
    <3> QED
      BY <3>1, <2>2
  <2>5. /\ Cardinality(S) \in Nat
        /\ \A k \in 1..Cardinality(S) : \E x \in S : Cardinality(below[x]) = k - 1
        /\ \A x, y \in S : x \in below[y] => Cardinality(below[x]) < Cardinality(below[y])
        /\ \A x \in S : Cardinality(below[x]) + 1 \in 1..Cardinality(S)
    BY <2>1, <2>3, <2>4, EveryRankIsHeld
  <2> QED
    BY <1>1, <2>2, <2>5
<1>3. \A k \in 1..n : a[k] \in S /\ size[a[k]] = k - 1
  <2> SUFFICES ASSUME NEW k \in 1..n
               PROVE  a[k] \in S /\ size[a[k]] = k - 1
    OBVIOUS
  <2>1. a[k] = CHOOSE x \in S : Cardinality({y \in S : y < x}) = k - 1
    BY <1>1 DEF Ascending
  <2>2. \E x \in S : Cardinality({y \in S : y < x}) = k - 1
    BY <1>1, <1>2
  <2> QED
    BY <1>1, <2>1, <2>2
<1>4. a \in [1..n -> S]
  BY <1>1, <1>3 DEF Ascending
<1>5. \A x \in S : size[x] \in Nat
  BY <1>1, FS_CardinalityType, FS_Subset
<1>6. \A i, j \in 1..n : i < j => a[i] < a[j]
  <2> SUFFICES ASSUME NEW i \in 1..n, NEW j \in 1..n, i < j
               PROVE  a[i] < a[j]
    OBVIOUS
  <2>1. a[j] < a[i] => size[a[j]] < size[a[i]]
    BY <1>2, <1>3
  <2>2. a[i] \in Int /\ a[j] \in Int
    BY <1>3
  <2>3. size[a[i]] < size[a[j]]
    BY <1>2, <1>3
  <2> QED
    BY <2>1, <2>2, <2>3, <1>3, <1>5
<1>7. \A x \in S : \E i \in 1..n : a[i] = x
  <2> SUFFICES ASSUME NEW x \in S
               PROVE  \E i \in 1..n : a[i] = x
    OBVIOUS
  <2>1. PICK i : i = size[x] + 1
    OBVIOUS
  <2>2. i \in 1..n /\ size[a[i]] = size[x] /\ a[i] \in S
    BY <2>1, <1>2, <1>3, <1>5
  <2>3. size[x] \in Nat /\ a[i] \in Int /\ x \in Int
    BY <1>5, <2>2
  <2>4. ~(a[i] < x) /\ ~(x < a[i])
    BY <1>2, <2>2, <2>3
  <2> QED
    BY <2>2, <2>3, <2>4
<1> QED
  BY <1>1, <1>2, <1>4, <1>6, <1>7

-----------------------------------------------------------------------------
(* Filters.                                                                *)

\* A finite set of numbers has a least one.
LEMMA LeastIsHeld ==
    ASSUME NEW S, IsFiniteSet(S), S \subseteq Int, S # {}
    PROVE  \E i \in S : \A j \in S : i <= j
<1>1. PICK n, order : n = Cardinality(S) /\ order = Ascending(S)
  OBVIOUS
<1>2. /\ n \in Nat /\ order \in [1..n -> S]
      /\ \A i, j \in 1..n : i < j => order[i] < order[j]
      /\ \A x \in S : \E i \in 1..n : order[i] = x
  BY <1>1, AscendingIs
<1>3. 1 \in 1..n
  <2>1. PICK x \in S : TRUE
    OBVIOUS
  <2>2. PICK i \in 1..n : order[i] = x
    BY <1>2, <2>1
  <2> QED
    BY <1>2, <2>2
<1>4. ASSUME NEW j \in S
      PROVE  order[1] <= j
  <2>1. PICK k \in 1..n : order[k] = j
    BY <1>2
  <2>2. order[1] \in Int /\ order[k] \in Int
    BY <1>2, <1>3
  <2> QED
    BY <1>2, <1>3, <2>1, <2>2
<1> QED
  BY <1>2, <1>3, <1>4

LEMMA PlacesOfN ==
    ASSUME NEW n \in Nat
    PROVE  IsFiniteSet(1..n) /\ Cardinality(1..n) = n
BY FS_Interval

\* The places of a sequence that a filter keeps.
LEMMA PlacesAre ==
    ASSUME NEW T, NEW s \in Seq(T), NEW places \in SUBSET DOMAIN s
    PROVE  IsFiniteSet(places) /\ places \subseteq Int
<1>1. Len(s) \in Nat /\ DOMAIN s = 1..Len(s)
  BY LenProperties
<1> QED
  <2>1. IsFiniteSet(DOMAIN s) /\ DOMAIN s \subseteq Int
    BY <1>1, PlacesOfN
  <2> QED
    BY <2>1, FS_Subset

LEMMA Places ==
    ASSUME NEW T, NEW s \in Seq(T)
    PROVE  /\ Len(s) \in Nat /\ DOMAIN s = 1..Len(s)
           /\ \A i \in DOMAIN s : s[i] \in T
BY LenProperties, ElementOfSeq

\* One place for each place of a sequence makes a sequence.
LEMMA PlaceByPlace ==
    ASSUME NEW S, NEW T, NEW s \in Seq(S), NEW t, t = [i \in DOMAIN s |-> t[i]],
           \A i \in DOMAIN s : t[i] \in T
    PROVE  t \in Seq(T) /\ DOMAIN t = DOMAIN s
<1>1. Len(s) \in Nat /\ DOMAIN s = 1..Len(s)
  BY Places
<1>2. t \in [1..Len(s) -> T]
  BY <1>1
<1> QED
  BY <1>1, <1>2, SeqDef

\* order takes the places of t, all of them, to those of s that t has the
\* elements of, and keeps them apart and in order.
IsPick(order, t, s, places) ==
    /\ order \in [DOMAIN t -> places]
    /\ \A k \in DOMAIN t : t[k] = s[order[k]]
    /\ \A k, l \in DOMAIN t : k < l => order[k] < order[l]
    /\ \A k, l \in DOMAIN t : order[k] = order[l] => k = l
    /\ \A i \in places : \E k \in DOMAIN t : order[k] = i

\* A filter's result is a sequence of what it keeps.
LEMMA KeptAtIs ==
    ASSUME NEW T, NEW s \in Seq(T), NEW places \in SUBSET DOMAIN s
    PROVE  /\ KeptAt(s, places) \in Seq(T)
           /\ \E order : IsPick(order, KeptAt(s, places), s, places)
<1>1. IsFiniteSet(places) /\ places \subseteq Int
  BY PlacesAre
<1>2. PICK n, order : /\ n = Cardinality(places) /\ order = Ascending(places)
  OBVIOUS
<1>3. /\ n \in Nat
      /\ order \in [1..n -> places]
      /\ \A i, j \in 1..n : i < j => order[i] < order[j]
      /\ \A x \in places : \E i \in 1..n : order[i] = x
  BY <1>1, <1>2, AscendingIs
<1>4. PICK t : t = KeptAt(s, places)
  OBVIOUS
<1>5. t = [k \in 1..n |-> s[order[k]]]
  BY <1>2, <1>4 DEF KeptAt
<1>6. \A i \in DOMAIN s : s[i] \in T
  BY ElementOfSeq, LenProperties
<1>7. t \in Seq(T)
  <2>1. t \in [1..n -> T]
    BY <1>3, <1>5, <1>6
  <2> QED
    BY <2>1, <1>3, SeqDef
<1>8. \A k, l \in 1..n : order[k] = order[l] => k = l
  <2> SUFFICES ASSUME NEW k \in 1..n, NEW l \in 1..n, order[k] = order[l]
               PROVE  k = l
    OBVIOUS
  <2>1. order[k] \in Int
    BY <1>1, <1>3
  <2>2. ~(k < l) /\ ~(l < k)
    BY <2>1, <1>3
  <2> QED
    BY <2>2, <1>3
<1>9. IsPick(order, t, s, places)
  BY <1>3, <1>5, <1>8 DEF IsPick
<1> QED
  BY <1>4, <1>7, <1>9

\* Each number of 1..n has its own place.
LEMMA AscendingInterval ==
    ASSUME NEW n \in Nat
    PROVE  \A k \in 1..n : Ascending(1..n)[k] = k
<1> SUFFICES ASSUME NEW k \in 1..n
             PROVE  Ascending(1..n)[k] = k
  OBVIOUS
<1>1. Cardinality(1..n) = n
  BY PlacesOfN
<1>2. \A x \in 1..n : Cardinality({y \in 1..n : y < x}) = x - 1
  <2> SUFFICES ASSUME NEW x \in 1..n
               PROVE  Cardinality({y \in 1..n : y < x}) = x - 1
    OBVIOUS
  <2>1. {y \in 1..n : y < x} = 1..(x - 1)
    OBVIOUS
  <2>2. Cardinality(1..(x - 1)) = x - 1
    BY PlacesOfN
  <2> QED
    BY <2>1, <2>2
<1>3. Ascending(1..n)[k] = CHOOSE x \in 1..n : Cardinality({y \in 1..n : y < x}) = k - 1
  BY <1>1 DEF Ascending
<1>4. \E x \in 1..n : Cardinality({y \in 1..n : y < x}) = k - 1
  BY <1>2
<1>5. /\ Ascending(1..n)[k] \in 1..n
      /\ Cardinality({y \in 1..n : y < Ascending(1..n)[k]}) = k - 1
  BY <1>3, <1>4
<1> QED
  BY <1>2, <1>5

\* A filter that keeps a beginning keeps it as it is.
LEMMA KeptAtStart ==
    ASSUME NEW T, NEW s \in Seq(T), NEW t \in Seq(T), Len(t) <= Len(s),
           \A k \in 1..Len(t) : s[k] = t[k]
    PROVE  KeptAt(s, 1..Len(t)) = t
<1>1. PICK n : n \in Nat /\ n = Len(t) /\ DOMAIN t = 1..n /\ t \in [1..n -> T]
  BY LenProperties
<1>2. KeptAt(s, 1..n) = [k \in 1..n |-> s[k]]
  <2>1. Cardinality(1..n) = n /\ \A k \in 1..n : Ascending(1..n)[k] = k
    BY <1>1, PlacesOfN, AscendingInterval
  <2> QED
    BY <2>1 DEF KeptAt
<1> QED
  BY <1>1, <1>2

\* A filter that keeps everything keeps it as it is.
LEMMA KeptAtAll ==
    ASSUME NEW T, NEW s \in Seq(T)
    PROVE  KeptAt(s, DOMAIN s) = s
<1>1. Len(s) \in Nat /\ DOMAIN s = 1..Len(s)
  BY LenProperties
<1>2. KeptAt(s, 1..Len(s)) = s
  BY <1>1, KeptAtStart
<1> QED
  BY <1>1, <1>2

\* Both has the places of s, and behind them those of t.
IsJoin(both, s, t) ==
    /\ Len(s) \in Nat /\ Len(t) \in Nat /\ Len(both) = Len(s) + Len(t)
    /\ DOMAIN s = 1..Len(s) /\ DOMAIN t = 1..Len(t) /\ DOMAIN both = 1..Len(both)
    /\ \A k \in DOMAIN s : k \in DOMAIN both /\ both[k] = s[k]
    /\ \A k \in DOMAIN t : Len(s) + k \in DOMAIN both /\ both[Len(s) + k] = t[k]
    /\ \A k \in DOMAIN both :
          k \in DOMAIN s \/ \E l \in DOMAIN t : k = Len(s) + l

LEMMA Concatenated ==
    ASSUME NEW T, NEW s \in Seq(T), NEW t \in Seq(T)
    PROVE  s \o t \in Seq(T) /\ IsJoin(s \o t, s, t)
<1>1. /\ Len(s) \in Nat /\ Len(t) \in Nat
      /\ DOMAIN s = 1..Len(s) /\ DOMAIN t = 1..Len(t)
  BY LenProperties
<1>2. /\ s \o t \in Seq(T) /\ Len(s \o t) = Len(s) + Len(t)
      /\ \A i \in 1..(Len(s) + Len(t)) :
            (s \o t)[i] = IF i <= Len(s) THEN s[i] ELSE t[i - Len(s)]
  BY ConcatProperties
<1>3. DOMAIN (s \o t) = 1..(Len(s) + Len(t))
  BY <1>2, LenProperties
<1>4. \A k \in DOMAIN s : (s \o t)[k] = s[k]
  BY <1>1, <1>2
<1>5. \A k \in DOMAIN t : (s \o t)[Len(s) + k] = t[k]
  BY <1>1, <1>2
<1>6. \A k \in 1..(Len(s) + Len(t)) : k \in 1..Len(s) \/ \E l \in 1..Len(t) : k = Len(s) + l
  <2> SUFFICES ASSUME NEW k \in 1..(Len(s) + Len(t)), k \notin 1..Len(s)
               PROVE  \E l \in 1..Len(t) : k = Len(s) + l
    OBVIOUS
  <2>1. k - Len(s) \in 1..Len(t) /\ k = Len(s) + (k - Len(s))
    BY <1>1
  <2> QED
    BY <2>1
<1>7. /\ \A k \in DOMAIN s : k \in DOMAIN (s \o t)
      /\ \A k \in DOMAIN t : Len(s) + k \in DOMAIN (s \o t)
  BY <1>1, <1>3
<1> QED
  BY <1>1, <1>2, <1>3, <1>4, <1>5, <1>6, <1>7 DEF IsJoin

-----------------------------------------------------------------------------
(* Listings.                                                               *)

\* triples can be listed: no two have the same place.
AreTriples(triples, T) ==
    /\ IsFiniteSet(triples)
    /\ triples \subseteq Int \X Int \X T
    /\ \A t, u \in triples : t[1] = u[1] /\ t[2] = u[2] => t = u

\* of has the triple that each place of list stands for, and every triple once.
IsListing(of, list, triples) ==
    /\ of \in [DOMAIN list -> triples]
    /\ \A k \in DOMAIN list : list[k] = of[k][3]
    /\ \A k, l \in DOMAIN list : of[k] = of[l] => k = l
    /\ \A t \in triples : \E k \in DOMAIN list : of[k] = t
    /\ \A k, l \in DOMAIN list : k < l => of[k][1] <= of[l][1]

\* A listing is a sequence, with one place for each triple.
LEMMA ListingIs ==
    ASSUME NEW T, NEW triples, AreTriples(triples, T)
    PROVE  /\ Listing(triples) \in Seq(T)
           /\ \E of : IsListing(of, Listing(triples), triples)
<1>1. PICK n, below, size :
        /\ n = Cardinality(triples)
        /\ below = [t \in triples |->
                      {u \in triples : u[1] < t[1] \/ (u[1] = t[1] /\ u[2] < t[2])}]
        /\ size = [t \in triples |-> Cardinality(below[t])]
  OBVIOUS
<1>2. \A t \in triples : t[1] \in Int /\ t[2] \in Int /\ t[3] \in T
  BY DEF AreTriples
<1>3. /\ n \in Nat
      /\ \A k \in 1..n : \E t \in triples : size[t] = k - 1
      /\ \A t \in triples : size[t] + 1 \in 1..n
      /\ \A t, u \in triples : t \in below[u] => size[t] < size[u]
      /\ \A t, u \in triples : t = u \/ t \in below[u] \/ u \in below[t]
  <2>1. below \in [triples -> SUBSET triples]
    BY <1>1
  <2>2. \A t, u \in triples :
            t \in below[u] <=> t[1] < u[1] \/ (t[1] = u[1] /\ t[2] < u[2])
    BY <1>1
  <2>3. /\ \A t \in triples : t \notin below[t]
        /\ \A t, u \in triples : t = u \/ t \in below[u] \/ u \in below[t]
    <3>1. \A t, u \in triples :
              \/ t[1] < u[1] \/ (t[1] = u[1] /\ t[2] < u[2])
              \/ u[1] < t[1] \/ (u[1] = t[1] /\ u[2] < t[2])
              \/ t[1] = u[1] /\ t[2] = u[2]
      BY <1>2
    <3>2. \A t \in triples : ~(t[1] < t[1] \/ (t[1] = t[1] /\ t[2] < t[2]))
      BY <1>2
    <3> QED
      BY <2>2, <3>1, <3>2, Zenon DEF AreTriples
  <2>4. \A t, u \in triples : t \in below[u] => below[t] \subseteq below[u]
    <3> SUFFICES ASSUME NEW t \in triples, NEW u \in triples, t \in below[u],
                        NEW v \in below[t]
                 PROVE  v \in below[u]
      OBVIOUS
    <3>1. v \in triples
      BY <2>1
    <3> QED
      BY <3>1, <1>2, <2>2
  <2>5. /\ Cardinality(triples) \in Nat
        /\ \A k \in 1..Cardinality(triples) :
              \E t \in triples : Cardinality(below[t]) = k - 1
        /\ \A t, u \in triples : t \in below[u] => Cardinality(below[t]) < Cardinality(below[u])
        /\ \A t \in triples : Cardinality(below[t]) + 1 \in 1..Cardinality(triples)
    BY <2>1, <2>3, <2>4, EveryRankIsHeld DEF AreTriples
  <2> QED
    BY <1>1, <2>3, <2>5
<1>4. PICK of, list :
        /\ of = [k \in 1..n |-> CHOOSE t \in triples : Cardinality({u \in triples :
                                  u[1] < t[1] \/ (u[1] = t[1] /\ u[2] < t[2])}) = k - 1]
        /\ list = Listing(triples)
  OBVIOUS
<1>5. \A k \in 1..n : of[k] \in triples /\ size[of[k]] = k - 1
  <2> SUFFICES ASSUME NEW k \in 1..n
               PROVE  of[k] \in triples /\ size[of[k]] = k - 1
    OBVIOUS
  <2>1. \A t \in triples :
            size[t] = Cardinality({u \in triples : u[1] < t[1] \/ (u[1] = t[1] /\ u[2] < t[2])})
    BY <1>1
  <2>2. \E t \in triples : Cardinality({u \in triples :
            u[1] < t[1] \/ (u[1] = t[1] /\ u[2] < t[2])}) = k - 1
    BY <1>3, <2>1
  <2>3. of[k] = CHOOSE t \in triples : Cardinality({u \in triples :
            u[1] < t[1] \/ (u[1] = t[1] /\ u[2] < t[2])}) = k - 1
    BY <1>4
  <2> QED
    BY <2>1, <2>2, <2>3
<1>7. list = [k \in 1..n |-> of[k][3]]
  BY <1>1, <1>4 DEF Listing
<1>8. of \in [1..n -> triples] /\ list \in [1..n -> T]
  BY <1>2, <1>4, <1>5, <1>7
<1>9. \A t \in triples : size[t] \in Nat
  BY <1>1, FS_CardinalityType, FS_Subset DEF AreTriples
<1>10. \A t \in triples : \E k \in 1..n : of[k] = t
  <2> SUFFICES ASSUME NEW t \in triples
               PROVE  \E k \in 1..n : of[k] = t
    OBVIOUS
  <2>1. PICK k : k = size[t] + 1
    OBVIOUS
  <2>2. k \in 1..n /\ of[k] \in triples /\ size[of[k]] = size[t] /\ size[t] \in Nat
    BY <2>1, <1>3, <1>5, <1>9
  <2>3. of[k] \notin below[t] /\ t \notin below[of[k]]
    BY <2>2, <1>3
  <2> QED
    BY <2>2, <2>3, <1>3
<1>11. \A k, l \in 1..n : of[k] = of[l] => k = l
  BY <1>5
<1>12. list \in Seq(T)
  BY <1>3, <1>8, SeqDef
<1>14. \A k, l \in 1..n : k < l => of[k][1] <= of[l][1]
  <2> SUFFICES ASSUME NEW k \in 1..n, NEW l \in 1..n, k < l, ~(of[k][1] <= of[l][1])
               PROVE  FALSE
    OBVIOUS
  <2>1. of[l][1] < of[k][1]
    BY <1>2, <1>5
  <2>2. of[l] \in below[of[k]]
    BY <2>1, <1>1, <1>5
  <2>3. size[of[l]] < size[of[k]]
    BY <2>2, <1>3, <1>5
  <2> QED
    BY <2>3, <1>5
<1>13. IsListing(of, list, triples)
  BY <1>7, <1>8, <1>10, <1>11, <1>14 DEF IsListing
<1> QED
  BY <1>4, <1>12, <1>13

-----------------------------------------------------------------------------
(* Rows.                                                                   *)

HasDistinctLogins(rows) == \A i, j \in DOMAIN rows : rows[i].login = rows[j].login => i = j

WantType == [login : Channels, owner : Ids \cup {ByHand}]

\* The rows of one owner.
LEMMA OwnedByIs ==
    ASSUME NEW rows \in Seq(RowType), NEW id
    PROVE  /\ OwnedBy(rows, id) \in Seq(RowType)
           /\ \E order : IsPick(order, OwnedBy(rows, id), rows,
                               {i \in DOMAIN rows : rows[i].owner = id})
BY KeptAtIs DEF OwnedBy

\* A wanted channel gets a row of its login, and of the owner that wants it.
LEMMA RowForIs ==
    ASSUME NEW rows \in Seq(RowType), NEW want \in WantType
    PROVE  /\ RowFor(rows, want) \in RowType
           /\ RowFor(rows, want).login = want.login
           /\ RowFor(rows, want).owner = want.owner
<1>1. PICK has : has = {i \in DOMAIN rows : /\ rows[i].owner # ByHand
                                          /\ rows[i].login = want.login}
  OBVIOUS
<1>2. CASE has # {}
  <2>1. PICK i : i = CHOOSE j \in has : TRUE
    OBVIOUS
  <2>2. i \in has
    BY <1>2, <2>1
  <2>3. rows[i] \in RowType /\ rows[i].login = want.login
    BY <1>1, <2>2, ElementOfSeq, LenProperties
  <2>4. RowFor(rows, want) = [rows[i] EXCEPT !.owner = want.owner]
    BY <1>1, <1>2, <2>1 DEF RowFor
  <2> QED
    BY <2>3, <2>4 DEF RowType, WantType
<1>3. CASE has = {}
  <2>1. RowFor(rows, want) = [login |-> want.login, owner |-> want.owner, on |-> TRUE]
    BY <1>1, <1>3 DEF RowFor
  <2> QED
    BY <2>1 DEF RowType, WantType
<1> QED
  BY <1>2, <1>3

\* The channels a pass wants, once each and none of the user's own.
LEMMA WantedIs ==
    ASSUME NEW rows \in Seq(RowType), NEW desired \in Seq(WantType)
    PROVE  /\ Wanted(rows, desired) \in Seq(WantType)
           /\ HasDistinctLogins(Wanted(rows, desired))
           /\ \A k \in DOMAIN Wanted(rows, desired) :
                 /\ Wanted(rows, desired)[k].login \notin LoginsOf(Manual(rows))
                 /\ \E i \in DOMAIN desired : Wanted(rows, desired)[k] = desired[i]
<1>1. PICK places : places = {i \in DOMAIN desired :
          /\ desired[i].login \notin LoginsOf(Manual(rows))
          /\ \A j \in 1..(i - 1) : desired[j].login # desired[i].login}
  OBVIOUS
<1>2. PICK w : w = Wanted(rows, desired)
  OBVIOUS
<1>3. w = KeptAt(desired, places)
  BY <1>1, <1>2 DEF Wanted
<1>4. w \in Seq(WantType)
  BY <1>1, <1>3, KeptAtIs
<1>5. PICK order : IsPick(order, w, desired, places)
  BY <1>1, <1>3, KeptAtIs
<1>6. DOMAIN w \subseteq Nat /\ DOMAIN desired = 1..Len(desired) /\ Len(desired) \in Nat
  BY <1>4, LenProperties
<1>7. \A k \in DOMAIN w : /\ order[k] \in places
                           /\ order[k] \in 1..Len(desired)
                           /\ w[k] = desired[order[k]]
  BY <1>1, <1>5, <1>6 DEF IsPick
<1>8. \A k, l \in DOMAIN w : k < l => w[k].login # w[l].login
  <2> SUFFICES ASSUME NEW k \in DOMAIN w, NEW l \in DOMAIN w, k < l
               PROVE  w[k].login # w[l].login
    OBVIOUS
  <2>1. order[k] < order[l]
    BY <1>5 DEF IsPick
  <2>2. order[k] \in 1..(order[l] - 1)
    BY <2>1, <1>6, <1>7
  <2> QED
    BY <1>1, <1>7, <2>2
<1>9. HasDistinctLogins(w)
  BY <1>6, <1>8 DEF HasDistinctLogins
<1>10. \A k \in DOMAIN w : /\ w[k].login \notin LoginsOf(Manual(rows))
                            /\ \E i \in DOMAIN desired : w[k] = desired[i]
  BY <1>1, <1>7
<1> QED
  BY <1>2, <1>4, <1>9, <1>10

\* A row of the watch list that reconcile() makes of rows.
IsMadeFor(row, rows, want) ==
    row = RowFor(rows, want) /\ row.login = want.login /\ row.owner = want.owner

\* The user's rows, and behind them one for each wanted channel.
LEMMA ReconcileParts ==
    ASSUME NEW rows \in Seq(RowType), NEW desired \in Seq(WantType)
    PROVE  \E made \in Seq(RowType) :
              /\ Reconcile(rows, desired) = Manual(rows) \o made
              /\ HasDistinctLogins(made)
              /\ \A k \in DOMAIN made :
                    /\ made[k].login \notin LoginsOf(Manual(rows))
                    /\ \E i \in DOMAIN desired : IsMadeFor(made[k], rows, desired[i])
<1>1. PICK w : w = Wanted(rows, desired)
  OBVIOUS
<1>2. /\ w \in Seq(WantType)
      /\ HasDistinctLogins(w)
      /\ \A k \in DOMAIN w : /\ w[k].login \notin LoginsOf(Manual(rows))
                              /\ \E i \in DOMAIN desired : w[k] = desired[i]
  BY <1>1, WantedIs
<1>3. PICK made : made = [k \in DOMAIN w |-> RowFor(rows, w[k])]
  OBVIOUS
<1>4. \A k \in DOMAIN w : made[k] \in RowType /\ IsMadeFor(made[k], rows, w[k])
  <2> SUFFICES ASSUME NEW k \in DOMAIN w
               PROVE  made[k] \in RowType /\ IsMadeFor(made[k], rows, w[k])
    OBVIOUS
  <2>1. w[k] \in WantType
    BY <1>2, ElementOfSeq, LenProperties
  <2> QED
    BY <1>3, <2>1, RowForIs DEF IsMadeFor
<1>5. made \in Seq(RowType) /\ DOMAIN made = DOMAIN w
  <2>1. Len(w) \in Nat /\ DOMAIN w = 1..Len(w)
    BY <1>2, LenProperties
  <2>2. made \in [1..Len(w) -> RowType]
    BY <1>3, <1>4, <2>1
  <2> QED
    BY <1>3, <2>1, <2>2, SeqDef
<1>6. Reconcile(rows, desired) = Manual(rows) \o made
  BY <1>1, <1>3 DEF Reconcile
<1>7. HasDistinctLogins(made)
  BY <1>2, <1>4, <1>5 DEF HasDistinctLogins, IsMadeFor
<1>8. \A k \in DOMAIN made :
          /\ made[k].login \notin LoginsOf(Manual(rows))
          /\ \E i \in DOMAIN desired : IsMadeFor(made[k], rows, desired[i])
  <2> SUFFICES ASSUME NEW k \in DOMAIN made
               PROVE  /\ made[k].login \notin LoginsOf(Manual(rows))
                      /\ \E i \in DOMAIN desired : IsMadeFor(made[k], rows, desired[i])
    OBVIOUS
  <2>1. IsMadeFor(made[k], rows, w[k]) /\ made[k].login = w[k].login
    BY <1>4, <1>5 DEF IsMadeFor
  <2> QED
    BY <1>2, <1>5, <2>1
<1> QED
  BY <1>5, <1>6, <1>7, <1>8

\* Every wanted channel is on the watch list afterwards.
LEMMA ReconcileKeepsWanted ==
    ASSUME NEW rows \in Seq(RowType), NEW desired \in Seq(WantType), NEW i \in DOMAIN desired
    PROVE  desired[i].login \in LoginsOf(Reconcile(rows, desired))
<1>1. PICK w, places, m, made :
        /\ w = Wanted(rows, desired)
        /\ places = {k \in DOMAIN desired :
             /\ desired[k].login \notin LoginsOf(Manual(rows))
             /\ \A j \in 1..(k - 1) : desired[j].login # desired[k].login}
        /\ m = Manual(rows)
        /\ made = [k \in DOMAIN w |-> RowFor(rows, w[k])]
  OBVIOUS
<1>2. w \in Seq(WantType) /\ \E order : IsPick(order, w, desired, places)
  <2>1. w = KeptAt(desired, places)
    BY <1>1 DEF Wanted
  <2> QED
    BY <1>1, <2>1, KeptAtIs
<1>3. PICK order : IsPick(order, w, desired, places)
  BY <1>2
<1>4. \A k \in DOMAIN w : made[k] \in RowType /\ made[k].login = w[k].login
  <2> SUFFICES ASSUME NEW k \in DOMAIN w
               PROVE  made[k] \in RowType /\ made[k].login = w[k].login
    OBVIOUS
  <2>1. w[k] \in WantType
    BY <1>2, Places
  <2> QED
    BY <1>1, <2>1, RowForIs
<1>5. made \in Seq(RowType) /\ DOMAIN made = DOMAIN w
  <2>1. made = [k \in DOMAIN w |-> made[k]]
    BY <1>1
  <2> QED
    BY <1>2, <1>4, <2>1, PlaceByPlace
<1>6. m \in Seq(RowType)
  BY <1>1, OwnedByIs DEF Manual
<1>7. PICK both : both = m \o made
  OBVIOUS
<1>8. IsJoin(both, m, made)
  BY <1>5, <1>6, <1>7, Concatenated
<1>9. LoginsOf(m) \subseteq LoginsOf(both) /\ LoginsOf(made) \subseteq LoginsOf(both)
  BY <1>8 DEF LoginsOf, IsJoin
<1>10. Reconcile(rows, desired) = both
  BY <1>1, <1>7 DEF Reconcile
<1>11. CASE desired[i].login \in LoginsOf(m)
  BY <1>9, <1>10, <1>11
<1>12. CASE desired[i].login \notin LoginsOf(m)
  <2>1. PICK same : same = {k \in DOMAIN desired : desired[k].login = desired[i].login}
    OBVIOUS
  <2>2. Len(desired) \in Nat /\ DOMAIN desired = 1..Len(desired)
    BY Places
  <2>3. IsFiniteSet(same) /\ same \subseteq Int /\ same # {}
    <3>1. same \in SUBSET DOMAIN desired
      BY <2>1
    <3> QED
      BY <2>1, <3>1, PlacesAre
  <2>4. PICK first \in same : \A j \in same : first <= j
    BY <2>3, LeastIsHeld
  <2>5. first \in places
    <3>1. first \in DOMAIN desired /\ desired[first].login = desired[i].login
      BY <2>1, <2>4
    <3>2. \A j \in 1..(first - 1) : desired[j].login # desired[first].login
      <4> SUFFICES ASSUME NEW j \in 1..(first - 1), desired[j].login = desired[first].login
                   PROVE  FALSE
        OBVIOUS
      <4>1. j \in DOMAIN desired /\ j < first
        BY <2>2, <3>1
      <4>2. j \in same
        BY <2>1, <3>1, <4>1
      <4> QED
        BY <2>2, <2>4, <3>1, <4>1, <4>2
    <3> QED
      BY <1>1, <1>12, <3>1, <3>2
  <2>6. PICK k \in DOMAIN w : order[k] = first
    BY <1>3, <2>5 DEF IsPick
  <2>7. w[k].login = desired[i].login
    BY <1>3, <2>1, <2>4, <2>6 DEF IsPick
  <2>8. desired[i].login \in LoginsOf(made)
    BY <1>4, <1>5, <2>6, <2>7 DEF LoginsOf
  <2> QED
    BY <1>9, <1>10, <2>8
<1> QED
  BY <1>11, <1>12

\* Reconciling distinct rows gives distinct rows, each the user's or wanted.
LEMMA ReconcileIs ==
    ASSUME NEW rows \in Seq(RowType), NEW desired \in Seq(WantType), HasDistinctLogins(rows)
    PROVE  /\ Reconcile(rows, desired) \in Seq(RowType)
           /\ HasDistinctLogins(Reconcile(rows, desired))
           /\ \A k \in DOMAIN Reconcile(rows, desired) :
                 \/ Reconcile(rows, desired)[k].owner = ByHand
                 \/ \E i \in DOMAIN desired :
                       Reconcile(rows, desired)[k].owner = desired[i].owner
<1>1. PICK made \in Seq(RowType) :
        /\ Reconcile(rows, desired) = Manual(rows) \o made
        /\ HasDistinctLogins(made)
        /\ \A k \in DOMAIN made :
              /\ made[k].login \notin LoginsOf(Manual(rows))
              /\ \E i \in DOMAIN desired : IsMadeFor(made[k], rows, desired[i])
  BY ReconcileParts
<1>2. PICK m, both : m = Manual(rows) /\ both = m \o made
  OBVIOUS
<1>3. /\ m \in Seq(RowType)
      /\ \E order : IsPick(order, m, rows, {i \in DOMAIN rows : rows[i].owner = ByHand})
  BY <1>2, OwnedByIs DEF Manual
<1>4. PICK order : IsPick(order, m, rows, {i \in DOMAIN rows : rows[i].owner = ByHand})
  BY <1>3
<1>5. both \in Seq(RowType) /\ IsJoin(both, m, made)
  BY <1>2, <1>3, Concatenated
<1>6. \A k \in DOMAIN m : m[k].owner = ByHand /\ m[k].login \in LoginsOf(m)
  BY <1>4 DEF IsPick, LoginsOf
<1>7. HasDistinctLogins(m)
  <2> SUFFICES ASSUME NEW k \in DOMAIN m, NEW l \in DOMAIN m, m[k].login = m[l].login
               PROVE  k = l
    BY DEF HasDistinctLogins
  <2>1. /\ order[k] \in DOMAIN rows /\ order[l] \in DOMAIN rows
        /\ order[k] = order[l]
    BY <1>4 DEF IsPick, HasDistinctLogins
  <2> QED
    BY <2>1, <1>4 DEF IsPick
<1>8. HasDistinctLogins(both)
  <2> SUFFICES ASSUME NEW k \in DOMAIN both, NEW l \in DOMAIN both,
                      both[k].login = both[l].login
               PROVE  k = l
    BY DEF HasDistinctLogins
  <2>5. \A n \in DOMAIN m : both[n].login \in LoginsOf(m)
    BY <1>5, <1>6 DEF IsJoin
  <2>6. \A a \in DOMAIN made : both[Len(m) + a] = made[a] /\ made[a].login \notin LoginsOf(m)
    BY <1>1, <1>2, <1>5 DEF IsJoin
  <2>1. CASE k \in DOMAIN m /\ l \in DOMAIN m
    BY <2>1, <1>5, <1>7 DEF HasDistinctLogins, IsJoin
  <2>2. CASE k \notin DOMAIN m /\ l \notin DOMAIN m
    <3>1. PICK a \in DOMAIN made, b \in DOMAIN made : k = Len(m) + a /\ l = Len(m) + b
      BY <2>2, <1>5 DEF IsJoin
    <3>2. made[a].login = made[b].login
      BY <3>1, <2>6
    <3> QED
      BY <3>1, <3>2, <1>1 DEF HasDistinctLogins
  <2>3. CASE k \in DOMAIN m /\ l \notin DOMAIN m
    <3>1. PICK a \in DOMAIN made : l = Len(m) + a
      BY <2>3, <1>5 DEF IsJoin
    <3> QED
      BY <2>3, <3>1, <2>5, <2>6
  <2>4. CASE k \notin DOMAIN m /\ l \in DOMAIN m
    <3>1. PICK a \in DOMAIN made : k = Len(m) + a
      BY <2>4, <1>5 DEF IsJoin
    <3> QED
      BY <2>4, <3>1, <2>5, <2>6
  <2> QED
    BY <2>1, <2>2, <2>3, <2>4
<1>9. \A k \in DOMAIN both : \/ both[k].owner = ByHand
                             \/ \E i \in DOMAIN desired : both[k].owner = desired[i].owner
  <2> SUFFICES ASSUME NEW k \in DOMAIN both, k \notin DOMAIN m
               PROVE  \E i \in DOMAIN desired : both[k].owner = desired[i].owner
    BY <1>5, <1>6 DEF IsJoin
  <2>1. PICK a \in DOMAIN made : both[k] = made[a]
    BY <1>5 DEF IsJoin
  <2> QED
    BY <2>1, <1>1 DEF IsMadeFor
<1> QED
  BY <1>1, <1>2, <1>5, <1>8, <1>9

\* Reconciling leaves the user's own rows alone.
LEMMA ReconcileKeepsManual ==
    ASSUME NEW rows \in Seq(RowType), NEW desired \in Seq(WantType),
           \A i \in DOMAIN desired : desired[i].owner # ByHand
    PROVE  Manual(Reconcile(rows, desired)) = Manual(rows)
<1>1. PICK made \in Seq(RowType) :
        /\ Reconcile(rows, desired) = Manual(rows) \o made
        /\ \A k \in DOMAIN made :
              \E i \in DOMAIN desired : IsMadeFor(made[k], rows, desired[i])
  BY ReconcileParts
<1>2. PICK m, both : m = Manual(rows) /\ both = m \o made
  OBVIOUS
<1>3. /\ m \in Seq(RowType)
      /\ \E order : IsPick(order, m, rows, {i \in DOMAIN rows : rows[i].owner = ByHand})
  BY <1>2, OwnedByIs DEF Manual
<1>4. both \in Seq(RowType) /\ IsJoin(both, m, made)
  BY <1>2, <1>3, Concatenated
<1>5. \A k \in DOMAIN m : m[k].owner = ByHand
  BY <1>3 DEF IsPick
<1>6. \A k \in DOMAIN made : made[k].owner # ByHand
  BY <1>1 DEF IsMadeFor
<1>7. {k \in DOMAIN both : both[k].owner = ByHand} = 1..Len(m)
  <2>1. \A k \in DOMAIN both : both[k].owner = ByHand => k \in 1..Len(m)
    BY <1>4, <1>6 DEF IsJoin
  <2>2. \A k \in 1..Len(m) : k \in DOMAIN both /\ both[k].owner = ByHand
    BY <1>4, <1>5 DEF IsJoin
  <2>3. DOMAIN both \subseteq Int
    BY <1>4, LenProperties
  <2> QED
    BY <2>1, <2>2
<1>8. KeptAt(both, 1..Len(m)) = m
  <2>1. Len(m) <= Len(both) /\ \A k \in 1..Len(m) : both[k] = m[k]
    BY <1>4 DEF IsJoin
  <2> QED
    BY <2>1, <1>3, <1>4, KeptAtStart
<1> QED
  BY <1>1, <1>2, <1>7, <1>8 DEF Manual, OwnedBy

\* differs() sees every change that reconcile() makes.
LEMMA ReconcileSettles ==
    ASSUME NEW rows \in Seq(RowType), NEW desired \in Seq(WantType), HasDistinctLogins(rows),
           ~Differs(rows, Reconcile(rows, desired))
    PROVE  Reconcile(rows, desired) = rows
<1>1. PICK made \in Seq(RowType) :
        /\ Reconcile(rows, desired) = Manual(rows) \o made
        /\ \A k \in DOMAIN made :
              /\ made[k].login \notin LoginsOf(Manual(rows))
              /\ \E i \in DOMAIN desired : IsMadeFor(made[k], rows, desired[i])
  BY ReconcileParts
<1>2. PICK m, both : m = Manual(rows) /\ both = m \o made
  OBVIOUS
<1>3. /\ m \in Seq(RowType)
      /\ \E order : IsPick(order, m, rows, {i \in DOMAIN rows : rows[i].owner = ByHand})
  BY <1>2, OwnedByIs DEF Manual
<1>4. PICK order : IsPick(order, m, rows, {i \in DOMAIN rows : rows[i].owner = ByHand})
  BY <1>3
<1>5. both \in Seq(RowType) /\ IsJoin(both, m, made)
  BY <1>2, <1>3, Concatenated
<1>6. /\ DOMAIN both = DOMAIN rows
      /\ \A k \in DOMAIN rows : both[k].login = rows[k].login /\ both[k].owner = rows[k].owner
  <2>1. [k \in DOMAIN rows |-> <<rows[k].login, rows[k].owner>>] =
            [k \in DOMAIN both |-> <<both[k].login, both[k].owner>>]
    BY <1>1, <1>2 DEF Differs
  <2>2. DOMAIN rows = DOMAIN both
    BY <2>1
  <2>3. \A k \in DOMAIN rows : <<rows[k].login, rows[k].owner>> = <<both[k].login, both[k].owner>>
    BY <2>1, <2>2
  <2> QED
    BY <2>2, <2>3
<1>7. \A k \in DOMAIN rows : both[k] = rows[k]
  <2> SUFFICES ASSUME NEW k \in DOMAIN rows
               PROVE  both[k] = rows[k]
    OBVIOUS
  <2>1. CASE k \in DOMAIN m
    <3>1. both[k] = rows[order[k]] /\ order[k] \in DOMAIN rows
      BY <2>1, <1>4, <1>5 DEF IsPick, IsJoin
    <3> QED
      BY <3>1, <1>6 DEF HasDistinctLogins
  <2>2. CASE k \notin DOMAIN m
    <3>1. PICK l \in DOMAIN made : both[k] = made[l]
      BY <2>2, <1>5, <1>6 DEF IsJoin
    <3>2. PICK i \in DOMAIN desired : IsMadeFor(made[l], rows, desired[i])
      BY <1>1
    <3>3. /\ desired[i].login = rows[k].login /\ desired[i].owner = rows[k].owner
          /\ both[k] = RowFor(rows, desired[i])
      BY <3>1, <3>2, <1>6 DEF IsMadeFor
    <3>4. rows[k].owner # ByHand
      <4> SUFFICES ASSUME rows[k].owner = ByHand
                   PROVE  rows[k].login \in LoginsOf(m)
        BY <3>1, <1>1, <1>2, <1>6
      <4>1. PICK n \in DOMAIN m : order[n] = k
        BY <1>4 DEF IsPick
      <4> QED
        BY <4>1, <1>4 DEF IsPick, LoginsOf
    <3>5. {n \in DOMAIN rows : /\ rows[n].owner # ByHand
                               /\ rows[n].login = desired[i].login} = {k}
      BY <3>3, <3>4 DEF HasDistinctLogins
    <3>6. RowFor(rows, desired[i]) = [rows[k] EXCEPT !.owner = desired[i].owner]
      BY <3>5 DEF RowFor
    <3>7. rows[k] \in RowType
      BY ElementOfSeq, LenProperties
    <3> QED
      BY <3>3, <3>6, <3>7 DEF RowType
  <2> QED
    BY <2>1, <2>2
<1>8. both = rows
  <2>1. /\ both = [k \in DOMAIN both |-> both[k]]
        /\ rows = [k \in DOMAIN rows |-> rows[k]]
    BY <1>5, LenProperties
  <2> QED
    BY <2>1, <1>6, <1>7
<1> QED
  BY <1>1, <1>2, <1>8

-----------------------------------------------------------------------------
(* The channels a pass wants.                                              *)

\* A ranking is a sequence of what it ranks.
LEMMA RankedIs ==
    ASSUME Parameters, NEW S \in SUBSET Channels
    PROVE  RankDirectory(S) \in Seq(Channels)
<1>1. IsFiniteSet(S) /\ S \subseteq Int
  <2>1. IsFiniteSet(Channels) /\ Channels \subseteq Nat
    BY DEF Parameters
  <2>2. IsFiniteSet(S)
    BY <2>1, FS_Subset
  <2>3. S \subseteq Int
    BY <2>1
  <2> QED
    BY <2>2, <2>3
<1>2. PICK n, a : n = Cardinality(S) /\ a = RankDirectory(S)
  OBVIOUS
<1>3. n \in Nat /\ a \in [1..n -> S]
  BY <1>1, <1>2, AscendingIs DEF RankDirectory
<1>4. a \in [1..n -> Channels]
  BY <1>3
<1> QED
  BY <1>2, <1>3, <1>4, SeqDef

LEMMA FirstOfIs ==
    ASSUME NEW T, NEW s \in Seq(T), NEW n \in Nat
    PROVE  FirstOf(s, n) \in Seq(T)
<1>1. Len(s) \in Nat /\ \A i \in 1..Len(s) : s[i] \in T
  BY LenProperties, ElementOfSeq
<1>2. PICK m : m = LeastOf(n, Len(s))
  OBVIOUS
<1>3. m \in Nat /\ m <= Len(s)
  BY <1>1, <1>2 DEF LeastOf
<1>4. \A i \in 1..m : s[i] \in T
  BY <1>1, <1>3
<1>5. SubSeq(s, 1, m) \in Seq(T)
  BY <1>3, <1>4, SubSeqProperties
<1> QED
  BY <1>2, <1>5 DEF FirstOf

\* A rebuilt pool holds channels of the directory.
LEMMA RebuiltIs ==
    ASSUME Parameters, NEW sub \in SubType, NEW live \in SUBSET Channels,
           NEW exclude, NEW readable
    PROVE  Rebuilt(sub, live, exclude, readable) \in Seq(Channels)
<1>1. PICK checked, confirmed, open :
        /\ checked = Checked(live, exclude, readable)
        /\ confirmed = {c \in checked : sub.target \in Running[c]}
        /\ open = IF live \subseteq exclude THEN live ELSE live \ exclude
  OBVIOUS
<1>2. checked \in SUBSET Channels
  <2>1. RankDirectory(live \ exclude) \in Seq(Channels)
    BY RankedIs
  <2>2. PICK first : first = FirstOf(RankDirectory(live \ exclude), CheckLimit)
    OBVIOUS
  <2>3. first \in Seq(Channels)
    BY <2>1, <2>2, FirstOfIs DEF Parameters
  <2>4. \A i \in DOMAIN first : first[i] \in Channels
    BY <2>3, LenProperties, ElementOfSeq
  <2>5. checked = ToSet(first) \cap readable
    BY <1>1, <2>2 DEF Checked
  <2> QED
    BY <2>4, <2>5 DEF ToSet
<1>3. confirmed \in SUBSET Channels /\ open \in SUBSET Channels
  BY <1>1, <1>2
<1>4. PICK ranked : ranked = IF confirmed = {} THEN RankDirectory(open)
                            ELSE RankDirectory(confirmed) \o RankDirectory(open \ checked)
  OBVIOUS
<1>5. ranked \in Seq(Channels)
  <2>1. /\ RankDirectory(open) \in Seq(Channels)
        /\ RankDirectory(confirmed) \in Seq(Channels)
        /\ RankDirectory(open \ checked) \in Seq(Channels)
    BY <1>3, RankedIs
  <2>2. RankDirectory(confirmed) \o RankDirectory(open \ checked) \in Seq(Channels)
    BY <2>1, ConcatProperties
  <2> QED
    BY <1>4, <2>1, <2>2
<1>6. sub.pool \in Nat
  BY DEF SubType
<1>7. FirstOf(ranked, sub.pool) \in Seq(Channels)
  BY <1>5, <1>6, FirstOfIs
<1>8. Rebuilt(sub, live, exclude, readable) = FirstOf(ranked, sub.pool)
  BY <1>1, <1>4 DEF Rebuilt
<1> QED
  BY <1>7, <1>8

LEMMA IncumbentsAre ==
    ASSUME NEW rows \in Seq(RowType), NEW id
    PROVE  Incumbents(rows, id) \in Seq(Channels)
<1>1. PICK mine : mine = OwnedBy(rows, id)
  OBVIOUS
<1>2. mine \in Seq(RowType)
  BY <1>1, OwnedByIs
<1>3. Len(mine) \in Nat /\ DOMAIN mine = 1..Len(mine)
  BY <1>2, LenProperties
<1>4. \A i \in DOMAIN mine : mine[i].login \in Channels
  <2>1. \A i \in DOMAIN mine : mine[i] \in RowType
    BY <1>2, <1>3, ElementOfSeq
  <2> QED
    BY <2>1 DEF RowType
<1>5. [i \in DOMAIN mine |-> mine[i].login] \in [1..Len(mine) -> Channels]
  BY <1>3, <1>4
<1> QED
  BY <1>1, <1>3, <1>5, SeqDef DEF Incumbents

\* The channels a pass gives a subscription, whichever way it finds them.
LEMMA ChannelsAre ==
    ASSUME Parameters, NEW sub \in SubType, NEW pass, pass.view \in ConfigType,
           NEW answer \in Answers
    PROVE  ChannelsOf(sub, pass, answer) \in Seq(Channels)
<1>1. pass.view.rows \in Seq(RowType)
  BY DEF ConfigType
<1>2. Incumbents(pass.view.rows, sub.id) \in Seq(Channels)
  BY <1>1, IncumbentsAre
<1>3. Directory(sub, pass, answer) \in SUBSET Channels
  BY DEF Parameters, SubType, Answers, Directory, Watchable
<1>4. Rebuilt(sub, Directory(sub, pass, answer), PassedOver(sub, pass, answer),
              answer.readable) \in Seq(Channels)
  BY <1>3, RebuiltIs
<1> QED
  BY <1>2, <1>4 DEF ChannelsOf

\* Subscriptions in rank order, each a subscription of the config.
LEMMA InRankOrderIs ==
    ASSUME NEW subs \in Seq(SubType)
    PROVE  InRankOrder(subs) \in Seq(SubType)
<1>1. PICK triples : triples = {<<subs[i].rank, i, subs[i]>> : i \in DOMAIN subs}
  OBVIOUS
<1>2. Len(subs) \in Nat /\ DOMAIN subs = 1..Len(subs) /\ \A i \in DOMAIN subs : subs[i] \in SubType
  BY LenProperties, ElementOfSeq
<1>3. IsFiniteSet(triples)
  <2>1. PICK f : f = [i \in DOMAIN subs |-> <<subs[i].rank, i, subs[i]>>]
    OBVIOUS
  <2>2. IsFiniteSet({f[i] : i \in DOMAIN subs})
    BY <1>2, PlacesOfN, FiniteImage
  <2>3. {f[i] : i \in DOMAIN subs} = triples
    BY <1>1, <2>1
  <2> QED
    BY <2>2, <2>3
<1>4. triples \subseteq Int \X Int \X SubType
  BY <1>1, <1>2 DEF SubType
<1>5. AreTriples(triples, SubType)
  BY <1>1, <1>3, <1>4 DEF AreTriples
<1> QED
  BY <1>1, <1>5, ListingIs DEF InRankOrder

\* What a pass wants is channels, each for a subscription it serves.
LEMMA DesiredIs ==
    ASSUME Parameters, NEW pass, pass.view \in ConfigType, NEW answer \in Answers
    PROVE  /\ Desired(pass, answer) \in Seq(WantType)
           /\ \A k \in DOMAIN Served(pass) :
              \A i \in DOMAIN ChannelsOf(Served(pass)[k], pass, answer) :
              \E n \in DOMAIN Desired(pass, answer) :
                 Desired(pass, answer)[n] = [login |-> ChannelsOf(Served(pass)[k], pass, answer)[i],
                                             owner |-> Served(pass)[k].id]
           /\ \A n \in DOMAIN Desired(pass, answer) :
              \E k \in DOMAIN Served(pass) :
              \E i \in DOMAIN ChannelsOf(Served(pass)[k], pass, answer) :
                 Desired(pass, answer)[n] = [login |-> ChannelsOf(Served(pass)[k], pass, answer)[i],
                                             owner |-> Served(pass)[k].id]
<1>1. PICK served : served = Served(pass)
  OBVIOUS
<1>2. served \in Seq(SubType)
  <2>1. InRankOrder(pass.view.subs) \in Seq(SubType)
    BY InRankOrderIs DEF ConfigType
  <2> QED
    BY <1>1, <2>1, KeptAtIs DEF Served
<1>3. Len(served) \in Nat /\ DOMAIN served = 1..Len(served) /\ \A k \in DOMAIN served : served[k] \in SubType
  BY <1>2, LenProperties, ElementOfSeq
<1>4. PICK channels, wants :
        /\ channels = [k \in DOMAIN served |-> ChannelsOf(served[k], pass, answer)]
        /\ wants = [k \in DOMAIN served |-> Wants(served[k], k, pass, answer)]
  OBVIOUS
<1>5. \A k \in DOMAIN served : /\ channels[k] \in Seq(Channels)
                               /\ Len(channels[k]) \in Nat
                               /\ DOMAIN channels[k] = 1..Len(channels[k])
                               /\ \A i \in DOMAIN channels[k] : channels[k][i] \in Channels
  BY <1>3, <1>4, ChannelsAre, LenProperties, ElementOfSeq
<1>6. \A k \in DOMAIN served :
          wants[k] = {<<k, i, [login |-> channels[k][i], owner |-> served[k].id]>> :
                         i \in DOMAIN channels[k]}
  BY <1>4 DEF Wants
<1>7. PICK triples : triples = UNION {wants[k] : k \in DOMAIN served}
  OBVIOUS
<1>8. IsFiniteSet(triples)
  <2>1. \A k \in DOMAIN served : IsFiniteSet(wants[k])
    <3> SUFFICES ASSUME NEW k \in DOMAIN served
                 PROVE  IsFiniteSet(wants[k])
      OBVIOUS
    <3>1. PICK places, f :
            /\ places = DOMAIN channels[k]
            /\ f = [i \in places |-> <<k, i, [login |-> channels[k][i], owner |-> served[k].id]>>]
      OBVIOUS
    <3>2. IsFiniteSet(places)
      BY <3>1, <1>5, PlacesOfN
    <3>3. IsFiniteSet({f[i] : i \in places})
      BY <3>2, FiniteImage
    <3>4. {f[i] : i \in places} = wants[k]
      BY <3>1, <1>6
    <3> QED
      BY <3>3, <3>4
  <2>2. IsFiniteSet({wants[k] : k \in DOMAIN served})
    BY <1>3, PlacesOfN, FiniteImage
  <2> QED
    BY <1>7, <2>1, <2>2, FS_UNION
<1>9. \A t \in triples : \E k \in DOMAIN served : \E i \in DOMAIN channels[k] :
          t = <<k, i, [login |-> channels[k][i], owner |-> served[k].id]>>
  BY <1>6, <1>7
<1>10. triples \subseteq Int \X Int \X WantType
  <2> SUFFICES ASSUME NEW t \in triples
               PROVE  t \in Int \X Int \X WantType
    OBVIOUS
  <2>1. PICK k \in DOMAIN served : \E i \in DOMAIN channels[k] :
          t = <<k, i, [login |-> channels[k][i], owner |-> served[k].id]>>
    BY <1>9
  <2>2. PICK i \in DOMAIN channels[k] :
          t = <<k, i, [login |-> channels[k][i], owner |-> served[k].id]>>
    BY <2>1
  <2>3. k \in Int /\ i \in Int /\ channels[k][i] \in Channels /\ served[k].id \in Ids
    BY <1>3, <1>5 DEF SubType
  <2> QED
    BY <2>2, <2>3 DEF WantType
<1>11. \A t, u \in triples : t[1] = u[1] /\ t[2] = u[2] => t = u
  BY <1>9
<1>12. AreTriples(triples, WantType)
  BY <1>8, <1>10, <1>11 DEF AreTriples
<1>13. Desired(pass, answer) = Listing(triples)
  <2>1. {wants[k] : k \in DOMAIN served} = {Wants(served[k], k, pass, answer) : k \in DOMAIN served}
    BY <1>4
  <2> QED
    BY <1>1, <1>7, <2>1 DEF Desired
<1>14. PICK desired : desired = Listing(triples)
  OBVIOUS
<1>15. desired \in Seq(WantType) /\ \E of : IsListing(of, desired, triples)
  BY <1>12, <1>14, ListingIs
<1>16. PICK of : IsListing(of, desired, triples)
  BY <1>15
<1>17. ASSUME NEW k \in DOMAIN served, NEW i \in DOMAIN channels[k]
       PROVE  \E n \in DOMAIN desired :
                 desired[n] = [login |-> channels[k][i], owner |-> served[k].id]
  <2>1. PICK t : t = <<k, i, [login |-> channels[k][i], owner |-> served[k].id]>>
    OBVIOUS
  <2>2. t \in triples
    BY <1>6, <1>7, <1>17, <2>1
  <2>3. PICK n \in DOMAIN desired : of[n] = t
    BY <1>16, <2>2 DEF IsListing
  <2>4. desired[n] = t[3]
    BY <1>16, <2>3 DEF IsListing
  <2> QED
    BY <2>1, <2>4
<1>18. ASSUME NEW n \in DOMAIN desired
       PROVE  \E k \in DOMAIN served : \E i \in DOMAIN channels[k] :
                 desired[n] = [login |-> channels[k][i], owner |-> served[k].id]
  <2>1. of[n] \in triples /\ desired[n] = of[n][3]
    BY <1>16 DEF IsListing
  <2>2. PICK k \in DOMAIN served : \E i \in DOMAIN channels[k] :
          of[n] = <<k, i, [login |-> channels[k][i], owner |-> served[k].id]>>
    BY <1>9, <2>1
  <2> QED
    BY <2>1, <2>2
<1> QED
  BY <1>1, <1>4, <1>13, <1>14, <1>15, <1>17, <1>18

-----------------------------------------------------------------------------
(* Configs.                                                                *)

HasDistinctSubs(subs) ==
    \A i, j \in DOMAIN subs :
        subs[i].id = subs[j].id \/ subs[i].target = subs[j].target => i = j

HasDistinctGames(games) == \A i, j \in DOMAIN games : games[i].game = games[j].game => i = j

IsGood(c) == c \in ConfigType /\ IsSound(c)

\* A sound config, field by field.
LEMMA GoodFields ==
    ASSUME NEW c, IsGood(c)
    PROVE  /\ c.subs \in Seq(SubType) /\ c.rows \in Seq(RowType)
           /\ c.followed \in Seq(GameType) /\ c.queue \in BOOLEAN
           /\ HasDistinctSubs(c.subs) /\ HasDistinctLogins(c.rows)
           /\ HasDistinctGames(c.followed) /\ Owners(c.rows) \subseteq SubIds(c.subs)
<1>1. c \in ConfigType
  BY DEF IsGood
<1>2. /\ HasDistinctSubs(c.subs) /\ HasDistinctLogins(c.rows)
      /\ HasDistinctGames(c.followed) /\ Owners(c.rows) \subseteq SubIds(c.subs)
  BY DEF IsGood, IsSound, IsValid, HasNoOrphan, HasDistinctSubs, HasDistinctLogins,
         HasDistinctGames
<1> QED
  BY <1>1, <1>2 DEF ConfigType

LEMMA GoodParts ==
    ASSUME NEW c, IsGood(c)
    PROVE  c = [subs |-> c.subs, rows |-> c.rows, followed |-> c.followed, queue |-> c.queue]
<1>1. c \in ConfigType
  BY DEF IsGood
<1> QED
  BY <1>1 DEF ConfigType

LEMMA GoodIs ==
    ASSUME NEW subs \in Seq(SubType), NEW rows \in Seq(RowType),
           NEW followed \in Seq(GameType), NEW queue \in BOOLEAN,
           HasDistinctSubs(subs), HasDistinctLogins(rows), HasDistinctGames(followed),
           Owners(rows) \subseteq SubIds(subs)
    PROVE  IsGood([subs |-> subs, rows |-> rows, followed |-> followed, queue |-> queue])
<1>1. PICK c : c = [subs |-> subs, rows |-> rows, followed |-> followed, queue |-> queue]
  OBVIOUS
<1>2. c \in ConfigType
  BY <1>1 DEF ConfigType
<1>3. IsSound(c)
  BY <1>1 DEF IsSound, IsValid, HasNoOrphan, HasDistinctSubs, HasDistinctLogins,
         HasDistinctGames
<1> QED
  BY <1>1, <1>2, <1>3 DEF IsGood

\* What a filter keeps is as distinct as it was.
LEMMA KeptSubs ==
    ASSUME NEW subs \in Seq(SubType), HasDistinctSubs(subs), NEW places \in SUBSET DOMAIN subs
    PROVE  /\ KeptAt(subs, places) \in Seq(SubType)
           /\ HasDistinctSubs(KeptAt(subs, places))
           /\ SubIds(KeptAt(subs, places)) = {subs[i].id : i \in places}
           /\ \A k \in DOMAIN KeptAt(subs, places) :
                 \E i \in places : KeptAt(subs, places)[k] = subs[i]
<1>1. PICK t : t = KeptAt(subs, places)
  OBVIOUS
<1>2. t \in Seq(SubType) /\ \E order : IsPick(order, t, subs, places)
  BY <1>1, KeptAtIs
<1>3. PICK order : IsPick(order, t, subs, places)
  BY <1>2
<1>4. HasDistinctSubs(t)
  BY <1>3 DEF IsPick, HasDistinctSubs
<1>5. SubIds(t) = {subs[i].id : i \in places}
  BY <1>3 DEF IsPick, SubIds
<1>6. \A k \in DOMAIN t : \E i \in places : t[k] = subs[i]
  BY <1>3 DEF IsPick
<1> QED
  BY <1>1, <1>2, <1>4, <1>5, <1>6

LEMMA KeptRows ==
    ASSUME NEW rows \in Seq(RowType), HasDistinctLogins(rows), NEW places \in SUBSET DOMAIN rows
    PROVE  /\ KeptAt(rows, places) \in Seq(RowType)
           /\ HasDistinctLogins(KeptAt(rows, places))
           /\ Owners(KeptAt(rows, places)) = {rows[i].owner : i \in places} \ {ByHand}
<1>1. PICK t : t = KeptAt(rows, places)
  OBVIOUS
<1>2. t \in Seq(RowType) /\ \E order : IsPick(order, t, rows, places)
  BY <1>1, KeptAtIs
<1>3. PICK order : IsPick(order, t, rows, places)
  BY <1>2
<1>4. HasDistinctLogins(t)
  BY <1>3 DEF IsPick, HasDistinctLogins
<1>5. Owners(t) = {rows[i].owner : i \in places} \ {ByHand}
  BY <1>3 DEF IsPick, Owners
<1> QED
  BY <1>1, <1>2, <1>4, <1>5

LEMMA KeptGames ==
    ASSUME NEW games \in Seq(GameType), HasDistinctGames(games), NEW places \in SUBSET DOMAIN games
    PROVE  /\ KeptAt(games, places) \in Seq(GameType)
           /\ HasDistinctGames(KeptAt(games, places))
<1>1. PICK t : t = KeptAt(games, places)
  OBVIOUS
<1>2. t \in Seq(GameType) /\ \E order : IsPick(order, t, games, places)
  BY <1>1, KeptAtIs
<1>3. PICK order : IsPick(order, t, games, places)
  BY <1>2
<1>4. HasDistinctGames(t)
  BY <1>3 DEF IsPick, HasDistinctGames
<1> QED
  BY <1>1, <1>2, <1>4

\* New ranks or pool sizes leave a config sound.
LEMMA SameSubs ==
    ASSUME NEW c, IsGood(c), NEW subs \in Seq(SubType), DOMAIN subs = DOMAIN c.subs,
           \A i \in DOMAIN subs : /\ subs[i].id = c.subs[i].id
                                  /\ subs[i].target = c.subs[i].target
    PROVE  IsGood([c EXCEPT !.subs = subs]) /\ SubIds(subs) = SubIds(c.subs)
<1>1. SubIds(subs) = SubIds(c.subs)
  BY DEF SubIds
<1>2. HasDistinctSubs(subs)
  BY GoodFields DEF HasDistinctSubs
<1>3. [c EXCEPT !.subs = subs] =
          [subs |-> subs, rows |-> c.rows, followed |-> c.followed, queue |-> c.queue]
  BY GoodParts
<1>4. IsGood([subs |-> subs, rows |-> c.rows, followed |-> c.followed, queue |-> c.queue])
  <2>1. /\ c.rows \in Seq(RowType) /\ c.followed \in Seq(GameType) /\ c.queue \in BOOLEAN
        /\ HasDistinctLogins(c.rows) /\ HasDistinctGames(c.followed)
        /\ Owners(c.rows) \subseteq SubIds(subs)
    BY <1>1, GoodFields
  <2> QED
    BY <2>1, <1>2, GoodIs
<1> QED
  BY <1>1, <1>3, <1>4

\* So do changes of a followed game that leave which game it is.
LEMMA SameGames ==
    ASSUME NEW c, IsGood(c), NEW games \in Seq(GameType), DOMAIN games = DOMAIN c.followed,
           \A g \in DOMAIN games : games[g].game = c.followed[g].game
    PROVE  IsGood([c EXCEPT !.followed = games]) /\ HasDistinctGames(games)
<1>1. HasDistinctGames(games)
  BY GoodFields DEF HasDistinctGames
<1>2. [c EXCEPT !.followed = games] =
          [subs |-> c.subs, rows |-> c.rows, followed |-> games, queue |-> c.queue]
  BY GoodParts
<1>3. IsGood([subs |-> c.subs, rows |-> c.rows, followed |-> games, queue |-> c.queue])
  <2>1. /\ c.subs \in Seq(SubType) /\ c.rows \in Seq(RowType) /\ c.queue \in BOOLEAN
        /\ HasDistinctSubs(c.subs) /\ HasDistinctLogins(c.rows)
        /\ Owners(c.rows) \subseteq SubIds(c.subs)
    BY GoodFields
  <2> QED
    BY <2>1, <1>1, GoodIs
<1> QED
  BY <1>1, <1>2, <1>3

\* recordSkipped() changes what the games skip, and by campaigns only.
LEMMA RecordSkippedIs ==
    ASSUME NEW games \in Seq(GameType), NEW leaving \in SUBSET SubType, NEW known
    PROVE  /\ RecordSkipped(games, leaving, known) \in Seq(GameType)
           /\ DOMAIN RecordSkipped(games, leaving, known) = DOMAIN games
           /\ \A g \in DOMAIN games :
                 RecordSkipped(games, leaving, known)[g].game = games[g].game
<1>1. PICK after, of :
        /\ after = RecordSkipped(games, leaving, known)
        /\ of = [g \in DOMAIN games |->
                   {s.target : s \in {l \in leaving :
                      \/ l.via = games[g].game
                      \/ /\ l.via = ByHand
                         /\ l.target \in known
                         /\ GameOf[l.target] = games[g].game}}]
  OBVIOUS
<1>2. after = [g \in DOMAIN games |-> [games[g] EXCEPT !.skipped = @ \cup of[g]]]
  BY <1>1 DEF RecordSkipped
<1>3. \A g \in DOMAIN games : games[g] \in GameType
  BY Places
<1>4. \A g \in DOMAIN games : of[g] \in SUBSET Campaigns
  BY <1>1 DEF SubType
<1>5. \A g \in DOMAIN games : after[g] \in GameType /\ after[g].game = games[g].game
  BY <1>2, <1>3, <1>4 DEF GameType
<1>6. after \in Seq(GameType) /\ DOMAIN after = DOMAIN games
  BY <1>2, <1>5, PlaceByPlace
<1> QED
  BY <1>1, <1>5, <1>6

-----------------------------------------------------------------------------
(* What each route saves.                                                  *)

\* d is sound, and has no subscription that c does not have.
IsEditOf(d, c) == IsGood(d) /\ SubIds(d.subs) \subseteq SubIds(c.subs)

LEMMA ReorderedIsGood ==
    ASSUME NEW c, IsGood(c), NEW rankOf \in [SubIds(c.subs) -> 0..(Len(c.subs) - 1)]
    PROVE  /\ IsEditOf([c EXCEPT !.subs =
                          [i \in DOMAIN @ |-> [@[i] EXCEPT !.rank = rankOf[c.subs[i].id]]]], c)
           /\ [c EXCEPT !.subs =
                [i \in DOMAIN @ |-> [@[i] EXCEPT !.rank = rankOf[c.subs[i].id]]]].rows = c.rows
<1>1. PICK subs : subs = [i \in DOMAIN c.subs |->
                            [c.subs[i] EXCEPT !.rank = rankOf[c.subs[i].id]]]
  OBVIOUS
<1>2. c.subs \in Seq(SubType)
  BY GoodFields
<1>3. /\ Len(c.subs) \in Nat
      /\ \A i \in DOMAIN c.subs : c.subs[i] \in SubType
  BY <1>2, Places
<1>4. \A i \in DOMAIN c.subs : rankOf[c.subs[i].id] \in Nat
  BY <1>3 DEF SubIds
<1>5. \A i \in DOMAIN c.subs : /\ subs[i] \in SubType
                               /\ subs[i].id = c.subs[i].id
                               /\ subs[i].target = c.subs[i].target
  BY <1>1, <1>3, <1>4 DEF SubType
<1>6. subs \in Seq(SubType) /\ DOMAIN subs = DOMAIN c.subs
  <2>1. subs = [i \in DOMAIN c.subs |-> subs[i]]
    BY <1>1
  <2> QED
    BY <2>1, <1>2, <1>5, PlaceByPlace
<1>7. IsGood([c EXCEPT !.subs = subs]) /\ SubIds(subs) = SubIds(c.subs)
  BY <1>5, <1>6, SameSubs
<1>8. [c EXCEPT !.subs = subs].subs = subs /\ [c EXCEPT !.subs = subs].rows = c.rows
  BY GoodParts
<1> QED
  BY <1>1, <1>7, <1>8 DEF IsEditOf

LEMMA ResizedIsGood ==
    ASSUME NEW c, IsGood(c), NEW id, NEW n \in Nat
    PROVE  /\ IsEditOf([c EXCEPT !.subs =
                 [i \in DOMAIN @ |->
                     IF @[i].id = id THEN [@[i] EXCEPT !.pool = n] ELSE @[i]]], c)
           /\ [c EXCEPT !.subs =
                 [i \in DOMAIN @ |->
                     IF @[i].id = id THEN [@[i] EXCEPT !.pool = n] ELSE @[i]]].rows = c.rows
<1>1. PICK subs : subs = [i \in DOMAIN c.subs |->
                            IF c.subs[i].id = id THEN [c.subs[i] EXCEPT !.pool = n]
                            ELSE c.subs[i]]
  OBVIOUS
<1>2. c.subs \in Seq(SubType)
  BY GoodFields
<1>3. \A i \in DOMAIN c.subs : c.subs[i] \in SubType
  BY <1>2, Places
<1>5. \A i \in DOMAIN c.subs : /\ subs[i] \in SubType
                               /\ subs[i].id = c.subs[i].id
                               /\ subs[i].target = c.subs[i].target
  <2> SUFFICES ASSUME NEW i \in DOMAIN c.subs
               PROVE  /\ subs[i] \in SubType
                      /\ subs[i].id = c.subs[i].id
                      /\ subs[i].target = c.subs[i].target
    OBVIOUS
  <2>1. subs[i] = c.subs[i] \/ subs[i] = [c.subs[i] EXCEPT !.pool = n]
    BY <1>1
  <2> QED
    BY <2>1, <1>3 DEF SubType
<1>6. subs \in Seq(SubType) /\ DOMAIN subs = DOMAIN c.subs
  <2>1. subs = [i \in DOMAIN c.subs |-> subs[i]]
    BY <1>1
  <2> QED
    BY <2>1, <1>2, <1>5, PlaceByPlace
<1>7. IsGood([c EXCEPT !.subs = subs]) /\ SubIds(subs) = SubIds(c.subs)
  BY <1>5, <1>6, SameSubs
<1>8. [c EXCEPT !.subs = subs].subs = subs /\ [c EXCEPT !.subs = subs].rows = c.rows
  BY GoodParts
<1> QED
  BY <1>1, <1>7, <1>8 DEF IsEditOf

\* A removal takes the subscription and its channels together.
LEMMA RemovedIsGood ==
    ASSUME NEW c, IsGood(c), NEW id \in Ids
    PROVE  /\ IsEditOf(Removed(c, id), c)
           /\ id \notin Owners(c.rows) => Removed(c, id).rows = c.rows
<1>1. PICK subs, rows, followed, left :
        /\ subs = WithoutSub(c.subs, id)
        /\ left = {i \in DOMAIN c.rows : c.rows[i].owner # id}
        /\ rows = KeptAt(c.rows, left)
        /\ followed = RecordSkipped(c.followed, {s \in ToSet(c.subs) : s.id = id},
                                    catalogue.listed)
  OBVIOUS
<1>2. Removed(c, id) = [subs |-> subs, rows |-> rows, followed |-> followed, queue |-> c.queue]
  <2>1. Removed(c, id) = [c EXCEPT !.subs = subs, !.rows = rows, !.followed = followed]
    BY <1>1 DEF Removed
  <2> QED
    BY <2>1, GoodParts
<1>3. /\ c.subs \in Seq(SubType) /\ c.rows \in Seq(RowType)
      /\ c.followed \in Seq(GameType) /\ c.queue \in BOOLEAN
      /\ HasDistinctSubs(c.subs) /\ HasDistinctLogins(c.rows)
      /\ HasDistinctGames(c.followed) /\ Owners(c.rows) \subseteq SubIds(c.subs)
  BY GoodFields
<1>4. /\ subs \in Seq(SubType) /\ HasDistinctSubs(subs)
      /\ SubIds(subs) = {c.subs[i].id : i \in {j \in DOMAIN c.subs : c.subs[j].id # id}}
  BY <1>1, <1>3, KeptSubs DEF WithoutSub
<1>5. /\ rows \in Seq(RowType) /\ HasDistinctLogins(rows)
      /\ Owners(rows) = {c.rows[i].owner : i \in left} \ {ByHand}
  BY <1>1, <1>3, KeptRows
<1>6. followed \in Seq(GameType) /\ HasDistinctGames(followed)
  <2>1. {s \in ToSet(c.subs) : s.id = id} \in SUBSET SubType
    BY <1>3, Places DEF ToSet
  <2>2. /\ followed \in Seq(GameType) /\ DOMAIN followed = DOMAIN c.followed
        /\ \A g \in DOMAIN c.followed : followed[g].game = c.followed[g].game
    BY <1>1, <1>3, <2>1, RecordSkippedIs
  <2> QED
    BY <2>2, SameGames
<1>7. Owners(rows) \subseteq SubIds(subs)
  <2> SUFFICES ASSUME NEW i \in left, c.rows[i].owner # ByHand
               PROVE  c.rows[i].owner \in SubIds(subs)
    BY <1>5
  <2>1. i \in DOMAIN c.rows /\ c.rows[i].owner # id
    BY <1>1
  <2>2. c.rows[i].owner \in SubIds(c.subs)
    BY <2>1, <1>3 DEF Owners
  <2> QED
    BY <2>1, <2>2, <1>4 DEF SubIds
<1>8. IsGood(Removed(c, id))
  <2>1. IsGood([subs |-> subs, rows |-> rows, followed |-> followed, queue |-> c.queue])
    BY <1>3, <1>4, <1>5, <1>6, <1>7, GoodIs
  <2> QED
    BY <2>1, <1>2
<1>9. SubIds(Removed(c, id).subs) \subseteq SubIds(c.subs)
  BY <1>2, <1>4 DEF SubIds
<1>10. ASSUME id \notin Owners(c.rows)
       PROVE  Removed(c, id).rows = c.rows
  <2>1. id # ByHand
    BY DEF Ids, ByHand
  <2>2. left = DOMAIN c.rows
    BY <1>1, <1>10, <2>1 DEF Owners
  <2>3. KeptAt(c.rows, DOMAIN c.rows) = c.rows
    BY <1>3, KeptAtAll
  <2>4. Removed(c, id).rows = rows
    BY <1>2
  <2> QED
    BY <1>1, <2>2, <2>3, <2>4
<1> QED
  BY <1>8, <1>9, <1>10 DEF IsEditOf

LEMMA SwitchedIsGood ==
    ASSUME NEW c, IsGood(c)
    PROVE  /\ IsEditOf([c EXCEPT !.queue = ~@], c)
           /\ [c EXCEPT !.queue = ~@].rows = c.rows
<1>1. PICK d : d = [c EXCEPT !.queue = ~@]
  OBVIOUS
<1>2. d = [subs |-> c.subs, rows |-> c.rows, followed |-> c.followed, queue |-> ~c.queue]
  BY <1>1, GoodParts
<1>3. IsGood(d)
  BY <1>2, GoodFields, GoodIs
<1> QED
  BY <1>1, <1>2, <1>3 DEF IsEditOf

\* A config with other games is one of the same subscriptions and rows.
LEMMA OtherGamesAreGood ==
    ASSUME NEW c, IsGood(c), NEW games \in Seq(GameType), HasDistinctGames(games)
    PROVE  /\ IsEditOf([c EXCEPT !.followed = games], c)
           /\ [c EXCEPT !.followed = games].rows = c.rows
<1>1. PICK d : d = [c EXCEPT !.followed = games]
  OBVIOUS
<1>2. d = [subs |-> c.subs, rows |-> c.rows, followed |-> games, queue |-> c.queue]
  BY <1>1, GoodParts
<1>3. IsGood(d)
  BY <1>2, GoodFields, GoodIs
<1> QED
  BY <1>1, <1>2, <1>3 DEF IsEditOf

LEMMA FollowingIsGood ==
    ASSUME Parameters, NEW c, IsGood(c),
           NEW game \in {GameOf[k] : k \in Campaigns} \ GamesOf(c)
    PROVE  /\ IsEditOf([c EXCEPT !.followed = Append(@,
                          [game |-> game, pool |-> DefaultPool, skipped |-> {}])], c)
           /\ [c EXCEPT !.followed = Append(@,
                  [game |-> game, pool |-> DefaultPool, skipped |-> {}])].rows = c.rows
<1>1. PICK new, games : /\ new = [game |-> game, pool |-> DefaultPool, skipped |-> {}]
                        /\ games = Append(c.followed, new)
  OBVIOUS
<1>2. new \in GameType
  BY <1>1 DEF Parameters, GameType
<1>3. c.followed \in Seq(GameType) /\ HasDistinctGames(c.followed)
  BY GoodFields
<1>4. /\ games \in Seq(GameType) /\ Len(games) = Len(c.followed) + 1
      /\ games[Len(c.followed) + 1] = new
      /\ \A g \in 1..Len(c.followed) : games[g] = c.followed[g]
  <2>1. c.followed \in Seq(GameType)
    BY <1>3
  <2>2. /\ Append(c.followed, new) \in Seq(GameType)
        /\ Len(Append(c.followed, new)) = Len(c.followed) + 1
        /\ Append(c.followed, new)[Len(c.followed) + 1] = new
        /\ \A g \in 1..Len(c.followed) : Append(c.followed, new)[g] = c.followed[g]
    BY <2>1, <1>2, AppendProperties
  <2> QED
    BY <2>2, <1>1
<1>5. /\ Len(c.followed) \in Nat /\ DOMAIN c.followed = 1..Len(c.followed)
      /\ DOMAIN games = 1..(Len(c.followed) + 1)
  BY <1>3, <1>4, Places
<1>6. \A g \in DOMAIN c.followed : c.followed[g].game # game
  BY DEF GamesOf
<1>7. HasDistinctGames(games)
  <2> SUFFICES ASSUME NEW i \in DOMAIN games, NEW j \in DOMAIN games,
                      games[i].game = games[j].game
               PROVE  i = j
    BY DEF HasDistinctGames
  <2>1. /\ i \in DOMAIN c.followed \/ i = Len(c.followed) + 1
        /\ j \in DOMAIN c.followed \/ j = Len(c.followed) + 1
    BY <1>5
  <2>2. games[Len(c.followed) + 1].game = game
    BY <1>1, <1>4
  <2>3. \A k \in DOMAIN c.followed : games[k].game = c.followed[k].game
    BY <1>4, <1>5
  <2> QED
    BY <2>1, <2>2, <2>3, <1>3, <1>6 DEF HasDistinctGames
<1> QED
  BY <1>1, <1>4, <1>7, OtherGamesAreGood

LEMMA UnfollowedIsGood ==
    ASSUME NEW c, IsGood(c), NEW game
    PROVE  /\ IsEditOf([c EXCEPT !.followed =
                  KeptAt(@, {g \in DOMAIN @ : @[g].game # game})], c)
           /\ [c EXCEPT !.followed =
                  KeptAt(@, {g \in DOMAIN @ : @[g].game # game})].rows = c.rows
<1>1. PICK games : games = KeptAt(c.followed, {g \in DOMAIN c.followed : c.followed[g].game # game})
  OBVIOUS
<1>2. games \in Seq(GameType) /\ HasDistinctGames(games)
  BY <1>1, GoodFields, KeptGames
<1> QED
  BY <1>1, <1>2, OtherGamesAreGood

\* One followed game changes, but not which it is.
LEMMA OneGameIsGood ==
    ASSUME NEW c, IsGood(c), NEW g \in DOMAIN c.followed, NEW game \in GameType,
           game.game = c.followed[g].game
    PROVE  /\ IsEditOf([c EXCEPT !.followed[g] = game], c)
           /\ [c EXCEPT !.followed[g] = game].rows = c.rows
<1>1. PICK games : games = [c.followed EXCEPT ![g] = game]
  OBVIOUS
<1>2. c.followed \in Seq(GameType) /\ HasDistinctGames(c.followed)
  BY GoodFields
<1>3. /\ DOMAIN games = DOMAIN c.followed
      /\ games = [i \in DOMAIN c.followed |-> games[i]]
      /\ \A i \in DOMAIN c.followed : games[i] = IF i = g THEN game ELSE c.followed[i]
  <2>1. c.followed = [i \in DOMAIN c.followed |-> c.followed[i]]
    BY <1>2, LenProperties
  <2> QED
    BY <1>1, <2>1
<1>4. \A i \in DOMAIN c.followed : c.followed[i] \in GameType
  BY <1>2, Places
<1>5. games \in Seq(GameType)
  BY <1>2, <1>3, <1>4, PlaceByPlace
<1>6. HasDistinctGames(games)
  <2>1. \A i \in DOMAIN c.followed : games[i].game = c.followed[i].game
    BY <1>3
  <2> QED
    BY <2>1, <1>2, <1>3 DEF HasDistinctGames
<1>7. [c EXCEPT !.followed[g] = game] = [c EXCEPT !.followed = games]
  BY <1>1
<1> QED
  BY <1>5, <1>6, <1>7, OtherGamesAreGood

\* A config with other rows, of owners it has.
LEMMA OtherRowsAreGood ==
    ASSUME NEW c, IsGood(c), NEW rows \in Seq(RowType), HasDistinctLogins(rows),
           Owners(rows) \subseteq Owners(c.rows)
    PROVE  IsEditOf([c EXCEPT !.rows = rows], c)
<1>1. PICK d : d = [c EXCEPT !.rows = rows]
  OBVIOUS
<1>2. d = [subs |-> c.subs, rows |-> rows, followed |-> c.followed, queue |-> c.queue]
  BY <1>1, GoodParts
<1>3. Owners(rows) \subseteq SubIds(c.subs)
  BY GoodFields
<1>4. IsGood(d)
  BY <1>2, <1>3, GoodFields, GoodIs
<1> QED
  BY <1>1, <1>2, <1>4 DEF IsEditOf

LEMMA AddedRowIsGood ==
    ASSUME NEW c, IsGood(c), NEW l \in Channels \ LoginsOf(c.rows)
    PROVE  IsEditOf([c EXCEPT !.rows = Append(@,
                        [login |-> l, owner |-> ByHand, on |-> TRUE])], c)
<1>1. PICK new, rows : /\ new = [login |-> l, owner |-> ByHand, on |-> TRUE]
                       /\ rows = Append(c.rows, new)
  OBVIOUS
<1>2. new \in RowType
  BY <1>1 DEF RowType
<1>3. c.rows \in Seq(RowType) /\ HasDistinctLogins(c.rows)
  BY GoodFields
<1>4. /\ rows \in Seq(RowType) /\ Len(rows) = Len(c.rows) + 1
      /\ rows[Len(c.rows) + 1] = new
      /\ \A i \in 1..Len(c.rows) : rows[i] = c.rows[i]
  <2>1. c.rows \in Seq(RowType)
    BY <1>3
  <2>2. /\ Append(c.rows, new) \in Seq(RowType)
        /\ Len(Append(c.rows, new)) = Len(c.rows) + 1
        /\ Append(c.rows, new)[Len(c.rows) + 1] = new
        /\ \A i \in 1..Len(c.rows) : Append(c.rows, new)[i] = c.rows[i]
    BY <2>1, <1>2, AppendProperties
  <2> QED
    BY <2>2, <1>1
<1>5. /\ Len(c.rows) \in Nat /\ DOMAIN c.rows = 1..Len(c.rows)
      /\ DOMAIN rows = 1..(Len(c.rows) + 1)
  BY <1>3, <1>4, Places
<1>6. \A i \in DOMAIN rows : i \in DOMAIN c.rows \/ i = Len(c.rows) + 1
  BY <1>5
<1>7. /\ rows[Len(c.rows) + 1].login = l /\ rows[Len(c.rows) + 1].owner = ByHand
      /\ \A i \in DOMAIN c.rows : rows[i] = c.rows[i] /\ c.rows[i].login # l
  BY <1>1, <1>4, <1>5 DEF LoginsOf
<1>8. HasDistinctLogins(rows)
  BY <1>3, <1>6, <1>7 DEF HasDistinctLogins
<1>9. Owners(rows) \subseteq Owners(c.rows)
  BY <1>6, <1>7 DEF Owners
<1> QED
  BY <1>1, <1>4, <1>8, <1>9, OtherRowsAreGood

LEMMA ToggledRowIsGood ==
    ASSUME NEW c, IsGood(c), NEW i \in DOMAIN c.rows
    PROVE  IsEditOf([c EXCEPT !.rows[i].on = ~@], c)
<1>1. PICK row, rows : /\ row = [c.rows[i] EXCEPT !.on = ~@]
                       /\ rows = [c.rows EXCEPT ![i] = row]
  OBVIOUS
<1>2. c.rows \in Seq(RowType) /\ HasDistinctLogins(c.rows)
  BY GoodFields
<1>3. \A j \in DOMAIN c.rows : c.rows[j] \in RowType
  BY <1>2, Places
<1>4. row \in RowType /\ row.login = c.rows[i].login /\ row.owner = c.rows[i].owner
  BY <1>1, <1>3 DEF RowType
<1>5. /\ DOMAIN rows = DOMAIN c.rows
      /\ rows = [j \in DOMAIN c.rows |-> rows[j]]
      /\ \A j \in DOMAIN c.rows : rows[j] = IF j = i THEN row ELSE c.rows[j]
  <2>1. c.rows = [j \in DOMAIN c.rows |-> c.rows[j]]
    BY <1>2, LenProperties
  <2> QED
    BY <1>1, <2>1
<1>6. \A j \in DOMAIN c.rows : /\ rows[j] \in RowType
                               /\ rows[j].login = c.rows[j].login
                               /\ rows[j].owner = c.rows[j].owner
  BY <1>3, <1>4, <1>5
<1>7. rows \in Seq(RowType)
  BY <1>2, <1>5, <1>6, PlaceByPlace
<1>8. HasDistinctLogins(rows) /\ Owners(rows) \subseteq Owners(c.rows)
  <2>1. DOMAIN rows = DOMAIN c.rows
    BY <1>5
  <2>2. HasDistinctLogins(rows)
    BY <2>1, <1>2, <1>6 DEF HasDistinctLogins
  <2>3. Owners(rows) \subseteq Owners(c.rows)
    BY <2>1, <1>6 DEF Owners
  <2> QED
    BY <2>2, <2>3
<1>9. [c EXCEPT !.rows[i].on = ~@] = [c EXCEPT !.rows = rows]
  BY <1>1
<1> QED
  BY <1>7, <1>8, <1>9, OtherRowsAreGood

\* Removing one place moves those behind it up.
LEMMA RemoveAtIs ==
    ASSUME NEW T, NEW s \in Seq(T), NEW i \in DOMAIN s
    PROVE  /\ RemoveAt(s, i) \in Seq(T)
           /\ \A k \in DOMAIN RemoveAt(s, i) :
                 /\ k < i => k \in DOMAIN s /\ RemoveAt(s, i)[k] = s[k]
                 /\ ~(k < i) => k + 1 \in DOMAIN s /\ RemoveAt(s, i)[k] = s[k + 1]
<1>1. PICK n : n \in Nat /\ n = Len(s) /\ DOMAIN s = 1..n /\ \A k \in 1..n : s[k] \in T
  BY Places
<1>2. i \in 1..n
  BY <1>1
<1>3. PICK a, b : a = SubSeq(s, 1, i - 1) /\ b = SubSeq(s, i + 1, n)
  OBVIOUS
<1>4. /\ a \in Seq(T) /\ Len(a) = i - 1
      /\ \A k \in 1..(i - 1) : a[k] = s[k]
  <2>1. i - 1 \in Int /\ \A k \in 1..(i - 1) : s[k] \in T
    BY <1>1, <1>2
  <2>2. /\ SubSeq(s, 1, i - 1) \in Seq(T)
        /\ Len(SubSeq(s, 1, i - 1)) = IF 1 <= i - 1 THEN (i - 1) - 1 + 1 ELSE 0
        /\ \A k \in 1..((i - 1) - 1 + 1) : SubSeq(s, 1, i - 1)[k] = s[1 + k - 1]
    BY <2>1, SubSeqProperties
  <2> QED
    BY <1>2, <1>3, <2>2
<1>5. /\ b \in Seq(T) /\ Len(b) = n - i
      /\ \A k \in 1..(n - i) : b[k] = s[i + k]
  <2>1. i + 1 \in Int /\ \A k \in (i + 1)..n : s[k] \in T
    BY <1>1, <1>2
  <2>2. /\ SubSeq(s, i + 1, n) \in Seq(T)
        /\ Len(SubSeq(s, i + 1, n)) = IF i + 1 <= n THEN n - (i + 1) + 1 ELSE 0
        /\ \A k \in 1..(n - (i + 1) + 1) : SubSeq(s, i + 1, n)[k] = s[(i + 1) + k - 1]
    BY <2>1, <1>1, SubSeqProperties
  <2>3. \A k \in 1..(n - i) : k \in 1..(n - (i + 1) + 1) /\ (i + 1) + k - 1 = i + k
    BY <1>1, <1>2
  <2> QED
    BY <1>1, <1>2, <1>3, <2>2, <2>3
<1>6. PICK t : t = a \o b
  OBVIOUS
<1>7. t \in Seq(T) /\ IsJoin(t, a, b)
  BY <1>4, <1>5, <1>6, Concatenated
<1>8. \A k \in DOMAIN t : /\ k < i => k \in 1..n /\ t[k] = s[k]
                          /\ ~(k < i) => k + 1 \in 1..n /\ t[k] = s[k + 1]
  <2> SUFFICES ASSUME NEW k \in DOMAIN t
               PROVE  /\ k < i => k \in 1..n /\ t[k] = s[k]
                      /\ ~(k < i) => k + 1 \in 1..n /\ t[k] = s[k + 1]
    OBVIOUS
  <2>1. /\ DOMAIN a = 1..(i - 1) /\ DOMAIN b = 1..(n - i)
        /\ Len(a) = i - 1
    BY <1>4, <1>5, <1>7 DEF IsJoin
  <2>2. CASE k \in DOMAIN a
    BY <2>1, <2>2, <1>2, <1>1, <1>4, <1>7 DEF IsJoin
  <2>3. CASE k \notin DOMAIN a
    <3>1. PICK l \in DOMAIN b : k = Len(a) + l
      BY <2>3, <1>7 DEF IsJoin
    <3>2. t[k] = b[l]
      BY <3>1, <1>7 DEF IsJoin
    <3>3. l \in 1..(n - i) /\ k = (i - 1) + l /\ b[l] = s[i + l] /\ i + l = k + 1
      BY <3>1, <2>1, <1>1, <1>2, <1>5
    <3> QED
      BY <3>2, <3>3, <1>1, <1>2
  <2> QED
    BY <2>2, <2>3
<1> QED
  BY <1>1, <1>3, <1>6, <1>7, <1>8 DEF RemoveAt

LEMMA RemovedRowIsGood ==
    ASSUME NEW c, IsGood(c), NEW i \in DOMAIN c.rows
    PROVE  IsEditOf([c EXCEPT !.rows = RemoveAt(@, i)], c)
<1>1. PICK rows : rows = RemoveAt(c.rows, i)
  OBVIOUS
<1>2. c.rows \in Seq(RowType) /\ HasDistinctLogins(c.rows)
  BY GoodFields
<1>3. /\ rows \in Seq(RowType)
      /\ \A k \in DOMAIN rows :
            /\ k < i => k \in DOMAIN c.rows /\ rows[k] = c.rows[k]
            /\ ~(k < i) => k + 1 \in DOMAIN c.rows /\ rows[k] = c.rows[k + 1]
  BY <1>1, <1>2, RemoveAtIs
<1>4. DOMAIN rows \subseteq Int /\ i \in Int
  BY <1>2, <1>3, LenProperties
<1>5. PICK order : order = [k \in DOMAIN rows |-> IF k < i THEN k ELSE k + 1]
  OBVIOUS
<1>6. \A k \in DOMAIN rows : order[k] \in DOMAIN c.rows /\ rows[k] = c.rows[order[k]]
  BY <1>3, <1>5
<1>7. \A k, l \in DOMAIN rows : order[k] = order[l] => k = l
  BY <1>4, <1>5
<1>8. Owners(rows) \subseteq Owners(c.rows)
  BY <1>6 DEF Owners
<1>9. HasDistinctLogins(rows)
  <2> SUFFICES ASSUME NEW k \in DOMAIN rows, NEW l \in DOMAIN rows,
                      rows[k].login = rows[l].login
               PROVE  k = l
    BY DEF HasDistinctLogins
  <2>1. order[k] = order[l]
    BY <1>2, <1>6 DEF HasDistinctLogins
  <2> QED
    BY <2>1, <1>7
<1> QED
  BY <1>1, <1>3, <1>8, <1>9, OtherRowsAreGood

-----------------------------------------------------------------------------
(* New subscriptions.                                                      *)

\* Subscriptions with nothing in common, one list behind the other.
LEMMA JoinedSubs ==
    ASSUME NEW a \in Seq(SubType), NEW b \in Seq(SubType),
           HasDistinctSubs(a), HasDistinctSubs(b),
           SubIds(a) \cap SubIds(b) = {}, Targets(a) \cap Targets(b) = {}
    PROVE  /\ a \o b \in Seq(SubType) /\ HasDistinctSubs(a \o b)
           /\ SubIds(a \o b) = SubIds(a) \cup SubIds(b)
           /\ ToSet(a \o b) = ToSet(a) \cup ToSet(b)
<1>1. PICK both : both = a \o b
  OBVIOUS
<1>2. both \in Seq(SubType) /\ IsJoin(both, a, b)
  BY <1>1, Concatenated
<1>3. \A i \in DOMAIN a, j \in DOMAIN b : a[i].id # b[j].id /\ a[i].target # b[j].target
  BY DEF SubIds, Targets
<1>4. HasDistinctSubs(both)
  <2> SUFFICES ASSUME NEW i \in DOMAIN both, NEW j \in DOMAIN both,
                      both[i].id = both[j].id \/ both[i].target = both[j].target
               PROVE  i = j
    BY DEF HasDistinctSubs
  <2>1. CASE i \in DOMAIN a /\ j \in DOMAIN a
    BY <2>1, <1>2 DEF HasDistinctSubs, IsJoin
  <2>2. CASE i \notin DOMAIN a /\ j \notin DOMAIN a
    <3>1. PICK k \in DOMAIN b, l \in DOMAIN b : i = Len(a) + k /\ j = Len(a) + l
      BY <2>2, <1>2 DEF IsJoin
    <3>2. both[i] = b[k] /\ both[j] = b[l]
      BY <3>1, <1>2 DEF IsJoin
    <3> QED
      BY <3>1, <3>2 DEF HasDistinctSubs
  <2>3. CASE i \in DOMAIN a /\ j \notin DOMAIN a
    <3>1. PICK l \in DOMAIN b : both[j] = b[l]
      BY <2>3, <1>2 DEF IsJoin
    <3> QED
      BY <2>3, <3>1, <1>2, <1>3 DEF IsJoin
  <2>4. CASE i \notin DOMAIN a /\ j \in DOMAIN a
    <3>1. PICK l \in DOMAIN b : both[i] = b[l]
      BY <2>4, <1>2 DEF IsJoin
    <3> QED
      BY <2>4, <3>1, <1>2, <1>3 DEF IsJoin
  <2> QED
    BY <2>1, <2>2, <2>3, <2>4
<1>5. /\ \A i \in DOMAIN a : \E k \in DOMAIN both : both[k] = a[i]
      /\ \A j \in DOMAIN b : \E k \in DOMAIN both : both[k] = b[j]
      /\ \A k \in DOMAIN both : \/ \E i \in DOMAIN a : both[k] = a[i]
                                \/ \E j \in DOMAIN b : both[k] = b[j]
  BY <1>2 DEF IsJoin
<1>6. ToSet(both) = ToSet(a) \cup ToSet(b)
  BY <1>5 DEF ToSet
<1>7. SubIds(both) = SubIds(a) \cup SubIds(b)
  BY <1>5 DEF SubIds
<1> QED
  BY <1>1, <1>2, <1>4, <1>6, <1>7

\* A subscription of an unused id and target can be appended.
LEMMA SubscribedIsGood ==
    ASSUME NEW c, IsGood(c), NEW sub \in SubType,
           sub.id \notin SubIds(c.subs), sub.target \notin Targets(c.subs)
    PROVE  /\ IsGood([c EXCEPT !.subs = Append(@, sub)])
           /\ SubIds([c EXCEPT !.subs = Append(@, sub)].subs) = SubIds(c.subs) \cup {sub.id}
<1>1. PICK one : one = <<sub>>
  OBVIOUS
<1>2. one \in Seq(SubType) /\ DOMAIN one = {1} /\ one[1] = sub
  BY <1>1
<1>3. HasDistinctSubs(one) /\ SubIds(one) = {sub.id} /\ Targets(one) = {sub.target}
  BY <1>2 DEF HasDistinctSubs, SubIds, Targets
<1>4. c.subs \in Seq(SubType) /\ HasDistinctSubs(c.subs)
  BY GoodFields
<1>5. PICK subs : subs = Append(c.subs, sub)
  OBVIOUS
<1>6. subs = c.subs \o one
  <2>1. c.subs \in Seq(SubType)
    BY <1>4
  <2>2. Append(c.subs, sub) = c.subs \o <<sub>>
    BY <2>1, AppendIsConcat
  <2> QED
    BY <1>1, <1>5, <2>2
<1>7. /\ subs \in Seq(SubType) /\ HasDistinctSubs(subs)
      /\ SubIds(subs) = SubIds(c.subs) \cup {sub.id}
  <2>1. SubIds(c.subs) \cap SubIds(one) = {} /\ Targets(c.subs) \cap Targets(one) = {}
    BY <1>3
  <2> QED
    BY <2>1, <1>2, <1>3, <1>4, <1>6, JoinedSubs
<1>8. [c EXCEPT !.subs = Append(@, sub)] =
          [subs |-> subs, rows |-> c.rows, followed |-> c.followed, queue |-> c.queue]
  <2>1. [c EXCEPT !.subs = Append(@, sub)] = [c EXCEPT !.subs = subs]
    BY <1>5
  <2>2. [c EXCEPT !.subs = subs] =
            [subs |-> subs, rows |-> c.rows, followed |-> c.followed, queue |-> c.queue]
    BY GoodParts
  <2> QED
    BY <2>1, <2>2
<1>9. IsGood([subs |-> subs, rows |-> c.rows, followed |-> c.followed, queue |-> c.queue])
  <2>1. /\ c.rows \in Seq(RowType) /\ c.followed \in Seq(GameType) /\ c.queue \in BOOLEAN
        /\ HasDistinctLogins(c.rows) /\ HasDistinctGames(c.followed)
        /\ Owners(c.rows) \subseteq SubIds(subs)
    BY <1>7, GoodFields
  <2> QED
    BY <2>1, <1>7, GoodIs
<1> QED
  BY <1>7, <1>8, <1>9

\* The highest rank, or -1 when there is none.
LEMMA MaxRankIs ==
    ASSUME NEW subs \in Seq(SubType)
    PROVE  MaxRank(subs) \in Nat \cup {-1}
<1>1. /\ Len(subs) \in Nat /\ DOMAIN subs = 1..Len(subs)
      /\ \A i \in DOMAIN subs : subs[i] \in SubType
  BY Places
<1>2. PICK rank : rank = [i \in DOMAIN subs |-> subs[i].rank]
  OBVIOUS
<1>3. \A i \in DOMAIN subs : rank[i] \in Nat
  BY <1>1, <1>2 DEF SubType
<1>4. PICK S : S = {rank[i] : i \in DOMAIN subs} \cup {-1}
  OBVIOUS
<1>5. IsFiniteSet(S) /\ S \subseteq Int
  <2>1. IsFiniteSet({rank[i] : i \in DOMAIN subs})
    BY <1>1, PlacesOfN, FiniteImage
  <2>2. IsFiniteSet(S)
    BY <2>1, <1>4, FS_AddElement
  <2> QED
    BY <2>2, <1>3, <1>4
<1>6. PICK n, a : n = Cardinality(S) /\ a = Ascending(S)
  OBVIOUS
<1>7. /\ n \in Nat /\ a \in [1..n -> S]
      /\ \A i, j \in 1..n : i < j => a[i] < a[j]
      /\ \A x \in S : \E i \in 1..n : a[i] = x
  BY <1>5, <1>6, AscendingIs
<1>8. n \in 1..n
  BY <1>4, <1>7
<1>9. \A x \in S : x <= a[n]
  <2> SUFFICES ASSUME NEW x \in S
               PROVE  x <= a[n]
    OBVIOUS
  <2>1. PICK i \in 1..n : a[i] = x
    BY <1>7
  <2>2. x \in Int /\ a[n] \in Int
    BY <1>5, <1>7, <1>8
  <2>3. CASE i < n
    BY <2>1, <2>2, <2>3, <1>7, <1>8
  <2>4. CASE i = n
    BY <2>1, <2>2, <2>4
  <2> QED
    BY <2>3, <2>4, <1>7
<1>10. \E m \in {-1} \cup {subs[i].rank : i \in DOMAIN subs} :
           \A i \in DOMAIN subs : subs[i].rank <= m
  BY <1>2, <1>4, <1>7, <1>8, <1>9
<1>11. MaxRank(subs) \in {-1} \cup {subs[i].rank : i \in DOMAIN subs}
  BY <1>10 DEF MaxRank
<1> QED
  BY <1>2, <1>3, <1>11

-----------------------------------------------------------------------------
(* rebasePass().                                                           *)

\* What a pass may have decided, for rebasePass() to apply to current.
IsOutcome(out, current) ==
    /\ out.added \in Seq(SubType) /\ HasDistinctSubs(out.added)
    /\ SubIds(out.added) \cap SubIds(current.subs) = {}
    /\ out.desired \in Seq(WantType)
    /\ out.gamesBefore \in Seq(GameType) /\ out.gamesAfter \in Seq(GameType)

\* The followed games stay, and skip what they skipped unless the pass pruned
\* a campaign that it found skipped.
LEMMA RebasedGamesAre ==
    ASSUME NEW current, IsGood(current), NEW out, IsOutcome(out, current)
    PROVE  /\ RebasedGames(current, out) \in Seq(GameType)
           /\ HasDistinctGames(RebasedGames(current, out))
           /\ DOMAIN RebasedGames(current, out) = DOMAIN current.followed
           /\ \A g \in DOMAIN current.followed :
                 /\ RebasedGames(current, out)[g].game = current.followed[g].game
                 /\ \A x \in current.followed[g].skipped :
                       \/ x \in RebasedGames(current, out)[g].skipped
                       \/ \E i \in DOMAIN out.gamesBefore :
                             /\ out.gamesBefore[i].game = current.followed[g].game
                             /\ x \in out.gamesBefore[i].skipped
<1>1. PICK games, was, now :
        /\ games = RebasedGames(current, out)
        /\ was = [g \in DOMAIN current.followed |-> UNION {out.gamesBefore[i].skipped :
                    i \in {j \in DOMAIN out.gamesBefore :
                              out.gamesBefore[j].game = current.followed[g].game}}]
        /\ now = [g \in DOMAIN current.followed |-> UNION {out.gamesAfter[i].skipped :
                    i \in {j \in DOMAIN out.gamesAfter :
                              out.gamesAfter[j].game = current.followed[g].game}}]
  OBVIOUS
<1>2. games = [g \in DOMAIN current.followed |->
                 [current.followed[g] EXCEPT
                     !.skipped = (@ \ (was[g] \ now[g])) \cup (now[g] \ was[g])]]
  BY <1>1 DEF RebasedGames
<1>3. current.followed \in Seq(GameType) /\ HasDistinctGames(current.followed)
  BY GoodFields
<1>4. \A g \in DOMAIN current.followed : current.followed[g] \in GameType
  BY <1>3, Places
<1>5. \A g \in DOMAIN current.followed : now[g] \in SUBSET Campaigns
  <2>1. out.gamesAfter \in Seq(GameType)
    BY DEF IsOutcome
  <2>2. \A i \in DOMAIN out.gamesAfter : out.gamesAfter[i] \in GameType
    BY <2>1, Places
  <2>3. \A i \in DOMAIN out.gamesAfter : out.gamesAfter[i].skipped \in SUBSET Campaigns
    BY <2>2 DEF GameType
  <2> QED
    BY <1>1, <2>3
<1>6. \A g \in DOMAIN current.followed :
          /\ games[g] \in GameType
          /\ games[g].game = current.followed[g].game
          /\ games[g].skipped =
                (current.followed[g].skipped \ (was[g] \ now[g])) \cup (now[g] \ was[g])
  BY <1>2, <1>4, <1>5 DEF GameType
<1>7. games \in Seq(GameType) /\ DOMAIN games = DOMAIN current.followed
  <2>1. games = [g \in DOMAIN current.followed |-> games[g]]
    BY <1>2
  <2> QED
    BY <2>1, <1>3, <1>6, PlaceByPlace
<1>8. HasDistinctGames(games)
  BY <1>3, <1>6, <1>7 DEF HasDistinctGames
<1>9. \A g \in DOMAIN current.followed : \A x \in current.followed[g].skipped :
          \/ x \in games[g].skipped
          \/ \E i \in DOMAIN out.gamesBefore :
                /\ out.gamesBefore[i].game = current.followed[g].game
                /\ x \in out.gamesBefore[i].skipped
  <2> SUFFICES ASSUME NEW g \in DOMAIN current.followed, NEW x \in current.followed[g].skipped,
                      x \notin games[g].skipped
               PROVE  \E i \in DOMAIN out.gamesBefore :
                         /\ out.gamesBefore[i].game = current.followed[g].game
                         /\ x \in out.gamesBefore[i].skipped
    OBVIOUS
  <2>1. x \in was[g]
    BY <1>6
  <2> QED
    BY <2>1, <1>1
<1> QED
  BY <1>1, <1>6, <1>7, <1>8, <1>9

\* The additions that stand, and what they stand for.
LEMMA KeptAdditionsAre ==
    ASSUME NEW current, NEW out, IsOutcome(out, current)
    PROVE  /\ KeptAdditions(current, out) \in Seq(SubType)
           /\ HasDistinctSubs(KeptAdditions(current, out))
           /\ SubIds(KeptAdditions(current, out)) \subseteq SubIds(out.added)
           /\ \A k \in DOMAIN KeptAdditions(current, out) :
                 /\ \E i \in DOMAIN out.added : KeptAdditions(current, out)[k] = out.added[i]
                 /\ KeptAdditions(current, out)[k].target \notin Targets(current.subs)
                 /\ \E g \in DOMAIN RebasedGames(current, out) :
                       /\ RebasedGames(current, out)[g].game = KeptAdditions(current, out)[k].via
                       /\ KeptAdditions(current, out)[k].target
                             \notin RebasedGames(current, out)[g].skipped
<1>1. PICK games, places, kept :
        /\ games = RebasedGames(current, out)
        /\ places = {k \in DOMAIN out.added :
              /\ out.added[k].target \notin Targets(current.subs)
              /\ \E g \in DOMAIN games : /\ games[g].game = out.added[k].via
                                         /\ out.added[k].target \notin games[g].skipped}
        /\ kept = KeptAdditions(current, out)
  OBVIOUS
<1>2. kept = KeptAt(out.added, places)
  BY <1>1 DEF KeptAdditions
<1>3. out.added \in Seq(SubType) /\ HasDistinctSubs(out.added)
  BY DEF IsOutcome
<1>4. /\ kept \in Seq(SubType) /\ HasDistinctSubs(kept)
      /\ SubIds(kept) = {out.added[i].id : i \in places}
      /\ \A k \in DOMAIN kept : \E i \in places : kept[k] = out.added[i]
  <2>1. places \in SUBSET DOMAIN out.added
    BY <1>1
  <2> QED
    BY <2>1, <1>2, <1>3, KeptSubs
<1>5. SubIds(kept) \subseteq SubIds(out.added)
  BY <1>1, <1>4 DEF SubIds
<1>6. \A k \in DOMAIN kept :
          /\ \E i \in DOMAIN out.added : kept[k] = out.added[i]
          /\ kept[k].target \notin Targets(current.subs)
          /\ \E g \in DOMAIN games : /\ games[g].game = kept[k].via
                                     /\ kept[k].target \notin games[g].skipped
  BY <1>1, <1>4
<1> QED
  BY <1>1, <1>4, <1>5, <1>6

\* An addition that stands, with its new rank.
IsAdded(s, current, out) ==
    /\ \E i \in DOMAIN out.added : /\ s.via = out.added[i].via
                                   /\ s.target = out.added[i].target
                                   /\ s.pool = out.added[i].pool
    /\ \E g \in DOMAIN RebasedGames(current, out) :
          /\ RebasedGames(current, out)[g].game = s.via
          /\ s.target \notin RebasedGames(current, out)[g].skipped

\* The subscriptions after a pass: of those there are, and added ones.
LEMMA RebasedSubsAre ==
    ASSUME NEW current, IsGood(current), NEW out, IsOutcome(out, current)
    PROVE  /\ RebasedSubs(current, out) \in Seq(SubType)
           /\ HasDistinctSubs(RebasedSubs(current, out))
           /\ SubIds(RebasedSubs(current, out)) \subseteq SubIds(current.subs) \cup SubIds(out.added)
           /\ \A s \in ToSet(RebasedSubs(current, out)) \ ToSet(current.subs) :
                 IsAdded(s, current, out)
           /\ SubIds(current.subs) \ out.ended \subseteq SubIds(RebasedSubs(current, out))
<1>1. PICK kept, max, a, b :
        /\ kept = KeptAdditions(current, out)
        /\ max = MaxRank(current.subs)
        /\ a = KeptAt(current.subs,
                  {i \in DOMAIN current.subs : current.subs[i].id \notin out.ended})
        /\ b = [k \in DOMAIN kept |-> [kept[k] EXCEPT !.rank = max + k]]
  OBVIOUS
<1>2. RebasedSubs(current, out) = a \o b
  BY <1>1 DEF RebasedSubs
<1>3. /\ kept \in Seq(SubType) /\ HasDistinctSubs(kept)
      /\ SubIds(kept) \subseteq SubIds(out.added)
      /\ \A k \in DOMAIN kept : kept[k].target \notin Targets(current.subs)
      /\ \A k \in DOMAIN kept : IsAdded(kept[k], current, out)
  <2>1. /\ kept \in Seq(SubType) /\ HasDistinctSubs(kept)
        /\ SubIds(kept) \subseteq SubIds(out.added)
    BY <1>1, KeptAdditionsAre
  <2>2. \A k \in DOMAIN kept :
            /\ \E i \in DOMAIN out.added : kept[k] = out.added[i]
            /\ kept[k].target \notin Targets(current.subs)
            /\ \E g \in DOMAIN RebasedGames(current, out) :
                  /\ RebasedGames(current, out)[g].game = kept[k].via
                  /\ kept[k].target \notin RebasedGames(current, out)[g].skipped
    BY <1>1, KeptAdditionsAre
  <2>3. \A k \in DOMAIN kept : IsAdded(kept[k], current, out)
    BY <2>2 DEF IsAdded
  <2> QED
    BY <2>1, <2>2, <2>3
<1>4. current.subs \in Seq(SubType) /\ HasDistinctSubs(current.subs)
  BY GoodFields
<1>5. /\ a \in Seq(SubType) /\ HasDistinctSubs(a)
      /\ \A k \in DOMAIN a : \E i \in DOMAIN current.subs : a[k] = current.subs[i]
  <2>1. PICK places : places = {i \in DOMAIN current.subs : current.subs[i].id \notin out.ended}
    OBVIOUS
  <2>2. places \in SUBSET DOMAIN current.subs /\ a = KeptAt(current.subs, places)
    BY <1>1, <2>1
  <2>3. /\ a \in Seq(SubType) /\ HasDistinctSubs(a)
        /\ \A k \in DOMAIN a : \E i \in places : a[k] = current.subs[i]
    BY <1>4, <2>2, KeptSubs
  <2> QED
    BY <2>2, <2>3
<1>6. \A k \in DOMAIN kept : /\ b[k] \in SubType
                             /\ b[k].id = kept[k].id /\ b[k].target = kept[k].target
                             /\ b[k].via = kept[k].via /\ b[k].pool = kept[k].pool
  <2>1. DOMAIN kept \subseteq Nat \ {0} /\ \A k \in DOMAIN kept : kept[k] \in SubType
    BY <1>3, Places
  <2>2. max \in Nat \cup {-1}
    BY <1>1, <1>4, MaxRankIs
  <2>3. \A k \in DOMAIN kept : max + k \in Nat
    BY <2>1, <2>2
  <2> QED
    BY <1>1, <2>1, <2>3 DEF SubType
<1>7. b \in Seq(SubType) /\ DOMAIN b = DOMAIN kept
  <2>1. b = [k \in DOMAIN kept |-> b[k]]
    BY <1>1
  <2> QED
    BY <2>1, <1>3, <1>6, PlaceByPlace
<1>8. HasDistinctSubs(b) /\ SubIds(b) = SubIds(kept)
  <2>1. HasDistinctSubs(b)
    BY <1>3, <1>6, <1>7 DEF HasDistinctSubs
  <2>2. SubIds(b) = SubIds(kept)
    BY <1>6, <1>7 DEF SubIds
  <2> QED
    BY <2>1, <2>2
<1>9. SubIds(a) \subseteq SubIds(current.subs) /\ Targets(a) \subseteq Targets(current.subs)
      /\ ToSet(a) \subseteq ToSet(current.subs)
  BY <1>5 DEF SubIds, Targets, ToSet
<1>10. SubIds(a) \cap SubIds(b) = {}
  BY <1>3, <1>8, <1>9 DEF IsOutcome
<1>11. Targets(a) \cap Targets(b) = {}
  <2>1. \A k \in DOMAIN b : b[k].target \notin Targets(current.subs)
    BY <1>3, <1>6, <1>7
  <2>2. \A k \in DOMAIN b : b[k].target \notin Targets(a)
    BY <2>1, <1>9
  <2> QED
    BY <2>2 DEF Targets
<1>12. /\ a \o b \in Seq(SubType) /\ HasDistinctSubs(a \o b)
       /\ SubIds(a \o b) = SubIds(a) \cup SubIds(b)
       /\ ToSet(a \o b) = ToSet(a) \cup ToSet(b)
  BY <1>5, <1>7, <1>8, <1>10, <1>11, JoinedSubs
<1>13. \A s \in ToSet(b) : IsAdded(s, current, out)
  BY <1>3, <1>6, <1>7 DEF ToSet, IsAdded
<1>14. SubIds(current.subs) \ out.ended \subseteq SubIds(a)
  <2>1. PICK places : places = {i \in DOMAIN current.subs : current.subs[i].id \notin out.ended}
    OBVIOUS
  <2>2. \E order : IsPick(order, a, current.subs, places)
    BY <1>1, <1>4, <2>1, KeptAtIs
  <2>3. PICK order : IsPick(order, a, current.subs, places)
    BY <2>2
  <2> SUFFICES ASSUME NEW id \in SubIds(current.subs) \ out.ended
               PROVE  id \in SubIds(a)
    OBVIOUS
  <2>4. PICK i \in places : current.subs[i].id = id
    BY <2>1 DEF SubIds
  <2>5. PICK k \in DOMAIN a : order[k] = i
    BY <2>3 DEF IsPick
  <2> QED
    BY <2>3, <2>4, <2>5 DEF IsPick, SubIds
<1> QED
  BY <1>2, <1>3, <1>8, <1>9, <1>12, <1>13, <1>14

\* The channels a pass wants for the subscriptions that are left.
LEMMA RebasedDesiredIs ==
    ASSUME NEW current, IsGood(current), NEW out, IsOutcome(out, current), NEW live
    PROVE  /\ RebasedDesired(current, out, live) \in Seq(WantType)
           /\ \A i \in DOMAIN RebasedDesired(current, out, live) :
                 /\ RebasedDesired(current, out, live)[i].owner \in live
                 /\ \/ \E k \in DOMAIN out.desired :
                          RebasedDesired(current, out, live)[i] = out.desired[k]
                    \/ RebasedDesired(current, out, live)[i].owner \notin out.considered
           /\ \A i \in DOMAIN out.desired : out.desired[i].owner \in live =>
                 \E k \in DOMAIN RebasedDesired(current, out, live) :
                    RebasedDesired(current, out, live)[k] = out.desired[i]
<1>1. PICK held, a, b :
        /\ held = [i \in DOMAIN current.rows |-> [login |-> current.rows[i].login,
                                                  owner |-> current.rows[i].owner]]
        /\ a = KeptAt(out.desired, {i \in DOMAIN out.desired : out.desired[i].owner \in live})
        /\ b = KeptAt(held, {i \in DOMAIN held : held[i].owner \in live \ out.considered})
  OBVIOUS
<1>2. RebasedDesired(current, out, live) = a \o b
  BY <1>1 DEF RebasedDesired
<1>3. held \in Seq(WantType)
  <2>1. current.rows \in Seq(RowType)
    BY GoodFields
  <2>2. \A i \in DOMAIN current.rows : current.rows[i] \in RowType
    BY <2>1, Places
  <2>3. \A i \in DOMAIN current.rows : held[i] \in WantType
    BY <1>1, <2>2 DEF RowType, WantType
  <2>4. held = [i \in DOMAIN current.rows |-> held[i]]
    BY <1>1
  <2> QED
    BY <2>1, <2>3, <2>4, PlaceByPlace
<1>4. out.desired \in Seq(WantType)
  BY DEF IsOutcome
<1>5. /\ a \in Seq(WantType)
      /\ \A k \in DOMAIN a : /\ a[k].owner \in live
                             /\ \E i \in DOMAIN out.desired : a[k] = out.desired[i]
      /\ \A i \in DOMAIN out.desired : out.desired[i].owner \in live =>
            \E k \in DOMAIN a : a[k] = out.desired[i]
  <2>1. PICK places : places = {i \in DOMAIN out.desired : out.desired[i].owner \in live}
    OBVIOUS
  <2>2. a \in Seq(WantType) /\ \E order : IsPick(order, a, out.desired, places)
    BY <1>1, <1>4, <2>1, KeptAtIs
  <2>3. PICK order : IsPick(order, a, out.desired, places)
    BY <2>2
  <2> QED
    BY <2>1, <2>2, <2>3 DEF IsPick
<1>6. b \in Seq(WantType) /\ \A k \in DOMAIN b : b[k].owner \in live \ out.considered
  <2>1. PICK places : places = {i \in DOMAIN held : held[i].owner \in live \ out.considered}
    OBVIOUS
  <2>2. b \in Seq(WantType) /\ \E order : IsPick(order, b, held, places)
    BY <1>1, <1>3, <2>1, KeptAtIs
  <2>3. PICK order : IsPick(order, b, held, places)
    BY <2>2
  <2> QED
    BY <2>1, <2>2, <2>3 DEF IsPick
<1>7. a \o b \in Seq(WantType) /\ IsJoin(a \o b, a, b)
  BY <1>5, <1>6, Concatenated
<1>8. \A i \in DOMAIN (a \o b) :
          /\ (a \o b)[i].owner \in live
          /\ \/ \E k \in DOMAIN out.desired : (a \o b)[i] = out.desired[k]
             \/ (a \o b)[i].owner \notin out.considered
  BY <1>5, <1>6, <1>7 DEF IsJoin
<1>9. \A i \in DOMAIN out.desired : out.desired[i].owner \in live =>
          \E k \in DOMAIN (a \o b) : (a \o b)[k] = out.desired[i]
  BY <1>5, <1>7 DEF IsJoin
<1> QED
  BY <1>2, <1>7, <1>8, <1>9

\* What a pass wants for a subscription that stays is on the watch list.
LEMMA RebaseKeepsWanted ==
    ASSUME NEW current, IsGood(current), NEW out, IsOutcome(out, current),
           NEW i \in DOMAIN out.desired,
           out.desired[i].owner \in SubIds(current.subs) \ out.ended
    PROVE  out.desired[i].login \in LoginsOf(RebasePass(current, out).rows)
<1>1. PICK subs, desired, rows, games :
        /\ subs = RebasedSubs(current, out)
        /\ desired = RebasedDesired(current, out, SubIds(subs))
        /\ rows = Reconcile(current.rows, desired)
        /\ games = RebasedGames(current, out)
  OBVIOUS
<1>2. RebasePass(current, out).rows = rows
  <2>1. RebasePass(current, out) =
            [current EXCEPT !.followed = games, !.subs = subs, !.rows = rows]
    BY <1>1 DEF RebasePass
  <2>2. RebasePass(current, out) =
            [subs |-> subs, rows |-> rows, followed |-> games, queue |-> current.queue]
    BY <2>1, GoodParts
  <2> QED
    BY <2>2
<1>3. out.desired[i].owner \in SubIds(subs)
  BY <1>1, RebasedSubsAre
<1>4. desired \in Seq(WantType) /\ \E k \in DOMAIN desired : desired[k] = out.desired[i]
  BY <1>1, <1>3, RebasedDesiredIs
<1>5. PICK k \in DOMAIN desired : desired[k] = out.desired[i]
  BY <1>4
<1>6. current.rows \in Seq(RowType)
  BY GoodFields
<1>7. desired[k].login \in LoginsOf(rows)
  BY <1>1, <1>4, <1>6, ReconcileKeepsWanted
<1> QED
  BY <1>2, <1>5, <1>7

\* Rebasing a pass on a sound config gives a sound one.
LEMMA RebaseIsGood ==
    ASSUME NEW current, IsGood(current), NEW out, IsOutcome(out, current)
    PROVE  /\ IsGood(RebasePass(current, out))
           /\ SubIds(RebasePass(current, out).subs)
                 \subseteq SubIds(current.subs) \cup SubIds(out.added)
           /\ ~Differs(current.rows, RebasePass(current, out).rows)
                 => RebasePass(current, out).rows = current.rows
<1>1. PICK subs, desired, rows, games :
        /\ subs = RebasedSubs(current, out)
        /\ desired = RebasedDesired(current, out, SubIds(subs))
        /\ rows = Reconcile(current.rows, desired)
        /\ games = RebasedGames(current, out)
  OBVIOUS
<1>2. RebasePass(current, out) =
          [subs |-> subs, rows |-> rows, followed |-> games, queue |-> current.queue]
  <2>1. RebasePass(current, out) =
            [current EXCEPT !.followed = games, !.subs = subs, !.rows = rows]
    BY <1>1 DEF RebasePass
  <2> QED
    BY <2>1, GoodParts
<1>3. /\ current.rows \in Seq(RowType) /\ HasDistinctLogins(current.rows)
      /\ current.queue \in BOOLEAN
  BY GoodFields
<1>4. /\ subs \in Seq(SubType) /\ HasDistinctSubs(subs)
      /\ SubIds(subs) \subseteq SubIds(current.subs) \cup SubIds(out.added)
  BY <1>1, RebasedSubsAre
<1>5. games \in Seq(GameType) /\ HasDistinctGames(games)
  BY <1>1, RebasedGamesAre
<1>6. /\ desired \in Seq(WantType)
      /\ \A i \in DOMAIN desired : desired[i].owner \in SubIds(subs)
  BY <1>1, RebasedDesiredIs
<1>7. /\ rows \in Seq(RowType) /\ HasDistinctLogins(rows)
      /\ \A k \in DOMAIN rows : \/ rows[k].owner = ByHand
                                \/ \E i \in DOMAIN desired : rows[k].owner = desired[i].owner
  BY <1>1, <1>3, <1>6, ReconcileIs
<1>8. Owners(rows) \subseteq SubIds(subs)
  BY <1>6, <1>7 DEF Owners
<1>9. IsGood(RebasePass(current, out))
  <2>1. IsGood([subs |-> subs, rows |-> rows, followed |-> games, queue |-> current.queue])
    BY <1>3, <1>4, <1>5, <1>7, <1>8, GoodIs
  <2> QED
    BY <2>1, <1>2
<1>10. ~Differs(current.rows, rows) => rows = current.rows
  BY <1>1, <1>3, <1>6, ReconcileSettles
<1> QED
  BY <1>2, <1>4, <1>9, <1>10

\* No campaign is added that its game was known to skip.
AddsUnskipped(out) ==
    \A i \in DOMAIN out.added, g \in DOMAIN out.gamesBefore :
        out.gamesBefore[g].game = out.added[i].via
            => out.added[i].target \notin out.gamesBefore[g].skipped

\* Rebasing undoes nothing that current holds.
LEMMA RebaseUndoesNothing ==
    ASSUME NEW current, IsGood(current), NEW out, IsOutcome(out, current), AddsUnskipped(out)
    PROVE  /\ Manual(RebasePass(current, out).rows) = Manual(current.rows)
           /\ GamesOf(RebasePass(current, out)) = GamesOf(current)
           /\ RebasePass(current, out).queue = current.queue
           /\ \A s \in ToSet(RebasePass(current, out).subs) \ ToSet(current.subs) :
                 \E g \in DOMAIN current.followed :
                    /\ current.followed[g].game = s.via
                    /\ s.target \notin current.followed[g].skipped
<1>1. PICK subs, desired, rows, games, next :
        /\ subs = RebasedSubs(current, out)
        /\ desired = RebasedDesired(current, out, SubIds(subs))
        /\ rows = Reconcile(current.rows, desired)
        /\ games = RebasedGames(current, out)
        /\ next = RebasePass(current, out)
  OBVIOUS
<1>2. next = [subs |-> subs, rows |-> rows, followed |-> games, queue |-> current.queue]
  <2>1. RebasePass(current, out) =
            [current EXCEPT !.followed = games, !.subs = subs, !.rows = rows]
    BY <1>1 DEF RebasePass
  <2>2. RebasePass(current, out) =
            [subs |-> subs, rows |-> rows, followed |-> games, queue |-> current.queue]
    BY <2>1, GoodParts
  <2> QED
    BY <2>2, <1>1
<1>3. Manual(rows) = Manual(current.rows)
  <2>1. /\ desired \in Seq(WantType)
        /\ \A i \in DOMAIN desired : desired[i].owner \in SubIds(subs)
    BY <1>1, RebasedDesiredIs
  <2>2. subs \in Seq(SubType)
    BY <1>1, RebasedSubsAre
  <2>3. \A i \in DOMAIN subs : subs[i] \in SubType
    BY <2>2, Places
  <2>4. ByHand \notin SubIds(subs)
    BY <2>3 DEF SubIds, SubType, Ids, ByHand
  <2>5. \A i \in DOMAIN desired : desired[i].owner # ByHand
    BY <2>1, <2>4
  <2>6. current.rows \in Seq(RowType)
    BY GoodFields
  <2> QED
    BY <1>1, <2>1, <2>5, <2>6, ReconcileKeepsManual
<1>4. /\ DOMAIN games = DOMAIN current.followed
      /\ \A g \in DOMAIN current.followed :
            /\ games[g].game = current.followed[g].game
            /\ \A x \in current.followed[g].skipped :
                  \/ x \in games[g].skipped
                  \/ \E i \in DOMAIN out.gamesBefore :
                        /\ out.gamesBefore[i].game = current.followed[g].game
                        /\ x \in out.gamesBefore[i].skipped
  BY <1>1, RebasedGamesAre
<1>5. GamesOf(next) = GamesOf(current)
  BY <1>2, <1>4 DEF GamesOf
<1>6. \A s \in ToSet(subs) \ ToSet(current.subs) : \E g \in DOMAIN current.followed :
          current.followed[g].game = s.via /\ s.target \notin current.followed[g].skipped
  <2> SUFFICES ASSUME NEW s \in ToSet(subs) \ ToSet(current.subs)
               PROVE  \E g \in DOMAIN current.followed :
                         /\ current.followed[g].game = s.via
                         /\ s.target \notin current.followed[g].skipped
    OBVIOUS
  <2>1. IsAdded(s, current, out)
    BY <1>1, RebasedSubsAre
  <2>2. PICK i \in DOMAIN out.added : s.via = out.added[i].via /\ s.target = out.added[i].target
    BY <2>1 DEF IsAdded
  <2>3. PICK g \in DOMAIN games : games[g].game = s.via /\ s.target \notin games[g].skipped
    BY <2>1, <1>1 DEF IsAdded
  <2>4. g \in DOMAIN current.followed /\ current.followed[g].game = s.via
    BY <2>3, <1>4
  <2>5. \A j \in DOMAIN out.gamesBefore :
            out.gamesBefore[j].game = s.via => s.target \notin out.gamesBefore[j].skipped
    BY <2>2 DEF AddsUnskipped
  <2>6. s.target \notin current.followed[g].skipped
    BY <2>3, <2>4, <2>5, <1>4
  <2> QED
    BY <2>4, <2>6
<1> QED
  BY <1>1, <1>2, <1>3, <1>5, <1>6

-----------------------------------------------------------------------------
(* What a pass adds.                                                       *)

\* Fresh ids are in use nowhere, and each is another.
LEMMA FreshIdsAre ==
    ASSUME Parameters
    PROVE  /\ FreshIds \in Seq(Ids)
           /\ \A k \in DOMAIN FreshIds : FreshIds[k] \in Ids \ IdsInUse
           /\ \A k, l \in DOMAIN FreshIds : FreshIds[k] = FreshIds[l] => k = l
<1>1. PICK S, n, fresh : S = Ids \ IdsInUse /\ n = Cardinality(S) /\ fresh = FreshIds
  OBVIOUS
<1>2. IsFiniteSet(S) /\ S \subseteq Int
  <2>1. IsFiniteSet(Ids)
    BY PlacesOfN DEF Parameters, Ids
  <2>2. S \subseteq Ids
    BY <1>1
  <2>3. IsFiniteSet(S)
    BY <2>1, <2>2, FS_Subset
  <2> QED
    BY <2>2, <2>3 DEF Ids
<1>3. /\ n \in Nat /\ fresh \in [1..n -> S]
      /\ \A i, j \in 1..n : i < j => fresh[i] < fresh[j]
  BY <1>1, <1>2, AscendingIs DEF FreshIds
<1>4. \A k, l \in 1..n : fresh[k] = fresh[l] => k = l
  <2> SUFFICES ASSUME NEW k \in 1..n, NEW l \in 1..n, fresh[k] = fresh[l]
               PROVE  k = l
    OBVIOUS
  <2>1. fresh[k] \in Int
    BY <1>2, <1>3
  <2>2. ~(k < l) /\ ~(l < k)
    BY <2>1, <1>3
  <2> QED
    BY <2>2, <1>3
<1>5. fresh \in Seq(Ids)
  <2>1. fresh \in [1..n -> Ids]
    BY <1>1, <1>3
  <2> QED
    BY <2>1, <1>3, SeqDef
<1> QED
  BY <1>1, <1>3, <1>4, <1>5

\* What a pass's added subscriptions are, given what it loaded: new campaigns,
\* each of a followed game that does not skip it.
AreAdditions(added, loaded) ==
    /\ added \in Seq(SubType) /\ HasDistinctSubs(added)
    /\ \A k \in DOMAIN added :
          /\ added[k].rank = MaxRank(loaded.subs) + k
          /\ added[k].target \notin Targets(loaded.subs)
          /\ \E g \in DOMAIN loaded.followed :
                /\ loaded.followed[g].game = added[k].via
                /\ added[k].target \notin loaded.followed[g].skipped
                /\ added[k].pool = loaded.followed[g].pool

\* A pass adds no campaign that it knows to be gone, over or complete.
AreCollectable(added, seen) ==
    \A k \in DOMAIN added : /\ added[k].target \in seen.listed \ seen.complete
                            /\ seen.phase[added[k].target] # "over"

AddedType == [target : Campaigns, pool : Nat, via : Nat]

\* The additions of a pass are such, with fresh ids.
LEMMA AdditionsAre ==
    ASSUME Parameters, NEW loaded, IsGood(loaded), NEW seen, seen.listed \subseteq Campaigns,
           NEW fresh, \A k \in DOMAIN fresh : fresh[k] \in Ids,
           \A k, l \in DOMAIN fresh : fresh[k] = fresh[l] => k = l,
           DOMAIN Additions(loaded, seen, fresh) \subseteq DOMAIN fresh
    PROVE  /\ AreAdditions(Additions(loaded, seen, fresh), loaded)
           /\ AreCollectable(Additions(loaded, seen, fresh), seen)
           /\ SubIds(Additions(loaded, seen, fresh)) \subseteq {fresh[k] : k \in DOMAIN fresh}
<1>1. PICK games, found, adds :
        /\ games = loaded.followed
        /\ found = [g \in DOMAIN games |-> Found(loaded, g, seen)]
        /\ adds = [g \in DOMAIN games |-> Adds(games[g], g, found[g])]
  OBVIOUS
<1>2. PICK triples, new, max, added :
        /\ triples = UNION {adds[g] : g \in DOMAIN games}
        /\ new = Listing(triples)
        /\ max = MaxRank(loaded.subs)
        /\ added = Additions(loaded, seen, fresh)
  OBVIOUS
<1>3. added = [k \in DOMAIN new |-> [id |-> fresh[k], target |-> new[k].target,
                                     rank |-> max + k, pool |-> new[k].pool,
                                     via |-> new[k].via]]
  <2>1. {adds[g] : g \in DOMAIN games} =
            {Adds(loaded.followed[g], g, Found(loaded, g, seen)) : g \in DOMAIN loaded.followed}
    BY <1>1
  <2>2. new = Listing(UNION {Adds(loaded.followed[g], g, Found(loaded, g, seen)) :
                                g \in DOMAIN loaded.followed})
    BY <1>2, <2>1
  <2> QED
    BY <1>2, <2>2 DEF Additions
<1>4. games \in Seq(GameType) /\ HasDistinctGames(games)
  BY <1>1, GoodFields
<1>5. /\ Len(games) \in Nat /\ DOMAIN games = 1..Len(games)
      /\ \A g \in DOMAIN games : games[g] \in GameType
  BY <1>4, Places
<1>6. \A g \in DOMAIN games : \A c \in found[g] :
          /\ c \in Campaigns /\ GameOf[c] = games[g].game /\ c \notin games[g].skipped
          /\ c \in seen.listed \ seen.complete /\ seen.phase[c] # "over"
          /\ c \notin Targets(loaded.subs)
  BY <1>1 DEF Found, Candidates
<1>7. \A t \in triples : \E g \in DOMAIN games : \E c \in found[g] :
          t = <<g, c, [target |-> c, pool |-> games[g].pool, via |-> games[g].game]>>
  <2>1. \A t \in triples : \E g \in DOMAIN games : t \in Adds(games[g], g, found[g])
    BY <1>1, <1>2
  <2> QED
    BY <2>1 DEF Adds
<1>8. triples \subseteq Int \X Int \X AddedType
  <2> SUFFICES ASSUME NEW t \in triples
               PROVE  t \in Int \X Int \X AddedType
    OBVIOUS
  <2>1. PICK g \in DOMAIN games : \E c \in found[g] :
          t = <<g, c, [target |-> c, pool |-> games[g].pool, via |-> games[g].game]>>
    BY <1>7
  <2>2. PICK c \in found[g] :
          t = <<g, c, [target |-> c, pool |-> games[g].pool, via |-> games[g].game]>>
    BY <2>1
  <2>3. g \in Int /\ c \in Campaigns /\ games[g].pool \in Nat /\ games[g].game \in Nat
    BY <1>5, <1>6 DEF GameType
  <2>4. c \in Int
    BY <2>3 DEF Parameters
  <2> QED
    BY <2>2, <2>3, <2>4 DEF AddedType
<1>9. IsFiniteSet(triples)
  <2>1. \A g \in DOMAIN games : IsFiniteSet(adds[g])
    <3> SUFFICES ASSUME NEW g \in DOMAIN games
                 PROVE  IsFiniteSet(adds[g])
      OBVIOUS
    <3>1. found[g] \in SUBSET Campaigns /\ IsFiniteSet(Campaigns)
      BY <1>6 DEF Parameters
    <3>2. IsFiniteSet(found[g])
      BY <3>1, FS_Subset
    <3>3. PICK f : f = [c \in found[g] |->
              <<g, c, [target |-> c, pool |-> games[g].pool, via |-> games[g].game]>>]
      OBVIOUS
    <3>4. IsFiniteSet({f[c] : c \in found[g]})
      BY <3>2, FiniteImage
    <3>5. {f[c] : c \in found[g]} = adds[g]
      BY <1>1, <3>3 DEF Adds
    <3> QED
      BY <3>4, <3>5
  <2>2. IsFiniteSet({adds[g] : g \in DOMAIN games})
    BY <1>5, PlacesOfN, FiniteImage
  <2> QED
    BY <1>2, <2>1, <2>2, FS_UNION
<1>10. \A t, u \in triples : t[1] = u[1] /\ t[2] = u[2] => t = u
  BY <1>7
<1>11. AreTriples(triples, AddedType)
  BY <1>8, <1>9, <1>10 DEF AreTriples
<1>12. new \in Seq(AddedType) /\ \E of : IsListing(of, new, triples)
  BY <1>2, <1>11, ListingIs
<1>13. PICK of : IsListing(of, new, triples)
  BY <1>12
<1>14. \A k \in DOMAIN new :
          /\ of[k] \in triples
          /\ \E g \in DOMAIN games :
                /\ of[k][1] = g /\ of[k][2] = new[k].target
                /\ new[k].via = games[g].game /\ new[k].pool = games[g].pool
                /\ GameOf[new[k].target] = games[g].game
                /\ new[k].target \in found[g]
  <2> SUFFICES ASSUME NEW k \in DOMAIN new
               PROVE  /\ of[k] \in triples
                      /\ \E g \in DOMAIN games :
                            /\ of[k][1] = g /\ of[k][2] = new[k].target
                            /\ new[k].via = games[g].game /\ new[k].pool = games[g].pool
                            /\ GameOf[new[k].target] = games[g].game
                            /\ new[k].target \in found[g]
    OBVIOUS
  <2>1. of[k] \in triples /\ new[k] = of[k][3]
    BY <1>13 DEF IsListing
  <2>2. PICK g \in DOMAIN games : \E c \in found[g] :
          of[k] = <<g, c, [target |-> c, pool |-> games[g].pool, via |-> games[g].game]>>
    BY <2>1, <1>7
  <2>3. PICK c \in found[g] :
          of[k] = <<g, c, [target |-> c, pool |-> games[g].pool, via |-> games[g].game]>>
    BY <2>2
  <2>4. /\ of[k][1] = g /\ of[k][2] = c
        /\ new[k].target = c /\ new[k].via = games[g].game /\ new[k].pool = games[g].pool
    BY <2>1, <2>3
  <2> QED
    BY <2>1, <2>4, <1>6
<1>15. \A k, l \in DOMAIN new : new[k].target = new[l].target => k = l
  <2> SUFFICES ASSUME NEW k \in DOMAIN new, NEW l \in DOMAIN new,
                      new[k].target = new[l].target
               PROVE  k = l
    OBVIOUS
  <2>1. PICK g \in DOMAIN games : /\ of[k][1] = g /\ of[k][2] = new[k].target
                                  /\ GameOf[new[k].target] = games[g].game
    BY <1>14
  <2>2. PICK h \in DOMAIN games : /\ of[l][1] = h /\ of[l][2] = new[l].target
                                  /\ GameOf[new[l].target] = games[h].game
    BY <1>14
  <2>3. g = h
    BY <2>1, <2>2, <1>4 DEF HasDistinctGames
  <2>4. of[k] = of[l]
    BY <2>1, <2>2, <2>3, <1>10, <1>14
  <2> QED
    BY <2>4, <1>13 DEF IsListing
<1>16. DOMAIN added = DOMAIN new /\ DOMAIN new \subseteq DOMAIN fresh
  BY <1>2, <1>3
<1>17. \A k \in DOMAIN new : added[k] \in SubType
  <2>1. DOMAIN new \subseteq Nat \ {0} /\ \A k \in DOMAIN new : new[k] \in AddedType
    <3>1. /\ Len(new) \in Nat /\ DOMAIN new = 1..Len(new)
          /\ \A k \in DOMAIN new : new[k] \in AddedType
      BY <1>12, Places
    <3> QED
      BY <3>1
  <2>2. max \in Nat \cup {-1}
    BY <1>2, GoodFields, MaxRankIs
  <2>3. \A k \in DOMAIN new : max + k \in Nat /\ fresh[k] \in Ids
    BY <2>1, <2>2, <1>16
  <2> QED
    BY <2>1, <2>3, <1>3 DEF SubType, AddedType
<1>18. added \in Seq(SubType)
  <2>1. added = [k \in DOMAIN new |-> added[k]]
    BY <1>3
  <2> QED
    BY <2>1, <1>12, <1>17, PlaceByPlace
<1>19. HasDistinctSubs(added)
  <2>1. \A k \in DOMAIN added : added[k].id = fresh[k] /\ added[k].target = new[k].target
    BY <1>3, <1>16
  <2>2. \A k, l \in DOMAIN added : fresh[k] = fresh[l] => k = l
    BY <1>16
  <2> QED
    BY <2>1, <2>2, <1>15, <1>16 DEF HasDistinctSubs
<1>20. ASSUME NEW k \in DOMAIN added
       PROVE  /\ added[k].rank = MaxRank(loaded.subs) + k
              /\ added[k].target \notin Targets(loaded.subs)
              /\ added[k].target \in seen.listed \ seen.complete
              /\ seen.phase[added[k].target] # "over"
              /\ \E g \in DOMAIN loaded.followed :
                    /\ loaded.followed[g].game = added[k].via
                    /\ added[k].target \notin loaded.followed[g].skipped
                    /\ added[k].pool = loaded.followed[g].pool
  <2>1. /\ added[k].via = new[k].via /\ added[k].target = new[k].target
        /\ added[k].rank = max + k /\ added[k].pool = new[k].pool
    BY <1>3, <1>16
  <2>2. PICK g \in DOMAIN games : /\ new[k].via = games[g].game /\ new[k].pool = games[g].pool
                                  /\ new[k].target \in found[g]
    BY <1>14, <1>16
  <2>3. /\ added[k].target \in seen.listed \ seen.complete
        /\ seen.phase[added[k].target] # "over"
        /\ added[k].target \notin Targets(loaded.subs)
        /\ added[k].target \notin games[g].skipped
    BY <2>1, <2>2, <1>6
  <2> QED
    BY <2>1, <2>2, <2>3, <1>1, <1>2
<1>21. SubIds(added) \subseteq {fresh[k] : k \in DOMAIN fresh}
  BY <1>3, <1>16 DEF SubIds
<1>22. AreAdditions(added, loaded)
  BY <1>18, <1>19, <1>20 DEF AreAdditions
<1>23. AreCollectable(added, seen)
  BY <1>20 DEF AreCollectable
<1> QED
  BY <1>2, <1>21, <1>22, <1>23

\* What the followed games skip after a pass has looked at them.
LEMMA PrunedGamesAre ==
    ASSUME NEW loaded, IsGood(loaded), NEW seen, seen.listed \subseteq Campaigns
    PROVE  PrunedGames(loaded, seen) \in Seq(GameType)
<1>1. PICK games, found :
        /\ games = loaded.followed
        /\ found = [g \in DOMAIN games |-> Candidates(loaded, games[g], seen) \cap seen.complete]
  OBVIOUS
<1>2. games \in Seq(GameType)
  BY <1>1, GoodFields
<1>3. \A g \in DOMAIN games : games[g] \in GameType /\ found[g] \in SUBSET Campaigns
  <2>1. \A g \in DOMAIN games : games[g] \in GameType
    BY <1>2, Places
  <2>2. \A g \in DOMAIN games : found[g] \in SUBSET Campaigns
    BY <1>1 DEF Candidates
  <2> QED
    BY <2>1, <2>2
<1>4. PICK pruned : pruned = [g \in DOMAIN games |->
          [games[g] EXCEPT !.skipped =
              (IF seen.fresh THEN @ \cap seen.listed ELSE @) \cup found[g]]]
  OBVIOUS
<1>5. \A g \in DOMAIN games : pruned[g] \in GameType
  <2> SUFFICES ASSUME NEW g \in DOMAIN games
               PROVE  pruned[g] \in GameType
    OBVIOUS
  <2>1. PICK skipped : skipped = (IF seen.fresh THEN games[g].skipped \cap seen.listed
                                  ELSE games[g].skipped) \cup found[g]
    OBVIOUS
  <2>2. skipped \in SUBSET Campaigns
    BY <2>1, <1>3 DEF GameType
  <2>3. pruned[g] = [games[g] EXCEPT !.skipped = skipped]
    BY <1>4, <2>1
  <2> QED
    BY <2>2, <2>3, <1>3 DEF GameType
<1>6. pruned \in Seq(GameType)
  <2>1. pruned = [g \in DOMAIN games |-> pruned[g]]
    BY <1>4
  <2> QED
    BY <2>1, <1>2, <1>5, PlaceByPlace
<1>7. PrunedGames(loaded, seen) = IF ~seen.available THEN games ELSE pruned
  BY <1>1, <1>4 DEF PrunedGames
<1> QED
  BY <1>2, <1>6, <1>7

\* What a pass added to the config it loaded.
AddedOf(pass) ==
    SubSeq(pass.view.subs, Len(pass.loaded.subs) + 1, Len(pass.view.subs))

\* What is behind the end of s in s \o t is t.
LEMMA BehindIs ==
    ASSUME NEW T, NEW s \in Seq(T), NEW t \in Seq(T)
    PROVE  SubSeq(s \o t, Len(s) + 1, Len(s \o t)) = t
<1>1. Len(s) \in Nat /\ Len(t) \in Nat /\ Len(s \o t) = Len(s) + Len(t)
  BY LenProperties, ConcatProperties
<1>2. CASE t = << >>
  <2>1. Len(t) = 0
    BY <1>2
  <2>2. Len(s \o t) < Len(s) + 1 /\ Len(s) + 1 \in Int /\ Len(s \o t) \in Int
    BY <1>1, <2>1
  <2> QED
    BY <1>2, <2>2, SubSeqEmpty
<1>3. CASE t # << >>
  <2>1. Len(t) \in Nat \ {0}
    BY <1>3, EmptySeq
  <2>2. PICK m, n : m = Len(s) + 1 /\ n = Len(s) + Len(t)
    OBVIOUS
  <2>3. m \in Len(s)+1 .. Len(s)+Len(t) /\ n \in Len(s)+1 .. Len(s)+Len(t)
    BY <1>1, <2>1, <2>2
  <2>4. SubSeq(s \o t, m, n) = SubSeq(t, m - Len(s), n - Len(s))
    BY <2>3, SubSeqOfConcat2
  <2>5. m - Len(s) = 1 /\ n - Len(s) = Len(t)
    BY <1>1, <2>2
  <2>6. SubSeq(t, 1, Len(t)) = t
    BY SubSeqFull
  <2> QED
    BY <1>1, <2>2, <2>4, <2>5, <2>6
<1> QED
  BY <1>2, <1>3

\* The config a pass works on.
LEMMA ViewIs ==
    ASSUME NEW loaded, IsGood(loaded), NEW seen, seen.listed \subseteq Campaigns,
           NEW added, AreAdditions(added, loaded)
    PROVE  /\ View(loaded, seen, added) \in ConfigType
           /\ View(loaded, seen, added).subs = loaded.subs \o added
           /\ SubIds(added) \subseteq SubIds(View(loaded, seen, added).subs)
<1>1. PICK games, subs : games = PrunedGames(loaded, seen) /\ subs = loaded.subs \o added
  OBVIOUS
<1>2. View(loaded, seen, added) =
          [subs |-> subs, rows |-> loaded.rows, followed |-> games, queue |-> loaded.queue]
  <2>1. View(loaded, seen, added) = [loaded EXCEPT !.followed = games, !.subs = subs]
    BY <1>1 DEF View
  <2> QED
    BY <2>1, GoodParts
<1>3. /\ loaded.subs \in Seq(SubType) /\ loaded.rows \in Seq(RowType)
      /\ loaded.queue \in BOOLEAN
  BY GoodFields
<1>4. games \in Seq(GameType)
  BY <1>1, PrunedGamesAre
<1>5. added \in Seq(SubType)
  BY DEF AreAdditions
<1>6. subs \in Seq(SubType) /\ IsJoin(subs, loaded.subs, added)
  BY <1>1, <1>3, <1>5, Concatenated
<1>7. SubIds(added) \subseteq SubIds(subs)
  BY <1>6 DEF SubIds, IsJoin
<1>8. [subs |-> subs, rows |-> loaded.rows, followed |-> games, queue |-> loaded.queue]
          \in ConfigType
  BY <1>3, <1>4, <1>6 DEF ConfigType
<1> QED
  BY <1>1, <1>2, <1>7, <1>8

-----------------------------------------------------------------------------
(* The inductive invariant.                                                *)

\* Every config that may yet be saved is sound: the one on disk, the staged one
\* and the one a subscribe request read, which does not have its campaign.
ConfigsAreGood ==
    /\ IsGood(config)
    /\ staged # Nothing => IsGood(staged)
    /\ subscribing # Nothing =>
          /\ IsGood(subscribing.loaded)
          /\ subscribing.target \in Campaigns \ Targets(subscribing.loaded.subs)
          /\ subscribing.pool \in Nat

WorldIsTyped ==
    /\ listed \subseteq Campaigns
    /\ catalogue \in [listed : SUBSET Campaigns, stale : BOOLEAN, available : BOOLEAN]

\* A pass loaded a sound config, and adds to it what rebasePass() may add.
IsGoodPass(pass) ==
    \/ pass = Idle
    \/ pass.stage = "asking" /\ IsGood(pass.loaded)
    \/ /\ pass.stage = "resolving"
       /\ IsGood(pass.loaded)
       /\ pass.view \in ConfigType
       /\ pass.view = View(pass.loaded, pass.seen, AddedOf(pass))
       /\ AreAdditions(AddedOf(pass), pass.loaded)
       /\ AreCollectable(AddedOf(pass), pass.seen)
       /\ SubIds(AddedOf(pass)) \subseteq SubIds(pass.view.subs)
       /\ pass.seen.fresh => pass.seen.available

PassesAreGood ==
    /\ passes = [s \in Slots |-> passes[s]]
    /\ \A s \in Slots : IsGoodPass(passes[s])

\* The ids a pass in flight has given out, and those in a config that may be saved.
NewIds(pass) == IF pass.stage = "resolving" THEN SubIds(AddedOf(pass)) ELSE {}

SavedIds ==
    SubIds(config.subs)
        \cup (IF staged = Nothing THEN {} ELSE SubIds(staged.subs))
        \cup (IF subscribing = Nothing THEN {} ELSE SubIds(subscribing.loaded.subs))

\* No id that a pass is about to add is in any config that may be saved before
\* that, and no two passes have given out the same.
NewIdsAreNew ==
    /\ \A s \in Slots : NewIds(passes[s]) \cap SavedIds = {}
    /\ \A s, t \in Slots : s # t => NewIds(passes[s]) \cap NewIds(passes[t]) = {}

\* A miner started before the boot pass was done is known to be.
EarlyStartIsWaived == boot = "passing" /\ watched # NotRunning => waived

Inv == ConfigsAreGood /\ WorldIsTyped /\ PassesAreGood /\ NewIdsAreNew

\* A config the backend boots with is sound, and the first pass has loaded it.
LEMMA InvInit ==
    ASSUME Parameters, Init
    PROVE  Inv
<1>1. IsGood(config)
  BY DEF Parameters, Init, IsGood
<1>2. ConfigsAreGood
  BY <1>1 DEF Init, ConfigsAreGood
<1>3. WorldIsTyped
  <2>1. {SavedCatalogue, NoCatalogue}
            \subseteq [listed : SUBSET Campaigns, stale : BOOLEAN, available : BOOLEAN]
    BY DEF SavedCatalogue, NoCatalogue
  <2>2. listed = Campaigns /\ catalogue \in {SavedCatalogue, NoCatalogue}
    BY DEF Init
  <2> QED
    BY <2>1, <2>2 DEF WorldIsTyped
<1>4. PICK slot \in Slots :
          passes = [s \in Slots |->
                       IF s = slot /\ config.subs \o config.followed # <<>>
                         THEN Begun(config, "boot") ELSE Idle]
  BY DEF Init
<1>5. \A s \in Slots : passes[s] \in {Begun(config, "boot"), Idle}
  BY <1>4
<1>6. IsGoodPass(Begun(config, "boot")) /\ NewIds(Begun(config, "boot")) = {}
  BY <1>1 DEF IsGoodPass, NewIds, Begun
<1>7. IsGoodPass(Idle) /\ NewIds(Idle) = {}
  BY DEF IsGoodPass, NewIds, Idle
<1>8. PassesAreGood
  BY <1>4, <1>5, <1>6, <1>7 DEF PassesAreGood
<1>9. \A s \in Slots : NewIds(passes[s]) = {}
  BY <1>5, <1>6, <1>7
<1>10. NewIdsAreNew
  BY <1>9 DEF NewIdsAreNew
<1> QED
  BY <1>2, <1>3, <1>8, <1>10 DEF Inv

-----------------------------------------------------------------------------
(* The steps that add no subscription.                                     *)

\* The passes in flight afterwards, none of which gives out an id.
PassesContinue ==
    /\ PassesAreGood'
    /\ \A s \in Slots : NewIds(passes'[s]) \subseteq NewIds(passes[s])

LEMMA SamePasses ==
    ASSUME PassesAreGood, UNCHANGED passes
    PROVE  PassesContinue
BY DEF PassesAreGood, PassesContinue, IsGoodPass

\* A pass begins on a sound config.
LEMMA BegunPasses ==
    ASSUME PassesAreGood, NEW c, IsGood(c), NEW trigger, BeginPass(c, trigger)
    PROVE  PassesContinue
<1>1. CASE UNCHANGED passes
  BY <1>1, SamePasses
<1>2. CASE \E slot \in FreeSlots : passes' = [passes EXCEPT ![slot] = Begun(c, trigger)]
  <2>1. PICK slot \in FreeSlots : passes' = [passes EXCEPT ![slot] = Begun(c, trigger)]
    BY <1>2
  <2>2. passes = [s \in Slots |-> passes[s]] /\ \A s \in Slots : IsGoodPass(passes[s])
    BY DEF PassesAreGood
  <2>3. /\ passes' = [s \in Slots |-> passes'[s]]
        /\ \A s \in Slots : passes'[s] = IF s = slot THEN Begun(c, trigger) ELSE passes[s]
    BY <2>1, <2>2 DEF FreeSlots
  <2>4. IsGoodPass(Begun(c, trigger)) /\ NewIds(Begun(c, trigger)) = {}
    BY DEF IsGoodPass, NewIds, Begun
  <2>5. \A s \in Slots : IsGoodPass(passes'[s]) /\ NewIds(passes'[s]) \subseteq NewIds(passes[s])
    BY <2>2, <2>3, <2>4
  <2>6. PassesAreGood'
    BY <2>3, <2>5 DEF PassesAreGood, IsGoodPass
  <2> QED
    BY <2>5, <2>6 DEF PassesContinue
<1> QED
  BY <1>1, <1>2 DEF BeginPass

\* Nothing is in a config that may be saved that was in none before.
LEMMA IdsStayNew ==
    ASSUME NewIdsAreNew, PassesContinue, SavedIds' \subseteq SavedIds
    PROVE  NewIdsAreNew'
<1>1. \A s \in Slots : NewIds(passes'[s]) \subseteq NewIds(passes[s])
  BY DEF PassesContinue
<1>2. \A s \in Slots : NewIds(passes'[s]) \cap SavedIds' = {}
  BY <1>1 DEF NewIdsAreNew
<1>3. \A s, t \in Slots : s # t => NewIds(passes'[s]) \cap NewIds(passes'[t]) = {}
  BY <1>1 DEF NewIdsAreNew
<1> QED
  BY <1>2, <1>3 DEF NewIdsAreNew, NewIds

\* A step that only edits the config, or begins a pass, or neither.
LEMMA InvAfterEdit ==
    ASSUME Inv, PassesContinue, IsEditOf(config', config), UNCHANGED <<staged, subscribing>>,
           WorldIsTyped'
    PROVE  Inv'
<1>1. ConfigsAreGood'
  BY DEF Inv, ConfigsAreGood, IsEditOf
<1>2. SavedIds' \subseteq SavedIds
  BY DEF SavedIds, IsEditOf
<1>3. NewIdsAreNew'
  BY <1>2, IdsStayNew DEF Inv
<1> QED
  BY <1>1, <1>3 DEF Inv, PassesContinue

LEMMA SameWorld ==
    ASSUME WorldIsTyped, UNCHANGED <<listed, catalogue>>
    PROVE  WorldIsTyped'
BY DEF WorldIsTyped

\* A request that saves an edit of the config.
LEMMA InvAfterRoute ==
    ASSUME Inv, NEW route, NEW c, NEW trigger, IsEditOf(c, config), UNCHANGED subscribing,
           Edit(route, c, trigger) \/ EditOnly(route, c)
    PROVE  Inv'
<1>1. /\ config' = c /\ UNCHANGED <<staged, listed, catalogue>>
      /\ BeginPass(c, trigger) \/ UNCHANGED passes
  BY DEF Edit, EditOnly, world
<1>2. PassesContinue
  BY <1>1, SamePasses, BegunPasses DEF Inv, IsEditOf
<1>3. WorldIsTyped'
  BY <1>1, SameWorld DEF Inv
<1> QED
  BY <1>1, <1>2, <1>3, InvAfterEdit

\* A step that leaves the configs, the passes and the catalogue alone.
LEMMA InvUntouched ==
    ASSUME Inv, UNCHANGED <<config, staged, passes, subscribing, catalogue>>,
           listed' \subseteq listed
    PROVE  Inv'
<1>1. PassesContinue
  BY SamePasses DEF Inv
<1>2. IsEditOf(config', config)
  BY DEF Inv, ConfigsAreGood, IsEditOf
<1>3. WorldIsTyped'
  BY DEF Inv, WorldIsTyped
<1> QED
  BY <1>1, <1>2, <1>3, InvAfterEdit

\* The routes of the subscriptions and the followed games, and what each does to
\* the watch list: only a removal, or the old copy that a subscribe request saves,
\* may take channels from it, and says so.
IsRoute ==
    \/ Reorder \/ SetPoolSize \/ RemoveSubscription \/ SetQueue
    \/ FollowGame \/ SetGamePool \/ Unskip \/ Unfollow \/ Resolve

LeavesWatched ==
    /\ UNCHANGED <<watched, pending, boot>>
    /\ waived => waived'
    /\ overwritten => overwritten'
    /\ waived' \/ overwritten' \/ Roster(config'.rows) = Roster(config.rows)

LEMMA InvAfterRoutes ==
    ASSUME Parameters, Inv, IsRoute
    PROVE  Inv' /\ LeavesWatched
<1> USE DEF LeavesWatched
<1>1. IsGood(config)
  BY DEF Inv, ConfigsAreGood
<1>2. PICK c : c = config
  OBVIOUS
<1>3. IsGood(c)
  BY <1>1, <1>2
<1>4. \A route, d, trigger :
          (Edit(route, d, trigger) \/ EditOnly(route, d))
             => /\ config' = d /\ UNCHANGED <<watched, pending, boot, overwritten>>
  BY DEF Edit, EditOnly, miner
<1>5. \A route, d : EditOnly(route, d) => UNCHANGED <<subscribing, waived>>
  BY DEF EditOnly, miner
<1>6. ASSUME NEW route, NEW d, NEW trigger, IsEditOf(d, c),
             Edit(route, d, trigger) \/ EditOnly(route, d), UNCHANGED subscribing
      PROVE  Inv'
  BY <1>2, <1>6, InvAfterRoute
<1>7. ASSUME NEW route, NEW d, NEW trigger, IsEditOf(d, c), d.rows = c.rows,
             Edit(route, d, trigger) \/ EditOnly(route, d), UNCHANGED <<subscribing, waived>>
      PROVE  Inv' /\ LeavesWatched
  BY <1>2, <1>4, <1>6, <1>7
<1>10. CASE Reorder
  <2>1. PICK rankOf, d :
          /\ rankOf \in [SubIds(c.subs) -> 0..(Len(c.subs) - 1)]
          /\ d = [c EXCEPT !.subs =
                    [i \in DOMAIN @ |-> [@[i] EXCEPT !.rank = rankOf[c.subs[i].id]]]]
          /\ Edit("reorder", d, "reorder")
          /\ UNCHANGED <<subscribing, waived>>
    BY <1>2, <1>10 DEF Reorder
  <2>2. IsEditOf(d, c) /\ d.rows = c.rows
    BY <1>3, <2>1, ReorderedIsGood
  <2> QED
    BY <1>7, <2>1, <2>2
<1>11. CASE SetPoolSize
  <2>1. PICK id, n, d :
          /\ id \in SubIds(c.subs)
          /\ n \in PoolSizes
          /\ d = [c EXCEPT !.subs =
                    [i \in DOMAIN @ |->
                        IF @[i].id = id THEN [@[i] EXCEPT !.pool = n] ELSE @[i]]]
          /\ Edit("pool-size", d, "pool-size")
          /\ UNCHANGED <<subscribing, waived>>
    BY <1>2, <1>11 DEF SetPoolSize
  <2>2. n \in Nat
    BY <2>1 DEF Parameters
  <2>3. IsEditOf(d, c) /\ d.rows = c.rows
    BY <1>3, <2>1, <2>2, ResizedIsGood
  <2> QED
    BY <1>7, <2>1, <2>3
<1>12. CASE RemoveSubscription
  <2>1. PICK id, d :
          /\ id \in SubIds(c.subs)
          /\ d = Removed(c, id)
          /\ Edit("remove", d, "remove")
          /\ waived' = (waived \/ id \in Owners(c.rows))
          /\ UNCHANGED subscribing
    BY <1>2, <1>12 DEF RemoveSubscription
  <2>2. id \in Ids
    <3>1. \A i \in DOMAIN c.subs : c.subs[i] \in SubType
      BY <1>3, GoodFields, Places
    <3> QED
      BY <2>1, <3>1 DEF SubIds, SubType
  <2>3. IsEditOf(d, c) /\ (id \notin Owners(c.rows) => d.rows = c.rows)
    BY <1>3, <2>1, <2>2, RemovedIsGood
  <2>4. Inv'
    BY <1>6, <2>1, <2>3
  <2>5. config' = d /\ UNCHANGED <<watched, pending, boot, overwritten>>
    BY <1>4, <2>1
  <2> QED
    BY <1>2, <2>1, <2>3, <2>4, <2>5
<1>13. CASE SetQueue
  <2>1. PICK d : /\ d = [c EXCEPT !.queue = ~@]
                 /\ Edit("queue", d, "queue")
                 /\ UNCHANGED <<subscribing, waived>>
    BY <1>2, <1>13 DEF SetQueue
  <2>2. IsEditOf(d, c) /\ d.rows = c.rows
    BY <1>3, <2>1, SwitchedIsGood
  <2> QED
    BY <1>7, <2>1, <2>2
<1>14. CASE FollowGame
  <2>1. PICK game, d :
          /\ game \in {GameOf[k] : k \in Campaigns} \ GamesOf(c)
          /\ d = [c EXCEPT !.followed = Append(@,
                    [game |-> game, pool |-> DefaultPool, skipped |-> {}])]
          /\ Edit("follow", d, "follow")
          /\ UNCHANGED <<subscribing, waived>>
    BY <1>2, <1>14 DEF FollowGame
  <2>2. IsEditOf(d, c) /\ d.rows = c.rows
    BY <1>3, <2>1, FollowingIsGood
  <2> QED
    BY <1>7, <2>1, <2>2
<1>15. \A g \in DOMAIN c.followed : c.followed[g] \in GameType
  BY <1>3, GoodFields, Places
<1>16. CASE SetGamePool
  <2>1. PICK g, n, d :
          /\ g \in DOMAIN c.followed
          /\ n \in PoolSizes
          /\ d = [c EXCEPT !.followed[g].pool = n]
          /\ EditOnly("game-pool", d)
    BY <1>2, <1>16 DEF SetGamePool
  <2>2. PICK game : game = [c.followed[g] EXCEPT !.pool = n]
    OBVIOUS
  <2>3. n \in Nat
    BY <2>1 DEF Parameters
  <2>4. game \in GameType /\ game.game = c.followed[g].game
    BY <1>15, <2>1, <2>2, <2>3 DEF GameType
  <2>5. d = [c EXCEPT !.followed[g] = game]
    BY <2>1, <2>2
  <2>6. IsEditOf(d, c) /\ d.rows = c.rows
    BY <1>3, <2>1, <2>4, <2>5, OneGameIsGood
  <2> QED
    BY <1>5, <1>7, <2>1, <2>6
<1>17. CASE Unskip
  <2>1. PICK g, k, d :
          /\ g \in DOMAIN c.followed
          /\ d = [c EXCEPT !.followed[g].skipped = @ \ {k}]
          /\ Edit("unskip", d, "unskip")
          /\ UNCHANGED <<subscribing, waived>>
    BY <1>2, <1>17 DEF Unskip
  <2>2. PICK game : game = [c.followed[g] EXCEPT !.skipped = @ \ {k}]
    OBVIOUS
  <2>3. g \in DOMAIN c.followed
    BY <2>1
  <2>4. game \in GameType /\ game.game = c.followed[g].game
    BY <1>15, <2>1, <2>2 DEF GameType
  <2>5. d = [c EXCEPT !.followed[g] = game]
    BY <2>1, <2>2
  <2>6. IsEditOf(d, c) /\ d.rows = c.rows
    BY <1>3, <2>3, <2>4, <2>5, OneGameIsGood
  <2> QED
    BY <1>7, <2>1, <2>6
<1>18. CASE Unfollow
  <2>1. PICK game, d :
          /\ game \in GamesOf(c)
          /\ d = [c EXCEPT !.followed = KeptAt(@, {g \in DOMAIN @ : @[g].game # game})]
          /\ EditOnly("unfollow", d)
    BY <1>2, <1>18 DEF Unfollow
  <2>2. IsEditOf(d, c) /\ d.rows = c.rows
    BY <1>3, <2>1, UnfollowedIsGood
  <2> QED
    BY <1>5, <1>7, <2>1, <2>2
<1>19. CASE Resolve
  <2>1. Edit("resolve", c, "manual") /\ UNCHANGED <<subscribing, waived>>
    BY <1>2, <1>19 DEF Resolve
  <2>2. IsEditOf(c, c)
    BY <1>3 DEF IsEditOf
  <2> QED
    BY <1>7, <2>1, <2>2
<1> QED
  BY <1>10, <1>11, <1>12, <1>13, <1>14, <1>16, <1>17, <1>18, <1>19 DEF IsRoute

\* The staged config is an edit of the config or of the one staged before.
LEMMA InvAfterStaging ==
    ASSUME Parameters, Inv, StageConfig
    PROVE  Inv'
<1>1. PICK base : base = IF staged = Nothing THEN config ELSE staged
  OBVIOUS
<1>2. IsGood(base)
  BY <1>1 DEF Inv, ConfigsAreGood
<1>3. IsEditOf(staged', base)
  <2>1. CASE \E l \in Channels \ LoginsOf(base.rows) :
                 staged' = [base EXCEPT !.rows = Append(@,
                              [login |-> l, owner |-> ByHand, on |-> TRUE])]
    BY <1>2, <2>1, AddedRowIsGood
  <2>2. CASE \E i \in DOMAIN base.rows : staged' = [base EXCEPT !.rows[i].on = ~@]
    BY <1>2, <2>2, ToggledRowIsGood
  <2>3. CASE \E i \in DOMAIN base.rows : staged' = [base EXCEPT !.rows = RemoveAt(@, i)]
    BY <1>2, <2>3, RemovedRowIsGood
  <2> QED
    BY <1>1, <2>1, <2>2, <2>3 DEF StageConfig
<1>4. UNCHANGED <<config, passes, subscribing, listed, catalogue>>
  BY DEF StageConfig, world
<1>5. ConfigsAreGood'
  BY <1>3, <1>4 DEF Inv, ConfigsAreGood, IsEditOf
<1>6. SubIds(staged'.subs) \subseteq SubIds(base.subs)
  BY <1>3 DEF IsEditOf
<1>7. SavedIds' \subseteq SavedIds
  BY <1>1, <1>4, <1>6 DEF SavedIds
<1>8. PassesContinue
  BY <1>4, SamePasses DEF Inv
<1>9. NewIdsAreNew'
  BY <1>7, <1>8, IdsStayNew DEF Inv
<1>10. WorldIsTyped'
  BY <1>4, SameWorld DEF Inv
<1> QED
  BY <1>5, <1>8, <1>9, <1>10 DEF Inv, PassesContinue

LEMMA InvAfterApplying ==
    ASSUME Inv, ApplyConfig
    PROVE  Inv'
<1>1. /\ staged # Nothing /\ staged' = Nothing /\ config' = staged
      /\ UNCHANGED <<passes, subscribing, listed, catalogue>>
  BY DEF ApplyConfig, world
<1>2. ConfigsAreGood'
  BY <1>1 DEF Inv, ConfigsAreGood
<1>3. SavedIds' \subseteq SavedIds
  BY <1>1 DEF SavedIds
<1>4. PassesContinue
  BY <1>1, SamePasses DEF Inv
<1>5. NewIdsAreNew'
  BY <1>3, <1>4, IdsStayNew DEF Inv
<1>6. WorldIsTyped'
  BY <1>1, SameWorld DEF Inv
<1> QED
  BY <1>2, <1>4, <1>5, <1>6 DEF Inv, PassesContinue

\* The subscribe request holds the config, which has no such subscription yet.
LEMMA InvAfterAsking ==
    ASSUME Parameters, Inv, SubscribeBegins
    PROVE  Inv'
<1>1. PICK k \in Campaigns \ Targets(config.subs), n \in PoolSizes :
          subscribing' = [loaded |-> config, target |-> k, pool |-> n]
  BY DEF SubscribeBegins
<1>2. /\ UNCHANGED <<config, staged, passes, listed, catalogue>> /\ subscribing = Nothing
  BY DEF SubscribeBegins, world
<1>3. n \in Nat
  BY DEF Parameters
<1>4. ConfigsAreGood'
  BY <1>1, <1>2, <1>3 DEF Inv, ConfigsAreGood
<1>5. SavedIds' \subseteq SavedIds
  BY <1>1, <1>2 DEF SavedIds
<1>6. PassesContinue
  BY <1>2, SamePasses DEF Inv
<1>7. NewIdsAreNew'
  BY <1>5, <1>6, IdsStayNew DEF Inv
<1>8. WorldIsTyped'
  BY <1>2, SameWorld DEF Inv
<1> QED
  BY <1>4, <1>6, <1>7, <1>8 DEF Inv, PassesContinue

\* The steps of the timer, of the miner and of the world.
LEMMA InvAfterTheRest ==
    ASSUME Inv,
           \/ TimerPass \/ BootBudgetSpent
           \/ MinerStarts \/ MinerStops \/ RestartFires \/ CancelRestart
           \/ CampaignOpens \/ CampaignEnds \/ CampaignLeaves \/ CampaignCompletes
    PROVE  Inv'
<1>1. CASE TimerPass
  <2>1. BeginPass(config, "timer") /\ UNCHANGED <<config, staged, subscribing, listed, catalogue>>
    BY <1>1 DEF TimerPass, world
  <2>2. IsGood(config)
    BY DEF Inv, ConfigsAreGood
  <2>3. PassesContinue
    BY <2>1, <2>2, BegunPasses DEF Inv
  <2>4. WorldIsTyped'
    BY <2>1, SameWorld DEF Inv
  <2>5. IsEditOf(config', config)
    BY <2>1, <2>2 DEF IsEditOf
  <2> QED
    BY <2>1, <2>3, <2>4, <2>5, InvAfterEdit
<1>2. CASE BootBudgetSpent
  BY <1>2, InvUntouched DEF BootBudgetSpent, world
<1>3. CASE MinerStarts \/ MinerStops \/ RestartFires \/ CancelRestart
  BY <1>3, InvUntouched DEF MinerStarts, MinerStops, RestartFires, CancelRestart, world
<1>4. CASE CampaignOpens \/ CampaignEnds \/ CampaignCompletes
  BY <1>4, InvUntouched DEF CampaignOpens, CampaignEnds, CampaignCompletes
<1>5. CASE CampaignLeaves
  BY <1>5, InvUntouched DEF CampaignLeaves
<1> QED
  BY <1>1, <1>2, <1>3, <1>4, <1>5

-----------------------------------------------------------------------------
(* The steps that add subscriptions.                                       *)

\* An id that is given out is in no config that may be saved, and in no pass.
LEMMA FreshIsNew ==
    ASSUME PassesAreGood, NEW i, i \notin IdsInUse
    PROVE  i \notin SavedIds /\ \A s \in Slots : i \notin NewIds(passes[s])
<1>1. i \notin SavedIds
  BY DEF IdsInUse, SavedIds
<1>2. ASSUME NEW s \in Slots
      PROVE  i \notin NewIds(passes[s])
  <2>1. CASE passes[s].stage # "resolving"
    BY <2>1 DEF NewIds
  <2>2. CASE passes[s].stage = "resolving"
    <3>1. passes[s].stage # "idle" /\ passes[s].stage # "asking"
      BY <2>2
    <3>2. PICK used : used = CASE passes[s].stage = "idle"      -> {}
                               [] passes[s].stage = "asking"    -> SubIds(passes[s].loaded.subs) \cup Owners(passes[s].loaded.rows)
                               [] passes[s].stage = "resolving" -> SubIds(passes[s].view.subs) \cup Owners(passes[s].view.rows)
      OBVIOUS
    <3>3. used \subseteq IdsInUse
      BY <3>2 DEF IdsInUse
    <3>4. SubIds(passes[s].view.subs) \subseteq used
      BY <2>2, <3>1, <3>2
    <3>5. SubIds(AddedOf(passes[s])) \subseteq SubIds(passes[s].view.subs)
      BY <2>2, <3>1 DEF PassesAreGood, IsGoodPass, Idle
    <3> QED
      BY <2>2, <3>3, <3>4, <3>5 DEF NewIds
  <2> QED
    BY <2>1, <2>2
<1> QED
  BY <1>1, <1>2

\* What the catalogue answers is a set of campaigns.
LEMMA CatalogueIsTyped ==
    ASSUME Parameters, WorldIsTyped, NEW get \in CatalogueGets
    PROVE  CatalogueAfter(get) \in [listed : SUBSET Campaigns, stale : BOOLEAN, available : BOOLEAN]
<1>1. get \in {"cached", "fetched", "failed"}
  BY DEF Parameters
<1>2. CASE get = "cached"
  BY <1>2 DEF CatalogueAfter, WorldIsTyped
<1>3. CASE get = "fetched"
  BY <1>3 DEF CatalogueAfter, WorldIsTyped
<1>4. CASE get = "failed"
  BY <1>4 DEF CatalogueAfter, WorldIsTyped
<1> QED
  BY <1>1, <1>2, <1>3, <1>4

\* The request saves the config it read with a new subscription; or it changes
\* nothing but the catalogue.
LEMMA InvAfterSubscribing ==
    ASSUME Parameters, Inv, SubscribeEnds
    PROVE  Inv' /\ LeavesWatched
<1>1. PICK get \in CatalogueGets, read \in ProgressReads :
        /\ catalogue' = CatalogueAfter(get)
        /\ IF Refused(subscribing.target, catalogue', read)
             THEN UNCHANGED <<config, passes, scheduled, overwritten>>
             ELSE /\ FreshIds # <<>>
                  /\ config' = Subscribed(subscribing)
                  /\ overwritten' =
                        (overwritten \/ Roster(config'.rows) # Roster(config.rows))
                  /\ BeginPass(config', "subscribe")
  BY DEF SubscribeEnds, Gets
<1>2. /\ subscribing # Nothing /\ subscribing' = Nothing
      /\ UNCHANGED <<staged, boot, watched, pending, waived, listed>>
  BY DEF SubscribeEnds, world
<1>3. WorldIsTyped'
  <2>1. CatalogueAfter(get) \in [listed : SUBSET Campaigns, stale : BOOLEAN, available : BOOLEAN]
    BY CatalogueIsTyped DEF Inv
  <2> QED
    BY <1>1, <1>2, <2>1 DEF Inv, WorldIsTyped
<1>4. CASE UNCHANGED <<config, passes, scheduled, overwritten>>
  <2>1. ConfigsAreGood' /\ SavedIds' \subseteq SavedIds
    BY <1>2, <1>4 DEF Inv, ConfigsAreGood, SavedIds
  <2>2. PassesContinue
    BY <1>4, SamePasses DEF Inv
  <2>3. NewIdsAreNew'
    BY <2>1, <2>2, IdsStayNew DEF Inv
  <2> QED
    BY <1>2, <1>3, <1>4, <2>1, <2>2, <2>3 DEF Inv, PassesContinue, LeavesWatched
<1>5. CASE /\ FreshIds # <<>>
           /\ config' = Subscribed(subscribing)
           /\ overwritten' = (overwritten \/ Roster(config'.rows) # Roster(config.rows))
           /\ BeginPass(config', "subscribe")
  <2>1. PICK c, sub, d :
          /\ c = subscribing.loaded
          /\ sub = [id |-> FreshIds[1], target |-> subscribing.target, rank |-> Len(c.subs),
                    pool |-> subscribing.pool, via |-> ByHand]
          /\ d = [c EXCEPT !.subs = Append(@, sub)]
    OBVIOUS
  <2>2. config' = d
    BY <1>5, <2>1 DEF Subscribed
  <2>3. /\ IsGood(c) /\ subscribing.target \in Campaigns \ Targets(c.subs)
        /\ subscribing.pool \in Nat
    BY <1>2, <2>1 DEF Inv, ConfigsAreGood
  <2>4. FreshIds[1] \in Ids \ IdsInUse
    <3>1. FreshIds \in Seq(Ids) /\ \A k \in DOMAIN FreshIds : FreshIds[k] \in Ids \ IdsInUse
      BY FreshIdsAre
    <3>2. Len(FreshIds) \in Nat \ {0} /\ DOMAIN FreshIds = 1..Len(FreshIds)
      BY <1>5, <3>1, EmptySeq, Places
    <3> QED
      BY <3>1, <3>2
  <2>5. FreshIds[1] \notin SavedIds /\ \A s \in Slots : FreshIds[1] \notin NewIds(passes[s])
    BY <2>4, FreshIsNew DEF Inv
  <2>6. sub \in SubType
    <3>1. c.subs \in Seq(SubType)
      BY <2>3, GoodFields
    <3>2. Len(c.subs) \in Nat
      BY <3>1, LenProperties
    <3> QED
      BY <2>1, <2>3, <2>4, <3>2 DEF SubType, ByHand
  <2>7. SubIds(c.subs) \subseteq SavedIds
    BY <1>2, <2>1 DEF SavedIds
  <2>8. sub.id \notin SubIds(c.subs) /\ sub.target \notin Targets(c.subs)
    BY <2>1, <2>3, <2>5, <2>7
  <2>9. IsGood(d) /\ SubIds(d.subs) = SubIds(c.subs) \cup {FreshIds[1]}
    BY <2>1, <2>3, <2>6, <2>8, SubscribedIsGood
  <2>10. ConfigsAreGood'
    BY <1>2, <2>2, <2>9 DEF Inv, ConfigsAreGood
  <2>11. SavedIds' \subseteq SavedIds \cup {FreshIds[1]}
    BY <1>2, <2>2, <2>7, <2>9 DEF SavedIds
  <2>12. PassesContinue
    BY <1>5, <2>2, <2>9, BegunPasses DEF Inv
  <2>13. NewIdsAreNew'
    <3>1. \A s \in Slots : NewIds(passes'[s]) \subseteq NewIds(passes[s])
      BY <2>12 DEF PassesContinue
    <3>2. \A s \in Slots : NewIds(passes'[s]) \cap SavedIds' = {}
      BY <2>5, <2>11, <3>1 DEF Inv, NewIdsAreNew
    <3>3. \A s, t \in Slots : s # t => NewIds(passes'[s]) \cap NewIds(passes'[t]) = {}
      BY <3>1 DEF Inv, NewIdsAreNew
    <3> QED
      BY <3>2, <3>3 DEF NewIdsAreNew, NewIds
  <2>14. LeavesWatched
    <3>1. PICK kept : kept = (Roster(config'.rows) = Roster(config.rows))
      OBVIOUS
    <3>2. overwritten' = (overwritten \/ ~kept)
      BY <1>5, <3>1
    <3> QED
      BY <1>2, <3>1, <3>2 DEF LeavesWatched
  <2> QED
    BY <1>3, <2>10, <2>12, <2>13, <2>14 DEF Inv, PassesContinue
<1> QED
  BY <1>1, <1>4, <1>5

\* The pass takes fresh ids for what its followed games add.
LEMMA InvAfterDeciding ==
    ASSUME Parameters, Inv, NEW slot \in Slots, Decide(slot)
    PROVE  Inv'
<1>0. PICK get \in CatalogueGets, read \in ProgressReads :
        LET pass  == passes[slot]
            got   == CatalogueAfter(get)
            seen  == Seen(got, read)
            added == Additions(pass.loaded, seen, FreshIds)
            view  == View(pass.loaded, seen, added)
        IN  /\ DOMAIN added \subseteq DOMAIN FreshIds
            /\ catalogue' = got
            /\ passes' = [passes EXCEPT ![slot] =
                             [stage |-> "resolving", loaded |-> pass.loaded,
                              trigger |-> pass.trigger, seen |-> seen, view |-> view]]
  BY DEF Decide, Gets
<1>1. PICK pass, got, seen, added, view :
        /\ pass = passes[slot] /\ got = CatalogueAfter(get) /\ seen = Seen(got, read)
        /\ added = Additions(pass.loaded, seen, FreshIds)
        /\ view = View(pass.loaded, seen, added)
        /\ DOMAIN added \subseteq DOMAIN FreshIds
        /\ catalogue' = got
        /\ passes' = [passes EXCEPT ![slot] =
                         [stage |-> "resolving", loaded |-> pass.loaded,
                          trigger |-> pass.trigger, seen |-> seen, view |-> view]]
  BY <1>0
<1>2. /\ passes[slot].stage = "asking"
      /\ UNCHANGED <<config, staged, subscribing, listed>>
  BY DEF Decide, world
<1>3. got \in [listed : SUBSET Campaigns, stale : BOOLEAN, available : BOOLEAN]
  BY <1>1, CatalogueIsTyped DEF Inv
<1>4. seen.listed \subseteq Campaigns /\ (seen.fresh => seen.available)
  BY <1>1, <1>3 DEF Seen
<1>5. IsGood(pass.loaded)
  BY <1>1, <1>2 DEF Inv, PassesAreGood, IsGoodPass, Idle
<1>6. /\ AreAdditions(added, pass.loaded) /\ AreCollectable(added, seen)
      /\ SubIds(added) \subseteq {FreshIds[k] : k \in DOMAIN FreshIds}
  <2>1. /\ \A k \in DOMAIN FreshIds : FreshIds[k] \in Ids
        /\ \A k, l \in DOMAIN FreshIds : FreshIds[k] = FreshIds[l] => k = l
    BY FreshIdsAre
  <2> QED
    BY <1>1, <1>4, <1>5, <2>1, AdditionsAre
<1>7. \A i \in SubIds(added) : i \notin SavedIds /\ \A s \in Slots : i \notin NewIds(passes[s])
  <2>1. \A k \in DOMAIN FreshIds : FreshIds[k] \notin IdsInUse
    BY FreshIdsAre
  <2>2. \A i \in SubIds(added) : i \notin IdsInUse
    BY <1>6, <2>1
  <2> QED
    BY <2>2, FreshIsNew DEF Inv
<1>8. PICK next : next = [stage |-> "resolving", loaded |-> pass.loaded,
                          trigger |-> pass.trigger, seen |-> seen, view |-> view]
  OBVIOUS
<1>9. /\ view \in ConfigType /\ view.subs = pass.loaded.subs \o added
      /\ SubIds(added) \subseteq SubIds(view.subs)
  <2>1. /\ View(pass.loaded, seen, added) \in ConfigType
        /\ View(pass.loaded, seen, added).subs = pass.loaded.subs \o added
        /\ SubIds(added) \subseteq SubIds(View(pass.loaded, seen, added).subs)
    BY <1>4, <1>5, <1>6, ViewIs
  <2> QED
    BY <1>1, <2>1
<1>10. AddedOf(next) = added
  <2>1. pass.loaded.subs \in Seq(SubType) /\ added \in Seq(SubType)
    BY <1>5, <1>6, GoodFields DEF AreAdditions
  <2>2. AddedOf(next) = SubSeq(view.subs, Len(pass.loaded.subs) + 1, Len(view.subs))
    BY <1>8 DEF AddedOf
  <2> QED
    BY <1>9, <2>1, <2>2, BehindIs
<1>11. IsGoodPass(next) /\ NewIds(next) = SubIds(added)
  BY <1>1, <1>4, <1>5, <1>6, <1>8, <1>9, <1>10 DEF IsGoodPass, NewIds
<1>12. /\ passes' = [s \in Slots |-> passes'[s]]
       /\ \A s \in Slots : passes'[s] = IF s = slot THEN next ELSE passes[s]
  <2>1. passes = [s \in Slots |-> passes[s]]
    BY DEF Inv, PassesAreGood
  <2> QED
    BY <1>1, <1>8, <2>1
<1>13. PassesAreGood'
  <2>1. \A s \in Slots : IsGoodPass(passes'[s])
    BY <1>11, <1>12 DEF Inv, PassesAreGood
  <2> QED
    BY <1>12, <2>1 DEF PassesAreGood, IsGoodPass
<1>14. NewIdsAreNew'
  <2>1. SavedIds' = SavedIds
    BY <1>2 DEF SavedIds
  <2>2. \A s \in Slots : NewIds(passes'[s]) = IF s = slot THEN SubIds(added) ELSE NewIds(passes[s])
    BY <1>11, <1>12
  <2>3. \A s \in Slots : NewIds(passes'[s]) \cap SavedIds' = {}
    BY <1>7, <2>1, <2>2 DEF Inv, NewIdsAreNew
  <2>4. \A s, t \in Slots : s # t => NewIds(passes'[s]) \cap NewIds(passes'[t]) = {}
    <3> SUFFICES ASSUME NEW s \in Slots, NEW t \in Slots, s # t
                 PROVE  NewIds(passes'[s]) \cap NewIds(passes'[t]) = {}
      OBVIOUS
    <3>1. CASE s # slot /\ t # slot
      BY <3>1, <2>2 DEF Inv, NewIdsAreNew
    <3>2. CASE s = slot
      BY <3>2, <1>7, <2>2
    <3>3. CASE t = slot
      BY <3>3, <1>7, <2>2
    <3> QED
      BY <3>1, <3>2, <3>3
  <2> QED
    BY <2>3, <2>4 DEF NewIdsAreNew, NewIds
<1>15. ConfigsAreGood'
  BY <1>2 DEF Inv, ConfigsAreGood
<1>16. WorldIsTyped'
  BY <1>1, <1>2, <1>3 DEF Inv, WorldIsTyped
<1> QED
  BY <1>13, <1>14, <1>15, <1>16 DEF Inv

\* What a pass in flight decides is something rebasePass() may apply to the
\* config as it is by then.
LEMMA OutcomeIs ==
    ASSUME Parameters, Inv, NEW slot \in Slots, passes[slot].stage = "resolving",
           NEW answer \in Answers
    PROVE  /\ IsOutcome(Outcome(passes[slot], answer), config)
           /\ AddsUnskipped(Outcome(passes[slot], answer))
           /\ SubIds(Outcome(passes[slot], answer).added) = NewIds(passes[slot])
<1>1. PICK pass, out, added, leaving :
        /\ pass = passes[slot] /\ out = Outcome(pass, answer) /\ added = AddedOf(pass)
        /\ leaving = {s \in ToSet(pass.view.subs) : s.id \in Ended(pass.view.subs, pass.seen)}
  OBVIOUS
<1>2. /\ IsGood(pass.loaded) /\ pass.view \in ConfigType
      /\ AreAdditions(added, pass.loaded)
  BY <1>1 DEF Inv, PassesAreGood, IsGoodPass, Idle
<1>3. /\ out.added = added /\ out.desired = Desired(pass, answer)
      /\ out.gamesBefore = pass.loaded.followed
      /\ out.gamesAfter = RecordSkipped(pass.view.followed, leaving, pass.seen.listed)
  BY <1>1 DEF Outcome, AddedOf
<1>4. /\ added \in Seq(SubType) /\ HasDistinctSubs(added)
  BY <1>2 DEF AreAdditions
<1>5. SubIds(added) = NewIds(pass)
  BY <1>1 DEF NewIds
<1>6. SubIds(added) \cap SubIds(config.subs) = {}
  BY <1>1, <1>5 DEF Inv, NewIdsAreNew, SavedIds
<1>7. Desired(pass, answer) \in Seq(WantType)
  BY <1>2, DesiredIs
<1>8. pass.loaded.followed \in Seq(GameType) /\ HasDistinctGames(pass.loaded.followed)
  BY <1>2, GoodFields
<1>9. RecordSkipped(pass.view.followed, leaving, pass.seen.listed) \in Seq(GameType)
  <2>1. pass.view.followed \in Seq(GameType) /\ pass.view.subs \in Seq(SubType)
    BY <1>2 DEF ConfigType
  <2>2. \A i \in DOMAIN pass.view.subs : pass.view.subs[i] \in SubType
    BY <2>1, Places
  <2>3. leaving \in SUBSET SubType
    BY <1>1, <2>2 DEF ToSet
  <2> QED
    BY <2>1, <2>3, RecordSkippedIs
<1>10. IsOutcome(out, config)
  BY <1>3, <1>4, <1>6, <1>7, <1>8, <1>9 DEF IsOutcome
<1>11. AddsUnskipped(out)
  <2> SUFFICES ASSUME NEW i \in DOMAIN added, NEW g \in DOMAIN pass.loaded.followed,
                      pass.loaded.followed[g].game = added[i].via
               PROVE  added[i].target \notin pass.loaded.followed[g].skipped
    BY <1>3 DEF AddsUnskipped
  <2>1. PICK h \in DOMAIN pass.loaded.followed :
          /\ pass.loaded.followed[h].game = added[i].via
          /\ added[i].target \notin pass.loaded.followed[h].skipped
    BY <1>2 DEF AreAdditions
  <2>2. g = h
    BY <2>1, <1>8 DEF HasDistinctGames
  <2> QED
    BY <2>1, <2>2
<1> QED
  BY <1>1, <1>3, <1>5, <1>10, <1>11

\* What the end of a pass leaves: the config as it was, or rebased, in which case
\* a restart is proposed or the watch list is what it was, or the boot pass is
\* the one that the start of the miner waits for.
LEMMA CommitIs ==
    ASSUME Parameters, Inv, NEW slot \in Slots, NEW answer \in Answers, Commit(slot, answer)
    PROVE  /\ IsGood(config')
           /\ SubIds(config'.subs) \subseteq SubIds(config.subs) \cup NewIds(passes[slot])
           /\ Manual(config'.rows) = Manual(config.rows)
           /\ GamesOf(config') = GamesOf(config)
           /\ config'.queue = config.queue
           /\ \A s \in ToSet(config'.subs) \ ToSet(config.subs) :
                 \E g \in DOMAIN config.followed :
                    /\ config.followed[g].game = s.via
                    /\ s.target \notin config.followed[g].skipped
           /\ pending => pending'
           /\ pending' \/ config'.rows = config.rows \/ boot = "passing"
<1>1. passes[slot].stage = "resolving"
  BY DEF Commit
<1>2. PICK pass, out, next :
        pass = passes[slot] /\ out = Outcome(pass, answer) /\ next = RebasePass(config, out)
  OBVIOUS
<1>3. IsOutcome(out, config) /\ AddsUnskipped(out) /\ SubIds(out.added) = NewIds(pass)
  BY <1>1, <1>2, OutcomeIs
<1>4. IsGood(config)
  BY DEF Inv, ConfigsAreGood
<1>5. \/ UNCHANGED <<config, pending>>
      \/ config' = next /\ pending' = (pending \/ Proposes(pass, out, next))
  BY <1>2 DEF Commit, Applied
<1>6. CASE UNCHANGED <<config, pending>>
  BY <1>4, <1>6
<1>7. CASE config' = next /\ pending' = (pending \/ Proposes(pass, out, next))
  <2>1. /\ IsGood(next)
        /\ SubIds(next.subs) \subseteq SubIds(config.subs) \cup SubIds(out.added)
        /\ ~Differs(config.rows, next.rows) => next.rows = config.rows
    BY <1>2, <1>3, <1>4, RebaseIsGood
  <2>2. /\ Manual(next.rows) = Manual(config.rows)
        /\ GamesOf(next) = GamesOf(config)
        /\ next.queue = config.queue
        /\ \A s \in ToSet(next.subs) \ ToSet(config.subs) :
              \E g \in DOMAIN config.followed :
                 /\ config.followed[g].game = s.via
                 /\ s.target \notin config.followed[g].skipped
    BY <1>2, <1>3, <1>4, RebaseUndoesNothing
  <2>3. Differs(config.rows, next.rows) => Proposes(pass, out, next) \/ boot = "passing"
    BY DEF Proposes
  <2> QED
    BY <1>2, <1>3, <1>7, <2>1, <2>2, <2>3
<1> QED
  BY <1>5, <1>6, <1>7

LEMMA InvAfterCommit ==
    ASSUME Parameters, Inv, NEW slot \in Slots, NEW answer \in Answers, Commit(slot, answer)
    PROVE  Inv'
<1>1. /\ IsGood(config')
      /\ SubIds(config'.subs) \subseteq SubIds(config.subs) \cup NewIds(passes[slot])
  BY CommitIs
<1>2. /\ UNCHANGED <<staged, subscribing, listed, catalogue>>
      /\ passes' = [passes EXCEPT ![slot] = Idle]
  BY DEF Commit, world
<1>3. ConfigsAreGood'
  BY <1>1, <1>2 DEF Inv, ConfigsAreGood
<1>4. /\ passes' = [s \in Slots |-> passes'[s]]
      /\ \A s \in Slots : passes'[s] = IF s = slot THEN Idle ELSE passes[s]
  <2>1. passes = [s \in Slots |-> passes[s]]
    BY DEF Inv, PassesAreGood
  <2> QED
    BY <1>2, <2>1
<1>5. PassesAreGood'
  <2>1. \A s \in Slots : IsGoodPass(passes'[s])
    BY <1>4 DEF Inv, PassesAreGood, IsGoodPass
  <2> QED
    BY <1>4, <2>1 DEF PassesAreGood, IsGoodPass
<1>6. NewIdsAreNew'
  <2>1. SavedIds' \subseteq SavedIds \cup NewIds(passes[slot])
    BY <1>1, <1>2 DEF SavedIds
  <2>2. NewIds(Idle) = {}
    BY DEF NewIds, Idle
  <2>3. \A s \in Slots : NewIds(passes'[s]) = IF s = slot THEN {} ELSE NewIds(passes[s])
    BY <1>4, <2>2
  <2>4. \A s \in Slots : NewIds(passes'[s]) \cap SavedIds' = {}
    BY <2>1, <2>3 DEF Inv, NewIdsAreNew
  <2>5. \A s, t \in Slots : s # t => NewIds(passes'[s]) \cap NewIds(passes'[t]) = {}
    BY <2>3 DEF Inv, NewIdsAreNew
  <2> QED
    BY <2>4, <2>5 DEF NewIdsAreNew, NewIds
<1>7. WorldIsTyped'
  BY <1>2, SameWorld DEF Inv
<1> QED
  BY <1>3, <1>5, <1>6, <1>7 DEF Inv

\* Every step keeps the invariant.
LEMMA InvNext ==
    ASSUME Parameters, Inv, [Next]_vars
    PROVE  Inv'
<1>1. CASE PassEnds
  BY <1>1, InvAfterCommit DEF PassEnds
<1>2. CASE \E slot \in Slots : Decide(slot)
  BY <1>2, InvAfterDeciding
<1>3. CASE SubscribeBegins
  BY <1>3, InvAfterAsking
<1>4. CASE SubscribeEnds
  BY <1>4, InvAfterSubscribing
<1>5. CASE IsRoute
  BY <1>5, InvAfterRoutes
<1>6. CASE StageConfig
  BY <1>6, InvAfterStaging
<1>7. CASE ApplyConfig
  BY <1>7, InvAfterApplying
<1>8. CASE \/ TimerPass \/ BootBudgetSpent
           \/ MinerStarts \/ MinerStops \/ RestartFires \/ CancelRestart
           \/ CampaignOpens \/ CampaignEnds \/ CampaignLeaves \/ CampaignCompletes
  BY <1>8, InvAfterTheRest
<1>9. CASE UNCHANGED vars
  BY <1>9, InvUntouched DEF vars, world
<1> QED
  BY <1>1, <1>2, <1>3, <1>4, <1>5, <1>6, <1>7, <1>8, <1>9 DEF Next, AnythingElse, IsRoute

-----------------------------------------------------------------------------
(* The miner follows the config.                                           *)

Follows == EarlyStartIsWaived /\ MinerIsNotLeftBehind

\* Every step keeps the miner with the config, or says why it may not be.
LEMMA FollowsNext ==
    ASSUME Parameters, Inv, Follows, [Next]_vars
    PROVE  Follows'
<1> USE DEF Follows, EarlyStartIsWaived, MinerIsNotLeftBehind
<1>1. ASSUME LeavesWatched
      PROVE  Follows'
  BY <1>1 DEF LeavesWatched
<1>2. CASE PassEnds
  <2>1. PICK slot \in Slots, answer \in Answers : Commit(slot, answer)
    BY <1>2 DEF PassEnds
  <2>2. /\ pending => pending'
        /\ pending' \/ config'.rows = config.rows \/ boot = "passing"
    BY <2>1, CommitIs
  <2>3. UNCHANGED <<watched, waived, overwritten>> /\ boot' \in {boot, "passed"}
    BY <2>1 DEF Commit
  <2> QED
    BY <2>2, <2>3
<1>3. CASE IsRoute
  BY <1>1, <1>3, InvAfterRoutes
<1>4. CASE SubscribeEnds
  BY <1>1, <1>4, InvAfterSubscribing
<1>5. CASE \/ \E slot \in Slots : Decide(slot)
           \/ TimerPass \/ SubscribeBegins \/ StageConfig
           \/ CampaignOpens \/ CampaignEnds \/ CampaignLeaves \/ CampaignCompletes
           \/ UNCHANGED vars
  <2>1. UNCHANGED <<config, watched, pending, waived, overwritten, boot>>
    BY <1>5 DEF Decide, TimerPass, SubscribeBegins, StageConfig, CampaignOpens, CampaignEnds,
                CampaignLeaves, CampaignCompletes, vars, miner
  <2> QED
    BY <2>1
<1>6. CASE BootBudgetSpent
  BY <1>6 DEF BootBudgetSpent, miner
<1>7. CASE ApplyConfig
  BY <1>7 DEF ApplyConfig, TooEarly
<1>8. CASE MinerStarts
  BY <1>8 DEF MinerStarts, TooEarly
<1>9. CASE MinerStops
  BY <1>9 DEF MinerStops
<1>10. CASE RestartFires
  BY <1>10 DEF RestartFires, TooEarly
<1>11. CASE CancelRestart
  BY <1>11 DEF CancelRestart
<1> QED
  BY <1>2, <1>3, <1>4, <1>5, <1>6, <1>7, <1>8, <1>9, <1>10, <1>11 DEF Next, AnythingElse, IsRoute

-----------------------------------------------------------------------------
(* What the engine remembers, and what the miner was started with.         *)

MemoryIsTyped ==
    /\ scheduled \subseteq Ids
    /\ active \in Ids \cup {ByHand}
    /\ stalled \in [Ids -> SUBSET Channels]

MinerIsTyped ==
    /\ boot \in {"passing", "late", "passed"}
    /\ watched = NotRunning \/ watched \in Seq(Channels)
    /\ pending \in BOOLEAN

LEMMA RosterIs ==
    ASSUME NEW rows \in Seq(RowType)
    PROVE  Roster(rows) \in Seq(Channels)
<1>1. PICK on, logins : /\ on = KeptAt(rows, {i \in DOMAIN rows : rows[i].on})
                        /\ logins = [i \in DOMAIN on |-> on[i].login]
  OBVIOUS
<1>2. on \in Seq(RowType)
  BY <1>1, KeptAtIs
<1>3. \A i \in DOMAIN on : logins[i] \in Channels
  <2>1. \A i \in DOMAIN on : on[i] \in RowType
    BY <1>2, Places
  <2> QED
    BY <1>1, <2>1 DEF RowType
<1>4. logins = [i \in DOMAIN on |-> logins[i]]
  BY <1>1
<1>5. logins \in Seq(Channels)
  BY <1>2, <1>3, <1>4, PlaceByPlace
<1> QED
  BY <1>1, <1>5 DEF Roster

LEMMA PoolIs ==
    ASSUME NEW pass, pass.view \in ConfigType, NEW sub
    PROVE  PoolOf(sub, pass) \in SUBSET Channels
<1>1. PICK logins : logins = Incumbents(pass.view.rows, sub.id)
  OBVIOUS
<1>2. logins \in Seq(Channels)
  BY <1>1, IncumbentsAre DEF ConfigType
<1>3. \A i \in DOMAIN logins : logins[i] \in Channels
  BY <1>2, Places
<1> QED
  BY <1>1, <1>3 DEF PoolOf, ToSet

\* The queue names one of the subscriptions, if any.
LEMMA TurnIs ==
    ASSUME NEW pass, pass.view \in ConfigType
    PROVE  TurnOf(pass.view, pass.seen) \in Ids \cup {ByHand}
<1>1. PICK ordered, ready :
        /\ ordered = InRankOrder(pass.view.subs)
        /\ ready = {i \in DOMAIN ordered :
                      /\ ordered[i].id \notin Ended(pass.view.subs, pass.seen)
                      /\ ordered[i].target \notin NotOpen(pass.seen)}
  OBVIOUS
<1>2. ordered \in Seq(SubType)
  BY <1>1, InRankOrderIs DEF ConfigType
<1>3. \A i \in DOMAIN ordered : ordered[i].id \in Ids
  <2>1. \A i \in DOMAIN ordered : ordered[i] \in SubType
    BY <1>2, Places
  <2> QED
    BY <2>1 DEF SubType
<1>4. IsFiniteSet(ready) /\ ready \subseteq Int
  <2>1. ready \in SUBSET DOMAIN ordered
    BY <1>1
  <2> QED
    BY <1>2, <2>1, PlacesAre
<1>5. ready # {} => \E i \in ready : \A j \in ready : i <= j
  BY <1>4, LeastIsHeld
<1>6. ActiveInQueue(ordered, NotOpen(pass.seen), Ended(pass.view.subs, pass.seen))
          = IF ready = {} THEN ByHand
            ELSE ordered[CHOOSE i \in ready : \A j \in ready : i <= j].id
  BY <1>1 DEF ActiveInQueue
<1>7. ready # {} => ordered[CHOOSE i \in ready : \A j \in ready : i <= j].id \in Ids
  <2> SUFFICES ASSUME ready # {}
               PROVE  ordered[CHOOSE i \in ready : \A j \in ready : i <= j].id \in Ids
    OBVIOUS
  <2>1. PICK first : first = CHOOSE i \in ready : \A j \in ready : i <= j
    OBVIOUS
  <2>2. first \in ready
    BY <1>5, <2>1
  <2>3. first \in DOMAIN ordered
    BY <1>1, <2>2
  <2> QED
    BY <1>3, <2>1, <2>3
<1> QED
  BY <1>1, <1>6, <1>7 DEF TurnOf

LEMMA MemoryNext ==
    ASSUME Parameters, Inv, MemoryIsTyped, [Next]_vars
    PROVE  MemoryIsTyped'
<1> USE DEF MemoryIsTyped
<1>1. CASE PassEnds
  <2>1. PICK slot \in Slots, answer \in Answers : Commit(slot, answer)
    BY <1>1 DEF PassEnds
  <2>2. PICK pass : pass = passes[slot]
    OBVIOUS
  <2>3. pass.view \in ConfigType
    <3>1. pass.stage = "resolving"
      BY <2>1, <2>2 DEF Commit
    <3>2. IsGoodPass(pass)
      BY <2>2 DEF Inv, PassesAreGood
    <3> QED
      BY <3>1, <3>2 DEF IsGoodPass, Idle
  <2>4. Remember(pass, answer)
    BY <2>1, <2>2 DEF Commit
  <2>5. scheduled' \subseteq Ids /\ active' \in Ids \cup {ByHand}
    BY <2>3, <2>4, TurnIs DEF Remember
  <2>6. \A s : PoolOf(s, pass) \in SUBSET Channels
    BY <2>3, PoolIs
  <2>7. stalled' \in [Ids -> SUBSET Channels]
    <3>1. PICK stays, more :
            /\ stays = SubIds(pass.view.subs) \ Ended(pass.view.subs, pass.seen)
            /\ more = [i \in Ids |-> UNION {PoolOf(s, pass) :
                         s \in {j \in Judged(pass, answer) :
                                   j.id = i /\ IsStuck(j, pass, answer)}}]
      OBVIOUS
    <3>2. stalled' = [i \in Ids |-> IF i \notin stays THEN {} ELSE stalled[i] \cup more[i]]
      BY <2>4, <3>1 DEF Remember
    <3>3. \A i \in Ids : more[i] \in SUBSET Channels
      BY <2>6, <3>1
    <3> QED
      BY <3>2, <3>3
  <2> QED
    BY <2>5, <2>7
<1>2. CASE \E slot \in Slots : Decide(slot)
  <2>1. PICK slot \in Slots : Decide(slot)
    BY <1>2
  <2>2. PICK pass : pass = passes'[slot]
    OBVIOUS
  <2>3. pass.stage = "resolving"
    <3>1. passes = [s \in Slots |-> passes[s]]
      BY DEF Inv, PassesAreGood
    <3> QED
      BY <2>1, <2>2, <3>1 DEF Decide
  <2>4. pass.view \in ConfigType
    <3>1. IsGoodPass(pass)
      BY <2>1, <2>2, InvAfterDeciding DEF Inv, PassesAreGood, IsGoodPass
    <3> QED
      BY <2>3, <3>1 DEF IsGoodPass, Idle
  <2>5. \A s \in ToSet(pass.view.subs) : s.id \in Ids
    <3>1. pass.view.subs \in Seq(SubType)
      BY <2>4 DEF ConfigType
    <3>2. \A i \in DOMAIN pass.view.subs : pass.view.subs[i] \in SubType
      BY <3>1, Places
    <3> QED
      BY <3>2 DEF ToSet, SubType
  <2>6. scheduled' \subseteq scheduled \cup {s.id : s \in ToSet(pass.view.subs)}
    <3>1. passes = [s \in Slots |-> passes[s]]
      BY DEF Inv, PassesAreGood
    <3> QED
      BY <2>1, <2>2, <3>1 DEF Decide
  <2>7. UNCHANGED <<active, stalled>>
    BY <2>1 DEF Decide
  <2> QED
    BY <2>5, <2>6, <2>7
<1>3. ASSUME scheduled' \in {scheduled, {}}, UNCHANGED <<active, stalled>>
      PROVE  MemoryIsTyped'
  BY <1>3
<1>4. ASSUME NEW c, NEW trigger, BeginPass(c, trigger)
      PROVE  scheduled' \in {scheduled, {}}
  BY <1>4 DEF BeginPass
<1>5. CASE IsRoute
  <2>1. ASSUME NEW route, NEW c, NEW trigger, Edit(route, c, trigger)
        PROVE  MemoryIsTyped'
    BY <1>3, <1>4, <2>1 DEF Edit
  <2>2. ASSUME NEW route, NEW c, EditOnly(route, c)
        PROVE  MemoryIsTyped'
    BY <1>3, <2>2 DEF EditOnly, memory
  <2> QED
    BY <1>5, <2>1, <2>2 DEF IsRoute, Reorder, SetPoolSize, RemoveSubscription, SetQueue,
                            FollowGame, SetGamePool, Unskip, Unfollow, Resolve
<1>6. CASE TimerPass
  BY <1>3, <1>4, <1>6 DEF TimerPass
<1>7. CASE SubscribeEnds
  <2>1. scheduled' = scheduled \/ BeginPass(config', "subscribe")
    BY <1>7 DEF SubscribeEnds
  <2>2. PICK d : d = config'
    OBVIOUS
  <2>3. scheduled' \in {scheduled, {}}
    BY <1>4, <2>1, <2>2
  <2> QED
    BY <1>3, <1>7, <2>3 DEF SubscribeEnds
<1>8. CASE \/ BootBudgetSpent \/ SubscribeBegins \/ StageConfig \/ ApplyConfig
           \/ MinerStarts \/ MinerStops \/ RestartFires \/ CancelRestart
           \/ CampaignOpens \/ CampaignEnds \/ CampaignLeaves \/ CampaignCompletes
           \/ UNCHANGED vars
  <2>1. UNCHANGED memory
    BY <1>8 DEF BootBudgetSpent, SubscribeBegins, StageConfig, ApplyConfig, MinerStarts,
                MinerStops, RestartFires, CancelRestart, CampaignOpens, CampaignEnds,
                CampaignLeaves, CampaignCompletes, vars
  <2> QED
    BY <1>3, <2>1 DEF memory
<1> QED
  BY <1>1, <1>2, <1>5, <1>6, <1>7, <1>8 DEF Next, AnythingElse, IsRoute

LEMMA MinerTypeNext ==
    ASSUME Parameters, Inv, MinerIsTyped, [Next]_vars
    PROVE  MinerIsTyped'
<1> USE DEF MinerIsTyped
<1>1. Roster(config.rows) \in Seq(Channels)
  BY GoodFields, RosterIs DEF Inv, ConfigsAreGood
<1>2. staged # Nothing => Roster(staged.rows) \in Seq(Channels)
  BY GoodFields, RosterIs DEF Inv, ConfigsAreGood
<1>3. CASE PassEnds
  <2>1. PICK slot \in Slots, answer \in Answers : Commit(slot, answer)
    BY <1>3 DEF PassEnds
  <2>2. watched' = watched /\ boot' \in {boot, "passed"}
    BY <2>1 DEF Commit
  <2>3. PICK proposed :
          proposed = Proposes(passes[slot], Outcome(passes[slot], answer),
                              Applied(passes[slot], Outcome(passes[slot], answer)))
    OBVIOUS
  <2>4. pending' = pending \/ pending' = (pending \/ proposed)
    BY <2>1, <2>3 DEF Commit
  <2>5. pending' \in BOOLEAN
    BY <2>4
  <2> QED
    BY <2>2, <2>5
<1>4. CASE IsRoute \/ SubscribeEnds
  BY <1>4, InvAfterRoutes, InvAfterSubscribing DEF LeavesWatched
<1>5. CASE \/ \E slot \in Slots : Decide(slot)
           \/ TimerPass \/ SubscribeBegins \/ StageConfig
           \/ CampaignOpens \/ CampaignEnds \/ CampaignLeaves \/ CampaignCompletes
           \/ UNCHANGED vars
  <2>1. UNCHANGED <<watched, pending, boot>>
    BY <1>5 DEF Decide, TimerPass, SubscribeBegins, StageConfig, CampaignOpens, CampaignEnds,
                CampaignLeaves, CampaignCompletes, vars, miner
  <2> QED
    BY <2>1
<1>6. CASE BootBudgetSpent
  BY <1>6 DEF BootBudgetSpent, miner
<1>7. CASE ApplyConfig
  BY <1>2, <1>7 DEF ApplyConfig
<1>8. CASE MinerStarts \/ MinerStops \/ RestartFires \/ CancelRestart
  BY <1>1, <1>8 DEF MinerStarts, MinerStops, RestartFires, CancelRestart
<1> QED
  BY <1>3, <1>4, <1>5, <1>6, <1>7, <1>8 DEF Next, AnythingElse, IsRoute

-----------------------------------------------------------------------------
(* The theorems.                                                           *)

LEMMA InvHolds ==
    ASSUME Parameters
    PROVE  Spec => []Inv
<1>1. Init => Inv
  BY InvInit
<1>2. Inv /\ [Next]_vars => Inv'
  BY InvNext
<1> QED
  BY <1>1, <1>2, PTL DEF Spec

\* Each part of the state stays what it is declared to be.
THEOREM TypesHold ==
    ASSUME Parameters
    PROVE  Spec => []TypeOK
<1>1. Init => MemoryIsTyped /\ MinerIsTyped
  BY DEF Init, MemoryIsTyped, MinerIsTyped
<1>2. Inv /\ MemoryIsTyped /\ MinerIsTyped /\ [Next]_vars => MemoryIsTyped' /\ MinerIsTyped'
  BY MemoryNext, MinerTypeNext
<1>3. Inv /\ MemoryIsTyped /\ MinerIsTyped => TypeOK
  BY DEF Inv, ConfigsAreGood, IsGood, PassesAreGood, IsGoodPass, Idle, MemoryIsTyped,
         MinerIsTyped, TypeOK
<1> QED
  BY <1>1, <1>2, <1>3, InvHolds, PTL DEF Spec

\* Whatever passes, requests and edits of the whole config overlap, and however
\* many, each config.json that is written is one the next save accepts, and has
\* no channel owned by a subscription that is gone.
THEOREM ConfigStaysSound ==
    ASSUME Parameters
    PROVE  Spec => []ConfigIsSound
<1>1. Inv => ConfigIsSound
  BY DEF Inv, ConfigsAreGood, IsGood, ConfigIsSound
<1> QED
  BY <1>1, InvHolds, PTL

\* The miner watches the channels of the config, or a restart is pending, unless
\* the user cancelled one, released the channels, or did not wait for the boot pass,
\* or a subscribe request saved its old copy of the config over another watch list.
THEOREM MinerFollows ==
    ASSUME Parameters
    PROVE  Spec => []MinerIsNotLeftBehind
<1>1. Init => Follows
  BY DEF Init, Follows, EarlyStartIsWaived, MinerIsNotLeftBehind
<1>2. Inv /\ Follows /\ [Next]_vars => Follows'
  BY FollowsNext
<1>3. Follows => MinerIsNotLeftBehind
  BY DEF Follows
<1> QED
  BY <1>1, <1>2, <1>3, InvHolds, PTL DEF Spec

\* Only the end of a pass ends it.
LEMMA OnlyCommitEnds ==
    ASSUME PassesAreGood, NEW slot \in Slots, Commits(slot), [Next]_vars
    PROVE  \E answer \in Answers : Commit(slot, answer)
<1>1. /\ passes[slot].stage = "resolving" /\ passes'[slot].stage = "idle"
      /\ passes = [s \in Slots |-> passes[s]]
  BY DEF Commits, PassesAreGood
<1>2. slot \notin FreeSlots
  BY <1>1 DEF FreeSlots, Idle
<1>3. passes' # passes
  BY <1>1
<1>4. ASSUME NEW c, NEW trigger, BeginPass(c, trigger)
      PROVE  FALSE
  <2>1. PICK other \in FreeSlots : passes' = [passes EXCEPT ![other] = Begun(c, trigger)]
    BY <1>3, <1>4 DEF BeginPass
  <2>2. passes'[slot] = passes[slot]
    BY <1>1, <1>2, <2>1
  <2> QED
    BY <1>1, <2>2
<1>5. ASSUME NEW other \in Slots, Decide(other)
      PROVE  FALSE
  <2>1. PICK next : /\ next.stage = "resolving"
                    /\ passes' = [passes EXCEPT ![other] = next]
    BY <1>5 DEF Decide
  <2>2. passes'[slot] = IF slot = other THEN next ELSE passes[slot]
    BY <1>1, <2>1
  <2> QED
    BY <1>1, <2>1, <2>2
<1>6. ~IsRoute
  <2>1. ASSUME NEW route, NEW c, NEW trigger, Edit(route, c, trigger)
        PROVE  FALSE
    BY <1>4, <2>1 DEF Edit
  <2>2. ASSUME NEW route, NEW c, EditOnly(route, c)
        PROVE  FALSE
    BY <1>3, <2>2 DEF EditOnly
  <2> QED
    BY <2>1, <2>2 DEF IsRoute, Reorder, SetPoolSize, RemoveSubscription, SetQueue, FollowGame,
                      SetGamePool, Unskip, Unfollow, Resolve
<1>7. ~TimerPass
  BY <1>4 DEF TimerPass
<1>8. ~SubscribeEnds
  <2> SUFFICES ASSUME SubscribeEnds
               PROVE  FALSE
    OBVIOUS
  <2>1. BeginPass(config', "subscribe")
    BY <1>3 DEF SubscribeEnds
  <2>2. PICK d : d = config'
    OBVIOUS
  <2> QED
    BY <1>4, <2>1, <2>2
<1>9. ~(\/ BootBudgetSpent \/ SubscribeBegins \/ StageConfig \/ ApplyConfig
        \/ MinerStarts \/ MinerStops \/ RestartFires \/ CancelRestart
        \/ CampaignOpens \/ CampaignEnds \/ CampaignLeaves \/ CampaignCompletes
        \/ UNCHANGED vars)
  BY <1>3 DEF BootBudgetSpent, SubscribeBegins, StageConfig, ApplyConfig, MinerStarts,
              MinerStops, RestartFires, CancelRestart, CampaignOpens, CampaignEnds,
              CampaignLeaves, CampaignCompletes, vars
<1>10. PassEnds
  BY <1>5, <1>6, <1>7, <1>8, <1>9 DEF Next, AnythingElse, IsRoute
<1>11. PICK other \in Slots, answer \in Answers : Commit(other, answer)
  BY <1>10 DEF PassEnds
<1>12. passes' = [passes EXCEPT ![other] = Idle]
  BY <1>11 DEF Commit
<1>13. slot = other
  BY <1>1, <1>12
<1> QED
  BY <1>11, <1>13

\* A pass undoes nothing that was saved while it was asking: it leaves the user's
\* channels, the followed games and the queue switch as they are by then, and adds
\* no campaign whose game is not followed by then, or skips it.
THEOREM PassesUndoNothing ==
    ASSUME Parameters
    PROVE  Spec => [][PassUndoesNothing]_vars
<1>1. Inv /\ [Next]_vars => [PassUndoesNothing]_vars
  <2> SUFFICES ASSUME Inv, [Next]_vars, NEW slot \in Slots, Commits(slot)
               PROVE  /\ Manual(config'.rows) = Manual(config.rows)
                      /\ GamesOf(config') = GamesOf(config)
                      /\ config'.queue = config.queue
                      /\ \A s \in ToSet(config'.subs) \ ToSet(config.subs) :
                            \E g \in DOMAIN config.followed :
                               /\ config.followed[g].game = s.via
                               /\ s.target \notin config.followed[g].skipped
    BY DEF PassUndoesNothing
  <2>1. PICK answer \in Answers : Commit(slot, answer)
    BY OnlyCommitEnds DEF Inv
  <2> QED
    BY <2>1, CommitIs
<1> QED
  BY <1>1, InvHolds, PTL DEF Spec

\* A pass that could not look a subscription's channels up asks for those it has.
LEMMA BlindPassWants ==
    ASSUME Parameters, NEW pass, pass.view \in ConfigType, NEW answer \in Answers,
           NEW s \in ToSet(Served(pass)),
           s.target \notin pass.seen.listed \/ s.target \in answer.failing,
           NEW l \in PoolOf(s, pass)
    PROVE  /\ s.id \notin Ended(pass.view.subs, pass.seen)
           /\ \E n \in DOMAIN Desired(pass, answer) :
                 Desired(pass, answer)[n] = [login |-> l, owner |-> s.id]
<1>1. PICK served, ordered, places :
        /\ served = Served(pass) /\ ordered = InRankOrder(pass.view.subs)
        /\ places = {i \in DOMAIN ordered :
              /\ ordered[i].id \notin Ended(pass.view.subs, pass.seen)
              /\ ordered[i].target \notin NotOpen(pass.seen)
              /\ pass.view.queue => ordered[i].id = TurnOf(pass.view, pass.seen)}
  OBVIOUS
<1>2. served = KeptAt(ordered, places)
  BY <1>1 DEF Served
<1>3. ordered \in Seq(SubType)
  BY <1>1, InRankOrderIs DEF ConfigType
<1>4. \E order : IsPick(order, served, ordered, places)
  BY <1>1, <1>2, <1>3, KeptAtIs
<1>5. PICK k \in DOMAIN served : served[k] = s
  BY <1>1 DEF ToSet
<1>6. s.id \notin Ended(pass.view.subs, pass.seen)
  <2>1. PICK order : IsPick(order, served, ordered, places)
    BY <1>4
  <2> QED
    BY <1>1, <1>5, <2>1 DEF IsPick
<1>7. ChannelsOf(s, pass, answer) = Incumbents(pass.view.rows, s.id)
  BY DEF ChannelsOf, Degraded
<1>8. PICK i \in DOMAIN Incumbents(pass.view.rows, s.id) : Incumbents(pass.view.rows, s.id)[i] = l
  BY DEF PoolOf, ToSet
<1>9. \E n \in DOMAIN Desired(pass, answer) :
          Desired(pass, answer)[n] = [login |-> ChannelsOf(s, pass, answer)[i], owner |-> s.id]
  BY <1>1, <1>5, <1>7, <1>8, DesiredIs
<1> QED
  BY <1>6, <1>7, <1>8, <1>9

\* The end of a pass that could not look a subscription's channels up.
LEMMA BlindPassKeeps ==
    ASSUME Parameters, Inv, NEW slot \in Slots, NEW answer \in Answers,
           Commit(slot, answer),
           NEW s \in ToSet(Served(passes[slot])), s.id \in SubIds(config.subs),
           s.target \notin passes[slot].seen.listed \/ s.target \in answer.failing,
           NEW l \in PoolOf(s, passes[slot]),
           l \in LoginsOf(OwnedBy(config.rows, s.id))
    PROVE  l \in LoginsOf(config'.rows)
<1>1. PICK pass, out, next :
        pass = passes[slot] /\ out = Outcome(pass, answer) /\ next = RebasePass(config, out)
  OBVIOUS
<1>2. passes[slot].stage = "resolving"
  BY DEF Commit
<1>3. IsGood(config) /\ IsOutcome(out, config)
  BY <1>1, <1>2, OutcomeIs DEF Inv, ConfigsAreGood
<1>4. CASE config' = config
  <2>1. config.rows \in Seq(RowType)
    BY <1>3, GoodFields
  <2>2. PICK mine, order :
          /\ mine = OwnedBy(config.rows, s.id)
          /\ IsPick(order, mine, config.rows, {i \in DOMAIN config.rows : config.rows[i].owner = s.id})
    BY <2>1, OwnedByIs
  <2>3. LoginsOf(mine) \subseteq LoginsOf(config.rows)
    BY <2>2 DEF IsPick, LoginsOf
  <2> QED
    BY <1>4, <2>2, <2>3
<1>5. CASE config' = next
  <2>1. pass.view \in ConfigType
    <3>1. IsGoodPass(pass)
      BY <1>1 DEF Inv, PassesAreGood
    <3> QED
      BY <1>1, <1>2, <3>1 DEF IsGoodPass, Idle
  <2>2. /\ s.id \notin Ended(pass.view.subs, pass.seen)
        /\ \E n \in DOMAIN Desired(pass, answer) :
              Desired(pass, answer)[n] = [login |-> l, owner |-> s.id]
    BY <1>1, <2>1, BlindPassWants
  <2>3. out.ended = Ended(pass.view.subs, pass.seen) /\ out.desired = Desired(pass, answer)
    BY <1>1 DEF Outcome
  <2>4. PICK n \in DOMAIN out.desired : out.desired[n] = [login |-> l, owner |-> s.id]
    BY <2>2, <2>3
  <2>5. out.desired[n].owner \in SubIds(config.subs) \ out.ended
    BY <2>2, <2>3, <2>4
  <2>6. out.desired[n].login \in LoginsOf(RebasePass(config, out).rows)
    BY <1>3, <2>5, RebaseKeepsWanted
  <2> QED
    BY <1>1, <1>5, <2>4, <2>6
<1> QED
  BY <1>1, <1>4, <1>5 DEF Commit, Applied

\* A pass ends only what it had a campaign or a catalogue to judge by.
LEMMA BlindPassEndsNothing ==
    ASSUME Parameters, Inv, NEW slot \in Slots, NEW answer \in Answers,
           Commit(slot, answer),
           NEW id \in SubIds(config.subs) \ SubIds(config'.subs)
    PROVE  WasLookedFor(id, slot)
<1>1. PICK pass, out :
        pass = passes[slot] /\ out = Outcome(pass, answer)
  OBVIOUS
<1>2. passes[slot].stage = "resolving"
  BY DEF Commit
<1>3. IsGood(config) /\ IsOutcome(out, config)
  BY <1>1, <1>2, OutcomeIs DEF Inv, ConfigsAreGood
<1>4. config' = RebasePass(config, out)
  <2>1. config' # config
    OBVIOUS
  <2> QED
    BY <1>1, <2>1 DEF Commit, Applied
<1>5. config'.subs = RebasedSubs(config, out)
  <2>1. PICK c, subs, rows, games :
          /\ c = config /\ subs = RebasedSubs(c, out)
          /\ rows = RebasePass(c, out).rows /\ games = RebasedGames(c, out)
    OBVIOUS
  <2>2. c = [subs |-> c.subs, rows |-> c.rows, followed |-> c.followed, queue |-> c.queue]
    BY <1>3, <2>1, GoodParts
  <2>3. RebasePass(c, out).subs = subs
    BY <2>1, <2>2 DEF RebasePass
  <2> QED
    BY <1>4, <2>1, <2>3
<1>6. id \in out.ended
  BY <1>3, <1>5, RebasedSubsAre
<1>7. id \in Ended(pass.view.subs, pass.seen)
  BY <1>1, <1>6 DEF Outcome
<1>8. PICK s \in ToSet(pass.view.subs) :
        /\ s.id = id
        /\ s.target \in pass.seen.listed \/ pass.seen.fresh
  BY <1>7 DEF Ended
<1>9. pass.seen.fresh => pass.seen.available
  BY <1>1, <1>2 DEF Inv, PassesAreGood, IsGoodPass, Idle
<1> QED
  BY <1>1, <1>8, <1>9 DEF WasLookedFor

\* A pass never silently empties a pool: a subscription whose channels it could not
\* look up, for want of its campaign or of an answer of the directory, keeps every
\* channel that it had when the pass began and has at its end.  And without its
\* campaign and a catalogue to be trusted no subscription is removed.
THEOREM BlindPassesKeepPools ==
    ASSUME Parameters
    PROVE  Spec => [][BlindPassKeepsPools]_vars
<1>1. Inv /\ [Next]_vars => [BlindPassKeepsPools]_vars
  <2> SUFFICES ASSUME Inv, [Next]_vars, NEW slot \in Slots, Commits(slot)
               PROVE  /\ \A s \in ToSet(Served(passes[slot])) :
                            LosesChannels(s, slot) => WasLookedUp(s, slot)
                      /\ \A id \in SubIds(config.subs) \ SubIds(config'.subs) :
                            WasLookedFor(id, slot)
    BY DEF BlindPassKeepsPools
  <2>1. PICK answer \in Answers : Commit(slot, answer)
    BY OnlyCommitEnds DEF Inv
  <2>2. ASSUME NEW s \in ToSet(Served(passes[slot])), LosesChannels(s, slot)
        PROVE  WasLookedUp(s, slot)
    <3>1. /\ s.id \in SubIds(config.subs)
          /\ \E l \in PoolOf(s, passes[slot]) :
                /\ l \in LoginsOf(OwnedBy(config.rows, s.id))
                /\ l \notin LoginsOf(config'.rows)
      BY <2>2 DEF LosesChannels
    <3>2. ASSUME NEW given \in Answers, Commit(slot, given)
          PROVE  s.target \in passes[slot].seen.listed /\ s.target \notin given.failing
      BY <2>2, <3>1, <3>2, BlindPassKeeps
    <3> QED
      BY <2>1, <3>2 DEF WasLookedUp
  <2>3. ASSUME NEW id \in SubIds(config.subs) \ SubIds(config'.subs)
        PROVE  WasLookedFor(id, slot)
    BY <2>1, <2>3, BlindPassEndsNothing
  <2> QED
    BY <2>2, <2>3
<1> QED
  BY <1>1, InvHolds, PTL DEF Spec

-----------------------------------------------------------------------------
(* The queue moves on.                                                     *)

\* The listing in rank order has every subscription, those of the least rank first.
IsInOrder(ordered, subs) ==
    /\ \A k \in DOMAIN ordered : \E i \in DOMAIN subs : ordered[k] = subs[i]
    /\ \A i \in DOMAIN subs : \E k \in DOMAIN ordered : ordered[k] = subs[i]
    /\ \A k, l \in DOMAIN ordered : k < l => ordered[k].rank <= ordered[l].rank

LEMMA InRankOrderHas ==
    ASSUME NEW subs \in Seq(SubType)
    PROVE  IsInOrder(InRankOrder(subs), subs)
<1>1. PICK triples, ordered : /\ triples = {<<subs[i].rank, i, subs[i]>> : i \in DOMAIN subs}
                              /\ ordered = Listing(triples)
  OBVIOUS
<1>2. Len(subs) \in Nat /\ DOMAIN subs = 1..Len(subs) /\ \A i \in DOMAIN subs : subs[i] \in SubType
  BY Places
<1>3. IsFiniteSet(triples)
  <2>1. PICK f : f = [i \in DOMAIN subs |-> <<subs[i].rank, i, subs[i]>>]
    OBVIOUS
  <2>2. IsFiniteSet({f[i] : i \in DOMAIN subs})
    BY <1>2, PlacesOfN, FiniteImage
  <2>3. {f[i] : i \in DOMAIN subs} = triples
    BY <1>1, <2>1
  <2> QED
    BY <2>2, <2>3
<1>4. triples \subseteq Int \X Int \X SubType
  BY <1>1, <1>2 DEF SubType
<1>5. AreTriples(triples, SubType)
  BY <1>1, <1>3, <1>4 DEF AreTriples
<1>6. PICK of : IsListing(of, ordered, triples)
  BY <1>1, <1>5, ListingIs
<1>7. \A t \in triples : \E i \in DOMAIN subs : t = <<subs[i].rank, i, subs[i]>>
  BY <1>1
<1>8. \A k \in DOMAIN ordered :
          /\ of[k] \in triples /\ ordered[k] = of[k][3]
          /\ \E i \in DOMAIN subs : ordered[k] = subs[i] /\ of[k][1] = ordered[k].rank
  <2> SUFFICES ASSUME NEW k \in DOMAIN ordered
               PROVE  /\ of[k] \in triples /\ ordered[k] = of[k][3]
                      /\ \E i \in DOMAIN subs : ordered[k] = subs[i] /\ of[k][1] = ordered[k].rank
    OBVIOUS
  <2>1. of[k] \in triples /\ ordered[k] = of[k][3]
    BY <1>6 DEF IsListing
  <2>2. PICK i \in DOMAIN subs : of[k] = <<subs[i].rank, i, subs[i]>>
    BY <1>7, <2>1
  <2> QED
    BY <2>1, <2>2
<1>9. \A i \in DOMAIN subs : \E k \in DOMAIN ordered : ordered[k] = subs[i]
  <2> SUFFICES ASSUME NEW i \in DOMAIN subs
               PROVE  \E k \in DOMAIN ordered : ordered[k] = subs[i]
    OBVIOUS
  <2>1. <<subs[i].rank, i, subs[i]>> \in triples
    BY <1>1
  <2>2. PICK k \in DOMAIN ordered : of[k] = <<subs[i].rank, i, subs[i]>>
    BY <1>6, <2>1 DEF IsListing
  <2> QED
    BY <1>8, <2>2
<1>10. \A k, l \in DOMAIN ordered : k < l => ordered[k].rank <= ordered[l].rank
  BY <1>6, <1>8 DEF IsListing
<1>11. InRankOrder(subs) = ordered
  BY <1>1 DEF InRankOrder
<1> QED
  BY <1>8, <1>9, <1>10, <1>11 DEF IsInOrder

\* Neither leaving nor waiting for its campaign to open.
IsReadyIn(pass, s) ==
    s.id \notin Ended(pass.view.subs, pass.seen) /\ s.target \notin NotOpen(pass.seen)

\* With the queue on and somebody ready, a pass serves one subscription: the first
\* of those that are.
LEMMA HeadIs ==
    ASSUME NEW pass, pass.view \in ConfigType, pass.view.queue,
           HasDistinctSubs(pass.view.subs),
           \E s \in ToSet(pass.view.subs) : IsReadyIn(pass, s)
    PROVE  \E head \in ToSet(pass.view.subs) :
              /\ IsReadyIn(pass, head)
              /\ \A s \in ToSet(pass.view.subs) : IsReadyIn(pass, s) => head.rank <= s.rank
              /\ head \in ToSet(Served(pass))
              /\ \A s \in ToSet(Served(pass)) : s = head
<1>1. PICK subs, ordered, ready, places, served :
        /\ subs = pass.view.subs /\ ordered = InRankOrder(subs)
        /\ ready = {i \in DOMAIN ordered :
                      /\ ordered[i].id \notin Ended(subs, pass.seen)
                      /\ ordered[i].target \notin NotOpen(pass.seen)}
        /\ places = {i \in DOMAIN ordered :
              /\ ordered[i].id \notin Ended(subs, pass.seen)
              /\ ordered[i].target \notin NotOpen(pass.seen)
              /\ ordered[i].id = TurnOf(pass.view, pass.seen)}
        /\ served = Served(pass)
  OBVIOUS
<1>2. subs \in Seq(SubType) /\ ordered \in Seq(SubType)
  BY <1>1, InRankOrderIs DEF ConfigType
<1>3. /\ \A k \in DOMAIN ordered : \E i \in DOMAIN subs : ordered[k] = subs[i]
      /\ \A i \in DOMAIN subs : \E k \in DOMAIN ordered : ordered[k] = subs[i]
      /\ \A k, l \in DOMAIN ordered : k < l => ordered[k].rank <= ordered[l].rank
  <2>1. IsInOrder(InRankOrder(subs), subs)
    BY <1>2, InRankOrderHas
  <2>2. IsInOrder(ordered, subs)
    BY <1>1, <2>1
  <2> QED
    BY <2>2 DEF IsInOrder
<1>4. \A k \in DOMAIN ordered : ordered[k] \in SubType
  BY <1>2, Places
<1>5. ready # {} /\ IsFiniteSet(ready) /\ ready \subseteq Int
  <2>1. ready \in SUBSET DOMAIN ordered
    BY <1>1
  <2>2. ready # {}
    <3>1. PICK s \in ToSet(subs) : IsReadyIn(pass, s)
      BY <1>1
    <3>2. PICK i \in DOMAIN subs : subs[i] = s
      BY <3>1 DEF ToSet
    <3>3. PICK k \in DOMAIN ordered : ordered[k] = s
      BY <1>3, <3>2
    <3>4. k \in ready
      BY <1>1, <3>1, <3>3 DEF IsReadyIn
    <3> QED
      BY <3>4
  <2> QED
    BY <1>2, <2>1, <2>2, PlacesAre
<1>6. PICK first : first = CHOOSE i \in ready : \A j \in ready : i <= j
  OBVIOUS
<1>7. first \in ready /\ \A j \in ready : first <= j
  BY <1>5, <1>6, LeastIsHeld
<1>8. PICK head : head = ordered[first]
  OBVIOUS
<1>9. first \in DOMAIN ordered /\ head \in ToSet(subs) /\ IsReadyIn(pass, head)
  <2>1. first \in DOMAIN ordered
    BY <1>1, <1>7
  <2>2. head \in ToSet(subs)
    BY <1>3, <1>8, <2>1 DEF ToSet
  <2> QED
    BY <1>1, <1>7, <1>8, <2>1, <2>2 DEF IsReadyIn
<1>10. TurnOf(pass.view, pass.seen) = head.id
  BY <1>1, <1>5, <1>6, <1>8 DEF TurnOf, ActiveInQueue
<1>11. ASSUME NEW s \in ToSet(subs), IsReadyIn(pass, s)
       PROVE  head.rank <= s.rank
  <2>1. PICK i \in DOMAIN subs : subs[i] = s
    BY DEF ToSet
  <2>2. PICK k \in DOMAIN ordered : ordered[k] = s
    BY <1>3, <2>1
  <2>3. k \in ready
    BY <1>1, <1>11, <2>2 DEF IsReadyIn
  <2>4. first <= k /\ first \in Int /\ k \in Int
    BY <1>5, <1>7, <2>3
  <2>5. first = k \/ first < k
    BY <2>4
  <2>6. head.rank \in Nat
    BY <1>4, <1>8, <1>9 DEF SubType
  <2> QED
    BY <1>3, <1>8, <1>9, <2>2, <2>5, <2>6
<1>12. served = KeptAt(ordered, places)
  <2>1. places = {i \in DOMAIN ordered :
              /\ ordered[i].id \notin Ended(pass.view.subs, pass.seen)
              /\ ordered[i].target \notin NotOpen(pass.seen)
              /\ pass.view.queue => ordered[i].id = TurnOf(pass.view, pass.seen)}
    BY <1>1
  <2> QED
    BY <1>1, <2>1 DEF Served
<1>13. PICK order : IsPick(order, served, ordered, places)
  <2>1. places \in SUBSET DOMAIN ordered
    BY <1>1
  <2> QED
    BY <1>2, <1>12, <2>1, KeptAtIs
<1>14. ASSUME NEW k \in places
       PROVE  ordered[k] = head
  <2>1. k \in DOMAIN ordered /\ ordered[k].id = head.id
    BY <1>1, <1>10, <1>14
  <2>2. PICK i \in DOMAIN subs : subs[i] = ordered[k]
    BY <1>3, <2>1
  <2>3. PICK j \in DOMAIN subs : subs[j] = head
    BY <1>9 DEF ToSet
  <2>4. i = j
    BY <1>1, <2>1, <2>2, <2>3 DEF HasDistinctSubs
  <2> QED
    BY <2>2, <2>3, <2>4
<1>15. \A s \in ToSet(served) : s = head
  BY <1>13, <1>14 DEF ToSet, IsPick
<1>16. head \in ToSet(served)
  <2>1. first \in places
    BY <1>1, <1>7, <1>8, <1>9, <1>10
  <2>2. PICK k \in DOMAIN served : order[k] = first
    BY <1>13, <2>1 DEF IsPick
  <2>3. served[k] = head
    BY <1>8, <1>13, <2>2 DEF IsPick
  <2> QED
    BY <2>2, <2>3 DEF ToSet
<1> QED
  BY <1>1, <1>9, <1>11, <1>15, <1>16

\* A subscription that may be looked up gets a channel, one the directory has.
LEMMA FirstIsKept ==
    ASSUME NEW T, NEW s \in Seq(T), NEW n \in Nat, n # 0, s # <<>>
    PROVE  1 \in DOMAIN FirstOf(s, n) /\ FirstOf(s, n)[1] = s[1] /\ 1 \in DOMAIN s
<1>1. Len(s) \in Nat /\ Len(s) # 0 /\ DOMAIN s = 1..Len(s)
  BY LenProperties, EmptySeq
<1>2. PICK m \in 1..Len(s) : m = LeastOf(n, Len(s))
  <2>1. PICK l \in Nat : l = Len(s) /\ l # 0
    BY <1>1
  <2>2. LeastOf(n, l) \in 1..l
    BY <2>1 DEF LeastOf
  <2> QED
    BY <2>1, <2>2
<1>3. \A i \in 1..m : s[i] \in T
  BY <1>1, <1>2, ElementOfSeq
<1>4. /\ SubSeq(s, 1, m) \in Seq(T) /\ Len(SubSeq(s, 1, m)) = m
      /\ \A i \in 1..m : SubSeq(s, 1, m)[i] = s[i]
  BY <1>1, <1>2, <1>3, SubSeqProperties
<1>5. DOMAIN SubSeq(s, 1, m) = 1..m
  BY <1>4, LenProperties
<1> QED
  BY <1>1, <1>2, <1>4, <1>5 DEF FirstOf

LEMMA RankedHas ==
    ASSUME Parameters, NEW S \in SUBSET Channels, S # {}
    PROVE  /\ RankDirectory(S) # <<>>
           /\ \A i \in DOMAIN RankDirectory(S) : RankDirectory(S)[i] \in S
<1>1. IsFiniteSet(S) /\ S \subseteq Int
  <2>1. IsFiniteSet(Channels) /\ Channels \subseteq Nat
    BY DEF Parameters
  <2>2. IsFiniteSet(S)
    BY <2>1, FS_Subset
  <2> QED
    BY <2>1, <2>2
<1>2. /\ Cardinality(S) \in Nat
      /\ Ascending(S) \in [1..Cardinality(S) -> S]
      /\ \A x \in S : \E i \in 1..Cardinality(S) : Ascending(S)[i] = x
  BY <1>1, AscendingIs
<1>3. DOMAIN Ascending(S) # {}
  BY <1>2
<1>4. Ascending(S) # <<>>
  BY <1>3
<1> QED
  BY <1>2, <1>4 DEF RankDirectory

LEMMA RebuiltHas ==
    ASSUME Parameters, NEW sub \in SubType, sub.pool # 0, NEW live \in SUBSET Channels,
           live # {}, NEW exclude, NEW readable
    PROVE  LET channels == Rebuilt(sub, live, exclude, readable)
           IN  1 \in DOMAIN channels /\ channels[1] \in live
<1>1. PICK checked, confirmed, open, ranked :
        /\ checked = Checked(live, exclude, readable)
        /\ confirmed = {c \in checked : sub.target \in Running[c]}
        /\ open = IF live \subseteq exclude THEN live ELSE live \ exclude
        /\ ranked = IF confirmed = {} THEN RankDirectory(open)
                    ELSE RankDirectory(confirmed) \o RankDirectory(open \ checked)
  OBVIOUS
<1>2. Rebuilt(sub, live, exclude, readable) = FirstOf(ranked, sub.pool)
  BY <1>1 DEF Rebuilt
<1>3. open \in SUBSET Channels /\ open \subseteq live /\ open # {}
  BY <1>1
<1>4. checked \subseteq live
  <2>1. PICK directory : directory = RankDirectory(live \ exclude)
    OBVIOUS
  <2>2. live \ exclude = {} \/ \A i \in DOMAIN directory : directory[i] \in live
    BY <2>1, RankedHas
  <2>3. directory \in Seq(Channels)
    BY <2>1, RankedIs
  <2>4. PICK d : d = FirstOf(directory, CheckLimit)
    OBVIOUS
  <2>5. \A i \in DOMAIN d : i \in DOMAIN directory /\ d[i] = directory[i]
    <3>1. Len(directory) \in Nat /\ DOMAIN directory = 1..Len(directory) /\ CheckLimit \in Nat
      BY <2>3, LenProperties DEF Parameters
    <3>2. PICK m \in Nat : m = LeastOf(CheckLimit, Len(directory)) /\ m <= Len(directory)
      <4>1. PICK l \in Nat : l = Len(directory)
        BY <3>1
      <4>2. LeastOf(CheckLimit, l) \in Nat /\ LeastOf(CheckLimit, l) <= l
        BY <3>1, <4>1 DEF LeastOf
      <4> QED
        BY <4>1, <4>2
    <3>3. \A i \in 1..m : directory[i] \in Channels
      BY <2>3, <3>1, <3>2, ElementOfSeq
    <3>4. /\ SubSeq(directory, 1, m) \in Seq(Channels) /\ Len(SubSeq(directory, 1, m)) = m
          /\ \A i \in 1..m : SubSeq(directory, 1, m)[i] = directory[i]
      BY <3>1, <3>2, <3>3, SubSeqProperties
    <3>5. DOMAIN d = 1..m /\ d = SubSeq(directory, 1, m)
      BY <2>4, <3>2, <3>4, LenProperties DEF FirstOf
    <3> QED
      BY <3>1, <3>2, <3>4, <3>5
  <2>6. CASE live \ exclude = {}
    <3>1. DOMAIN directory = {}
      <4>1. Cardinality({}) = 0
        BY FS_EmptySet
      <4>2. DOMAIN Ascending({}) = 1..0
        BY <4>1 DEF Ascending
      <4>3. directory = Ascending({})
        BY <2>1, <2>6 DEF RankDirectory
      <4> QED
        BY <4>2, <4>3
    <3>2. ToSet(d) = {}
      BY <2>5, <3>1 DEF ToSet
    <3> QED
      BY <1>1, <2>1, <2>4, <3>2 DEF Checked
  <2>7. CASE live \ exclude # {}
    <3>1. ToSet(d) \subseteq live
      BY <2>2, <2>5, <2>7 DEF ToSet
    <3> QED
      BY <1>1, <2>1, <2>4, <3>1 DEF Checked
  <2> QED
    BY <2>6, <2>7
<1>5. ranked \in Seq(Channels) /\ ranked # <<>> /\ ranked[1] \in live
  <2>1. CASE confirmed = {}
    <3>1. /\ RankDirectory(open) \in Seq(Channels) /\ RankDirectory(open) # <<>>
          /\ \A i \in DOMAIN RankDirectory(open) : RankDirectory(open)[i] \in open
      BY <1>3, RankedIs, RankedHas
    <3>2. 1 \in DOMAIN RankDirectory(open)
      BY <3>1, LenProperties, EmptySeq
    <3> QED
      BY <1>1, <1>3, <2>1, <3>1, <3>2
  <2>2. CASE confirmed # {}
    <3>1. PICK a, b : a = RankDirectory(confirmed) /\ b = RankDirectory(open \ checked)
      OBVIOUS
    <3>2. confirmed \in SUBSET Channels /\ confirmed \subseteq live
      BY <1>1, <1>4
    <3>3. a \in Seq(Channels) /\ a # <<>> /\ \A i \in DOMAIN a : a[i] \in confirmed
      BY <2>2, <3>1, <3>2, RankedIs, RankedHas
    <3>4. open \ checked \in SUBSET Channels
      BY <1>3
    <3>5. b \in Seq(Channels)
      BY <3>1, <3>4, RankedIs
    <3>6. a \o b \in Seq(Channels) /\ IsJoin(a \o b, a, b)
      BY <3>3, <3>5, Concatenated
    <3>7. 1 \in DOMAIN a
      BY <3>3, LenProperties, EmptySeq
    <3>8. 1 \in DOMAIN (a \o b) /\ (a \o b)[1] = a[1]
      BY <3>6, <3>7 DEF IsJoin
    <3>9. ranked = a \o b
      BY <1>1, <2>2, <3>1
    <3> QED
      BY <3>2, <3>3, <3>6, <3>7, <3>8, <3>9
  <2> QED
    BY <2>1, <2>2
<1>6. sub.pool \in Nat
  BY DEF SubType
<1> QED
  BY <1>2, <1>5, <1>6, FirstIsKept

LEMMA HeadGetsChannels ==
    ASSUME Parameters, NEW pass, pass.view \in ConfigType, NEW answer \in Answers,
           NEW sub \in SubType, sub.pool # 0, sub.target \in pass.seen.listed,
           answer.failing = {}, answer.live[sub.target] # {},
           \A i \in DOMAIN pass.view.rows : pass.view.rows[i].on
    PROVE  \E i \in DOMAIN ChannelsOf(sub, pass, answer) :
              ChannelsOf(sub, pass, answer)[i] \in answer.live[sub.target]
<1>1. PICK live, rows : live = answer.live[sub.target] /\ rows = pass.view.rows
  OBVIOUS
<1>2. live \in SUBSET Channels /\ live # {}
  <2>1. live \in LiveSets
    BY <1>1 DEF Answers, SubType
  <2> QED
    BY <1>1, <2>1 DEF Parameters
<1>3. Directory(sub, pass, answer) = live
  BY <1>1 DEF Directory, Watchable
<1>4. ~Degraded(sub, pass.seen, answer)
  BY DEF Degraded
<1>5. CASE Kept(sub, pass, answer) /\ ~IsStuck(sub, pass, answer)
  <2>1. ChannelsOf(sub, pass, answer) = Incumbents(rows, sub.id)
    BY <1>1, <1>5 DEF ChannelsOf
  <2>2. IsKept(Incumbents(rows, sub.id), live)
    BY <1>1, <1>3, <1>5 DEF Kept
  <2> QED
    BY <1>1, <2>1, <2>2 DEF IsKept
<1>6. CASE ~(Kept(sub, pass, answer) /\ ~IsStuck(sub, pass, answer))
  <2>1. PICK channels : channels = Rebuilt(sub, live, PassedOver(sub, pass, answer), answer.readable)
    OBVIOUS
  <2>2. ChannelsOf(sub, pass, answer) = channels
    BY <1>3, <1>4, <1>6, <2>1 DEF ChannelsOf
  <2>3. 1 \in DOMAIN channels /\ channels[1] \in live
    BY <1>2, <2>1, RebuiltHas
  <2> QED
    BY <1>1, <2>2, <2>3
<1> QED
  BY <1>5, <1>6

\* Rows made for channels that are all wanted by one subscription are its own; where none is
\* made, the user has every one of the channels.
LEMMA OneOwner ==
    ASSUME NEW rows \in Seq(RowType), NEW desired \in Seq(WantType), NEW id \in Ids,
           \A i \in DOMAIN desired : desired[i].owner = id, NEW n \in DOMAIN desired
    PROVE  \/ Owners(Reconcile(rows, desired)) = {id}
           \/ /\ Owners(Reconcile(rows, desired)) = {}
              /\ desired[n].login \in LoginsOf(Manual(rows))
<1>1. PICK made \in Seq(RowType) :
        /\ Reconcile(rows, desired) = Manual(rows) \o made
        /\ \A k \in DOMAIN made :
              /\ made[k].login \notin LoginsOf(Manual(rows))
              /\ \E i \in DOMAIN desired : IsMadeFor(made[k], rows, desired[i])
  BY ReconcileParts
<1>2. PICK manual, order : /\ manual = Manual(rows) /\ manual \in Seq(RowType)
                           /\ IsPick(order, manual, rows, {i \in DOMAIN rows : rows[i].owner = ByHand})
  BY OwnedByIs DEF Manual
<1>3. PICK all : all = manual \o made /\ IsJoin(all, manual, made)
  BY <1>1, <1>2, Concatenated
<1>4. \A k \in DOMAIN manual : manual[k].owner = ByHand
  BY <1>2 DEF IsPick
<1>5. \A k \in DOMAIN made : made[k].owner = id
  BY <1>1 DEF IsMadeFor
<1>6. id # ByHand
  BY DEF Ids, ByHand
<1>7. CASE \E k \in DOMAIN made : TRUE
  <2>1. Owners(all) \subseteq {id}
    <3>1. \A k \in DOMAIN all : all[k].owner \in {ByHand, id}
      BY <1>3, <1>4, <1>5 DEF IsJoin
    <3> QED
      BY <3>1 DEF Owners
  <2>2. id \in Owners(all)
    <3>1. PICK k \in DOMAIN made : TRUE
      BY <1>7
    <3>2. Len(manual) + k \in DOMAIN all /\ all[Len(manual) + k] = made[k]
      BY <1>3, <3>1 DEF IsJoin
    <3>3. all[Len(manual) + k].owner = id
      BY <1>5, <3>1, <3>2
    <3> QED
      BY <1>6, <3>2, <3>3 DEF Owners
  <2> QED
    BY <1>1, <1>2, <1>3, <2>1, <2>2
<1>8. CASE DOMAIN made = {}
  <2>1. Owners(all) = {}
    BY <1>3, <1>4, <1>8 DEF Owners, IsJoin
  <2>2. LoginsOf(all) \subseteq LoginsOf(manual)
    BY <1>3, <1>8 DEF LoginsOf, IsJoin
  <2>3. desired[n].login \in LoginsOf(Reconcile(rows, desired))
    BY ReconcileKeepsWanted
  <2> QED
    BY <1>1, <1>2, <1>3, <2>1, <2>2, <2>3
<1> QED
  BY <1>7, <1>8

\* What a pass that was not overtaken knows: the world as it is.
Now == [listed |-> listed, available |-> TRUE, fresh |-> TRUE, phase |-> phase,
        complete |-> complete]

\* A pass that was not overtaken, and its view of the config.
IsUpToDate(pass) == pass.loaded = config /\ pass.seen = Now

LEMMA UpToDateView ==
    ASSUME Inv, NEW slot \in Slots, NEW pass, pass = passes[slot],
           pass.stage = "resolving", IsUpToDate(pass)
    PROVE  /\ IsGood(config) /\ pass.view \in ConfigType
           /\ AddedOf(pass) \in Seq(SubType)
           /\ AreAdditions(AddedOf(pass), config) /\ AreCollectable(AddedOf(pass), Now)
           /\ pass.view.subs = config.subs \o AddedOf(pass)
           /\ pass.view.rows = config.rows /\ pass.view.queue = config.queue
           /\ pass.view.followed = PrunedGames(config, Now)
           /\ pass.view = View(config, Now, AddedOf(pass))
           /\ HasDistinctSubs(pass.view.subs)
           /\ ToSet(pass.view.subs) = ToSet(config.subs) \cup ToSet(AddedOf(pass))
           /\ SubIds(AddedOf(pass)) \cap SubIds(config.subs) = {}
<1>1. IsGoodPass(pass) /\ pass # Idle
  BY DEF Inv, PassesAreGood, Idle
<1>2. PICK added : added = AddedOf(pass)
  OBVIOUS
<1>3. /\ IsGood(config) /\ pass.view \in ConfigType
      /\ pass.view = View(config, Now, added)
      /\ AreAdditions(added, config) /\ AreCollectable(added, Now)
  BY <1>1, <1>2 DEF IsGoodPass, IsUpToDate
<1>4. added \in Seq(SubType) /\ HasDistinctSubs(added)
  BY <1>3 DEF AreAdditions
<1>5. PICK games, subs : games = PrunedGames(config, Now) /\ subs = config.subs \o added
  OBVIOUS
<1>6. PICK c : c = config
  OBVIOUS
<1>7. pass.view = [subs |-> subs, rows |-> c.rows, followed |-> games, queue |-> c.queue]
  <2>1. pass.view = [c EXCEPT !.followed = games, !.subs = subs]
    BY <1>3, <1>5, <1>6 DEF View
  <2> QED
    BY <1>3, <1>6, <2>1, GoodParts
<1>8. SubIds(added) \cap SubIds(c.subs) = {}
  <2>1. NewIds(pass) = SubIds(added)
    BY <1>2 DEF NewIds
  <2>2. NewIds(pass) \cap SavedIds = {} /\ SubIds(config.subs) \subseteq SavedIds
    BY DEF Inv, NewIdsAreNew, SavedIds
  <2> QED
    BY <1>6, <2>1, <2>2
<1>9. Targets(c.subs) \cap Targets(added) = {}
  BY <1>3, <1>6 DEF AreAdditions, Targets
<1>10. c.subs \in Seq(SubType) /\ HasDistinctSubs(c.subs)
  BY <1>3, <1>6, GoodFields
<1>11. HasDistinctSubs(subs) /\ ToSet(subs) = ToSet(c.subs) \cup ToSet(added)
  BY <1>4, <1>5, <1>6, <1>8, <1>9, <1>10, JoinedSubs
<1>12. /\ pass.view.subs = config.subs \o added
       /\ pass.view.rows = config.rows /\ pass.view.queue = config.queue
       /\ pass.view.followed = PrunedGames(config, Now)
  BY <1>5, <1>6, <1>7
<1>13. HasDistinctSubs(pass.view.subs) /\ ToSet(pass.view.subs) = ToSet(config.subs) \cup ToSet(added)
  BY <1>5, <1>6, <1>7, <1>11
<1>14. SubIds(added) \cap SubIds(config.subs) = {}
  BY <1>6, <1>8
<1> QED
  BY <1>2, <1>3, <1>4, <1>12, <1>13, <1>14

\* Of subscriptions to different campaigns, those leave whose campaign is gone, over
\* or complete.
LEMMA EndedAre ==
    ASSUME NEW subs, HasDistinctSubs(subs), NEW s \in ToSet(subs), NEW seen, seen.fresh
    PROVE  s.id \notin Ended(subs, seen) <=>
              /\ s.target \in seen.listed \ seen.complete
              /\ seen.phase[s.target] # "over"
<1>1. \A t \in ToSet(subs) : t.id = s.id => t = s
  BY DEF ToSet, HasDistinctSubs
<1>2. \A t : t \in ToSet(subs) /\ (\/ t.target \notin seen.listed /\ seen.fresh
                                   \/ t.target \in seen.listed /\ seen.phase[t.target] = "over"
                                   \/ t.target \in seen.listed \cap seen.complete)
             => t.id \in Ended(subs, seen)
  BY DEF Ended
<1>3. \A id \in Ended(subs, seen) : \E t \in ToSet(subs) :
          /\ t.id = id
          /\ \/ t.target \notin seen.listed
             \/ t.target \in seen.listed /\ seen.phase[t.target] = "over"
             \/ t.target \in seen.listed \cap seen.complete
  BY DEF Ended
<1>4. ASSUME s.id \in Ended(subs, seen)
      PROVE  ~(/\ s.target \in seen.listed \ seen.complete
               /\ seen.phase[s.target] # "over")
  BY <1>1, <1>3, <1>4
<1>5. ASSUME s.id \notin Ended(subs, seen)
      PROVE  /\ s.target \in seen.listed \ seen.complete
             /\ seen.phase[s.target] # "over"
  BY <1>2, <1>5
<1> QED
  BY <1>4, <1>5

\* Each campaign a pass adds that was not overtaken is subscribed to: its game is
\* followed, and does not skip it.
LEMMA AdditionsStand ==
    ASSUME Parameters, Inv, NEW slot \in Slots, NEW pass, pass = passes[slot],
           pass.stage = "resolving", IsUpToDate(pass),
           NEW answer \in Answers, NEW out, out = Outcome(pass, answer)
    PROVE  KeptAdditions(config, out) = out.added /\ out.added = AddedOf(pass)
<1>1. PICK added, c, leaving : /\ added = AddedOf(pass) /\ c = config
        /\ leaving = {s \in ToSet(pass.view.subs) : s.id \in Ended(pass.view.subs, pass.seen)}
  OBVIOUS
<1>2. /\ IsGood(c) /\ pass.view \in ConfigType /\ added \in Seq(SubType)
      /\ AreAdditions(added, c) /\ AreCollectable(added, Now)
      /\ pass.view.followed = PrunedGames(c, Now)
      /\ HasDistinctSubs(pass.view.subs)
      /\ ToSet(pass.view.subs) = ToSet(c.subs) \cup ToSet(added)
  BY <1>1, UpToDateView
<1>3. pass.loaded = c /\ pass.seen = Now
  BY <1>1 DEF IsUpToDate
<1>4. /\ out.added = added /\ out.gamesBefore = c.followed
      /\ out.gamesAfter = RecordSkipped(pass.view.followed, leaving, Now.listed)
  BY <1>1, <1>3 DEF Outcome, AddedOf
<1>5. PICK pruned, games : pruned = PrunedGames(c, Now) /\ games = RebasedGames(c, out)
  OBVIOUS
<1>6. HasDistinctGames(c.followed)
  BY <1>2, GoodFields
<1>7. /\ DOMAIN pruned = DOMAIN c.followed
      /\ \A g \in DOMAIN c.followed :
            /\ pruned[g].game = c.followed[g].game
            /\ pruned[g].skipped \subseteq c.followed[g].skipped \cup complete
  <2>1. pruned = [g \in DOMAIN c.followed |->
            [c.followed[g] EXCEPT !.skipped =
                (IF Now.fresh THEN @ \cap Now.listed ELSE @)
                    \cup (Candidates(c, c.followed[g], Now) \cap Now.complete)]]
    BY <1>5 DEF PrunedGames, Now
  <2>2. \A g \in DOMAIN c.followed : c.followed[g] \in GameType
    BY <1>2, GoodFields, Places
  <2>3. Now.complete = complete /\ Now.fresh
    BY DEF Now
  <2> QED
    BY <2>1, <2>2, <2>3 DEF GameType
<1>8. /\ DOMAIN out.gamesAfter = DOMAIN c.followed
      /\ \A g \in DOMAIN c.followed :
            /\ out.gamesAfter[g].game = c.followed[g].game
            /\ \A x \in out.gamesAfter[g].skipped :
                  x \in pruned[g].skipped \/ \E s \in leaving : x = s.target
  <2>1. pruned \in Seq(GameType)
    BY <1>2, <1>5 DEF ConfigType
  <2>2. \A g \in DOMAIN pruned : pruned[g] \in GameType
    BY <2>1, Places
  <2>3. out.gamesAfter = RecordSkipped(pruned, leaving, Now.listed)
    BY <1>2, <1>4, <1>5
  <2>4. out.gamesAfter = [g \in DOMAIN pruned |->
            [pruned[g] EXCEPT !.skipped = @ \cup
                {s.target : s \in {l \in leaving :
                    \/ l.via = pruned[g].game
                    \/ /\ l.via = ByHand
                       /\ l.target \in Now.listed
                       /\ GameOf[l.target] = pruned[g].game}}]]
    BY <2>3 DEF RecordSkipped
  <2>5. \A g \in DOMAIN pruned :
            /\ out.gamesAfter[g].game = pruned[g].game
            /\ \A x \in out.gamesAfter[g].skipped :
                  x \in pruned[g].skipped \/ \E s \in leaving : x = s.target
    BY <2>2, <2>4 DEF GameType
  <2> QED
    BY <1>7, <2>4, <2>5
<1>9. \A g \in DOMAIN c.followed :
          /\ games[g].game = c.followed[g].game
          /\ games[g].skipped \subseteq c.followed[g].skipped \cup out.gamesAfter[g].skipped
  <2> SUFFICES ASSUME NEW g \in DOMAIN c.followed
               PROVE  /\ games[g].game = c.followed[g].game
                      /\ games[g].skipped \subseteq c.followed[g].skipped \cup out.gamesAfter[g].skipped
    OBVIOUS
  <2>1. PICK was, now :
          /\ was = UNION {out.gamesBefore[i].skipped :
                     i \in {j \in DOMAIN out.gamesBefore : out.gamesBefore[j].game = c.followed[g].game}}
          /\ now = UNION {out.gamesAfter[i].skipped :
                     i \in {j \in DOMAIN out.gamesAfter : out.gamesAfter[j].game = c.followed[g].game}}
    OBVIOUS
  <2>2. now \subseteq out.gamesAfter[g].skipped
    BY <1>6, <1>8, <2>1 DEF HasDistinctGames
  <2>3. games[g] = [c.followed[g] EXCEPT !.skipped = (@ \ (was \ now)) \cup (now \ was)]
    BY <1>5, <2>1 DEF RebasedGames
  <2>4. c.followed[g] \in GameType
    BY <1>2, GoodFields, Places
  <2> QED
    BY <2>2, <2>3, <2>4 DEF GameType
<1>10. ASSUME NEW k \in DOMAIN added
       PROVE  /\ added[k].target \notin Targets(c.subs)
              /\ \E g \in DOMAIN games : /\ games[g].game = added[k].via
                                         /\ added[k].target \notin games[g].skipped
  <2>1. PICK g \in DOMAIN c.followed : /\ c.followed[g].game = added[k].via
                                       /\ added[k].target \notin c.followed[g].skipped
    BY <1>2 DEF AreAdditions
  <2>2. /\ added[k].target \in listed \ complete
        /\ phase[added[k].target] # "over"
    BY <1>2 DEF AreCollectable, Now
  <2>3. added[k].target \notin pruned[g].skipped
    BY <1>7, <2>1, <2>2
  <2>4. \A s \in leaving : s.target # added[k].target
    <3> SUFFICES ASSUME NEW s \in leaving, s.target = added[k].target
                 PROVE  FALSE
      OBVIOUS
    <3>1. s \in ToSet(pass.view.subs) /\ s.id \in Ended(pass.view.subs, Now)
      BY <1>1, <1>3
    <3>2. Now.fresh /\ Now.listed = listed /\ Now.complete = complete /\ Now.phase = phase
      BY DEF Now
    <3>3. s.target \in listed \ complete /\ phase[s.target] # "over"
      BY <2>2
    <3> QED
      BY <1>2, <3>1, <3>2, <3>3, EndedAre
  <2>5. added[k].target \notin games[g].skipped
    BY <1>8, <1>9, <2>1, <2>3, <2>4
  <2>6. DOMAIN games = DOMAIN c.followed
    BY <1>5 DEF RebasedGames
  <2>7. added[k].target \notin Targets(c.subs)
    BY <1>2 DEF AreAdditions
  <2> QED
    BY <1>9, <2>1, <2>5, <2>6, <2>7
<1>11. KeptAdditions(c, out) = KeptAt(added, DOMAIN added)
  <2>1. {k \in DOMAIN out.added :
            /\ out.added[k].target \notin Targets(c.subs)
            /\ \E g \in DOMAIN games : /\ games[g].game = out.added[k].via
                                       /\ out.added[k].target \notin games[g].skipped}
        = DOMAIN added
    BY <1>4, <1>10
  <2> QED
    BY <1>4, <1>5, <2>1 DEF KeptAdditions
<1> QED
  BY <1>1, <1>2, <1>4, <1>11, KeptAtAll

\* What such a pass leaves subscribed is what stays of its view.
LEMMA SubsAfter ==
    ASSUME Parameters, Inv, NEW slot \in Slots, NEW pass, pass = passes[slot],
           pass.stage = "resolving", IsUpToDate(pass),
           NEW answer \in Answers, NEW out, out = Outcome(pass, answer)
    PROVE  ToSet(RebasedSubs(config, out)) =
              {s \in ToSet(pass.view.subs) : s.id \notin Ended(pass.view.subs, Now)}
<1>1. PICK added, c, ended : /\ added = AddedOf(pass) /\ c = config
                             /\ ended = Ended(pass.view.subs, Now)
  OBVIOUS
<1>2. /\ IsGood(c) /\ added \in Seq(SubType)
      /\ AreAdditions(added, c) /\ AreCollectable(added, Now)
      /\ HasDistinctSubs(pass.view.subs)
      /\ ToSet(pass.view.subs) = ToSet(c.subs) \cup ToSet(added)
  BY <1>1, UpToDateView
<1>3. out.ended = ended
  BY <1>1 DEF Outcome, IsUpToDate
<1>4. KeptAdditions(c, out) = added
  BY <1>1, AdditionsStand
<1>5. PICK a, b :
        /\ a = KeptAt(c.subs, {i \in DOMAIN c.subs : c.subs[i].id \notin ended})
        /\ b = [k \in DOMAIN added |-> [added[k] EXCEPT !.rank = MaxRank(c.subs) + k]]
  OBVIOUS
<1>6. RebasedSubs(c, out) = a \o b
  BY <1>3, <1>4, <1>5 DEF RebasedSubs
<1>7. b = added
  <2>1. \A k \in DOMAIN added : added[k] \in SubType /\ added[k].rank = MaxRank(c.subs) + k
    BY <1>2, Places DEF AreAdditions
  <2>2. \A k \in DOMAIN added : [added[k] EXCEPT !.rank = MaxRank(c.subs) + k] = added[k]
    BY <2>1 DEF SubType
  <2>3. added = [k \in DOMAIN added |-> added[k]]
    BY <1>2, SeqDef
  <2> QED
    BY <1>5, <2>2, <2>3
<1>8. c.subs \in Seq(SubType)
  BY <1>2, GoodFields
<1>9. a \in Seq(SubType) /\ ToSet(a) = {s \in ToSet(c.subs) : s.id \notin ended}
  <2>1. PICK places : places = {i \in DOMAIN c.subs : c.subs[i].id \notin ended}
    OBVIOUS
  <2>2. a \in Seq(SubType) /\ \E order : IsPick(order, a, c.subs, places)
    BY <1>5, <1>8, <2>1, KeptAtIs
  <2>3. PICK order : IsPick(order, a, c.subs, places)
    BY <2>2
  <2>4. ToSet(a) \subseteq {s \in ToSet(c.subs) : s.id \notin ended}
    BY <2>1, <2>3 DEF IsPick, ToSet
  <2>5. {s \in ToSet(c.subs) : s.id \notin ended} \subseteq ToSet(a)
    BY <2>1, <2>3 DEF IsPick, ToSet
  <2> QED
    BY <2>2, <2>4, <2>5
<1>10. ToSet(a \o added) = ToSet(a) \cup ToSet(added)
  <2>1. IsJoin(a \o added, a, added)
    BY <1>2, <1>9, Concatenated
  <2>2. PICK both : both = a \o added
    OBVIOUS
  <2>3. IsJoin(both, a, added)
    BY <2>1, <2>2
  <2>4. /\ \A i \in DOMAIN a : \E k \in DOMAIN both : both[k] = a[i]
        /\ \A j \in DOMAIN added : \E k \in DOMAIN both : both[k] = added[j]
        /\ \A k \in DOMAIN both : \/ \E i \in DOMAIN a : both[k] = a[i]
                                  \/ \E j \in DOMAIN added : both[k] = added[j]
    BY <2>3 DEF IsJoin
  <2>5. ToSet(both) = ToSet(a) \cup ToSet(added)
    BY <2>4 DEF ToSet
  <2> QED
    BY <2>2, <2>5
<1>11. \A s \in ToSet(added) : s.id \notin ended
  <2> SUFFICES ASSUME NEW k \in DOMAIN added
               PROVE  added[k].id \notin ended
    BY DEF ToSet
  <2>1. added[k] \in ToSet(pass.view.subs)
    BY <1>2 DEF ToSet
  <2>2. /\ added[k].target \in Now.listed \ Now.complete
        /\ Now.phase[added[k].target] # "over"
    BY <1>2 DEF AreCollectable
  <2>3. Now.fresh
    BY DEF Now
  <2> QED
    BY <1>1, <1>2, <2>1, <2>2, <2>3, EndedAre
<1> QED
  BY <1>1, <1>2, <1>6, <1>7, <1>9, <1>10, <1>11

\* What such a pass asks the directory for is channels of one subscription, the
\* first that is ready, and one of them is live.
LEMMA HeadIsAskedFor ==
    ASSUME Parameters, Inv, NEW slot \in Slots, NEW pass, pass = passes[slot],
           pass.stage = "resolving", IsUpToDate(pass), config.queue, IsServable(config),
           NEW answer \in Answers, answer.failing = {}, {} \notin LiveSets,
           \E s \in ToSet(pass.view.subs) : IsReadyIn(pass, s)
    PROVE  \E head \in ToSet(pass.view.subs) :
              /\ head \in SubType /\ IsReadyIn(pass, head)
              /\ \A s \in ToSet(pass.view.subs) : IsReadyIn(pass, s) => head.rank <= s.rank
              /\ \A n \in DOMAIN Desired(pass, answer) : Desired(pass, answer)[n].owner = head.id
              /\ \E n \in DOMAIN Desired(pass, answer) :
                    Desired(pass, answer)[n].login \in UNION LiveSets
<1>1. PICK c, added, served, desired :
        /\ c = config /\ added = AddedOf(pass) /\ served = Served(pass)
        /\ desired = Desired(pass, answer)
  OBVIOUS
<1>2. /\ IsGood(c) /\ pass.view \in ConfigType /\ added \in Seq(SubType)
      /\ AreAdditions(added, c) /\ pass.view.rows = c.rows /\ pass.view.queue
      /\ HasDistinctSubs(pass.view.subs)
      /\ ToSet(pass.view.subs) = ToSet(c.subs) \cup ToSet(added)
  BY <1>1, UpToDateView
<1>3. PICK head \in ToSet(pass.view.subs) :
        /\ IsReadyIn(pass, head)
        /\ \A s \in ToSet(pass.view.subs) : IsReadyIn(pass, s) => head.rank <= s.rank
        /\ head \in ToSet(served)
        /\ \A s \in ToSet(served) : s = head
  BY <1>1, <1>2, HeadIs
<1>4. head \in SubType /\ head.pool # 0
  <2>1. CASE head \in ToSet(c.subs)
    <3>1. PICK i \in DOMAIN c.subs : head = c.subs[i]
      BY <2>1 DEF ToSet
    <3>2. c.subs[i] \in SubType
      BY <1>2, GoodFields, Places
    <3> QED
      BY <1>1, <3>1, <3>2 DEF IsServable
  <2>2. CASE head \in ToSet(added)
    <3>1. PICK i \in DOMAIN added : head = added[i]
      BY <2>2 DEF ToSet
    <3>2. added[i] \in SubType
      BY <1>2, Places
    <3>3. PICK g \in DOMAIN c.followed : added[i].pool = c.followed[g].pool
      BY <1>2 DEF AreAdditions
    <3> QED
      BY <1>1, <3>1, <3>2, <3>3 DEF IsServable
  <2> QED
    BY <1>2, <1>3, <2>1, <2>2
<1>5. \A i \in DOMAIN pass.view.rows : pass.view.rows[i].on
  BY <1>1, <1>2 DEF IsServable
<1>6. head.target \in pass.seen.listed
  <2>1. pass.seen.fresh
    BY DEF IsUpToDate, Now
  <2> QED
    BY <1>2, <1>3, <2>1, EndedAre DEF IsReadyIn
<1>7. answer.live[head.target] \in LiveSets
  BY <1>4 DEF Answers, SubType
<1>8. PICK i \in DOMAIN ChannelsOf(head, pass, answer) :
          ChannelsOf(head, pass, answer)[i] \in answer.live[head.target]
  BY <1>2, <1>4, <1>5, <1>6, <1>7, HeadGetsChannels
<1>9. PICK k \in DOMAIN served : served[k] = head
  BY <1>3 DEF ToSet
<1>10. PICK n \in DOMAIN desired : desired[n].login = ChannelsOf(head, pass, answer)[i]
  <2>1. \E n \in DOMAIN desired : desired[n] = [login |-> ChannelsOf(head, pass, answer)[i],
                                                owner |-> head.id]
    BY <1>1, <1>2, <1>8, <1>9, DesiredIs
  <2> QED
    BY <2>1
<1>11. desired[n].login \in UNION LiveSets
  BY <1>7, <1>8, <1>10
<1>12. ASSUME NEW m \in DOMAIN desired
       PROVE  desired[m].owner = head.id
  <2>1. \E l \in DOMAIN served : \E j \in DOMAIN ChannelsOf(served[l], pass, answer) :
           desired[m] = [login |-> ChannelsOf(served[l], pass, answer)[j], owner |-> served[l].id]
    BY <1>1, <1>2, DesiredIs
  <2>2. PICK l \in DOMAIN served : desired[m].owner = served[l].id
    BY <2>1
  <2>3. served[l] = head
    BY <1>3 DEF ToSet
  <2> QED
    BY <2>2, <2>3
<1> QED
  BY <1>1, <1>3, <1>4, <1>11, <1>12

\* The channels the head of the queue is given leave it the owner of all, or are the
\* user's own.
LEMMA HeadIsServed ==
    ASSUME NEW rows \in Seq(RowType), NEW desired \in Seq(WantType), NEW id \in Ids,
           \A i \in DOMAIN desired : desired[i].owner = id,
           NEW n \in DOMAIN desired, desired[n].login \in UNION LiveSets,
           NEW after, after = Reconcile(rows, desired)
    PROVE  \/ Owners(after) = {id}
           \/ /\ Owners(after) = {}
              /\ \E own \in LoginsOf(Manual(after)) : own \in UNION LiveSets
<1>1. Manual(after) = Manual(rows)
  BY ReconcileKeepsManual DEF Ids, ByHand
<1>2. \/ Owners(after) = {id}
      \/ Owners(after) = {} /\ desired[n].login \in LoginsOf(Manual(rows))
  BY OneOwner
<1> QED
  BY <1>1, <1>2

\* A pass that was not overtaken leaves the queue moving.
LEMMA PassMoves ==
    ASSUME Parameters, Inv, Undisturbed, NEW slot \in Slots, NEW pass, pass = passes[slot],
           pass.stage = "resolving", IsUpToDate(pass), IsServable(config),
           phase \in [Campaigns -> {"scheduled", "open", "over"}],
           NEW answer \in Answers, Commit(slot, answer), config'.queue, Ready' # {}
    PROVE  \/ \E head \in Ready' :
                 /\ \A s \in Ready' : head.rank <= s.rank
                 /\ Owners(config'.rows) = {head.id}
           \/ /\ Owners(config'.rows) = {}
              /\ \E own \in LoginsOf(Manual(config'.rows)) : own \in UNION LiveSets
<1>1. PICK c, out, desired, ended, view, next :
        /\ c = config /\ out = Outcome(pass, answer) /\ desired = Desired(pass, answer)
        /\ view = pass.view /\ ended = Ended(view.subs, Now) /\ next = RebasePass(c, out)
  OBVIOUS
<1>2. /\ IsGood(c) /\ view \in ConfigType /\ view.rows = c.rows
      /\ view = View(c, Now, AddedOf(pass))
      /\ HasDistinctSubs(view.subs)
  BY <1>1, UpToDateView
<1>3. pass.loaded = c /\ pass.seen = Now
  BY <1>1 DEF IsUpToDate
<1>4. /\ out.desired = desired /\ out.ended = ended /\ out.considered = SubIds(view.subs)
  BY <1>1, <1>3 DEF Outcome
<1>5. IsOutcome(out, c)
  BY <1>1, OutcomeIs
<1>6. UNCHANGED <<listed, phase, complete>>
  BY DEF Commit, world
<1>7. config'.queue = c.queue
  BY <1>1, CommitIs
<1>8. \/ config' = c /\ ChangesNothing(pass, out)
      \/ config' = next
  BY <1>1 DEF Commit, Applied, Undisturbed
<1>9. /\ c.rows \in Seq(RowType) /\ HasDistinctLogins(c.rows)
      /\ desired \in Seq(WantType)
  BY <1>2, <1>4, <1>5, GoodFields DEF IsOutcome
<1>10. ToSet(config'.subs) = {s \in ToSet(view.subs) : s.id \notin ended}
  <2>1. CASE config' = c /\ ChangesNothing(pass, out)
    <3>1. view = c /\ ended = {}
      BY <1>1, <1>3, <1>4, <2>1 DEF ChangesNothing
    <3> QED
      BY <2>1, <3>1
  <2>2. CASE config' = next
    <3>1. PICK subs, rows, games :
            /\ subs = RebasedSubs(c, out) /\ games = RebasedGames(c, out)
            /\ rows = Reconcile(c.rows, RebasedDesired(c, out, SubIds(subs)))
      OBVIOUS
    <3>2. next = [c EXCEPT !.followed = games, !.subs = subs, !.rows = rows]
      BY <1>1, <3>1 DEF RebasePass
    <3>3. next.subs = subs
      BY <1>2, <3>2, GoodParts
    <3>4. ToSet(RebasedSubs(config, out)) =
              {s \in ToSet(pass.view.subs) : s.id \notin Ended(pass.view.subs, Now)}
      BY <1>1, SubsAfter
    <3> QED
      BY <1>1, <2>2, <3>1, <3>3, <3>4
  <2> QED
    BY <1>8, <2>1, <2>2
<1>11. \A s \in ToSet(view.subs) : s \in Ready' <=> IsReadyIn(pass, s)
  <2> SUFFICES ASSUME NEW s \in ToSet(view.subs)
               PROVE  s \in Ready' <=> IsReadyIn(pass, s)
    OBVIOUS
  <2>1. s \in Ready' <=> /\ s.id \notin ended
                         /\ s.target \in listed \ complete /\ phase[s.target] = "open"
    BY <1>6, <1>10 DEF Ready
  <2>2. s.id \notin ended <=> s.target \in listed \ complete /\ phase[s.target] # "over"
    BY <1>1, <1>2, EndedAre DEF Now
  <2>3. s.target \in listed => (s.target \notin NotOpen(Now) <=> phase[s.target] # "scheduled")
    BY DEF NotOpen, Now
  <2>4. s.target \in listed => phase[s.target] \in {"scheduled", "open", "over"}
    BY DEF Inv, WorldIsTyped
  <2>5. IsReadyIn(pass, s) <=> s.id \notin ended /\ s.target \notin NotOpen(Now)
    BY <1>1, <1>3 DEF IsReadyIn
  <2> QED
    BY <2>1, <2>2, <2>3, <2>4, <2>5
<1>12. Ready' \subseteq ToSet(view.subs)
  BY <1>10 DEF Ready
<1>13. PICK head \in ToSet(view.subs) :
        /\ head \in SubType /\ IsReadyIn(pass, head)
        /\ \A s \in ToSet(view.subs) : IsReadyIn(pass, s) => head.rank <= s.rank
        /\ \A n \in DOMAIN desired : desired[n].owner = head.id
        /\ \E n \in DOMAIN desired : desired[n].login \in UNION LiveSets
  <2>1. \E s \in ToSet(pass.view.subs) : IsReadyIn(pass, s)
    BY <1>1, <1>11, <1>12
  <2>2. answer.failing = {} /\ {} \notin LiveSets
    BY DEF Answers, Undisturbed
  <2>3. config.queue
    BY <1>1, <1>7
  <2> QED
    BY <1>1, <2>1, <2>2, <2>3, HeadIsAskedFor
<1>14. head \in Ready' /\ \A s \in Ready' : head.rank <= s.rank
  BY <1>11, <1>12, <1>13
<1>15. head.id \in Ids
  BY <1>13 DEF SubType
<1>16. \E want \in Seq(WantType) :
          /\ config'.rows = Reconcile(c.rows, want)
          /\ \A i \in DOMAIN want : want[i].owner = head.id
          /\ \E n \in DOMAIN want : want[n].login \in UNION LiveSets
  <2>1. CASE config' = c /\ ChangesNothing(pass, out)
    <3>1. ~Differs(c.rows, Reconcile(c.rows, desired))
      BY <1>1, <1>2, <1>4, <2>1 DEF ChangesNothing
    <3>2. Reconcile(c.rows, desired) = c.rows
      BY <1>9, <3>1, ReconcileSettles
    <3> QED
      BY <1>9, <1>13, <2>1, <3>2
  <2>2. CASE config' = next
    <3>1. PICK subs, want, rows, games :
            /\ subs = RebasedSubs(c, out) /\ games = RebasedGames(c, out)
            /\ want = RebasedDesired(c, out, SubIds(subs))
            /\ rows = Reconcile(c.rows, want)
      OBVIOUS
    <3>2. next = [c EXCEPT !.followed = games, !.subs = subs, !.rows = rows]
      BY <1>1, <3>1 DEF RebasePass
    <3>3. next.subs = subs /\ next.rows = rows
      BY <1>2, <3>2, GoodParts
    <3>4. ToSet(subs) = {s \in ToSet(view.subs) : s.id \notin ended}
      BY <1>10, <2>2, <3>3
    <3>5. SubIds(subs) \subseteq out.considered
      <4>1. \A i \in DOMAIN subs : subs[i] \in ToSet(view.subs)
        BY <3>4 DEF ToSet
      <4> QED
        BY <1>4, <4>1 DEF SubIds, ToSet
    <3>6. head.id \in SubIds(subs)
      <4>1. head \in ToSet(subs)
        BY <1>1, <1>3, <1>13, <3>4 DEF IsReadyIn
      <4> QED
        BY <4>1 DEF SubIds, ToSet
    <3>7. /\ want \in Seq(WantType)
          /\ \A i \in DOMAIN want :
                /\ want[i].owner \in SubIds(subs)
                /\ \/ \E k \in DOMAIN desired : want[i] = desired[k]
                   \/ want[i].owner \notin out.considered
          /\ \A i \in DOMAIN desired : desired[i].owner \in SubIds(subs) =>
                \E k \in DOMAIN want : want[k] = desired[i]
      BY <1>2, <1>4, <1>5, <3>1, RebasedDesiredIs
    <3>8. \A i \in DOMAIN want : want[i].owner = head.id
      BY <1>13, <3>5, <3>7
    <3>9. \E n \in DOMAIN want : want[n].login \in UNION LiveSets
      BY <1>13, <3>6, <3>7
    <3> QED
      BY <2>2, <3>1, <3>3, <3>7, <3>8, <3>9
  <2> QED
    BY <1>8, <2>1, <2>2
<1>17. \/ Owners(config'.rows) = {head.id}
       \/ /\ Owners(config'.rows) = {}
          /\ \E own \in LoginsOf(Manual(config'.rows)) : own \in UNION LiveSets
  BY <1>9, <1>15, <1>16, HeadIsServed
<1> QED
  BY <1>14, <1>17

-----------------------------------------------------------------------------
(* Every subscription stays one that is to have channels.                  *)

LEMMA ReconcileStaysOn ==
    ASSUME NEW rows \in Seq(RowType), NEW desired \in Seq(WantType),
           \A i \in DOMAIN rows : rows[i].on
    PROVE  \A k \in DOMAIN Reconcile(rows, desired) : Reconcile(rows, desired)[k].on
<1>1. PICK made \in Seq(RowType) :
        /\ Reconcile(rows, desired) = Manual(rows) \o made
        /\ \A k \in DOMAIN made : \E i \in DOMAIN desired : IsMadeFor(made[k], rows, desired[i])
  BY ReconcileParts
<1>2. PICK m, order : /\ m = Manual(rows) /\ m \in Seq(RowType)
                      /\ IsPick(order, m, rows, {i \in DOMAIN rows : rows[i].owner = ByHand})
  BY OwnedByIs DEF Manual
<1>3. PICK both : both = m \o made /\ IsJoin(both, m, made)
  BY <1>1, <1>2, Concatenated
<1>4. \A k \in DOMAIN m : m[k].on
  BY <1>2 DEF IsPick
<1>5. ASSUME NEW want
      PROVE  RowFor(rows, want).on
  <2>1. PICK has : has = {i \in DOMAIN rows : /\ rows[i].owner # ByHand
                                              /\ rows[i].login = want.login}
    OBVIOUS
  <2>2. CASE has # {}
    <3>1. PICK i : i = CHOOSE j \in has : TRUE
      OBVIOUS
    <3>2. i \in DOMAIN rows /\ rows[i] \in RowType
      <4>1. i \in has
        BY <2>2, <3>1
      <4> QED
        BY <2>1, <4>1, Places
    <3>3. RowFor(rows, want) = [rows[i] EXCEPT !.owner = want.owner]
      BY <2>1, <2>2, <3>1 DEF RowFor
    <3> QED
      BY <3>2, <3>3 DEF RowType
  <2>3. CASE has = {}
    <3>1. RowFor(rows, want) = [login |-> want.login, owner |-> want.owner, on |-> TRUE]
      BY <2>1, <2>3 DEF RowFor
    <3> QED
      BY <3>1
  <2> QED
    BY <2>2, <2>3
<1>6. \A k \in DOMAIN made : made[k].on
  BY <1>1, <1>5 DEF IsMadeFor
<1>7. \A k \in DOMAIN both : both[k].on
  BY <1>3, <1>4, <1>6 DEF IsJoin
<1> QED
  BY <1>1, <1>2, <1>3, <1>7

\* What a filter keeps was there before.
LEMMA KeptWas ==
    ASSUME NEW T, NEW s \in Seq(T), NEW places \in SUBSET DOMAIN s
    PROVE  \A k \in DOMAIN KeptAt(s, places) : \E i \in places : KeptAt(s, places)[k] = s[i]
<1>1. PICK t : t = KeptAt(s, places)
  OBVIOUS
<1>2. PICK order : IsPick(order, t, s, places)
  BY <1>1, KeptAtIs
<1> QED
  BY <1>1, <1>2 DEF IsPick

LEMMA ServableAfterRoutes ==
    ASSUME Parameters, Inv, Undisturbed, IsServable(config), IsRoute
    PROVE  IsServable(config')
<1>1. PICK c : c = config
  OBVIOUS
<1>2. IsGood(c) /\ IsServable(c)
  BY <1>1 DEF Inv, ConfigsAreGood
<1>3. c = [subs |-> c.subs, rows |-> c.rows, followed |-> c.followed, queue |-> c.queue]
  BY <1>2, GoodParts
<1>4. /\ c.subs \in Seq(SubType) /\ c.rows \in Seq(RowType) /\ c.followed \in Seq(GameType)
      /\ \A i \in DOMAIN c.subs : c.subs[i] \in SubType
      /\ \A i \in DOMAIN c.rows : c.rows[i] \in RowType
      /\ \A g \in DOMAIN c.followed : c.followed[g] \in GameType
  BY <1>2, GoodFields, Places
<1>5. \A route, d, trigger : Edit(route, d, trigger) \/ EditOnly(route, d) => config' = d
  BY DEF Edit, EditOnly
<1>6. \A i \in DOMAIN c.subs : c.subs[i].pool # 0
  BY <1>2 DEF IsServable
<1>7. \A g \in DOMAIN c.followed : c.followed[g].pool # 0
  BY <1>2 DEF IsServable
<1>8. \A i \in DOMAIN c.rows : c.rows[i].on
  BY <1>2 DEF IsServable
<1>9. DefaultPool # 0 /\ \A n \in PoolSizes : n # 0
  BY DEF Undisturbed
<1>10. CASE Reorder
  <2>1. PICK rankOf, subs :
          /\ subs = [i \in DOMAIN c.subs |-> [c.subs[i] EXCEPT !.rank = rankOf[c.subs[i].id]]]
          /\ config' = [c EXCEPT !.subs = subs]
    <3>1. PICK rankOf, d :
            /\ d = [c EXCEPT !.subs =
                      [i \in DOMAIN @ |-> [@[i] EXCEPT !.rank = rankOf[c.subs[i].id]]]]
            /\ Edit("reorder", d, "reorder")
      BY <1>1, <1>10 DEF Reorder
    <3>2. config' = d
      BY <1>5, <3>1
    <3> QED
      BY <3>1, <3>2
  <2>2. \A i \in DOMAIN subs : i \in DOMAIN c.subs /\ subs[i].pool = c.subs[i].pool
    BY <1>4, <2>1 DEF SubType
  <2>3. config' = [subs |-> subs, rows |-> c.rows, followed |-> c.followed, queue |-> c.queue]
    BY <1>3, <2>1
  <2> QED
    BY <1>6, <1>7, <1>8, <2>2, <2>3 DEF IsServable
<1>11. CASE SetPoolSize
  <2>1. PICK id, n, subs :
          /\ n \in PoolSizes
          /\ subs = [i \in DOMAIN c.subs |-> IF c.subs[i].id = id THEN [c.subs[i] EXCEPT !.pool = n]
                                             ELSE c.subs[i]]
          /\ config' = [c EXCEPT !.subs = subs]
    <3>1. PICK id, n, d :
            /\ n \in PoolSizes
            /\ d = [c EXCEPT !.subs =
                      [i \in DOMAIN @ |->
                          IF @[i].id = id THEN [@[i] EXCEPT !.pool = n] ELSE @[i]]]
            /\ Edit("pool-size", d, "pool-size")
      BY <1>1, <1>11 DEF SetPoolSize
    <3>2. config' = d
      BY <1>5, <3>1
    <3> QED
      BY <3>1, <3>2
  <2>2. \A i \in DOMAIN subs : i \in DOMAIN c.subs /\ subs[i].pool \in {n, c.subs[i].pool}
    BY <1>4, <2>1 DEF SubType
  <2>3. config' = [subs |-> subs, rows |-> c.rows, followed |-> c.followed, queue |-> c.queue]
    BY <1>3, <2>1
  <2> QED
    BY <1>6, <1>7, <1>8, <1>9, <2>1, <2>2, <2>3 DEF IsServable
<1>12. CASE RemoveSubscription
  <2>1. PICK id, subs, rows, games, leaving :
          /\ subs = KeptAt(c.subs, {i \in DOMAIN c.subs : c.subs[i].id # id})
          /\ rows = KeptAt(c.rows, {i \in DOMAIN c.rows : c.rows[i].owner # id})
          /\ games = RecordSkipped(c.followed, leaving, catalogue.listed)
          /\ config' = [c EXCEPT !.subs = subs, !.rows = rows, !.followed = games]
    <3>1. PICK id : Edit("remove", Removed(c, id), "remove")
      BY <1>1, <1>12 DEF RemoveSubscription
    <3>2. config' = Removed(c, id)
      BY <1>5, <3>1
    <3> QED
      BY <3>2 DEF Removed, WithoutSub
  <2>2. config' = [subs |-> subs, rows |-> rows, followed |-> games, queue |-> c.queue]
    BY <1>3, <2>1
  <2>3. \A k \in DOMAIN subs : \E i \in DOMAIN c.subs : subs[k] = c.subs[i]
    <3>1. PICK places : places = {i \in DOMAIN c.subs : c.subs[i].id # id}
      OBVIOUS
    <3>2. places \in SUBSET DOMAIN c.subs /\ subs = KeptAt(c.subs, places)
      BY <2>1, <3>1
    <3>3. \A k \in DOMAIN subs : \E i \in places : subs[k] = c.subs[i]
      BY <1>4, <3>2, KeptWas
    <3> QED
      BY <3>2, <3>3
  <2>4. \A k \in DOMAIN rows : \E i \in DOMAIN c.rows : rows[k] = c.rows[i]
    <3>1. PICK places : places = {i \in DOMAIN c.rows : c.rows[i].owner # id}
      OBVIOUS
    <3>2. places \in SUBSET DOMAIN c.rows /\ rows = KeptAt(c.rows, places)
      BY <2>1, <3>1
    <3>3. \A k \in DOMAIN rows : \E i \in places : rows[k] = c.rows[i]
      BY <1>4, <3>2, KeptWas
    <3> QED
      BY <3>2, <3>3
  <2>5. \A g \in DOMAIN games : g \in DOMAIN c.followed /\ games[g].pool = c.followed[g].pool
    BY <1>4, <2>1 DEF RecordSkipped, GameType
  <2> QED
    BY <1>6, <1>7, <1>8, <2>2, <2>3, <2>4, <2>5 DEF IsServable
<1>13. CASE SetQueue
  <2>1. config' = [c EXCEPT !.queue = ~@]
    BY <1>1, <1>5, <1>13 DEF SetQueue
  <2>2. config' = [subs |-> c.subs, rows |-> c.rows, followed |-> c.followed, queue |-> ~c.queue]
    BY <1>3, <2>1
  <2> QED
    BY <1>6, <1>7, <1>8, <2>2 DEF IsServable
<1>14. CASE FollowGame
  <2>1. PICK game, new, games :
          /\ new = [game |-> game, pool |-> DefaultPool, skipped |-> {}]
          /\ games = Append(c.followed, new)
          /\ config' = [c EXCEPT !.followed = games]
    BY <1>1, <1>5, <1>14 DEF FollowGame
  <2>2. config' = [subs |-> c.subs, rows |-> c.rows, followed |-> games, queue |-> c.queue]
    BY <1>3, <2>1
  <2>3. \A g \in DOMAIN games : (g \in DOMAIN c.followed /\ games[g] = c.followed[g]) \/ games[g] = new
    <3>1. PICK T : T = GameType \cup {new}
      OBVIOUS
    <3>2. c.followed \in Seq(T) /\ new \in T
      BY <1>4, <3>1, SeqDef
    <3>3. /\ Len(c.followed) \in Nat /\ Len(games) = Len(c.followed) + 1
          /\ DOMAIN c.followed = 1..Len(c.followed) /\ DOMAIN games = 1..Len(games)
          /\ \A i \in 1..Len(c.followed) : games[i] = c.followed[i]
          /\ games[Len(c.followed) + 1] = new
      BY <2>1, <3>2, AppendProperties, LenProperties
    <3> QED
      BY <3>3
  <2> QED
    BY <1>6, <1>7, <1>8, <1>9, <2>1, <2>2, <2>3 DEF IsServable
<1>15. CASE SetGamePool \/ Unskip
  <2>1. PICK g, game, games :
          /\ g \in DOMAIN c.followed
          /\ game.pool # 0
          /\ games = [c.followed EXCEPT ![g] = game]
          /\ config' = [c EXCEPT !.followed = games]
    <3>1. CASE SetGamePool
      <4>1. PICK g \in DOMAIN c.followed, n \in PoolSizes :
              config' = [c EXCEPT !.followed[g].pool = n]
        BY <1>1, <1>5, <3>1 DEF SetGamePool
      <4>2. [c.followed[g] EXCEPT !.pool = n].pool # 0
        BY <1>4, <1>9 DEF GameType
      <4>3. config' = [c EXCEPT !.followed = [c.followed EXCEPT ![g] = [c.followed[g] EXCEPT !.pool = n]]]
        BY <4>1
      <4> QED
        BY <4>2, <4>3
    <3>2. CASE Unskip
      <4>1. PICK g, x :
              g \in DOMAIN c.followed /\ config' = [c EXCEPT !.followed[g].skipped = @ \ {x}]
        BY <1>1, <1>5, <3>2 DEF Unskip
      <4>2. PICK game : game = [c.followed[g] EXCEPT !.skipped = @ \ {x}]
        OBVIOUS
      <4>3. game.pool # 0
        BY <1>4, <1>7, <4>1, <4>2 DEF GameType
      <4>4. config' = [c EXCEPT !.followed = [c.followed EXCEPT ![g] =
                          [c.followed[g] EXCEPT !.skipped = c.followed[g].skipped \ {x}]]]
        BY <4>1
      <4>5. config' = [c EXCEPT !.followed = [c.followed EXCEPT ![g] = game]]
        BY <4>2, <4>4
      <4> QED
        BY <4>1, <4>3, <4>5
    <3> QED
      BY <1>15, <3>1, <3>2
  <2>2. config' = [subs |-> c.subs, rows |-> c.rows, followed |-> games, queue |-> c.queue]
    BY <1>3, <2>1
  <2>3. \A h \in DOMAIN games : (h \in DOMAIN c.followed /\ games[h] = c.followed[h]) \/ games[h] = game
    BY <2>1
  <2> QED
    BY <1>6, <1>7, <1>8, <2>1, <2>2, <2>3 DEF IsServable
<1>16. CASE Unfollow
  <2>1. PICK game, games :
          /\ games = KeptAt(c.followed, {g \in DOMAIN c.followed : c.followed[g].game # game})
          /\ config' = [c EXCEPT !.followed = games]
    <3>1. PICK game, d :
            /\ d = [c EXCEPT !.followed = KeptAt(@, {g \in DOMAIN @ : @[g].game # game})]
            /\ EditOnly("unfollow", d)
      BY <1>1, <1>16 DEF Unfollow
    <3>2. config' = d
      BY <1>5, <3>1
    <3> QED
      BY <3>1, <3>2
  <2>2. config' = [subs |-> c.subs, rows |-> c.rows, followed |-> games, queue |-> c.queue]
    BY <1>3, <2>1
  <2>3. \A k \in DOMAIN games : \E g \in DOMAIN c.followed : games[k] = c.followed[g]
    <3>1. PICK places : places = {g \in DOMAIN c.followed : c.followed[g].game # game}
      OBVIOUS
    <3>2. places \in SUBSET DOMAIN c.followed /\ games = KeptAt(c.followed, places)
      BY <2>1, <3>1
    <3>3. \A k \in DOMAIN games : \E g \in places : games[k] = c.followed[g]
      BY <1>4, <3>2, KeptWas
    <3> QED
      BY <3>2, <3>3
  <2> QED
    BY <1>6, <1>7, <1>8, <2>2, <2>3 DEF IsServable
<1>17. CASE Resolve
  <2>1. config' = c
    BY <1>1, <1>5, <1>17 DEF Resolve
  <2> QED
    BY <1>2, <2>1
<1> QED
  BY <1>10, <1>11, <1>12, <1>13, <1>14, <1>15, <1>16, <1>17 DEF IsRoute

LEMMA ServableAfterSubscribing ==
    ASSUME Parameters, Inv, IsServable(config), SubscribeEnds,
           IsServable(subscribing.loaded), subscribing.pool # 0
    PROVE  IsServable(config')
<1>1. config' = config \/ config' = Subscribed(subscribing)
  BY DEF SubscribeEnds
<1>2. CASE config' = Subscribed(subscribing)
  <2>1. PICK c, sub, subs :
          /\ c = subscribing.loaded
          /\ sub = [id |-> FreshIds[1], target |-> subscribing.target, rank |-> Len(c.subs),
                    pool |-> subscribing.pool, via |-> ByHand]
          /\ subs = Append(c.subs, sub)
    OBVIOUS
  <2>2. IsGood(c)
    BY <2>1 DEF Inv, ConfigsAreGood, SubscribeEnds
  <2>3. config' = [c EXCEPT !.subs = subs]
    BY <1>2, <2>1 DEF Subscribed
  <2>4. config' = [subs |-> subs, rows |-> c.rows, followed |-> c.followed, queue |-> c.queue]
    BY <2>2, <2>3, GoodParts
  <2>5. c.subs \in Seq(SubType)
    BY <2>2, GoodFields
  <2>6. \A i \in DOMAIN subs : (i \in DOMAIN c.subs /\ subs[i] = c.subs[i]) \/ subs[i] = sub
    BY <2>1, <2>5
  <2>7. sub.pool # 0
    BY <2>1
  <2> QED
    BY <2>1, <2>4, <2>6, <2>7 DEF IsServable
<1> QED
  BY <1>1, <1>2

LEMMA ServableAfterCommit ==
    ASSUME Parameters, Inv, IsServable(config), NEW slot \in Slots, NEW answer \in Answers,
           Commit(slot, answer), IsServable(passes[slot].loaded)
    PROVE  IsServable(config')
<1>1. PICK c, pass, out, subs, games, rows, next :
        /\ c = config /\ pass = passes[slot] /\ out = Outcome(pass, answer)
        /\ subs = RebasedSubs(c, out) /\ games = RebasedGames(c, out)
        /\ rows = Reconcile(c.rows, RebasedDesired(c, out, SubIds(subs)))
        /\ next = RebasePass(c, out)
  OBVIOUS
<1>2. passes[slot].stage = "resolving"
  BY DEF Commit
<1>3. config' = c \/ config' = next
  BY <1>1 DEF Commit, Applied
<1>4. IsGood(c) /\ IsOutcome(out, c) /\ IsServable(c)
  BY <1>1, <1>2, OutcomeIs DEF Inv, ConfigsAreGood
<1>5. next = [subs |-> subs, rows |-> rows, followed |-> games, queue |-> c.queue]
  <2>1. next = [c EXCEPT !.followed = games, !.subs = subs, !.rows = rows]
    BY <1>1 DEF RebasePass
  <2>2. c = [subs |-> c.subs, rows |-> c.rows, followed |-> c.followed, queue |-> c.queue]
    BY <1>4, GoodParts
  <2> QED
    BY <2>1, <2>2
<1>6. \A i \in DOMAIN subs : subs[i].pool # 0
  <2> SUFFICES ASSUME NEW i \in DOMAIN subs
               PROVE  subs[i].pool # 0
    OBVIOUS
  <2>1. CASE subs[i] \in ToSet(c.subs)
    BY <1>4, <2>1 DEF ToSet, IsServable
  <2>2. CASE subs[i] \notin ToSet(c.subs)
    <3>1. subs[i] \in ToSet(subs)
      BY DEF ToSet
    <3>2. IsAdded(subs[i], c, out)
      BY <1>1, <1>4, <2>2, <3>1, RebasedSubsAre
    <3>3. PICK k \in DOMAIN out.added : subs[i].pool = out.added[k].pool
      BY <3>2 DEF IsAdded
    <3>4. out.added = AddedOf(pass)
      BY <1>1 DEF Outcome, AddedOf
    <3>5. AreAdditions(AddedOf(pass), pass.loaded)
      <4>1. IsGoodPass(pass)
        BY <1>1 DEF Inv, PassesAreGood
      <4> QED
        BY <1>1, <1>2, <4>1 DEF IsGoodPass, Idle
    <3>6. PICK g \in DOMAIN pass.loaded.followed : out.added[k].pool = pass.loaded.followed[g].pool
      BY <3>3, <3>4, <3>5 DEF AreAdditions
    <3> QED
      BY <1>1, <3>3, <3>6 DEF IsServable
  <2> QED
    BY <2>1, <2>2
<1>7. \A g \in DOMAIN games : games[g].pool # 0
  <2> SUFFICES ASSUME NEW g \in DOMAIN games
               PROVE  games[g].pool # 0
    OBVIOUS
  <2>1. g \in DOMAIN c.followed
    BY <1>1 DEF RebasedGames
  <2>2. PICK skipped : games[g] = [c.followed[g] EXCEPT !.skipped = skipped]
    BY <1>1, <2>1 DEF RebasedGames
  <2>3. c.followed[g] \in GameType
    BY <1>4, <2>1, GoodFields, Places
  <2> QED
    BY <1>4, <2>1, <2>2, <2>3 DEF GameType, IsServable
<1>8. \A i \in DOMAIN rows : rows[i].on
  <2>1. c.rows \in Seq(RowType) /\ RebasedDesired(c, out, SubIds(subs)) \in Seq(WantType)
    BY <1>4, GoodFields, RebasedDesiredIs
  <2>2. \A i \in DOMAIN c.rows : c.rows[i].on
    BY <1>4 DEF IsServable
  <2> QED
    BY <1>1, <2>1, <2>2, ReconcileStaysOn
<1>9. IsServable(next)
  BY <1>5, <1>6, <1>7, <1>8 DEF IsServable
<1> QED
  BY <1>3, <1>4, <1>9

-----------------------------------------------------------------------------
(* What the count of undisturbed passes says.                              *)

HistoryIsTyped ==
    /\ calm \in Int /\ edits \in Nat /\ events \in Nat
    /\ phase \in [Campaigns -> {"scheduled", "open", "over"}]
    /\ staged = Nothing

AllAreServable ==
    /\ IsServable(config)
    /\ subscribing # Nothing => IsServable(subscribing.loaded) /\ subscribing.pool # 0
    /\ \A s \in Slots : passes[s] # Idle => IsServable(passes[s].loaded)

\* Unless something has happened since it began, a pass has loaded the config as it
\* is, and what it has been told is still so.
CalmPassesAreUpToDate ==
    calm >= 0 =>
        \A s \in Slots : passes[s] # Idle =>
            /\ passes[s].loaded = config
            /\ passes[s].stage = "resolving" => passes[s].seen = Now

CalmInv == HistoryIsTyped /\ AllAreServable /\ CalmPassesAreUpToDate /\ QueueMovesOn

\* What a step that ends no pass may do to the one in slot s: nothing, or begin it
\* where none is in flight, or tell it what the world is like.
PassMayMove(s) ==
    \/ passes'[s] = passes[s]
    \/ /\ FreeSlots = Slots
       /\ passes'[s].stage = "asking" /\ passes'[s].loaded = config'
    \/ /\ passes[s].stage = "asking"
       /\ passes'[s].loaded = passes[s].loaded /\ passes'[s].seen = Now
       /\ UNCHANGED <<config, listed, phase, complete>>

LEMMA PassesMove ==
    ASSUME Parameters, Inv, Undisturbed, staged = Nothing, AnythingElse
    PROVE  \A s \in Slots : PassMayMove(s)
<1>1. passes = [s \in Slots |-> passes[s]]
  BY DEF Inv, PassesAreGood
<1>2. ASSUME UNCHANGED passes
      PROVE  \A s \in Slots : PassMayMove(s)
  BY <1>2 DEF PassMayMove
<1>3. ASSUME NEW c, NEW trigger, BeginPass(c, trigger), config' = c
      PROVE  \A s \in Slots : PassMayMove(s)
  <2>1. CASE UNCHANGED passes
    BY <1>2, <2>1
  <2>2. CASE passes' # passes
    <3>1. PICK slot \in FreeSlots : passes' = [passes EXCEPT ![slot] = Begun(c, trigger)]
      BY <1>3, <2>2 DEF BeginPass
    <3>2. slot \in Slots
      BY <3>1 DEF FreeSlots
    <3>3. \A s \in Slots : s = slot
      BY <3>2 DEF Undisturbed
    <3>4. FreeSlots = Slots
      BY <3>1, <3>2, <3>3 DEF FreeSlots
    <3>5. \A s \in Slots : passes'[s] = Begun(c, trigger)
      BY <1>1, <3>1, <3>3
    <3> QED
      BY <1>3, <3>4, <3>5 DEF PassMayMove, Begun
  <2> QED
    BY <2>1, <2>2
<1>4. CASE TimerPass
  BY <1>3, <1>4 DEF TimerPass
<1>5. CASE \E slot \in Slots : Decide(slot)
  <2>1. PICK slot \in Slots : Decide(slot)
    BY <1>5
  <2>2. PICK get \in CatalogueGets, read \in ProgressReads :
          LET seen == Seen(CatalogueAfter(get), read) IN
          \E view : passes' = [passes EXCEPT ![slot] =
                         [stage |-> "resolving", loaded |-> passes[slot].loaded,
                          trigger |-> passes[slot].trigger, seen |-> seen, view |-> view]]
    BY <2>1 DEF Decide, Gets
  <2>3. get = "fetched" /\ read = TRUE
    BY <2>2 DEF Undisturbed
  <2>4. Seen(CatalogueAfter(get), read) = Now
    BY <2>3 DEF Seen, CatalogueAfter, Now
  <2>5. PICK next : /\ passes' = [passes EXCEPT ![slot] = next]
                    /\ next.loaded = passes[slot].loaded /\ next.seen = Now
    <3>1. PICK seen, view :
            /\ seen = Seen(CatalogueAfter(get), read)
            /\ passes' = [passes EXCEPT ![slot] =
                           [stage |-> "resolving", loaded |-> passes[slot].loaded,
                            trigger |-> passes[slot].trigger, seen |-> seen, view |-> view]]
      BY <2>2
    <3>2. PICK next : next = [stage |-> "resolving", loaded |-> passes[slot].loaded,
                              trigger |-> passes[slot].trigger, seen |-> seen, view |-> view]
      OBVIOUS
    <3>3. next.loaded = passes[slot].loaded /\ next.seen = seen
      BY <3>2
    <3>4. passes' = [passes EXCEPT ![slot] = next]
      BY <3>1, <3>2
    <3>5. seen = Now
      BY <2>4, <3>1
    <3> QED
      BY <3>3, <3>4, <3>5
  <2>6. passes[slot].stage = "asking" /\ UNCHANGED <<config, listed, phase, complete>>
    BY <2>1 DEF Decide, world
  <2>7. \A s \in Slots : passes'[s] = IF s = slot THEN next ELSE passes[s]
    BY <1>1, <2>5
  <2> QED
    BY <2>5, <2>6, <2>7 DEF PassMayMove
<1>6. CASE SubscribeEnds
  <2>1. UNCHANGED passes \/ BeginPass(config', "subscribe")
    BY <1>6 DEF SubscribeEnds
  <2>2. PICK d : d = config'
    OBVIOUS
  <2> QED
    BY <1>2, <1>3, <2>1, <2>2
<1>7. CASE IsRoute
  <2>1. ASSUME NEW route, NEW c, NEW trigger, Edit(route, c, trigger)
        PROVE  \A s \in Slots : PassMayMove(s)
    BY <1>3, <2>1 DEF Edit
  <2>2. ASSUME NEW route, NEW c, EditOnly(route, c)
        PROVE  \A s \in Slots : PassMayMove(s)
    BY <1>2, <2>2 DEF EditOnly
  <2> QED
    BY <1>7, <2>1, <2>2 DEF IsRoute, Reorder, SetPoolSize, RemoveSubscription, SetQueue,
                            FollowGame, SetGamePool, Unskip, Unfollow, Resolve
<1>8. CASE \/ BootBudgetSpent \/ SubscribeBegins \/ StageConfig \/ ApplyConfig
           \/ MinerStarts \/ MinerStops \/ RestartFires \/ CancelRestart
           \/ CampaignOpens \/ CampaignEnds \/ CampaignLeaves \/ CampaignCompletes
  BY <1>2, <1>8 DEF BootBudgetSpent, SubscribeBegins, StageConfig, ApplyConfig, MinerStarts,
                    MinerStops, RestartFires, CancelRestart, CampaignOpens, CampaignEnds,
                    CampaignLeaves, CampaignCompletes
<1> QED
  BY <1>4, <1>5, <1>6, <1>7, <1>8 DEF AnythingElse, IsRoute

\* Requests and events are counted, and the world changes by events only.
LEMMA NewsIsCounted ==
    ASSUME Undisturbed, HistoryIsTyped, AnythingElse
    PROVE  /\ edits' \in Nat /\ events' \in Nat
           /\ phase' \in [Campaigns -> {"scheduled", "open", "over"}]
           /\ staged' = Nothing
           /\ events' = events => UNCHANGED <<listed, phase, complete>>
<1> USE DEF HistoryIsTyped
<1>1. CASE IsRoute
  <2>1. ASSUME NEW route, NEW c, NEW trigger, Edit(route, c, trigger) \/ EditOnly(route, c)
        PROVE  edits' = edits + 1 /\ UNCHANGED <<events, staged, listed, phase, complete>>
    BY <2>1 DEF Edit, EditOnly, world
  <2>2. edits' = edits + 1 /\ UNCHANGED <<events, staged, listed, phase, complete>>
    BY <1>1, <2>1 DEF IsRoute, Reorder, SetPoolSize, RemoveSubscription, SetQueue,
                      FollowGame, SetGamePool, Unskip, Unfollow, Resolve
  <2> QED
    BY <2>2
<1>2. CASE \/ TimerPass \/ \E slot \in Slots : Decide(slot)
           \/ BootBudgetSpent \/ SubscribeBegins \/ SubscribeEnds \/ CancelRestart
           \/ MinerStarts \/ RestartFires \/ MinerStops
  <2>1. /\ edits' \in {edits, edits + 1} /\ events' \in {events, events + 1}
        /\ UNCHANGED <<staged, listed, phase, complete>>
    BY <1>2 DEF TimerPass, Decide, BootBudgetSpent, SubscribeBegins, SubscribeEnds,
                CancelRestart, MinerStarts, RestartFires, MinerStops, world, bounds
  <2> QED
    BY <2>1
<1>3. CASE StageConfig
  BY <1>3 DEF StageConfig, CanEdit, Undisturbed
<1>4. CASE ApplyConfig
  BY <1>4 DEF ApplyConfig
<1>5. CASE \/ CampaignOpens \/ CampaignEnds \/ CampaignLeaves \/ CampaignCompletes
  <2>1. events' = events + 1 /\ UNCHANGED <<edits, staged>>
    BY <1>5 DEF CampaignOpens, CampaignEnds, CampaignLeaves, CampaignCompletes, Event
  <2>2. \/ UNCHANGED phase
        \/ \E c \in Campaigns : \E p \in {"open", "over"} : phase' = [phase EXCEPT ![c] = p]
    BY <1>5 DEF CampaignOpens, CampaignEnds, CampaignLeaves, CampaignCompletes
  <2>3. phase' \in [Campaigns -> {"scheduled", "open", "over"}]
    BY <2>2
  <2> QED
    BY <2>1, <2>3
<1> QED
  BY <1>1, <1>2, <1>3, <1>4, <1>5 DEF AnythingElse, IsRoute

LEMMA ServableAfterAnythingElse ==
    ASSUME Parameters, Inv, Undisturbed, HistoryIsTyped, AllAreServable, AnythingElse
    PROVE  AllAreServable'
<1>1. IsServable(config')
  <2>1. CASE IsRoute
    BY <2>1, ServableAfterRoutes DEF AllAreServable
  <2>2. CASE SubscribeEnds
    BY <2>2, ServableAfterSubscribing DEF AllAreServable, SubscribeEnds
  <2>3. CASE ~IsRoute /\ ~SubscribeEnds
    <3>1. config' = config
      BY <2>3 DEF AnythingElse, IsRoute, HistoryIsTyped, TimerPass, Decide, BootBudgetSpent,
                  SubscribeBegins, StageConfig, ApplyConfig, MinerStarts, MinerStops,
                  RestartFires, CancelRestart, CampaignOpens, CampaignEnds, CampaignLeaves,
                  CampaignCompletes
    <3> QED
      BY <3>1 DEF AllAreServable
  <2> QED
    BY <2>1, <2>2, <2>3
<1>2. subscribing' # Nothing => IsServable(subscribing'.loaded) /\ subscribing'.pool # 0
  <2>1. CASE SubscribeBegins
    <3>1. PICK c, n : /\ n \in PoolSizes
                      /\ subscribing' = [loaded |-> config, target |-> c, pool |-> n]
      BY <2>1 DEF SubscribeBegins
    <3>2. n # 0
      BY <3>1 DEF Undisturbed
    <3>3. IsServable(config)
      BY DEF AllAreServable
    <3> QED
      BY <3>1, <3>2, <3>3
  <2>2. CASE ~SubscribeBegins
    <3>1. ASSUME IsRoute
          PROVE  subscribing' = subscribing
      <4>1. \A route, d : EditOnly(route, d) => UNCHANGED subscribing
        BY DEF EditOnly
      <4> QED
        BY <3>1, <4>1 DEF IsRoute, Reorder, SetPoolSize, RemoveSubscription, SetQueue,
                          FollowGame, SetGamePool, Unskip, Unfollow, Resolve
    <3>2. ASSUME ~IsRoute
          PROVE  subscribing' = subscribing \/ subscribing' = Nothing
      BY <2>2, <3>2 DEF AnythingElse, IsRoute, TimerPass, Decide, BootBudgetSpent, SubscribeEnds,
                  StageConfig, ApplyConfig, MinerStarts, MinerStops, RestartFires,
                  CancelRestart, CampaignOpens, CampaignEnds, CampaignLeaves,
                  CampaignCompletes
    <3> QED
      BY <3>1, <3>2 DEF AllAreServable
  <2> QED
    BY <2>1, <2>2
<1>3. ASSUME NEW s \in Slots, passes'[s] # Idle
      PROVE  IsServable(passes'[s].loaded)
  <2>1. PassMayMove(s)
    BY PassesMove DEF HistoryIsTyped
  <2>2. passes[s].stage = "asking" => passes[s] # Idle
    BY DEF Idle
  <2> QED
    BY <1>1, <1>3, <2>1, <2>2 DEF PassMayMove, AllAreServable
<1> QED
  BY <1>1, <1>2, <1>3 DEF AllAreServable, IsServable

\* A step that ends no pass: it is counted, or it changes nothing that a pass in
\* flight has read.
LEMMA CalmAfterAnythingElse ==
    ASSUME Parameters, Inv, Undisturbed, CalmInv, AnythingElse,
           calm' = IF edits' = edits /\ events' = events /\ config' = config THEN calm
                   ELSE IF FreeSlots = Slots THEN 0 ELSE -1
    PROVE  CalmInv'
<1> USE DEF CalmInv
<1>1. HistoryIsTyped'
  BY NewsIsCounted DEF HistoryIsTyped
<1>2. AllAreServable'
  BY ServableAfterAnythingElse
<1>3. \A s \in Slots : PassMayMove(s)
  BY PassesMove DEF HistoryIsTyped
<1>4. CASE edits' = edits /\ events' = events /\ config' = config
  <2>1. calm' = calm /\ UNCHANGED <<config, listed, phase, complete>>
    BY <1>4, NewsIsCounted
  <2>2. Now' = Now
    BY <2>1 DEF Now
  <2>3. ASSUME calm >= 0, NEW s \in Slots, passes'[s] # Idle
        PROVE  /\ passes'[s].loaded = config
               /\ passes'[s].stage = "resolving" => passes'[s].seen = Now
    <3>1. passes[s].stage = "asking" => passes[s] # Idle
      BY DEF Idle
    <3> QED
      BY <1>3, <2>1, <2>3, <3>1 DEF PassMayMove, CalmPassesAreUpToDate
  <2>4. CalmPassesAreUpToDate'
    BY <2>1, <2>2, <2>3 DEF CalmPassesAreUpToDate
  <2>5. QueueMovesOn'
    BY <2>1 DEF QueueMovesOn, Ready
  <2> QED
    BY <1>1, <1>2, <2>4, <2>5
<1>5. CASE ~(edits' = edits /\ events' = events /\ config' = config)
  <2>1. calm' \in {0, -1} /\ (calm' = 0 => FreeSlots = Slots)
    BY <1>5
  <2>2. QueueMovesOn'
    BY <2>1 DEF QueueMovesOn
  <2>3. ASSUME FreeSlots = Slots, NEW s \in Slots, passes'[s] # Idle
        PROVE  passes'[s].stage = "asking" /\ passes'[s].loaded = config'
    <3>1. passes[s] = Idle /\ passes[s].stage = "idle"
      BY <2>3 DEF FreeSlots, Idle
    <3> QED
      BY <1>3, <2>3, <3>1 DEF PassMayMove
  <2>4. CalmPassesAreUpToDate'
    BY <2>1, <2>3 DEF CalmPassesAreUpToDate
  <2> QED
    BY <1>1, <1>2, <2>2, <2>4
<1> QED
  BY <1>4, <1>5

\* The end of a pass.
LEMMA CalmAfterCommit ==
    ASSUME Parameters, Inv, Undisturbed, CalmInv, NEW slot \in Slots, NEW answer \in Answers,
           Commit(slot, answer),
           calm' = IF answer.verdict = "stuck" THEN 0 ELSE LeastOf(calm + 1, Settled)
    PROVE  CalmInv'
<1> USE DEF CalmInv
<1>1. PICK pass : pass = passes[slot]
  OBVIOUS
<1>2. pass.stage = "resolving" /\ pass # Idle
  <2>1. passes[slot].stage = "resolving"
    BY DEF Commit
  <2>2. Idle.stage # "resolving"
    BY DEF Idle
  <2> QED
    BY <1>1, <2>1, <2>2
<1>3. \A s \in Slots : passes'[s] = Idle
  <2>1. passes = [s \in Slots |-> passes[s]] /\ \A s \in Slots : s = slot
    BY DEF Inv, PassesAreGood, Undisturbed
  <2> QED
    BY <2>1 DEF Commit
<1>4. calm' \in Int /\ (calm' >= 1 => calm >= 0)
  <2>1. calm \in Int /\ Settled \in Nat
    BY DEF HistoryIsTyped, Undisturbed
  <2>2. calm' = 0 \/ calm' = LeastOf(calm + 1, Settled)
    OBVIOUS
  <2>3. LeastOf(calm + 1, Settled) \in Int
        /\ (LeastOf(calm + 1, Settled) >= 1 => calm >= 0)
    BY <2>1 DEF LeastOf
  <2> QED
    BY <2>1, <2>2, <2>3
<1>5. UNCHANGED <<staged, listed, phase, complete, edits, subscribing>> /\ events' \in {events, events + 1}
  BY DEF Commit, world
<1>6. HistoryIsTyped'
  BY <1>4, <1>5 DEF HistoryIsTyped
<1>7. AllAreServable'
  <2>1. IsServable(config')
    BY <1>1, <1>2, ServableAfterCommit DEF AllAreServable
  <2> QED
    BY <1>3, <1>5, <2>1 DEF AllAreServable, IsServable
<1>8. CalmPassesAreUpToDate'
  BY <1>3 DEF CalmPassesAreUpToDate
<1>9. QueueMovesOn'
  <2> SUFFICES ASSUME calm' >= 1, config'.queue, Ready' # {}
               PROVE  \/ \E head \in Ready' :
                            /\ \A s \in Ready' : head.rank <= s.rank
                            /\ Owners(config'.rows) = {head.id}
                      \/ /\ Owners(config'.rows) = {}
                         /\ \E own \in LoginsOf(Manual(config'.rows)) : own \in UNION LiveSets
    BY DEF QueueMovesOn
  <2>1. IsUpToDate(pass)
    BY <1>1, <1>2, <1>4 DEF CalmPassesAreUpToDate, IsUpToDate
  <2> QED
    BY <1>1, <1>2, <2>1, PassMoves DEF AllAreServable, HistoryIsTyped
<1> QED
  BY <1>6, <1>7, <1>8, <1>9

LEMMA CalmHolds ==
    ASSUME Parameters, Undisturbed
    PROVE  CalmSpec => [](Inv /\ CalmInv)
<1>1. CalmInit => Inv /\ CalmInv
  <2> SUFFICES ASSUME Init, calm = 0
               PROVE  Inv /\ CalmInv
    BY DEF CalmInit
  <2>1. Inv
    BY InvInit
  <2>2. HistoryIsTyped
    <3>1. phase \in InitialPhases /\ staged = Nothing /\ edits = 0 /\ events = 0
      BY DEF Init
    <3>2. phase \in [Campaigns -> {"scheduled", "open", "over"}]
      BY <3>1 DEF Undisturbed
    <3> QED
      BY <3>1, <3>2 DEF HistoryIsTyped
  <2>3. \A s \in Slots : passes[s] \in {Begun(config, "boot"), Idle}
    BY DEF Init
  <2>4. IsServable(config) /\ subscribing = Nothing
    BY DEF Init, Undisturbed
  <2>5. \A s \in Slots : passes[s] # Idle => passes[s].stage = "asking" /\ passes[s].loaded = config
    BY <2>3 DEF Begun
  <2>6. AllAreServable
    BY <2>4, <2>5 DEF AllAreServable
  <2>7. CalmPassesAreUpToDate
    BY <2>5 DEF CalmPassesAreUpToDate
  <2>8. QueueMovesOn
    BY DEF QueueMovesOn
  <2> QED
    BY <2>1, <2>2, <2>6, <2>7, <2>8 DEF CalmInv
<1>2. Inv /\ CalmInv /\ [CalmNext]_calmVars => (Inv /\ CalmInv)'
  <2> SUFFICES ASSUME Inv, CalmInv, [CalmNext]_calmVars
               PROVE  Inv' /\ CalmInv'
    OBVIOUS
  <2>1. CASE UNCHANGED calmVars
    <3>1. UNCHANGED vars /\ calm' = calm
      BY <2>1 DEF calmVars
    <3>2. Inv'
      BY <3>1, InvNext
    <3>3. UNCHANGED <<config, staged, passes, subscribing, listed, phase, complete, edits, events>>
      BY <3>1 DEF vars, world, bounds
    <3>4. Now' = Now /\ Ready' = Ready
      BY <3>3 DEF Now, Ready
    <3>5. HistoryIsTyped' /\ AllAreServable'
      BY <3>1, <3>3 DEF CalmInv, HistoryIsTyped, AllAreServable, IsServable
    <3>6. CalmPassesAreUpToDate' /\ QueueMovesOn'
      BY <3>1, <3>3, <3>4 DEF CalmInv, CalmPassesAreUpToDate, QueueMovesOn
    <3> QED
      BY <3>2, <3>5, <3>6 DEF CalmInv
  <2>2. CASE \E slot \in Slots, answer \in Answers :
                /\ Commit(slot, answer)
                /\ calm' = IF answer.verdict = "stuck" THEN 0 ELSE LeastOf(calm + 1, Settled)
    BY <2>2, InvAfterCommit, CalmAfterCommit
  <2>3. CASE /\ AnythingElse
             /\ calm' = IF edits' = edits /\ events' = events /\ config' = config THEN calm
                        ELSE IF FreeSlots = Slots THEN 0 ELSE -1
    <3>1. Inv'
      BY <2>3, InvNext DEF Next
    <3> QED
      BY <2>3, <3>1, CalmAfterAnythingElse
  <2> QED
    BY <2>1, <2>2, <2>3 DEF CalmNext
<1> QED
  BY <1>1, <1>2, PTL DEF CalmSpec

\* Where a pass finds all it asks for, and is not overtaken by another: with the queue
\* on, the first pass after the last news leaves the channels with the first of the
\* subscriptions that are ready, and with no other, or the user's own stand in for them.
THEOREM QueueStaysMoving ==
    ASSUME Parameters, Undisturbed
    PROVE  CalmSpec => []QueueMovesOn
<1>1. Inv /\ CalmInv => QueueMovesOn
  BY DEF CalmInv
<1> QED
  BY <1>1, CalmHolds, PTL
=============================================================================
