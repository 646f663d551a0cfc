------------------------- MODULE MemoryCacheProofs -------------------------
(***************************************************************************)
(* The properties of MemoryCache.tla, proved for every set of keys and of   *)
(* goroutines, every cost and every pair of limits.                        *)
(*                                                                         *)
(* Sums are counted: n units for a key that costs n, so that what is known  *)
(* of the size of finite sets holds of costs (CostOfBoth, CostOfRest). The  *)
(* invariant, MemoryInv, is inductive as the conjunction of the types, of   *)
(* currentCost being the sum, and of the limits: evictByCost goes by        *)
(* currentCost, so the limits need the sum, and the sum needs the list to   *)
(* have each key once. EvictsOldest follows from where a key is in the list *)
(* before it is moved and after (MovedOrder).                              *)
(***************************************************************************)
EXTENDS MemoryCache, FiniteSetTheorems, SequenceTheorems, WellFoundedInduction, TLAPS

-----------------------------------------------------------------------------
(* Lists.                                                                  *)

\* The lists of keys that have each key once at most.
Once(s) == \A i, j \in 1..Len(s) : s[i] = s[j] => i = j
Lists   == {s \in Seq(Keys) : Once(s)}

\* The first n entries of s.
Newest(s, n) == SubSeq(s, 1, n)

\* What a list is made of.
LEMMA ListType ==
  ASSUME NEW s \in Lists
  PROVE  /\ s \in Seq(Keys) /\ Len(s) \in Nat /\ DOMAIN s = 1..Len(s)
         /\ \A i \in 1..Len(s) : s[i] \in Keys
         /\ ToSet(s) = {s[i] : i \in 1..Len(s)} /\ ToSet(s) \subseteq Keys
<1>1. s \in Seq(Keys) /\ Len(s) \in Nat /\ DOMAIN s = 1..Len(s)
      /\ \A i \in 1..Len(s) : s[i] \in Keys
  BY DEF Lists
<1>2. ToSet(s) = {s[i] : i \in 1..Len(s)}
  BY <1>1 DEF ToSet
<1>3. QED
  BY <1>1, <1>2

\* A list is as long as it has keys.
LEMMA ListLength ==
  ASSUME NEW s \in Lists
  PROVE  IsFiniteSet(ToSet(s)) /\ Len(s) = Cardinality(ToSet(s))
<1>1. Len(s) \in Nat /\ DOMAIN s = 1..Len(s) /\ ToSet(s) = {s[i] : i \in 1..Len(s)}
  BY ListType
<1>2. s \in Seq(Keys) /\ Once(s)
  BY DEF Lists
<1>3. s \in [1..Len(s) -> ToSet(s)]
  BY <1>1, <1>2
<1>4. s \in Injection(1..Len(s), ToSet(s))
  BY <1>1, <1>2, <1>3 DEF Once, Injection, IsInjective
<1>5. s \in Surjection(1..Len(s), ToSet(s))
  BY <1>1, <1>3 DEF Surjection
<1>6. IsFiniteSet(1..Len(s))
  BY <1>1, FS_Interval
<1>7. Cardinality(ToSet(s)) = Len(s)
  BY <1>1, <1>4, <1>5, FS_CountingElements DEF ExistsBijection, Bijection
<1>8. IsFiniteSet(ToSet(s))
  BY <1>5, <1>6, FS_Surjection
<1>9. QED
  BY <1>7, <1>8

\* The newest entries of a list are a list.
LEMMA NewestListed ==
  ASSUME NEW s \in Lists, NEW n \in 0..Len(s)
  PROVE  /\ Newest(s, n) \in Lists /\ Len(Newest(s, n)) = n
         /\ \A i \in 1..n : Newest(s, n)[i] = s[i]
         /\ ToSet(Newest(s, n)) = {s[i] : i \in 1..n}
         /\ ToSet(Newest(s, n)) \subseteq ToSet(s)
<1>1. /\ s \in Seq(Keys) /\ Len(s) \in Nat /\ Once(s)
      /\ ToSet(s) = {s[i] : i \in 1..Len(s)}
  BY ListType DEF Lists
<1> DEFINE t == Newest(s, n)
<1>2. t \in Seq(Keys) /\ Len(t) = n /\ \A i \in 1..n : t[i] = s[i]
  BY <1>1 DEF Newest
<1> HIDE DEF t
<1>3. t \in Lists
  BY <1>1, <1>2 DEF Lists, Once
<1>4. ToSet(t) = {t[i] : i \in 1..n}
  BY <1>2, <1>3, ListType
<1>5. ToSet(t) = {s[i] : i \in 1..n} /\ 1..n \subseteq 1..Len(s)
  BY <1>1, <1>2, <1>4
<1>6. QED
  BY <1>1, <1>2, <1>3, <1>5 DEF t

\* A list less its p-th entry.
LEMMA RemovedListed ==
  ASSUME NEW s \in Lists, NEW p \in 1..Len(s)
  PROVE  /\ RemoveAt(s, p) \in Lists /\ Len(RemoveAt(s, p)) = Len(s) - 1
         /\ \A i \in 1..(Len(s) - 1) :
              RemoveAt(s, p)[i] = IF i < p THEN s[i] ELSE s[i + 1]
         /\ ToSet(RemoveAt(s, p)) = ToSet(s) \ {s[p]}
<1> DEFINE a == SubSeq(s, 1, p - 1)
           b == SubSeq(s, p + 1, Len(s))
           t == RemoveAt(s, p)
<1>1. /\ s \in Seq(Keys) /\ Len(s) \in Nat /\ Once(s)
      /\ ToSet(s) = {s[i] : i \in 1..Len(s)} /\ \A i \in 1..Len(s) : s[i] \in Keys
  BY ListType DEF Lists
<1>2. /\ a \in Seq(Keys) /\ Len(a) = p - 1 /\ \A i \in 1..(p - 1) : a[i] = s[i]
  BY <1>1
<1>3. /\ b \in Seq(Keys) /\ Len(b) = Len(s) - p
      /\ \A i \in 1..(Len(s) - p) : b[i] = s[p + i]
  <2>1. \A i \in (p + 1)..Len(s) : s[i] \in Keys
    BY <1>1
  <2>2. /\ b \in Seq(Keys) /\ Len(b) = IF p + 1 =< Len(s) THEN Len(s) - (p + 1) + 1 ELSE 0
        /\ \A i \in 1..(Len(s) - (p + 1) + 1) : b[i] = s[(p + 1) + i - 1]
    BY <1>1, <2>1, SubSeqProperties
  <2> HIDE DEF b
  <2>3. Len(b) = Len(s) - p /\ Len(s) - (p + 1) + 1 = Len(s) - p
    BY <1>1, <2>2
  <2>4. \A i \in 1..(Len(s) - p) : (p + 1) + i - 1 = p + i
    BY <1>1
  <2>5. QED
    BY <2>2, <2>3, <2>4
<1>4. t = a \o b
  BY DEF RemoveAt
<1> HIDE DEF a, b, t
<1>5. /\ t \in Seq(Keys) /\ Len(t) = Len(a) + Len(b)
      /\ \A i \in 1..(Len(a) + Len(b)) : t[i] = IF i =< Len(a) THEN a[i] ELSE b[i - Len(a)]
  BY <1>2, <1>3, <1>4, ConcatProperties
<1>6. Len(t) = Len(s) - 1
  BY <1>1, <1>2, <1>3, <1>5
<1>7. ASSUME NEW i \in 1..(Len(s) - 1)
      PROVE  t[i] = IF i < p THEN s[i] ELSE s[i + 1]
  <2>1. t[i] = IF i =< p - 1 THEN a[i] ELSE b[i - (p - 1)]
    BY <1>1, <1>2, <1>3, <1>5
  <2>2. CASE i < p
    BY <1>1, <1>2, <2>1, <2>2
  <2>3. CASE ~(i < p)
    <3>1. i - (p - 1) \in 1..(Len(s) - p) /\ p + (i - (p - 1)) = i + 1
      BY <1>1, <2>3
    <3>2. t[i] = b[i - (p - 1)]
      BY <1>1, <2>1, <2>3
    <3>3. QED
      BY <1>3, <2>3, <3>1, <3>2
  <2>4. QED
    BY <2>2, <2>3
<1>8. t \in Lists
  <2>1. \A i, j \in 1..(Len(s) - 1) : t[i] = t[j] => i = j
    <3> TAKE i, j \in 1..(Len(s) - 1)
    <3> HAVE t[i] = t[j]
    <3>1. i \in 1..Len(s) /\ i + 1 \in 1..Len(s) /\ j \in 1..Len(s) /\ j + 1 \in 1..Len(s)
      BY <1>1
    <3>2. (IF i < p THEN i ELSE i + 1) = (IF j < p THEN j ELSE j + 1)
      BY <1>1, <1>7, <3>1 DEF Once
    <3>3. QED
      BY <1>1, <3>2
  <2>2. QED
    BY <1>5, <1>6, <2>1 DEF Lists, Once
<1>9. ToSet(t) = ToSet(s) \ {s[p]}
  <2>1. ToSet(t) = {t[i] : i \in 1..(Len(s) - 1)}
    BY <1>6, <1>8, ListType
  <2>2. ASSUME NEW i \in 1..(Len(s) - 1)
        PROVE  t[i] \in ToSet(s) \ {s[p]}
    <3>1. i \in 1..Len(s) /\ i + 1 \in 1..Len(s) /\ (i < p => i # p) /\ (~(i < p) => i + 1 # p)
      BY <1>1
    <3>2. QED
      BY <1>1, <1>7, <3>1 DEF Once
  <2>3. ASSUME NEW j \in 1..Len(s), s[j] # s[p]
        PROVE  \E i \in 1..(Len(s) - 1) : t[i] = s[j]
    <3>1. CASE j < p
      <4>1. j \in 1..(Len(s) - 1)
        BY <1>1, <3>1
      <4>2. QED
        BY <1>7, <3>1, <4>1
    <3>2. CASE ~(j < p)
      <4>1. j # p
        BY <2>3
      <4>2. j - 1 \in 1..(Len(s) - 1) /\ ~(j - 1 < p) /\ (j - 1) + 1 = j
        BY <1>1, <3>2, <4>1
      <4>3. t[j - 1] = s[(j - 1) + 1]
        BY <1>7, <4>2
      <4>4. QED
        BY <4>2, <4>3
    <3>3. QED
      BY <3>1, <3>2
  <2>4. QED
    BY <1>1, <2>1, <2>2, <2>3
<1>10. QED
  BY <1>6, <1>7, <1>8, <1>9 DEF t

\* A list with another key before it.
LEMMA FrontListed ==
  ASSUME NEW s \in Lists, NEW k \in Keys, k \notin ToSet(s)
  PROVE  /\ <<k>> \o s \in Lists /\ Len(<<k>> \o s) = Len(s) + 1
         /\ ToSet(<<k>> \o s) = {k} \cup ToSet(s)
         /\ (<<k>> \o s)[1] = k
         /\ \A i \in 1..Len(s) : (<<k>> \o s)[i + 1] = s[i]
<1> DEFINE t == <<k>> \o s
<1>1. /\ s \in Seq(Keys) /\ Len(s) \in Nat /\ Once(s)
      /\ ToSet(s) = {s[i] : i \in 1..Len(s)}
  BY ListType DEF Lists
<1>2. /\ t \in Seq(Keys) /\ Len(t) = Len(s) + 1
      /\ t[1] = k /\ \A i \in 1..Len(s) : t[i + 1] = s[i]
  BY <1>1
<1> HIDE DEF t
<1>3. ASSUME NEW i \in 1..(Len(s) + 1), i # 1
      PROVE  i - 1 \in 1..Len(s) /\ t[i] = s[i - 1]
  <2>1. i - 1 \in 1..Len(s) /\ (i - 1) + 1 = i
    BY <1>1, <1>3
  <2>2. QED
    BY <1>2, <2>1
<1>4. t \in Lists
  <2>1. ASSUME NEW i \in 1..(Len(s) + 1), NEW j \in 1..(Len(s) + 1), t[i] = t[j]
        PROVE  i = j
    <3>1. CASE i = 1 \/ j = 1
      BY <1>1, <1>2, <1>3, <2>1, <3>1
    <3>2. CASE i # 1 /\ j # 1
      <4>1. i - 1 \in 1..Len(s) /\ j - 1 \in 1..Len(s) /\ s[i - 1] = s[j - 1]
        BY <1>3, <2>1, <3>2
      <4>2. i - 1 = j - 1
        BY <1>1, <4>1 DEF Once
      <4>3. QED
        BY <1>1, <4>2
    <3>3. QED
      BY <3>1, <3>2
  <2>2. QED
    BY <1>2, <2>1 DEF Lists, Once
<1>5. ToSet(t) = {k} \cup ToSet(s)
  <2>1. ToSet(t) = {t[i] : i \in 1..(Len(s) + 1)}
    BY <1>2, <1>4, ListType
  <2>2. \A i \in 1..(Len(s) + 1) : t[i] \in {k} \cup ToSet(s)
    BY <1>1, <1>2, <1>3
  <2>3. \A i \in 1..Len(s) : i + 1 \in 1..(Len(s) + 1)
    BY <1>1
  <2>4. 1 \in 1..(Len(s) + 1)
    BY <1>1
  <2>5. {k} \cup ToSet(s) \subseteq ToSet(t)
    BY <1>1, <1>2, <2>1, <2>3, <2>4
  <2>6. QED
    BY <2>1, <2>2, <2>5
<1>6. QED
  BY <1>2, <1>4, <1>5 DEF t

\* Where k is in the list, and the list without it.
Place(k) == CHOOSE i \in DOMAIN ll : ll[i] = k

\* The list without k, entry by entry.
LEMMA WithoutListed ==
  ASSUME ll \in Lists, NEW k \in Cached
  PROVE  /\ Place(k) \in 1..Len(ll) /\ ll[Place(k)] = k
         /\ Without(k) \in Lists /\ Len(Without(k)) = Len(ll) - 1
         /\ ToSet(Without(k)) = Cached \ {k}
         /\ \A i \in 1..(Len(ll) - 1) :
              Without(k)[i] = IF i < Place(k) THEN ll[i] ELSE ll[i + 1]
<1>1. DOMAIN ll = 1..Len(ll)
  BY ListType
<1>2. Place(k) \in 1..Len(ll) /\ ll[Place(k)] = k
  BY <1>1 DEF Cached, ToSet, Place
<1>3. Without(k) = RemoveAt(ll, Place(k))
  BY DEF Without, Place
<1>4. QED
  BY <1>2, <1>3, RemovedListed DEF Cached

\* The list with k in front.
LEMMA MovedListed ==
  ASSUME ll \in Lists, NEW k \in Cached
  PROVE  /\ Moved(k) \in Lists /\ Len(Moved(k)) = Len(ll) /\ ToSet(Moved(k)) = Cached
         /\ Moved(k)[1] = k
         /\ \A i \in 1..(Len(ll) - 1) : Moved(k)[i + 1] = Without(k)[i]
<1>1. k \in Keys /\ Len(ll) \in Nat
  BY ListType DEF Cached
<1>2. Without(k) \in Lists /\ Len(Without(k)) = Len(ll) - 1
      /\ ToSet(Without(k)) = Cached \ {k}
  BY WithoutListed
<1>3. /\ Moved(k) \in Lists /\ Len(Moved(k)) = Len(Without(k)) + 1
      /\ ToSet(Moved(k)) = {k} \cup ToSet(Without(k)) /\ Moved(k)[1] = k
      /\ \A i \in 1..Len(Without(k)) : Moved(k)[i + 1] = Without(k)[i]
  BY <1>1, <1>2, FrontListed DEF Moved
<1>4. QED
  BY <1>1, <1>2, <1>3

-----------------------------------------------------------------------------
(* Costs.                                                                  *)

\* Finitely many keys have finitely many units.
LEMMA UnitsFinite ==
  ASSUME NEW S, IsFiniteSet(S), NEW c, \A k \in S : c[k] \in Nat
  PROVE  IsFiniteSet(Units(S, c))
<1> DEFINE F == {{k} \X (1..c[k]) : k \in S}
<1>1. IsFiniteSet(F)
  <2> DEFINE g == [k \in S |-> {k} \X (1..c[k])]
  <2>1. g \in Surjection(S, F)
    BY DEF Surjection
  <2>2. QED
    BY <2>1, FS_Surjection
<1>2. \A T \in F : IsFiniteSet(T)
  <2> TAKE T \in F
  <2>1. PICK k \in S : T = {k} \X (1..c[k])
    OBVIOUS
  <2> HIDE DEF F
  <2>2. IsFiniteSet({k})
    BY FS_Singleton
  <2>3. 1 \in Int /\ c[k] \in Int
    OBVIOUS
  <2>4. IsFiniteSet(1..c[k])
    BY <2>3, FS_Interval
  <2>5. IsFiniteSet({k} \X (1..c[k]))
    BY <2>2, <2>4, FS_Product
  <2>6. QED
    BY <2>1, <2>5
<1>3. QED
  BY <1>1, <1>2, FS_UNION DEF Units

\* One key costs what it costs.
LEMMA CostOfOne ==
  ASSUME NEW k, NEW c, c[k] \in Nat
  PROVE  CostOf({k}, c) = c[k]
<1>1. Units({k}, c) = {k} \X (1..c[k])
  BY DEF Units
<1>2. IsFiniteSet({k}) /\ Cardinality({k}) = 1
  BY FS_Singleton
<1>3. IsFiniteSet(1..c[k]) /\ Cardinality(1..c[k]) = c[k]
  <2> DEFINE n == c[k]
  <2>1. n \in Nat /\ 1 \in Int /\ n \in Int
    OBVIOUS
  <2> HIDE DEF n
  <2>2. IsFiniteSet(1..n) /\ Cardinality(1..n) = IF 1 > n THEN 0 ELSE n - 1 + 1
    BY <2>1, FS_Interval
  <2>3. IsFiniteSet(1..n) /\ Cardinality(1..n) = n
    BY <2>1, <2>2
  <2>4. QED
    BY <2>3 DEF n
<1>4. Cardinality({k} \X (1..c[k])) = Cardinality({k}) * Cardinality(1..c[k])
  BY <1>2, <1>3, FS_Product
<1>5. Cardinality({k} \X (1..c[k])) = c[k]
  BY <1>2, <1>3, <1>4
<1>6. QED
  BY <1>1, <1>5 DEF CostOf

\* No keys cost nothing.
LEMMA CostOfNone ==
  ASSUME NEW c
  PROVE  CostOf({}, c) = 0
BY FS_EmptySet DEF CostOf, Units

\* Costs are natural numbers.
LEMMA CostNat ==
  ASSUME NEW S, IsFiniteSet(S), NEW c, \A k \in S : c[k] \in Nat
  PROVE  CostOf(S, c) \in Nat
BY UnitsFinite, FS_CardinalityType DEF CostOf

\* Keys that are not the same cost what each of them costs.
LEMMA CostOfBoth ==
  ASSUME NEW S, IsFiniteSet(S), NEW T, IsFiniteSet(T), S \cap T = {},
         NEW c, \A k \in S \cup T : c[k] \in Nat
  PROVE  CostOf(S \cup T, c) = CostOf(S, c) + CostOf(T, c)
<1>1. Units(S \cup T, c) = Units(S, c) \cup Units(T, c)
  BY DEF Units
<1>2. Units(S, c) \cap Units(T, c) = {}
  BY DEF Units
<1>3. IsFiniteSet(Units(S, c)) /\ IsFiniteSet(Units(T, c))
  BY UnitsFinite
<1>4. Cardinality(Units(S, c)) \in Nat /\ Cardinality(Units(T, c)) \in Nat
      /\ Cardinality({}) = 0
  BY <1>3, FS_CardinalityType, FS_EmptySet
<1>5. Cardinality(Units(S, c) \cup Units(T, c)) =
        Cardinality(Units(S, c)) + Cardinality(Units(T, c)) - Cardinality({})
  BY <1>2, <1>3, FS_Union
<1> DEFINE a == Cardinality(Units(S, c))
           b == Cardinality(Units(T, c))
           e == Cardinality({})
<1>6. a \in Nat /\ b \in Nat /\ e = 0 /\ CostOf(S, c) = a /\ CostOf(T, c) = b
  BY <1>4 DEF CostOf
<1>7. CostOf(S \cup T, c) = a + b - e
  BY <1>1, <1>5 DEF CostOf
<1> HIDE DEF a, b, e
<1>8. CostOf(S \cup T, c) = a + b
  BY <1>6, <1>7
<1>9. QED
  BY <1>6, <1>8

\* Costs count only for the keys there are.
LEMMA CostOfSame ==
  ASSUME NEW S, NEW c, NEW d, \A k \in S : c[k] = d[k]
  PROVE  CostOf(S, c) = CostOf(S, d)
<1>1. Units(S, c) = Units(S, d)
  BY DEF Units
<1>2. QED
  BY <1>1 DEF CostOf

\* What is left of S without T.
LEMMA CostOfRest ==
  ASSUME NEW S, IsFiniteSet(S), NEW T \in SUBSET S, NEW c, \A k \in S : c[k] \in Nat
  PROVE  CostOf(S \ T, c) = CostOf(S, c) - CostOf(T, c)
<1>1. IsFiniteSet(T) /\ IsFiniteSet(S \ T)
  BY FS_Subset
<1>2. CostOf(T \cup (S \ T), c) = CostOf(T, c) + CostOf(S \ T, c)
  BY <1>1, CostOfBoth
<1>3. CostOf(T, c) \in Nat /\ CostOf(S \ T, c) \in Nat
  BY <1>1, CostNat
<1>4. T \cup (S \ T) = S
  OBVIOUS
<1> DEFINE all == CostOf(S, c)
           some == CostOf(T, c)
           rest == CostOf(S \ T, c)
<1>5. all = some + rest
  BY <1>2, <1>4
<1>6. some \in Nat /\ rest \in Nat
  BY <1>3
<1> HIDE DEF all, some, rest
<1>7. rest = all - some
  BY <1>5, <1>6
<1>8. QED
  BY <1>7 DEF all, some, rest

\* One key that costs something else.
LEMMA CostOfChanged ==
  ASSUME NEW S, IsFiniteSet(S), NEW k \in S, NEW c, NEW d,
         \A j \in S : c[j] \in Nat /\ d[j] \in Nat /\ (j # k => c[j] = d[j])
  PROVE  CostOf(S, d) = CostOf(S, c) + d[k] - c[k]
<1>1. CostOf(S \ {k}, c) = CostOf(S \ {k}, d)
  BY CostOfSame
<1>2. CostOf(S \ {k}, c) = CostOf(S, c) - CostOf({k}, c)
  BY CostOfRest
<1>3. CostOf(S \ {k}, d) = CostOf(S, d) - CostOf({k}, d)
  BY CostOfRest
<1>4. CostOf({k}, c) = c[k] /\ CostOf({k}, d) = d[k] /\ c[k] \in Nat /\ d[k] \in Nat
  BY CostOfOne
<1>5. CostOf(S, c) \in Nat /\ CostOf(S, d) \in Nat
  BY CostNat
<1> DEFINE m == CostOf(S, c)
           n == CostOf(S, d)
           rest == CostOf(S \ {k}, c)
           x == c[k]
           y == d[k]
<1>6. rest = m - x /\ rest = n - y /\ m \in Nat /\ n \in Nat /\ x \in Nat /\ y \in Nat
  BY <1>1, <1>2, <1>3, <1>4, <1>5
<1> HIDE DEF m, n, rest, x, y
<1>7. n = m + y - x
  BY <1>6
<1>8. QED
  BY <1>7 DEF m, n, x, y

-----------------------------------------------------------------------------
(* Eviction.                                                               *)

\* evictByCost leaves the newest, which cost no more than they may, if any is left.
LEMMA EvictedByCost ==
  ASSUME NEW s \in Lists, NEW c, NEW added
  PROVE  \E n \in 0..Len(s) :
           /\ AfterEvictByCost(s, c, added) = Newest(s, n)
           /\ n = 0 \/ capacity.cost =< 0 \/ Left(Newest(s, n), c, added) =< capacity.cost
<1> DEFINE len == Len(s)
           Fits(n) == capacity.cost =< 0 \/ Left(Newest(s, n), c, added) =< capacity.cost
           P(n) == (Fits(n) \/ n = 0) /\ \A m \in (n + 1)..len : ~Fits(m)
           T == {len - n : n \in {i \in 0..len : Fits(i) \/ i = 0}}
<1>1. len \in Nat
  BY ListType
<1>2. AfterEvictByCost(s, c, added) = Newest(s, CHOOSE n \in 0..len : P(n))
  BY DEF AfterEvictByCost, Newest
<1>3. \E n \in 0..len : P(n)
  <2> HIDE DEF Fits, len
  <2>1. T \subseteq Nat /\ T # {}
    BY <1>1
  <2>2. PICK x \in T : \A y \in T : ~(<<y, x>> \in OpToRel(<, Nat))
    <3> HIDE DEF T
    <3>1. QED
      BY <2>1, NatLessThanWellFounded, WFMin
  <2>3. \A y \in T : ~(y < x)
    BY <2>1, <2>2 DEF OpToRel
  <2>4. PICK n \in 0..len : x = len - n /\ (Fits(n) \/ n = 0)
    OBVIOUS
  <2>5. ASSUME NEW m \in (n + 1)..len, Fits(m)
        PROVE  FALSE
    <3>1. m \in 0..len /\ len - m < len - n
      BY <1>1
    <3>2. len - m \in T
      BY <2>5, <3>1
    <3>3. QED
      BY <2>3, <2>4, <3>1, <3>2
  <2>6. QED
    BY <2>4, <2>5
<1>4. PICK n \in 0..len : n = (CHOOSE i \in 0..len : P(i)) /\ P(n)
  <2> HIDE DEF P, len
  <2>1. QED
    BY <1>3
<1>5. QED
  BY <1>2, <1>4

\* evictByCount leaves the newest, and room for one more.
LEMMA EvictedByCount ==
  ASSUME NEW s \in Lists, capacity.count \in Int
  PROVE  \E n \in 0..Len(s) :
           /\ AfterEvictByCount(s) = Newest(s, n)
           /\ capacity.count > 0 => n + 1 =< capacity.count
<1>1. s \in Seq(Keys) /\ Len(s) \in Nat
  BY ListType
<1>2. CASE capacity.count > 0 /\ Len(s) >= capacity.count
  <2>1. capacity.count - 1 \in 0..Len(s)
    BY <1>1, <1>2
  <2>2. AfterEvictByCount(s) = Newest(s, capacity.count - 1)
    BY <1>2 DEF AfterEvictByCount, Newest
  <2>3. (capacity.count - 1) + 1 =< capacity.count
    OBVIOUS
  <2>4. QED
    BY <2>1, <2>2, <2>3
<1>3. CASE ~(capacity.count > 0 /\ Len(s) >= capacity.count)
  <2>1. AfterEvictByCount(s) = s
    BY <1>3 DEF AfterEvictByCount
  <2>2. Newest(s, Len(s)) = s
    BY <1>1, SubSeqFull DEF Newest
  <2>3. capacity.count > 0 => Len(s) + 1 =< capacity.count
    BY <1>1, <1>3
  <2>4. QED
    BY <1>1, <2>1, <2>2, <2>3
<1>4. QED
  BY <1>2, <1>3

\* The newest of the newest.
LEMMA NewestOfNewest ==
  ASSUME NEW s \in Lists, NEW m \in 0..Len(s), NEW n \in 0..m
  PROVE  Newest(Newest(s, m), n) = Newest(s, n)
<1>1. s \in Seq(Keys) /\ Len(s) \in Nat
  BY ListType
<1>2. Newest(s, m) \in Seq(Keys) /\ Len(Newest(s, m)) = m
      /\ \A i \in 1..m : Newest(s, m)[i] = s[i]
  BY NewestListed DEF Lists
<1> DEFINE t == Newest(s, m)
<1> HIDE DEF t
<1>3. \A i \in 1..n : t[i] = s[i]
  BY <1>1, <1>2 DEF t
<1>4. t \in Seq(Keys) /\ Len(t) = m
  BY <1>2 DEF t
<1>5. SubSeq(t, 1, n) = [i \in 1..n |-> t[i]]
  BY <1>1, <1>4
<1>6. SubSeq(s, 1, n) = [i \in 1..n |-> s[i]]
  BY <1>1
<1>7. SubSeq(t, 1, n) = SubSeq(s, 1, n)
  BY <1>3, <1>5, <1>6
<1>8. QED
  BY <1>7 DEF Newest, t

-----------------------------------------------------------------------------
(* The invariant.                                                          *)

\* A goroutine that has peeked has a key.
MemoryType ==
  /\ capacity \in Capacities
  /\ ll \in Lists
  /\ cost \in [Keys -> Nat]
  /\ at \in [Procs -> {"out", "touch", "compute"}]
  /\ wanted \in [Procs -> Keys \cup {None}]
  /\ \A p \in Procs : at[p] # "out" => wanted[p] \in Keys

MemoryInv == MemoryType /\ CostIsSum /\ LimitsKept

\* The limits are integers.
LEMMA LimitType ==
  ASSUME capacity \in Capacities
  PROVE  capacity.count \in Int /\ capacity.cost \in Int
BY MemoryCacheAssumption

\* currentCost after an eviction, at costs it has taken account of.
LEMMA LeftIsCost ==
  ASSUME ll \in Lists, NEW c \in [Keys -> Nat], NEW added \in Int, currentCost \in Int,
         currentCost + added = CostOf(Cached, c),
         NEW s \in Lists, ToSet(s) \subseteq Cached
  PROVE  Left(s, c, added) = CostOf(ToSet(s), c) /\ CostOf(ToSet(s), c) \in Nat
<1>1. IsFiniteSet(Cached) /\ \A k \in Cached : c[k] \in Nat
  BY ListLength, ListType DEF Cached
<1>2. CostOf(Cached \ ToSet(s), c) = CostOf(Cached, c) - CostOf(ToSet(s), c)
  BY <1>1, CostOfRest
<1>3. CostOf(Cached, c) \in Nat
  BY <1>1, CostNat
<1>4. CostOf(ToSet(s), c) \in Nat
  BY <1>1, ListLength, CostNat
<1> DEFINE all == CostOf(Cached, c)
           some == CostOf(ToSet(s), c)
           rest == CostOf(Cached \ ToSet(s), c)
<1>5. /\ rest = all - some /\ all \in Nat /\ some \in Nat /\ currentCost + added = all
      /\ Left(s, c, added) = currentCost + added - rest
  BY <1>2, <1>3, <1>4 DEF Left
<1> HIDE DEF all, some, rest
<1>6. Left(s, c, added) = some /\ some \in Nat
  BY <1>5
<1>7. QED
  BY <1>6 DEF some

\* What an operation keeps is a list again, and currentCost what it costs.
LEMMA KeepSums ==
  ASSUME NEW s \in Lists, NEW c \in [Keys -> Nat], NEW added,
         Left(s, c, added) = CostOf(ToSet(s), c), Keep(s, c, added)
  PROVE  ll' = s /\ Cached' = ToSet(s) /\ cost' \in [Keys -> Nat] /\ CostIsSum'
         /\ \A k \in ToSet(s) : cost'[k] = c[k]
<1>1. /\ ll' = s /\ cost' = [k \in Keys |-> IF k \in ToSet(s) THEN c[k] ELSE 0]
      /\ currentCost' = CostOf(ToSet(s), c)
  BY DEF Keep
<1>2. Cached' = ToSet(s) /\ ToSet(s) \subseteq Keys
  BY <1>1, ListType DEF Cached
<1>3. cost' \in [Keys -> Nat]
  BY <1>1
<1>4. \A k \in ToSet(s) : c[k] = cost'[k]
  BY <1>1, <1>2
<1> DEFINE d == cost'
<1>5. CostOf(ToSet(s), c) = CostOf(ToSet(s), d)
  <2> HIDE DEF d
  <2>1. \A k \in ToSet(s) : c[k] = d[k]
    BY <1>4 DEF d
  <2>2. QED
    BY <2>1, CostOfSame
<1>6. \A k \in Keys \ Cached' : cost'[k] = 0
  BY <1>1, <1>2
<1>7. QED
  BY <1>1, <1>2, <1>3, <1>4, <1>5, <1>6 DEF CostIsSum

-----------------------------------------------------------------------------
(* The operations.                                                         *)

\* What put, Delete and the moves have to keep.
Kept == ll' \in Lists /\ cost' \in [Keys -> Nat] /\ CostIsSum' /\ LimitsKept'

\* A put of a key that is there keeps sum and limits, whatever it evicts.
LEMMA UpdateStep ==
  ASSUME MemoryInv, NEW k \in Cached, NEW n \in Nat, Update(k, n), capacity' = capacity
  PROVE  Kept
<1> DEFINE c == [cost EXCEPT ![k] = n]
           added == n - cost[k]
<1>1. /\ ll \in Lists /\ cost \in [Keys -> Nat] /\ k \in Keys /\ CostIsSum
      /\ IsFiniteSet(Cached) /\ Cached \subseteq Keys
      /\ capacity.count \in Int /\ capacity.cost \in Int
  BY LimitType, ListLength, ListType DEF MemoryInv, MemoryType, Cached
<1>2. c \in [Keys -> Nat] /\ c[k] = n /\ \A j \in Keys : j # k => c[j] = cost[j]
  BY <1>1
<1>3. PICK m \in 0..Len(Moved(k)) :
        /\ AfterEvictByCost(Moved(k), c, added) = Newest(Moved(k), m)
        /\ m = 0 \/ capacity.cost =< 0 \/ Left(Newest(Moved(k), m), c, added) =< capacity.cost
  <2> HIDE DEF c, added
  <2>1. Moved(k) \in Lists
    BY <1>1, MovedListed
  <2>2. QED
    BY <2>1, EvictedByCost
<1> DEFINE s == Newest(Moved(k), m)
<1>4. Keep(s, c, added)
  BY <1>3 DEF Update
<1> HIDE DEF c, added, s
<1>5. s \in Lists /\ Len(s) = m /\ ToSet(s) \subseteq Cached /\ m =< Len(ll) /\ m \in Nat
  <2>1. Moved(k) \in Lists /\ Len(Moved(k)) = Len(ll) /\ ToSet(Moved(k)) = Cached
    BY <1>1, MovedListed
  <2>2. s \in Lists /\ Len(s) = m /\ ToSet(s) \subseteq ToSet(Moved(k))
    BY <2>1, NewestListed DEF s
  <2>3. Len(ll) \in Nat
    BY <1>1, ListType
  <2>4. QED
    BY <2>1, <2>2, <2>3
<1>6. added \in Int /\ currentCost \in Int /\ currentCost + added = CostOf(Cached, c)
  <2>1. CostOf(Cached, c) = CostOf(Cached, cost) + c[k] - cost[k]
    BY <1>1, <1>2, CostOfChanged
  <2>2. currentCost = CostOf(Cached, cost) /\ CostOf(Cached, cost) \in Nat
    BY <1>1, CostNat DEF CostIsSum
  <2>3. cost[k] \in Nat /\ added = n - cost[k]
    BY <1>1 DEF added
  <2>4. QED
    BY <1>2, <2>1, <2>2, <2>3
<1>7. Left(s, c, added) = CostOf(ToSet(s), c) /\ CostOf(ToSet(s), c) \in Nat
  BY <1>1, <1>2, <1>5, <1>6, LeftIsCost
<1>8. /\ ll' = s /\ Cached' = ToSet(s) /\ cost' \in [Keys -> Nat] /\ CostIsSum'
  BY <1>2, <1>4, <1>5, <1>7, KeepSums
<1>9. CountBounded'
  <2>1. capacity.count > 0 => Len(ll) =< capacity.count
    BY DEF MemoryInv, LimitsKept, CountBounded
  <2>2. capacity.count > 0 => m =< capacity.count
    BY <1>1, <1>5, <2>1, ListType
  <2>3. QED
    BY <1>5, <1>8, <2>2 DEF CountBounded
<1>10. CostBounded'
  <2>1. currentCost' = Left(s, c, added)
    BY <1>4 DEF Keep
  <2>2. CASE m = 0
    <3>1. ToSet(s) = {}
      BY <1>5, <2>2, ListType
    <3>2. currentCost' = 0
      BY <1>7, <2>1, <3>1, CostOfNone
    <3>3. QED
      BY <1>1, <3>2 DEF CostBounded
  <2>3. CASE capacity.cost =< 0
    BY <1>1, <2>3 DEF CostBounded
  <2>4. CASE Left(s, c, added) =< capacity.cost
    BY <2>1, <2>4 DEF CostBounded
  <2>5. QED
    BY <1>3, <2>2, <2>3, <2>4 DEF s
<1>11. QED
  BY <1>5, <1>8, <1>9, <1>10 DEF Kept, LimitsKept

\* What an insertion leaves of the others.
LEMMA InsertKeeps ==
  ASSUME ll \in Lists, capacity \in Capacities
  PROVE  \E m \in 0..Len(ll) :
           /\ AfterEvictByCost(AfterEvictByCount(ll), cost, 0) = Newest(ll, m)
           /\ capacity.count > 0 => m + 1 =< capacity.count
           /\ m = 0 \/ capacity.cost =< 0 \/ Left(Newest(ll, m), cost, 0) =< capacity.cost
<1>1. capacity.count \in Int /\ Len(ll) \in Nat
  BY LimitType, ListType
<1>2. PICK i \in 0..Len(ll) :
        AfterEvictByCount(ll) = Newest(ll, i) /\ (capacity.count > 0 => i + 1 =< capacity.count)
  BY <1>1, EvictedByCount
<1>3. Newest(ll, i) \in Lists /\ Len(Newest(ll, i)) = i
  BY NewestListed
<1>4. PICK m \in 0..i :
        /\ AfterEvictByCost(Newest(ll, i), cost, 0) = Newest(Newest(ll, i), m)
        /\ \/ m = 0 \/ capacity.cost =< 0
           \/ Left(Newest(Newest(ll, i), m), cost, 0) =< capacity.cost
  BY <1>3, EvictedByCost
<1>5. Newest(Newest(ll, i), m) = Newest(ll, m)
  BY NewestOfNewest
<1>6. m \in 0..Len(ll) /\ (capacity.count > 0 => m + 1 =< capacity.count)
  BY <1>1, <1>2
<1>7. QED
  BY <1>2, <1>4, <1>5, <1>6

\* So does a put of a key that is not, with room made first.
LEMMA InsertStep ==
  ASSUME MemoryInv, NEW k \in Keys, k \notin Cached, NEW n \in Nat, Insert(k, n),
         capacity' = capacity
  PROVE  Kept
<1> DEFINE c == [cost EXCEPT ![k] = n]
<1>1. /\ ll \in Lists /\ cost \in [Keys -> Nat] /\ CostIsSum /\ capacity \in Capacities
      /\ IsFiniteSet(Cached) /\ Cached \subseteq Keys /\ Len(ll) \in Nat
      /\ capacity.count \in Int /\ capacity.cost \in Int
  BY LimitType, ListLength, ListType DEF MemoryInv, MemoryType, Cached
<1>2. c \in [Keys -> Nat] /\ c[k] = n /\ \A j \in Keys : j # k => c[j] = cost[j]
  BY <1>1
<1>3. PICK m \in 0..Len(ll) :
        /\ AfterEvictByCost(AfterEvictByCount(ll), cost, 0) = Newest(ll, m)
        /\ capacity.count > 0 => m + 1 =< capacity.count
        /\ m = 0 \/ capacity.cost =< 0 \/ Left(Newest(ll, m), cost, 0) =< capacity.cost
  BY <1>1, InsertKeeps
<1> DEFINE rest == Newest(ll, m)
           s == <<k>> \o rest
<1>4. Keep(s, c, n)
  BY <1>3 DEF Insert
<1> HIDE DEF c, s, rest
<1>5. rest \in Lists /\ Len(rest) = m /\ ToSet(rest) \subseteq Cached
  BY <1>1, NewestListed DEF rest, Cached
<1>6. k \notin ToSet(rest)
  BY <1>5
<1>7. s \in Lists /\ Len(s) = m + 1 /\ ToSet(s) = {k} \cup ToSet(rest)
  BY <1>5, <1>6, FrontListed DEF s
<1>8. Left(rest, cost, 0) = CostOf(ToSet(rest), cost) /\ CostOf(ToSet(rest), cost) \in Nat
  <2>1. currentCost = CostOf(Cached, cost) /\ CostOf(Cached, cost) \in Nat
    BY <1>1, CostNat DEF CostIsSum
  <2>2. currentCost \in Int /\ 0 \in Int /\ currentCost + 0 = CostOf(Cached, cost)
    BY <2>1
  <2>3. QED
    BY <1>1, <1>5, <2>2, LeftIsCost
\* What is there besides k costs what it did.
<1>9. Left(s, c, n) = Left(rest, cost, 0) + n
  <2>1. Cached \ ToSet(s) = Cached \ ToSet(rest)
    BY <1>7
  <2>2. CostOf(Cached \ ToSet(rest), c) = CostOf(Cached \ ToSet(rest), cost)
    BY <1>1, <1>2, CostOfSame
  <2>3. CostOf(Cached \ ToSet(rest), cost) \in Nat
    <3>1. IsFiniteSet(Cached \ ToSet(rest))
      BY <1>1, FS_Difference
    <3>2. QED
      BY <1>1, <3>1, CostNat
  <2>4. currentCost \in Nat
    BY <1>1, CostNat DEF CostIsSum
  <2> DEFINE x == CostOf(Cached \ ToSet(rest), cost)
  <2>5. /\ Left(s, c, n) = currentCost + n - x /\ Left(rest, cost, 0) = currentCost + 0 - x
        /\ x \in Nat
    BY <2>1, <2>2, <2>3 DEF Left
  <2> HIDE DEF x
  <2>6. QED
    BY <2>4, <2>5
<1>10. Left(s, c, n) = CostOf(ToSet(s), c)
  <2>1. IsFiniteSet({k}) /\ IsFiniteSet(ToSet(rest)) /\ {k} \cap ToSet(rest) = {}
    BY <1>5, <1>6, FS_Singleton, ListLength
  <2>2. \A j \in {k} \cup ToSet(rest) : c[j] \in Nat
    BY <1>1, <1>2, <1>5
  <2>3. CostOf({k} \cup ToSet(rest), c) = CostOf({k}, c) + CostOf(ToSet(rest), c)
    BY <2>1, <2>2, CostOfBoth
  <2>4. CostOf(ToSet(rest), c) = CostOf(ToSet(rest), cost)
    BY <1>1, <1>2, <1>5, <1>6, CostOfSame
  <2>5. CostOf({k}, c) = n
    BY <1>2, CostOfOne
  <2> DEFINE x == CostOf(ToSet(rest), cost)
             y == CostOf(ToSet(s), c)
  <2>6. y = n + x /\ Left(s, c, n) = x + n /\ x \in Nat
    BY <1>7, <1>8, <1>9, <2>3, <2>4, <2>5
  <2> HIDE DEF x, y
  <2>7. Left(s, c, n) = y
    BY <2>6
  <2>8. QED
    BY <2>7 DEF y
<1>11. /\ ll' = s /\ Cached' = ToSet(s) /\ cost' \in [Keys -> Nat] /\ CostIsSum'
       /\ cost'[k] = n
  BY <1>2, <1>4, <1>7, <1>10, KeepSums
<1>12. CountBounded'
  BY <1>1, <1>3, <1>7, <1>11 DEF CountBounded
<1>13. CostBounded'
  <2>1. currentCost' = Left(rest, cost, 0) + n /\ Left(rest, cost, 0) \in Nat
    BY <1>4, <1>8, <1>9 DEF Keep
  <2>2. k \in Cached' /\ currentCost' - cost'[k] = Left(rest, cost, 0)
    BY <1>7, <1>11, <2>1
  <2>3. capacity.cost > 0 => Left(rest, cost, 0) =< capacity.cost
    <3>1. CASE m = 0
      <4>1. ToSet(rest) = {}
        BY <1>5, <3>1, ListType
      <4>2. Left(rest, cost, 0) = 0
        BY <1>8, <4>1, CostOfNone
      <4>3. QED
        BY <1>1, <4>2
    <3>2. QED
      BY <1>1, <1>3, <3>1 DEF rest
  <2>4. QED
    BY <2>2, <2>3 DEF CostBounded
<1>14. QED
  BY <1>7, <1>11, <1>12, <1>13 DEF Kept, LimitsKept

\* So does every put.
LEMMA PutStep ==
  ASSUME MemoryInv, NEW k \in Keys, NEW n \in Costs, PutEntry(k, n), capacity' = capacity
  PROVE  Kept
<1>1. n \in Nat
  BY MemoryCacheAssumption
<1>2. CASE k \in Cached
  BY <1>1, <1>2, UpdateStep DEF PutEntry
<1>3. CASE k \notin Cached
  BY <1>1, <1>3, InsertStep DEF PutEntry
<1>4. QED
  BY <1>2, <1>3

\* The entry that made the cost too high may go, or another.
LEMMA DeleteStep ==
  ASSUME MemoryInv, NEW k \in Keys, Delete(k)
  PROVE  Kept
<1> DEFINE s == Without(k)
<1>1. /\ ll \in Lists /\ cost \in [Keys -> Nat] /\ CostIsSum /\ k \in Cached
      /\ IsFiniteSet(Cached) /\ Cached \subseteq Keys /\ Len(ll) \in Nat
      /\ capacity.count \in Int /\ capacity.cost \in Int /\ capacity' = capacity
  BY LimitType, ListLength, ListType DEF MemoryInv, MemoryType, Cached, Delete
<1>2. s \in Lists /\ Len(s) = Len(ll) - 1 /\ ToSet(s) = Cached \ {k}
  BY <1>1, WithoutListed
<1>3. Keep(s, cost, 0)
  BY DEF Delete
<1> HIDE DEF s
<1>4. currentCost = CostOf(Cached, cost) /\ currentCost \in Nat
  BY <1>1, CostNat DEF CostIsSum
<1>5. Left(s, cost, 0) = CostOf(ToSet(s), cost)
  <2>1. currentCost \in Int /\ 0 \in Int /\ currentCost + 0 = CostOf(Cached, cost)
    BY <1>4
  <2>2. ToSet(s) \subseteq Cached
    BY <1>2
  <2>3. QED
    BY <1>1, <1>2, <2>1, <2>2, LeftIsCost
<1>6. /\ ll' = s /\ Cached' = ToSet(s) /\ cost' \in [Keys -> Nat] /\ CostIsSum'
      /\ \A j \in ToSet(s) : cost'[j] = cost[j]
  BY <1>1, <1>2, <1>3, <1>5, KeepSums
<1>7. CountBounded'
  BY <1>1, <1>2, <1>6 DEF CountBounded, MemoryInv, LimitsKept
<1>8. currentCost' = currentCost - cost[k]
  <2>1. CostOf(Cached \ {k}, cost) = CostOf(Cached, cost) - CostOf({k}, cost)
    BY <1>1, CostOfRest
  <2>2. CostOf({k}, cost) = cost[k]
    BY <1>1, CostOfOne
  <2>3. currentCost' = CostOf(Cached \ {k}, cost)
    BY <1>2, <1>3, <1>5 DEF Keep
  <2>4. QED
    BY <1>4, <2>1, <2>2, <2>3
<1>9. CostBounded'
  <2>1. SUFFICES ASSUME capacity.cost > 0
                 PROVE  \/ currentCost' =< capacity.cost
                        \/ \E j \in Cached' : currentCost' - cost'[j] =< capacity.cost
    BY <1>1 DEF CostBounded
  <2>2. cost[k] \in Nat /\ \A j \in Cached : cost[j] \in Nat
    BY <1>1
  <2>3. CASE currentCost =< capacity.cost
    BY <1>1, <1>4, <1>8, <2>2, <2>3
  <2>4. CASE \E j \in Cached : currentCost - cost[j] =< capacity.cost
    <3>1. PICK j \in Cached : currentCost - cost[j] =< capacity.cost
      BY <2>4
    <3>2. CASE j = k
      BY <1>8, <3>1, <3>2
    <3>3. CASE j # k
      <4>1. j \in Cached' /\ cost'[j] = cost[j]
        BY <1>2, <1>6, <3>3
      <4>2. currentCost' - cost'[j] =< capacity.cost
        BY <1>1, <1>4, <1>8, <2>2, <3>1, <4>1
      <4>3. QED
        BY <4>1, <4>2
    <3>4. QED
      BY <3>2, <3>3
  <2>5. QED
    BY <2>1, <2>3, <2>4 DEF MemoryInv, LimitsKept, CostBounded
<1>10. QED
  BY <1>2, <1>6, <1>7, <1>9 DEF Kept, LimitsKept

\* A list in another order keeps what it has.
LEMMA SameEntries ==
  ASSUME MemoryInv, ll' \in Lists, Len(ll') = Len(ll), Cached' = Cached,
         UNCHANGED <<capacity, cost, currentCost>>
  PROVE  Kept
<1>1. CostIsSum'
  BY DEF MemoryInv, CostIsSum
<1>2. CountBounded' /\ CostBounded'
  BY DEF MemoryInv, LimitsKept, CountBounded, CostBounded
<1>3. QED
  BY <1>1, <1>2 DEF Kept, LimitsKept, MemoryInv, MemoryType

\* Moving a key to the front changes neither.
LEMMA MoveStep ==
  ASSUME MemoryInv, NEW k \in Cached, ll' = Moved(k), UNCHANGED <<capacity, cost, currentCost>>
  PROVE  Kept
<1>1. ll \in Lists
  BY DEF MemoryInv, MemoryType
<1>2. ll' \in Lists /\ Len(ll') = Len(ll) /\ Cached' = Cached
  BY <1>1, MovedListed DEF Cached
<1>3. QED
  BY <1>2, SameEntries

\* Nor does a step that only looks.
LEMMA StayStep ==
  ASSUME MemoryInv, UNCHANGED <<capacity, ll, cost, currentCost>>
  PROVE  Kept
<1>1. ll' \in Lists /\ Len(ll') = Len(ll) /\ Cached' = Cached
  BY DEF Cached, MemoryInv, MemoryType
<1>2. QED
  BY <1>1, SameEntries

\* Every step keeps the invariant.
LEMMA MemoryStep ==
  ASSUME MemoryInv, [Next]_vars
  PROVE  MemoryInv'
<1> DEFINE Goroutines ==
             /\ capacity \in Capacities
             /\ at \in [Procs -> {"out", "touch", "compute"}]
             /\ wanted \in [Procs -> Keys \cup {None}]
             /\ \A p \in Procs : at[p] # "out" => wanted[p] \in Keys
<1>1. Goroutines
  BY DEF MemoryInv, MemoryType
<1>2. Kept /\ Goroutines' => MemoryInv'
  BY DEF Kept, MemoryInv, MemoryType
<1>3. ASSUME NEW k \in Keys, Get(k)
      PROVE  Kept /\ Goroutines'
  <2>1. Kept
    BY <1>3, MoveStep DEF Get
  <2>2. Goroutines'
    BY <1>1, <1>3 DEF Get
  <2>3. QED
    BY <2>1, <2>2
<1>4. ASSUME NEW k \in Keys, Delete(k)
      PROVE  Kept /\ Goroutines'
  <2>1. Kept
    BY <1>4, DeleteStep
  <2>2. Goroutines'
    BY <1>1, <1>4 DEF Delete
  <2>3. QED
    BY <2>1, <2>2
<1>5. ASSUME NEW k \in Keys, NEW n \in Costs, Put(k, n)
      PROVE  Kept /\ Goroutines'
  <2>1. Kept
    BY <1>5, PutStep DEF Put
  <2>2. Goroutines'
    BY <1>1, <1>5 DEF Put
  <2>3. QED
    BY <2>1, <2>2
<1>6. ASSUME NEW p \in Procs, NEW k \in Keys, Look(p, k)
      PROVE  Kept /\ Goroutines'
  <2>1. Kept
    BY <1>6, StayStep DEF Look
  <2>2. Goroutines'
    BY <1>1, <1>6 DEF Look
  <2>3. QED
    BY <2>1, <2>2
<1>7. ASSUME NEW p \in Procs, Touch(p)
      PROVE  Kept /\ Goroutines'
  <2>1. ASSUME wanted[p] \in Cached
        PROVE  Kept
    <3>1. PICK k \in Cached : k = wanted[p]
      BY <2>1
    <3>2. ll' = Moved(k) /\ UNCHANGED <<capacity, cost, currentCost>>
      BY <1>7, <3>1 DEF Touch
    <3>3. QED
      BY <3>2, MoveStep
  <2>2. ASSUME wanted[p] \notin Cached
        PROVE  Kept
    <3>1. UNCHANGED <<capacity, ll, cost, currentCost>>
      BY <1>7, <2>2 DEF Touch
    <3>2. QED
      BY <3>1, StayStep
  <2>3. Goroutines'
    BY <1>1, <1>7 DEF Touch
  <2>4. QED
    BY <2>1, <2>2, <2>3
<1>8. ASSUME NEW p \in Procs, NEW n \in Costs, Compute(p, n)
      PROVE  Kept /\ Goroutines'
  <2>1. PICK k \in Keys : k = wanted[p]
    BY <1>1, <1>8 DEF Compute
  <2>2. capacity' = capacity
    BY <1>8 DEF Compute
  <2>3. ASSUME k \in Cached /\ ll' = Moved(k) /\ UNCHANGED <<cost, currentCost>>
        PROVE  Kept
    BY <2>2, <2>3, MoveStep
  <2>4. ASSUME PutEntry(k, n)
        PROVE  Kept
    BY <2>2, <2>4, PutStep
  <2>5. ASSUME UNCHANGED <<ll, cost, currentCost>>
        PROVE  Kept
    <3>1. UNCHANGED <<capacity, ll, cost, currentCost>>
      BY <2>2, <2>5
    <3>2. QED
      BY <3>1, StayStep
  <2>6. Goroutines'
    BY <1>1, <1>8 DEF Compute
  <2>7. QED
    BY <1>8, <2>1, <2>3, <2>4, <2>5, <2>6 DEF Compute
<1>9. CASE UNCHANGED vars
  <2>1. Kept
    BY <1>9, StayStep DEF vars
  <2>2. Goroutines'
    BY <1>1, <1>9 DEF vars
  <2>3. QED
    BY <1>2, <2>1, <2>2
<1>10. QED
  BY <1>2, <1>3, <1>4, <1>5, <1>6, <1>7, <1>8, <1>9 DEF Next

-----------------------------------------------------------------------------
(* What a put evicts.                                                      *)

\* An entry that is moved to the front passes the others, which keep their order.
LEMMA MovedOrder ==
  ASSUME ll \in Lists, NEW k \in Cached, NEW i \in 1..Len(ll), NEW m \in 0..Len(ll),
         NEW j \in 1..Len(ll), i < j, ll[j] # k, ll[j] \in ToSet(Newest(Moved(k), m))
  PROVE  ll[i] \in ToSet(Newest(Moved(k), m))
<1> DEFINE s == Moved(k)
           w == Without(k)
           p == Place(k)
<1>1. /\ Len(ll) \in Nat /\ Once(ll) /\ p \in 1..Len(ll) /\ ll[p] = k
      /\ s \in Lists /\ Len(s) = Len(ll) /\ s[1] = k
      /\ \A h \in 1..(Len(ll) - 1) : s[h + 1] = w[h]
      /\ \A h \in 1..(Len(ll) - 1) : w[h] = IF h < p THEN ll[h] ELSE ll[h + 1]
  BY ListType, WithoutListed, MovedListed DEF Lists
<1>2. ToSet(Newest(s, m)) = {s[h] : h \in 1..m}
  <2> HIDE DEF s
  <2>1. QED
    BY <1>1, NewestListed
<1> HIDE DEF s, w, p
<1>3. ASSUME NEW h \in 1..Len(ll), ll[h] # k
      PROVE  /\ h < p => h + 1 \in 1..Len(ll) /\ s[h + 1] = ll[h]
             /\ p < h => s[h] = ll[h]
             /\ h # p
  <2>1. h # p
    BY <1>1, <1>3
  <2>2. ASSUME h < p
        PROVE  h + 1 \in 1..Len(ll) /\ s[h + 1] = ll[h]
    <3>1. h \in 1..(Len(ll) - 1) /\ h + 1 \in 1..Len(ll)
      BY <1>1, <2>2
    <3>2. QED
      BY <1>1, <2>2, <3>1
  <2>3. ASSUME p < h
        PROVE  s[h] = ll[h]
    <3>1. h - 1 \in 1..(Len(ll) - 1) /\ ~(h - 1 < p) /\ (h - 1) + 1 = h
      BY <1>1, <2>3
    <3>2. s[(h - 1) + 1] = w[h - 1] /\ w[h - 1] = ll[(h - 1) + 1]
      BY <1>1, <3>1
    <3>3. QED
      BY <3>1, <3>2
  <2>4. QED
    BY <2>1, <2>2, <2>3
\* The place of ll[j] in s is at most m, and that of ll[i] is less.
<1>4. PICK y \in 1..m : s[y] = ll[j]
  BY <1>2 DEF s
<1>5. \A g, h \in 1..Len(ll) : s[g] = s[h] => g = h
  BY <1>1 DEF Lists, Once
<1>6. IF j < p THEN y = j + 1 ELSE y = j
  <2>1. y \in 1..Len(ll)
    BY <1>1
  <2>2. QED
    BY <1>1, <1>3, <1>4, <1>5, <2>1
<1>7. \E x \in 1..m : s[x] = ll[i]
  <2>1. CASE ll[i] = k
    <3>1. 1 \in 1..m
      OBVIOUS
    <3>2. QED
      BY <1>1, <2>1, <3>1
  <2>2. CASE ll[i] # k /\ i < p
    <3>1. s[i + 1] = ll[i]
      BY <1>3, <2>2
    <3>2. i # p /\ j # p
      BY <1>3, <2>2
    <3>3. i + 1 \in 1..m
      BY <1>1, <1>6, <2>2, <3>2
    <3>4. QED
      BY <3>1, <3>3
  <2>3. CASE ll[i] # k /\ ~(i < p)
    <3>1. p < i
      BY <1>1, <1>3, <2>3
    <3>2. s[i] = ll[i]
      BY <1>3, <2>3, <3>1
    <3>3. i \in 1..m
      BY <1>1, <1>6, <3>1
    <3>4. QED
      BY <3>2, <3>3
  <2>4. QED
    BY <2>1, <2>2, <2>3
<1>8. QED
  BY <1>2, <1>7 DEF s

\* put keeps what was used after what it keeps.
LEMMA PutOrder ==
  ASSUME MemoryInv, NEW k \in Keys, NEW n, PutEntry(k, n),
         NEW i \in 1..Len(ll), NEW j \in 1..Len(ll), i < j, ll[j] \in ToSet(ll'), ll[j] # k
  PROVE  ll[i] \in ToSet(ll')
<1>1. ll \in Lists /\ capacity \in Capacities
  BY DEF MemoryInv, MemoryType
<1>2. CASE k \in Cached
  <2>1. PICK c, added : ll' = AfterEvictByCost(Moved(k), c, added)
    BY <1>2 DEF PutEntry, Update, Keep
  <2>2. Moved(k) \in Lists /\ Len(Moved(k)) = Len(ll)
    BY <1>1, <1>2, MovedListed
  <2>3. PICK m \in 0..Len(ll) : ll' = Newest(Moved(k), m)
    BY <2>1, <2>2, EvictedByCost
  <2>4. QED
    BY <1>1, <1>2, <2>3, MovedOrder
<1>3. CASE k \notin Cached
  <2>1. PICK m \in 0..Len(ll) : ll' = <<k>> \o Newest(ll, m)
    BY <1>1, <1>3, InsertKeeps DEF PutEntry, Insert, Keep
  <2>2. /\ Newest(ll, m) \in Lists /\ ToSet(Newest(ll, m)) = {ll[h] : h \in 1..m}
        /\ ToSet(Newest(ll, m)) \subseteq Cached
    BY <1>1, NewestListed DEF Cached
  <2>3. ToSet(ll') = {k} \cup {ll[h] : h \in 1..m}
    BY <1>3, <2>1, <2>2, FrontListed
  <2>4. PICK h \in 1..m : ll[h] = ll[j]
    BY <2>3
  <2>5. h = j
    BY <1>1, <2>4 DEF Lists, Once
  <2>6. i \in 1..m
    BY <2>5
  <2>7. QED
    BY <2>3, <2>6
<1>4. QED
  BY <1>2, <1>3

-----------------------------------------------------------------------------
(* The theorems.                                                           *)

\* The cache's state keeps its types, its list each key once, its sum and its limits,
\* for any keys, costs, limits and number of goroutines.
THEOREM MemoryInvariant == Spec => []MemoryInv
<1>1. Init => MemoryInv
  <2> SUFFICES ASSUME Init PROVE MemoryInv
    OBVIOUS
  <2>1. capacity \in Capacities /\ ll = <<>> /\ Cached = {}
    BY DEF Init, Cached, ToSet
  <2>2. ll \in Lists /\ Len(ll) = 0
    BY <2>1 DEF Lists, Once
  <2>3. MemoryType
    BY <2>1, <2>2 DEF Init, MemoryType
  <2>4. CostIsSum
    BY <2>1, CostOfNone DEF Init, CostIsSum
  <2>5. LimitsKept
    BY <2>1, <2>2, LimitType DEF Init, LimitsKept, CountBounded, CostBounded
  <2>6. QED
    BY <2>3, <2>4, <2>5 DEF MemoryInv
<1>2. MemoryInv /\ [Next]_vars => MemoryInv'
  BY MemoryStep
<1>3. QED
  BY <1>1, <1>2, PTL DEF Spec

\* Every variable has its type, and a key is in the list once at most (put, get and
\* removeElement keep list and map together).
THEOREM MemoryTyped == Spec => []TypeOK
<1>1. MemoryInv => TypeOK
  <2> SUFFICES ASSUME MemoryInv PROVE TypeOK
    OBVIOUS
  <2>1. MemoryType /\ ll \in Lists /\ cost \in [Keys -> Nat]
    BY DEF MemoryInv, MemoryType
  <2>2. ll \in Seq(Keys) /\ Len(ll) = Cardinality(Cached)
    BY <2>1, ListLength, ListType DEF Cached
  <2>3. currentCost \in Nat
    <3>1. IsFiniteSet(Cached) /\ \A k \in Cached : cost[k] \in Nat
      BY <2>1, ListLength, ListType DEF Cached
    <3>2. QED
      BY <3>1, CostNat DEF MemoryInv, CostIsSum
  <2>4. QED
    BY <2>1, <2>2, <2>3 DEF TypeOK, MemoryType
<1>2. QED
  BY <1>1, MemoryInvariant, PTL

\* currentCost is what the entries cost.
THEOREM CostExact == Spec => []CostIsSum
<1>1. MemoryInv => CostIsSum
  BY DEF MemoryInv
<1>2. QED
  BY <1>1, MemoryInvariant, PTL

\* Both limits are kept, but for the one entry put last.
THEOREM LimitsHold == Spec => []LimitsKept
<1>1. MemoryInv => LimitsKept
  BY DEF MemoryInv
<1>2. QED
  BY <1>1, MemoryInvariant, PTL

\* put and LoadOrCompute evict the least recently used first (evictByCount, evictByCost).
THEOREM OldestEvicted == Spec => EvictsOldest
<1> DEFINE Oldest ==
             last'.op \in {"put", "compute"} =>
               \A i, j \in DOMAIN ll :
                 i < j /\ ll[j] \in ToSet(ll') /\ ll[j] # last'.key => ll[i] \in ToSet(ll')
<1>1. MemoryInv /\ [Next]_vars => [Oldest]_vars
  <2> SUFFICES ASSUME MemoryInv, Next, last'.op \in {"put", "compute"} PROVE Oldest
    BY DEF vars
  <2>1. \E k \in Keys : last'.key = k /\ \E n \in Costs : PutEntry(k, n)
    <3>1. ASSUME NEW p \in Procs, NEW n \in Costs, Compute(p, n)
          PROVE  last'.key = wanted[p] /\ PutEntry(wanted[p], n) /\ wanted[p] \in Keys
      BY <3>1 DEF Compute, Did, MemoryInv, MemoryType
    <3>2. QED
      BY <3>1 DEF Next, Get, Delete, Put, Look, Touch, Did
  <2>2. PICK k \in Keys, n \in Costs : last'.key = k /\ PutEntry(k, n)
    BY <2>1
  <2>3. DOMAIN ll = 1..Len(ll)
    BY ListType DEF MemoryInv, MemoryType
  <2>4. QED
    BY <2>2, <2>3, PutOrder
<1>2. QED
  BY <1>1, MemoryInvariant, PTL DEF Spec, EvictsOldest
=============================================================================
