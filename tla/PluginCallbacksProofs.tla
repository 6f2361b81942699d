----------------------- MODULE PluginCallbacksProofs -----------------------
(***************************************************************************)
(* Proofs about the callback registry, for any plugins, scripts,           *)
(* priorities and numbers of threads.  Sorting and committing are shown to *)
(* keep every callback by counting: an injective rank into as many places  *)
(* leaves none of them empty.                                              *)
(***************************************************************************)
EXTENDS PluginCallbacks, FiniteSetTheorems, TLAPS

-----------------------------------------------------------------------------
\* Removing an element shifts those behind it.
LEMMA RemovedAt ==
    ASSUME NEW S, NEW s \in Seq(S), NEW k \in 1..Len(s)
    PROVE  /\ RemoveAt(s, k) \in Seq(S) /\ Len(RemoveAt(s, k)) = Len(s) - 1
           /\ \A j \in 1..Len(s) - 1 : RemoveAt(s, k)[j] = IF j < k THEN s[j] ELSE s[j + 1]
  <1>1. /\ SubSeq(s, 1, k - 1) \in Seq(S) /\ Len(SubSeq(s, 1, k - 1)) = k - 1
        /\ \A j \in 1..k - 1 : SubSeq(s, 1, k - 1)[j] = s[j]
    OBVIOUS
  <1>2. /\ SubSeq(s, k + 1, Len(s)) \in Seq(S) /\ Len(SubSeq(s, k + 1, Len(s))) = Len(s) - k
        /\ \A j \in 1..Len(s) - k : SubSeq(s, k + 1, Len(s))[j] = s[k + j]
    OBVIOUS
  <1>3. /\ RemoveAt(s, k) \in Seq(S) /\ Len(RemoveAt(s, k)) = (k - 1) + (Len(s) - k)
        /\ \A j \in 1..(k - 1) + (Len(s) - k) : RemoveAt(s, k)[j] =
              IF j <= k - 1 THEN SubSeq(s, 1, k - 1)[j]
                            ELSE SubSeq(s, k + 1, Len(s))[j - (k - 1)]
    <2> HIDE <1>1, <1>2
    <2> DEFINE a == SubSeq(s, 1, k - 1)  b == SubSeq(s, k + 1, Len(s))
    <2>1. a \in Seq(S) /\ b \in Seq(S) /\ Len(a) = k - 1 /\ Len(b) = Len(s) - k
      BY <1>1, <1>2
    <2>2. RemoveAt(s, k) = a \o b
      BY DEF RemoveAt
    <2> HIDE DEF a, b
    <2>3. a \o b \in Seq(S) /\ Len(a \o b) = Len(a) + Len(b)
      BY <2>1
    <2>4. \A j \in 1..Len(a) + Len(b) : (a \o b)[j] = IF j <= Len(a) THEN a[j] ELSE b[j - Len(a)]
      BY <2>1
    <2> QED
      BY <2>1, <2>2, <2>3, <2>4 DEF a, b
  <1>4. \A j \in 1..Len(s) - 1 : RemoveAt(s, k)[j] = IF j < k THEN s[j] ELSE s[j + 1]
    <2> SUFFICES ASSUME NEW j \in 1..Len(s) - 1
                 PROVE  RemoveAt(s, k)[j] = IF j < k THEN s[j] ELSE s[j + 1]
      OBVIOUS
    <2>1. CASE j < k
      BY <1>1, <1>3, <2>1
    <2>2. CASE ~(j < k)
      <3>1. j - (k - 1) \in 1..Len(s) - k /\ k + (j - (k - 1)) = j + 1
        BY <2>2
      <3> QED
        BY <1>2, <1>3, <2>2, <3>1
    <2> QED
      BY <2>1, <2>2
  <1> QED
    BY <1>3, <1>4

\* Every position keeps its element or moves to the front by one.
LEMMA RemovedElements ==
    ASSUME NEW S, NEW s \in Seq(S), NEW k \in 1..Len(s),
           \A i, j \in 1..Len(s) : s[i] = s[j] => i = j
    PROVE  /\ \A i, j \in 1..Len(RemoveAt(s, k)) :
                 RemoveAt(s, k)[i] = RemoveAt(s, k)[j] => i = j
           /\ ToSet(RemoveAt(s, k)) = ToSet(s) \ {s[k]}
  <1> DEFINE r == RemoveAt(s, k)
             at(j) == IF j < k THEN j ELSE j + 1
  <1>1. r \in Seq(S) /\ Len(r) = Len(s) - 1 /\ \A j \in 1..Len(s) - 1 : r[j] = s[at(j)]
    BY RemovedAt
  <1>2. \A j \in 1..Len(s) - 1 : at(j) \in 1..Len(s) /\ at(j) # k
    OBVIOUS
  <1>3. \A i, j \in 1..Len(s) - 1 : at(i) = at(j) => i = j
    OBVIOUS
  <1>4. \A l \in 1..Len(s) : l # k => \E j \in 1..Len(s) - 1 : at(j) = l
    <2> SUFFICES ASSUME NEW l \in 1..Len(s), l # k
                 PROVE  \E j \in 1..Len(s) - 1 : at(j) = l
      OBVIOUS
    <2>1. CASE l < k
      BY <2>1
    <2>2. CASE l > k
      <3>1. l - 1 \in 1..Len(s) - 1 /\ at(l - 1) = l
        BY <2>2
      <3> QED
        BY <3>1
    <2> QED
      BY <2>1, <2>2
  <1> HIDE DEF r, at
  <1>5. \A i, j \in 1..Len(r) : r[i] = r[j] => i = j
    BY <1>1, <1>2, <1>3
  <1>6. ToSet(r) = {r[j] : j \in 1..Len(s) - 1} /\ ToSet(s) = {s[j] : j \in 1..Len(s)}
    BY <1>1 DEF ToSet
  <1>7. ToSet(r) \subseteq ToSet(s) \ {s[k]}
    <2> SUFFICES ASSUME NEW j \in 1..Len(s) - 1 PROVE r[j] \in ToSet(s) \ {s[k]}
      BY <1>6
    <2>1. r[j] = s[at(j)] /\ at(j) \in 1..Len(s) /\ at(j) # k
      BY <1>1, <1>2
    <2>2. s[at(j)] \in ToSet(s) /\ s[at(j)] # s[k]
      BY <1>6, <2>1
    <2> QED
      BY <2>1, <2>2
  <1>8. ASSUME NEW e \in ToSet(s), e # s[k] PROVE e \in ToSet(r)
    <2>1. PICK l \in 1..Len(s) : s[l] = e
      BY <1>6
    <2>2. PICK j \in 1..Len(s) - 1 : at(j) = l
      BY <1>4, <1>8, <2>1
    <2>3. r[j] = e
      BY <1>1, <2>1, <2>2
    <2> QED
      BY <1>6, <2>3
  <1> QED
    BY <1>5, <1>7, <1>8 DEF r

\* An appended element is the last, and the others keep their places.
LEMMA AppendedElements ==
    ASSUME NEW S, NEW s \in Seq(S), NEW e \in S
    PROVE  /\ Append(s, e) \in Seq(S) /\ Len(Append(s, e)) = Len(s) + 1
           /\ ToSet(Append(s, e)) = ToSet(s) \cup {e}
           /\ \A i \in 1..Len(s) : Append(s, e)[i] = s[i]
           /\ Append(s, e)[Len(s) + 1] = e
  <1> DEFINE r == Append(s, e)
  <1>1. /\ r \in Seq(S) /\ Len(r) = Len(s) + 1
        /\ \A i \in 1..Len(s) : r[i] = s[i]
        /\ r[Len(s) + 1] = e
    OBVIOUS
  <1>2. ToSet(r) = {r[j] : j \in 1..Len(s) + 1} /\ ToSet(s) = {s[j] : j \in 1..Len(s)}
    BY <1>1 DEF ToSet
  <1>3. \A i \in 1..Len(s) + 1 : i \in 1..Len(s) \/ i = Len(s) + 1
    OBVIOUS
  <1>4. \A i \in 1..Len(s) : i \in 1..Len(s) + 1
    OBVIOUS
  <1>5. Len(s) + 1 \in 1..Len(s) + 1
    OBVIOUS
  <1> HIDE DEF r
  <1>6. ToSet(r) \subseteq ToSet(s) \cup {e}
    BY <1>1, <1>2, <1>3
  <1>7. ToSet(s) \subseteq ToSet(r)
    BY <1>1, <1>2, <1>4
  <1>8. e \in ToSet(r)
    BY <1>1, <1>2, <1>5
  <1> QED
    BY <1>1, <1>6, <1>7, <1>8 DEF r

-----------------------------------------------------------------------------

\* A strict subset of a finite set has fewer elements.
LEMMA FewerElements ==
    ASSUME NEW S, IsFiniteSet(S), NEW T \in SUBSET S, NEW x \in S, x \notin T
    PROVE  /\ Cardinality(T) \in Nat /\ Cardinality(S) \in Nat
           /\ Cardinality(T) < Cardinality(S)
  <1>1. /\ IsFiniteSet(T) /\ Cardinality(T) <= Cardinality(S)
        /\ Cardinality(S) = Cardinality(T) => S = T
    BY FS_Subset
  <1>2. Cardinality(S) \in Nat /\ Cardinality(T) \in Nat
    BY <1>1, FS_CardinalityType
  <1> QED
    BY <1>1, <1>2

LEMMA Positions ==
    ASSUME NEW n \in Nat
    PROVE  IsFiniteSet(1 .. n) /\ Cardinality(1 .. n) = n
  <1>1. IsFiniteSet(1 .. n) /\ Cardinality(1 .. n) = IF 1 > n THEN 0 ELSE n - 1 + 1
    BY FS_Interval
  <1> QED
    BY <1>1

\* Counting from the first to the last reaches every number.
LEMMA InjectionOnto ==
    ASSUME NEW S, IsFiniteSet(S), NEW f \in [S -> 1 .. Cardinality(S)],
           \A x, y \in S : f[x] = f[y] => x = y
    PROVE  \A k \in 1 .. Cardinality(S) : \E x \in S : f[x] = k
  <1>1. Cardinality(S) \in Nat
    BY FS_CardinalityType
  <1>2. /\ IsFiniteSet(1 .. Cardinality(S))
        /\ Cardinality(1 .. Cardinality(S)) = Cardinality(S)
    BY <1>1, Positions
  <1>3. f \in Injection(S, 1 .. Cardinality(S))
    BY DEF Injection, IsInjective
  <1>4. f \in Surjection(S, 1 .. Cardinality(S))
    BY <1>2, <1>3, FS_Injection
  <1> QED
    BY <1>4 DEF Surjection

-----------------------------------------------------------------------------
\* Sorting: positions are told apart by their ranks.
Before(s, j, i) == \/ Priority[s[j]] > Priority[s[i]]
                   \/ Priority[s[j]] = Priority[s[i]] /\ j <= i
Ahead(s, i) == {j \in 1 .. Len(s) : Before(s, j, i)}

LEMMA RankOrder ==
    ASSUME NEW s \in Seq(Callbacks), NEW i \in 1 .. Len(s), NEW j \in 1 .. Len(s),
           i # j, Before(s, i, j)
    PROVE  Rank(s, i) < Rank(s, j) /\ Rank(s, i) \in Nat /\ Rank(s, j) \in Nat
  <1>0. \A k \in 1 .. Len(s) : Priority[s[k]] \in Nat
    BY CallbacksAssumption
  <1>1. Rank(s, i) = Cardinality(Ahead(s, i)) /\ Rank(s, j) = Cardinality(Ahead(s, j))
    BY DEF Rank, Ahead, Before
  <1>2. IsFiniteSet(Ahead(s, j))
    <2>1. IsFiniteSet(1 .. Len(s))
      BY Positions
    <2> QED
      BY <2>1, FS_Subset DEF Ahead
  <1>3. Ahead(s, i) \subseteq Ahead(s, j)
    BY <1>0 DEF Ahead, Before
  <1>4. j \in Ahead(s, j) /\ j \notin Ahead(s, i)
    BY <1>0 DEF Ahead, Before
  <1> QED
    BY <1>1, <1>2, <1>3, <1>4, FewerElements

LEMMA RankOnto ==
    ASSUME NEW s \in Seq(Callbacks)
    PROVE  \A k \in 1 .. Len(s) : \E i \in 1 .. Len(s) : Rank(s, i) = k
  <1> DEFINE D == 1 .. Len(s)
             f == [i \in D |-> Rank(s, i)]
  <1>1. IsFiniteSet(D) /\ Cardinality(D) = Len(s)
    BY Positions
  <1>2. \A i \in D : Rank(s, i) \in 1 .. Len(s)
    <2> SUFFICES ASSUME NEW i \in D PROVE Rank(s, i) \in 1 .. Len(s)
      OBVIOUS
    <2>1. Rank(s, i) = Cardinality(Ahead(s, i)) /\ i \in Ahead(s, i) /\ Ahead(s, i) \subseteq D
      BY CallbacksAssumption DEF Rank, Ahead, Before
    <2>2. IsFiniteSet(Ahead(s, i)) /\ Cardinality(Ahead(s, i)) <= Len(s)
      BY <1>1, <2>1, FS_Subset
    <2>3. Cardinality(Ahead(s, i)) \in Nat /\ Cardinality(Ahead(s, i)) # 0
      BY <2>1, <2>2, FS_CardinalityType, FS_EmptySet
    <2> QED
      BY <2>1, <2>2, <2>3
  <1>3. \A i, j \in D : f[i] = f[j] => i = j
    <2> SUFFICES ASSUME NEW i \in D, NEW j \in D, i # j PROVE Rank(s, i) # Rank(s, j)
      OBVIOUS
    <2>1. Before(s, i, j) \/ Before(s, j, i)
      BY CallbacksAssumption DEF Before
    <2>2. CASE Before(s, i, j)
      BY <2>2, RankOrder
    <2>3. CASE Before(s, j, i)
      BY <2>3, RankOrder
    <2> QED
      BY <2>1, <2>2, <2>3
  <1>4. f \in [D -> 1 .. Cardinality(D)]
    BY <1>1, <1>2
  <1>5. \A k \in 1 .. Cardinality(D) : \E i \in D : f[i] = k
    <2> HIDE DEF f
    <2> QED
      BY <1>1, <1>3, <1>4, InjectionOnto
  <1> QED
    BY <1>1, <1>5

\* get_callbacks neither loses nor invents a callback.
LEMMA SortKeepsAll ==
    ASSUME NEW s \in Seq(Callbacks)
    PROVE  ByPriority(s) \in Seq(Callbacks) /\ ToSet(ByPriority(s)) = ToSet(s)
  <1> DEFINE at(k) == CHOOSE i \in 1 .. Len(s) : Rank(s, i) = k
  <1>1. \A k \in 1 .. Len(s) : at(k) \in 1 .. Len(s) /\ Rank(s, at(k)) = k
    BY RankOnto
  <1>2. \A i \in 1 .. Len(s) : \E k \in 1 .. Len(s) : at(k) = i
    <2> SUFFICES ASSUME NEW i \in 1 .. Len(s) PROVE \E k \in 1 .. Len(s) : at(k) = i
      OBVIOUS
    <2> DEFINE g == [k \in 1 .. Len(s) |-> at(k)]
    <2>1. IsFiniteSet(1 .. Len(s)) /\ Cardinality(1 .. Len(s)) = Len(s)
      BY Positions
    <2>2. g \in [1 .. Len(s) -> 1 .. Cardinality(1 .. Len(s))]
      BY <1>1, <2>1
    <2>3. \A k, l \in 1 .. Len(s) : g[k] = g[l] => k = l
      BY <1>1
    <2>4. \A k \in 1 .. Cardinality(1 .. Len(s)) : \E x \in 1 .. Len(s) : g[x] = k
      <3> HIDE DEF g
      <3> QED
        BY <2>1, <2>2, <2>3, InjectionOnto
    <2> QED
      BY <2>1, <2>4
  <1>3. ByPriority(s) = [k \in 1 .. Len(s) |-> s[at(k)]]
    BY DEF ByPriority
  <1> HIDE DEF at
  <1>4. /\ ByPriority(s) \in Seq(Callbacks) /\ Len(ByPriority(s)) = Len(s)
        /\ \A k \in 1 .. Len(s) : ByPriority(s)[k] = s[at(k)]
    BY <1>1, <1>3
  <1>5. DOMAIN ByPriority(s) = 1 .. Len(s) /\ DOMAIN s = 1 .. Len(s)
    BY <1>3
  <1>6. ToSet(ByPriority(s)) \subseteq ToSet(s)
    BY <1>1, <1>4, <1>5 DEF ToSet
  <1>7. ToSet(s) \subseteq ToSet(ByPriority(s))
    BY <1>2, <1>4, <1>5 DEF ToSet
  <1> QED
    BY <1>4, <1>6, <1>7

-----------------------------------------------------------------------------
\* Committing: the fresh positions of the buffer, counted from the front.
UpTo(S, i) == {j \in S : j <= i}

LEMMA CountOnto ==
    ASSUME NEW n \in Nat, NEW S \in SUBSET (1 .. n)
    PROVE  /\ IsFiniteSet(S) /\ Cardinality(S) \in Nat
           /\ \A i \in S : Cardinality(UpTo(S, i)) \in 1 .. Cardinality(S)
           /\ \A i, j \in S : Cardinality(UpTo(S, i)) = Cardinality(UpTo(S, j)) => i = j
           /\ \A k \in 1 .. Cardinality(S) : \E i \in S : Cardinality(UpTo(S, i)) = k
  <1>0. \A i \in S : i \in Nat
    OBVIOUS
  <1> DEFINE f == [i \in S |-> Cardinality(UpTo(S, i))]
  <1>1. IsFiniteSet(S) /\ Cardinality(S) \in Nat
    BY Positions, FS_Subset, FS_CardinalityType
  <1>2. \A i \in S : IsFiniteSet(UpTo(S, i)) /\ Cardinality(UpTo(S, i)) \in 1 .. Cardinality(S)
    <2> SUFFICES ASSUME NEW i \in S
                 PROVE  /\ IsFiniteSet(UpTo(S, i))
                        /\ Cardinality(UpTo(S, i)) \in 1 .. Cardinality(S)
      OBVIOUS
    <2>1. i \in UpTo(S, i) /\ UpTo(S, i) \subseteq S
      BY DEF UpTo
    <2>2. IsFiniteSet(UpTo(S, i)) /\ Cardinality(UpTo(S, i)) <= Cardinality(S)
      BY <1>1, <2>1, FS_Subset
    <2>3. Cardinality(UpTo(S, i)) \in Nat /\ Cardinality(UpTo(S, i)) # 0
      BY <2>1, <2>2, FS_CardinalityType, FS_EmptySet
    <2> QED
      BY <1>1, <2>2, <2>3
  <1>3. \A i, j \in S : i < j => f[i] # f[j]
    <2> SUFFICES ASSUME NEW i \in S, NEW j \in S, i < j
                 PROVE  Cardinality(UpTo(S, i)) # Cardinality(UpTo(S, j))
      OBVIOUS
    <2>0. j <= j /\ ~(j <= i) /\ \A x \in S : x <= i => x <= j
      <3>1. i \in Nat /\ j \in Nat
        BY <1>0
      <3> QED
        BY <1>0, <3>1
    <2>1. UpTo(S, i) \subseteq UpTo(S, j) /\ j \in UpTo(S, j) /\ j \notin UpTo(S, i)
      BY <2>0 DEF UpTo
    <2> QED
      BY <1>2, <2>1, FewerElements
  <1>4. \A i, j \in S : f[i] = f[j] => i = j
    <2> HIDE DEF f
    <2> QED
      BY <1>0, <1>3
  <1>5. f \in [S -> 1 .. Cardinality(S)]
    BY <1>2
  <1>6. \A k \in 1 .. Cardinality(S) : \E i \in S : f[i] = k
    <2> HIDE DEF f
    <2> QED
      BY <1>1, <1>4, <1>5, InjectionOnto
  <1> QED
    BY <1>1, <1>2, <1>4, <1>6

LEMMA HasLeast ==
    ASSUME NEW n \in Nat, NEW S \in SUBSET (1 .. n), S # {}
    PROVE  \E i \in S : \A j \in S : i <= j
  <1>1. IsFiniteSet(S) /\ Cardinality(S) \in Nat /\ Cardinality(S) # 0
    BY CountOnto, FS_EmptySet
  <1>2. PICK i \in S : Cardinality(UpTo(S, i)) = 1
    <2>1. 1 \in 1 .. Cardinality(S)
      BY <1>1
    <2> QED
      BY <2>1, CountOnto
  <1>3. IsFiniteSet(UpTo(S, i)) /\ i \in UpTo(S, i)
    BY <1>1, FS_Subset DEF UpTo
  <1>4. PICK x : UpTo(S, i) = {x}
    BY <1>2, <1>3, FS_Singleton
  <1>5. UpTo(S, i) = {i}
    BY <1>3, <1>4
  <1> QED
    BY <1>5 DEF UpTo

First(i) == \A j \in 1 .. i - 1 : buffered[j] # buffered[i]
New == {i \in 1 .. Len(buffered) : First(i) /\ buffered[i] \notin ToSet(registered)}
Nth(k) == CHOOSE i \in New : Cardinality(UpTo(New, i)) = k

NoRepeats(s) == \A i, j \in 1 .. Len(s) : s[i] = s[j] => i = j

LEMMA FreshParts ==
    ASSUME buffered \in Seq(Callbacks)
    PROVE  /\ Fresh \in Seq(Callbacks) /\ NoRepeats(Fresh)
           /\ ToSet(Fresh) = ToSet(buffered) \ ToSet(registered)
  <1>1. /\ IsFiniteSet(New) /\ Cardinality(New) \in Nat
        /\ \A k \in 1 .. Cardinality(New) : Nth(k) \in New /\ Cardinality(UpTo(New, Nth(k))) = k
        /\ \A i \in New : Cardinality(UpTo(New, i)) \in 1 .. Cardinality(New)
        /\ \A i, j \in New : Cardinality(UpTo(New, i)) = Cardinality(UpTo(New, j)) => i = j
    <2>1. Len(buffered) \in Nat /\ New \in SUBSET (1 .. Len(buffered))
      BY DEF New
    <2>2. /\ IsFiniteSet(New) /\ Cardinality(New) \in Nat
          /\ \A k \in 1 .. Cardinality(New) : \E i \in New : Cardinality(UpTo(New, i)) = k
          /\ \A i \in New : Cardinality(UpTo(New, i)) \in 1 .. Cardinality(New)
          /\ \A i, j \in New : Cardinality(UpTo(New, i)) = Cardinality(UpTo(New, j)) => i = j
      BY <2>1, CountOnto
    <2> QED
      BY <2>2 DEF Nth
  <1>2. Fresh = [k \in 1 .. Cardinality(New) |-> buffered[Nth(k)]]
    BY DEF Fresh, New, First, Nth, UpTo
  <1>3. \A i \in New : /\ i \in 1 .. Len(buffered) /\ buffered[i] \in Callbacks
                        /\ buffered[i] \notin ToSet(registered)
    BY DEF New
  <1>4. /\ Fresh \in Seq(Callbacks) /\ Len(Fresh) = Cardinality(New)
        /\ DOMAIN Fresh = 1 .. Cardinality(New)
        /\ \A k \in 1 .. Cardinality(New) : Fresh[k] = buffered[Nth(k)]
    BY <1>1, <1>2, <1>3
  <1>5. \A i, j \in New : buffered[i] = buffered[j] => i = j
    BY DEF New, First
  <1>6. NoRepeats(Fresh)
    BY <1>1, <1>4, <1>5 DEF NoRepeats
  <1>7. ToSet(Fresh) \subseteq ToSet(buffered) \ ToSet(registered)
    BY <1>1, <1>3, <1>4 DEF ToSet
  <1>8. ASSUME NEW e \in ToSet(buffered) \ ToSet(registered) PROVE e \in ToSet(Fresh)
    <2> DEFINE at == {i \in 1 .. Len(buffered) : buffered[i] = e}
    <2>1. Len(buffered) \in Nat /\ at \in SUBSET (1 .. Len(buffered)) /\ at # {}
      BY DEF ToSet
    <2>2. PICK i \in at : \A j \in at : i <= j
      BY <2>1, HasLeast
    <2>3. i \in New
      BY <2>2 DEF New, First
    <2>4. \E k \in 1 .. Cardinality(New) : Nth(k) = i
      BY <1>1, <2>3
    <2> QED
      BY <1>4, <2>2, <2>4 DEF ToSet
  <1> QED
    BY <1>4, <1>6, <1>7, <1>8

LEMMA CommitParts ==
    ASSUME registered \in Seq(Callbacks), NoRepeats(registered), buffered \in Seq(Callbacks)
    PROVE  /\ registered \o Fresh \in Seq(Callbacks) /\ NoRepeats(registered \o Fresh)
           /\ ToSet(registered \o Fresh) = ToSet(registered) \cup ToSet(buffered)
           /\ Fresh = <<>> => registered \o Fresh = registered
  <1>1. /\ Fresh \in Seq(Callbacks) /\ NoRepeats(Fresh)
        /\ ToSet(Fresh) = ToSet(buffered) \ ToSet(registered)
    BY FreshParts
  <1> DEFINE r == registered  n == Len(registered)  m == Len(Fresh)
  <1>2. /\ r \o Fresh \in Seq(Callbacks) /\ Len(r \o Fresh) = n + m /\ n \in Nat /\ m \in Nat
        /\ \A i \in 1 .. n : (r \o Fresh)[i] = r[i]
        /\ \A i \in n + 1 .. n + m : (r \o Fresh)[i] = Fresh[i - n]
    BY <1>1
  <1>3. /\ \A i \in 1 .. n : r[i] \in ToSet(r)
        /\ \A i \in 1 .. m : Fresh[i] \notin ToSet(r)
    <2>1. \A i \in 1 .. n : r[i] \in ToSet(r)
      BY DEF ToSet
    <2>2. \A i \in 1 .. m : Fresh[i] \in ToSet(Fresh)
      BY <1>1 DEF ToSet
    <2> QED
      BY <1>1, <2>1, <2>2
  <1>4. NoRepeats(r \o Fresh)
    <2> SUFFICES ASSUME NEW i \in 1 .. n + m, NEW j \in 1 .. n + m,
                        (r \o Fresh)[i] = (r \o Fresh)[j]
                 PROVE  i = j
      BY <1>2 DEF NoRepeats
    <2>1. CASE i <= n /\ j <= n
      BY <1>2, <2>1 DEF NoRepeats
    <2>2. CASE i > n /\ j > n
      <3>1. i - n \in 1 .. m /\ j - n \in 1 .. m /\ Fresh[i - n] = Fresh[j - n]
        BY <1>2, <2>2
      <3>2. i - n = j - n
        BY <1>1, <3>1 DEF NoRepeats
      <3> QED
        BY <1>2, <3>2
    <2>3. CASE i <= n /\ j > n
      <3>1. j - n \in 1 .. m
        BY <1>2, <2>3
      <3> QED
        BY <1>2, <1>3, <2>3, <3>1
    <2>4. CASE i > n /\ j <= n
      <3>1. i - n \in 1 .. m
        BY <1>2, <2>4
      <3> QED
        BY <1>2, <1>3, <2>4, <3>1
    <2> QED
      BY <1>2, <2>1, <2>2, <2>3, <2>4
  <1>5. ToSet(r \o Fresh) = ToSet(r) \cup ToSet(Fresh)
    <2>1. /\ ToSet(r \o Fresh) = {(r \o Fresh)[i] : i \in 1 .. n + m}
          /\ ToSet(r) = {r[i] : i \in 1 .. n} /\ ToSet(Fresh) = {Fresh[i] : i \in 1 .. m}
      BY <1>1, <1>2 DEF ToSet
    <2>2. \A i \in 1 .. n : r[i] = (r \o Fresh)[i] /\ i \in 1 .. n + m
      BY <1>2
    <2>3. \A i \in 1 .. m : Fresh[i] = (r \o Fresh)[n + i] /\ n + i \in 1 .. n + m
      BY <1>2
    <2>4. \A i \in 1 .. n + m : i \in 1 .. n \/ (i - n \in 1 .. m /\ i \in n + 1 .. n + m)
      BY <1>2
    <2>5. ToSet(r \o Fresh) \subseteq ToSet(r) \cup ToSet(Fresh)
      BY <1>2, <2>1, <2>4
    <2>6. ToSet(r) \subseteq ToSet(r \o Fresh)
      BY <2>1, <2>2
    <2>7. ToSet(Fresh) \subseteq ToSet(r \o Fresh)
      BY <2>1, <2>3
    <2> QED
      BY <2>5, <2>6, <2>7
  <1>6. Fresh = <<>> => r \o Fresh = r
    OBVIOUS
  <1> QED
    BY <1>1, <1>2, <1>4, <1>5, <1>6

-----------------------------------------------------------------------------
Loaders == {"idle", "builtin", "user", "loaded", "failed"}
Loading == loader \in {"builtin", "user"}

Flag == deferring \in BOOLEAN
Registries ==
    /\ registered \in Seq(Callbacks) /\ NoRepeats(registered)
    /\ buffered \in Seq(Callbacks)
    /\ \A c \in cache : c = ByPriority(registered)
    /\ gone \subseteq Callbacks
Imports ==
    /\ loader \in Loaders
    /\ import \in [Plugins -> {"waiting", "running", "loaded", "failed"}]
    /\ made \in [Plugins -> Nat] /\ \A p \in Plugins : made[p] <= Len(Script[p])
Dispatches == dispatch \in [Dispatchers -> [seen : Seq(Callbacks), called : Nat]]

(* Registration is deferred while plugins import, and only then do they.   *)
StageInv ==
    /\ deferring <=> Loading
    /\ \A p \in Plugins : import[p] = "running" => p \in Stage
    /\ \A p \in Plugins : import[p] = "waiting" => made[p] = 0
    /\ loader = "idle" => \A p \in Plugins : import[p] = "waiting"

(* What the plugins made is in the buffer, and then, together, in the      *)
(* registry and in what is dispatched.                                     *)
WholeInv ==
    /\ loader # "loaded" => ToSet(registered) \cap Own = {}
    /\ Loading => Made \subseteq ToSet(buffered)
    /\ loader = "loaded" => Made \ gone \subseteq ToSet(registered)
    /\ \A d \in Dispatchers : ToSet(dispatch[d].seen) \cap Own # {} =>
          loader = "loaded" /\ Made \ gone \subseteq ToSet(dispatch[d].seen)

IInv == Flag /\ Registries /\ Imports /\ Dispatches /\ StageInv /\ WholeInv

-----------------------------------------------------------------------------
LEMMA InitHolds == Init => IInv
  <1> SUFFICES ASSUME Init PROVE IInv
    OBVIOUS
  <1> USE DEF Init
  <1>1. Flag
    BY Zenon DEF Flag
  <1>2. Registries
    BY DEF Registries, NoRepeats
  <1>3. Imports
    BY CallbacksAssumption DEF Imports, Loaders
  <1>4. Dispatches
    BY DEF Dispatches
  <1>5. StageInv
    BY DEF StageInv, Loading
  <1>6. ToSet(<<>>) = {}
    BY DEF ToSet
  <1>7. WholeInv
    BY <1>6 DEF WholeInv, Loading
  <1> QED
    BY <1>1, <1>2, <1>3, <1>4, <1>5, <1>7 DEF IInv

\* A registration of a callback, deferred or not, and what it leaves alone.
LEMMA RegisterParts ==
    ASSUME IInv, NEW f \in Callbacks, Register(f), UNCHANGED gone
    PROVE  /\ Registries'
           /\ deferring' = deferring
           /\ Loading => registered' = registered /\ ToSet(buffered') = ToSet(buffered) \cup {f}
           /\ ~Loading => ToSet(registered') = ToSet(registered) \cup {f}
  <1>0. Registries /\ StageInv
    BY DEF IInv
  <1>1. CASE deferring /\ buffered' = Append(buffered, f) /\ cache' = {}
             /\ UNCHANGED <<registered, deferring>>
    <2>1. Loading
      BY <1>0, <1>1 DEF StageInv
    <2>2. buffered' \in Seq(Callbacks) /\ ToSet(buffered') = ToSet(buffered) \cup {f}
      BY <1>0, <1>1, AppendedElements DEF Registries
    <2>3. Registries'
      BY <1>0, <1>1, <2>2 DEF Registries, NoRepeats
    <2> QED
      BY <1>1, <2>1, <2>2, <2>3
  <1>2. CASE ~deferring /\ AddNow(f) /\ UNCHANGED <<deferring, buffered>>
    <2>1. ~Loading
      BY <1>0, <1>2 DEF StageInv
    <2>2. CASE f \in ToSet(registered)
      <3>1. registered' = registered /\ cache' = cache
        BY <1>2, <2>2 DEF AddNow
      <3>2. Registries'
        BY <1>0, <1>2, <3>1 DEF Registries, NoRepeats
      <3>3. ToSet(registered') = ToSet(registered) \cup {f}
        BY <2>2, <3>1
      <3> QED
        BY <1>2, <2>1, <3>2, <3>3
    <2>3. CASE f \notin ToSet(registered)
      <3>1. registered' = Append(registered, f) /\ cache' = {}
        BY <1>2, <2>3 DEF AddNow
      <3>2. /\ Append(registered, f) \in Seq(Callbacks)
            /\ ToSet(Append(registered, f)) = ToSet(registered) \cup {f}
            /\ Len(Append(registered, f)) = Len(registered) + 1
            /\ \A i \in 1 .. Len(registered) : Append(registered, f)[i] = registered[i]
            /\ Append(registered, f)[Len(registered) + 1] = f
        BY <1>0, AppendedElements DEF Registries
      <3>3. \A i \in 1 .. Len(registered) : registered[i] # f
        BY <1>0, <2>3 DEF ToSet, Registries
      <3>4. NoRepeats(Append(registered, f))
        <4> SUFFICES ASSUME NEW i \in 1 .. Len(registered) + 1, NEW j \in 1 .. Len(registered) + 1,
                            Append(registered, f)[i] = Append(registered, f)[j]
                     PROVE  i = j
          BY <3>2 DEF NoRepeats
        <4>1. Len(registered) \in Nat
          BY <1>0 DEF Registries
        <4>2. CASE i \in 1 .. Len(registered) /\ j \in 1 .. Len(registered)
          BY <1>0, <3>2, <4>2 DEF Registries, NoRepeats
        <4>3. CASE i = Len(registered) + 1 \/ j = Len(registered) + 1
          BY <3>2, <3>3, <4>1, <4>3
        <4> QED
          BY <4>1, <4>2, <4>3
      <3>5. Registries'
        BY <1>0, <1>2, <3>1, <3>2, <3>4 DEF Registries, NoRepeats
      <3> QED
        BY <1>2, <2>1, <3>1, <3>2, <3>5
    <2> QED
      BY <2>2, <2>3
  <1> QED
    BY <1>1, <1>2, Zenon DEF Register

LEMMA Step == IInv /\ [Next]_vars => IInv'
  <1> SUFFICES ASSUME IInv, [Next]_vars PROVE IInv'
    OBVIOUS
  <1>0. Flag /\ Registries /\ Imports /\ Dispatches /\ StageInv /\ WholeInv
    BY DEF IInv
  <1> USE DEF registry, loading
  <1>1. ASSUME UNCHANGED <<registry, gone>> PROVE Flag' /\ Registries'
    <2>1. Flag'
      BY <1>0, <1>1, Zenon DEF Flag
    <2>2. Registries'
      BY <1>0, <1>1 DEF Registries, NoRepeats
    <2> QED
      BY <2>1, <2>2
  <1>2. ASSUME UNCHANGED loading PROVE /\ Imports' /\ Stage' = Stage /\ Made' = Made
                                      /\ (deferring' = deferring => StageInv')
    <2>1. Imports'
      BY <1>0, <1>2 DEF Imports
    <2>2. Stage' = Stage /\ Made' = Made
      BY <1>2 DEF Stage, Made
    <2>3. deferring' = deferring => StageInv'
      BY <1>0, <1>2, <2>2 DEF StageInv, Loading
    <2> QED
      BY <2>1, <2>2, <2>3
  <1>3. CASE UNCHANGED vars
    <2>1. Flag' /\ Registries' /\ Imports' /\ StageInv' /\ Made' = Made
      BY <1>1, <1>2, <1>3 DEF vars
    <2>2. Dispatches' /\ WholeInv'
      BY <1>0, <1>3, <2>1 DEF vars, Dispatches, WholeInv, Loading
    <2> QED
      BY <2>1, <2>2 DEF IInv
  <1>4. ASSUME NEW f \in Callbacks, RegisterCore(f) PROVE IInv'
    <2>0. /\ f \notin Own /\ Register(f) /\ UNCHANGED <<loading, dispatch, gone>>
      BY <1>4 DEF RegisterCore, Core
    <2>1. /\ Registries' /\ deferring' = deferring
          /\ Loading => registered' = registered /\ ToSet(buffered') = ToSet(buffered) \cup {f}
          /\ ~Loading => ToSet(registered') = ToSet(registered) \cup {f}
      BY <2>0, RegisterParts
    <2>2. Flag'
      BY <1>0, <2>1, Zenon DEF Flag
    <2>3. Imports' /\ StageInv' /\ Made' = Made
      BY <1>2, <2>0, <2>1
    <2>4. Dispatches' /\ WholeInv'
      BY <1>0, <2>0, <2>1, <2>3 DEF Dispatches, WholeInv, Loading
    <2> QED
      BY <2>1, <2>2, <2>3, <2>4 DEF IInv
  <1>5. ASSUME NEW f \in Callbacks, Unregister(f) PROVE IInv'
    <2>0. /\ cache' = {} /\ gone' = gone \cup {f}
          /\ UNCHANGED <<deferring, buffered, loading, dispatch>>
      BY <1>5 DEF Unregister
    <2>1. PICK i \in 1 .. Len(registered) :
            registered[i] = f /\ registered' = RemoveAt(registered, i)
      BY <1>5 DEF Unregister
    <2>2. /\ registered' \in Seq(Callbacks) /\ NoRepeats(registered)'
          /\ ToSet(registered') = ToSet(registered) \ {f}
      <3>1. RemoveAt(registered, i) \in Seq(Callbacks)
        BY <1>0, RemovedAt DEF Registries
      <3>2. /\ \A j, k \in 1 .. Len(RemoveAt(registered, i)) :
                   RemoveAt(registered, i)[j] = RemoveAt(registered, i)[k] => j = k
            /\ ToSet(RemoveAt(registered, i)) = ToSet(registered) \ {registered[i]}
        BY <1>0, RemovedElements DEF Registries, NoRepeats
      <3> QED
        BY <2>1, <3>1, <3>2 DEF NoRepeats
    <2>3. Registries'
      BY <1>0, <2>0, <2>2 DEF Registries
    <2>4. Flag'
      BY <1>0, <2>0, Zenon DEF Flag
    <2>5. Imports' /\ StageInv' /\ Made' = Made
      BY <1>2, <2>0
    <2>6. Dispatches' /\ WholeInv'
      BY <1>0, <2>0, <2>2, <2>5 DEF Dispatches, WholeInv, Loading
    <2> QED
      BY <2>3, <2>4, <2>5, <2>6 DEF IInv
  <1>6. CASE Clear
    <2>0. /\ cache' = {} /\ registered' = <<>> /\ gone' = gone \cup ToSet(registered)
          /\ UNCHANGED <<deferring, buffered, loading, dispatch>>
      BY <1>6 DEF Clear
    <2>1. ToSet(<<>>) = {} /\ ToSet(registered) \subseteq Callbacks
      BY <1>0 DEF ToSet, Registries
    <2>2. Registries'
      BY <1>0, <2>0, <2>1 DEF Registries, NoRepeats
    <2>3. Flag'
      BY <1>0, <2>0, Zenon DEF Flag
    <2>4. Imports' /\ StageInv' /\ Made' = Made
      BY <1>2, <2>0
    <2>5. Dispatches' /\ WholeInv'
      BY <1>0, <2>0, <2>1, <2>4 DEF Dispatches, WholeInv, Loading
    <2> QED
      BY <2>2, <2>3, <2>4, <2>5 DEF IInv
  <1>7. CASE BeginDeferred
    <2>0. /\ loader = "idle" /\ deferring' = TRUE /\ buffered' = <<>> /\ loader' = "builtin"
          /\ UNCHANGED <<registered, cache, import, made, dispatch, gone>>
      BY <1>7 DEF BeginDeferred
    <2>1. Flag'
      BY <2>0, Zenon DEF Flag
    <2>2. Registries'
      BY <1>0, <2>0 DEF Registries, NoRepeats
    <2>3. Imports' /\ Dispatches'
      BY <1>0, <2>0 DEF Imports, Dispatches, Loaders
    <2>4. StageInv'
      BY <1>0, <2>0 DEF StageInv, Loading
    <2>5. Made' = {}
      BY <1>0, <2>0 DEF StageInv, Made
    <2>6. WholeInv'
      BY <1>0, <2>0, <2>5 DEF WholeInv, Loading
    <2> QED
      BY <2>1, <2>2, <2>3, <2>4, <2>6 DEF IInv
  <1>8. ASSUME NEW p \in Plugins, StartImport(p) \/ ImportReturns(p) \/ ImportRaises(p) PROVE IInv'
    <2>0. /\ UNCHANGED <<registry, loader, made, dispatch, gone>>
          /\ \/ p \in Stage /\ import[p] = "waiting" /\ import' = [import EXCEPT ![p] = "running"]
             \/ import[p] = "running" /\ import' = [import EXCEPT ![p] = "loaded"]
             \/ import[p] = "running" /\ import' = [import EXCEPT ![p] = "failed"]
      BY <1>8 DEF StartImport, ImportReturns, ImportRaises
    <2>1. Flag' /\ Registries'
      BY <1>1, <2>0
    <2>2. Imports' /\ Dispatches'
      BY <1>0, <2>0 DEF Imports, Dispatches
    <2>3. Stage' = Stage /\ Made' = Made
      BY <2>0 DEF Stage, Made
    <2>4. loader # "idle"
      BY <1>0, <2>0 DEF StageInv, Stage
    <2>5. StageInv'
      BY <1>0, <2>0, <2>3, <2>4 DEF StageInv, Loading, Imports
    <2>6. WholeInv'
      BY <1>0, <2>0, <2>3 DEF WholeInv, Loading
    <2> QED
      BY <2>1, <2>2, <2>5, <2>6 DEF IInv
  <1>9. ASSUME NEW p \in Plugins, RegisterNext(p) PROVE IInv'
    <2> DEFINE f == Script[p][made[p] + 1]
    <2>0. /\ import[p] = "running" /\ made[p] < Len(Script[p]) /\ Register(f)
          /\ made' = [made EXCEPT ![p] = @ + 1] /\ UNCHANGED <<loader, dispatch, gone>>
          /\ import' = import \/ import' = [import EXCEPT ![p] = "failed"]
      BY <1>9 DEF RegisterNext
    <2>1. /\ f \in Callbacks /\ made[p] \in Nat /\ Script \in [Plugins -> Seq(Callbacks)]
          /\ p \in Stage /\ Loading
      <3>1. Script[p] \in Seq(Callbacks) /\ made[p] \in Nat
        BY <1>0, CallbacksAssumption DEF Imports
      <3>2. made[p] + 1 \in 1 .. Len(Script[p])
        BY <2>0, <3>1
      <3>3. f \in Callbacks
        BY <3>1, <3>2
      <3> QED
        BY <1>0, <2>0, <3>1, <3>3, CallbacksAssumption DEF StageInv, Stage, Loading
    <2> HIDE DEF f
    <2>2. /\ Registries' /\ deferring' = deferring /\ registered' = registered
          /\ ToSet(buffered') = ToSet(buffered) \cup {f}
      BY <2>0, <2>1, RegisterParts
    <2>3. Flag'
      BY <1>0, <2>2, Zenon DEF Flag
    <2>4. Imports' /\ Dispatches'
      <3>1. import' \in [Plugins -> {"waiting", "running", "loaded", "failed"}]
        BY <1>0, <2>0 DEF Imports
      <3>2. made' \in [Plugins -> Nat] /\ \A q \in Plugins : made'[q] <= Len(Script[q])
        BY <1>0, <2>0, <2>1 DEF Imports
      <3>3. loader' \in Loaders /\ Dispatches'
        BY <1>0, <2>0 DEF Imports, Dispatches
      <3> QED
        BY <3>1, <3>2, <3>3 DEF Imports
    <2>5. StageInv'
      BY <1>0, <2>0, <2>2 DEF StageInv, Loading, Stage, Imports
    <2>6. Made' \subseteq Made \cup {f}
      <3>1. ASSUME NEW q \in Plugins, NEW i \in 1 .. made'[q]
            PROVE  Script[q][i] \in Made \cup {f}
        <4>1. CASE i \in 1 .. made[q]
          BY <4>1 DEF Made
        <4>2. CASE i \notin 1 .. made[q]
          <5>1. q = p /\ i = made[p] + 1
            BY <1>0, <2>0, <2>1, <3>1, <4>2 DEF Imports
          <5> QED
            BY <5>1 DEF f
        <4> QED
          BY <4>1, <4>2
      <3> QED
        BY <3>1 DEF Made
    <2>7. \A d \in Dispatchers : ToSet(dispatch[d].seen) \cap Own = {}
      BY <1>0, <2>1 DEF WholeInv, Loading
    <2>8. WholeInv'
      BY <1>0, <2>0, <2>1, <2>2, <2>6, <2>7 DEF WholeInv, Loading
    <2> QED
      BY <2>2, <2>3, <2>4, <2>5, <2>8 DEF IInv
  <1>10. CASE LoadUserPlugins
    <2>0. /\ loader = "builtin" /\ loader' = "user" /\ StageOver
          /\ UNCHANGED <<registry, import, made, dispatch, gone>>
      BY <1>10 DEF LoadUserPlugins
    <2>1. Flag' /\ Registries'
      BY <1>1, <2>0
    <2>2. Imports' /\ Dispatches'
      BY <1>0, <2>0 DEF Imports, Dispatches, Loaders
    <2>3. Made' = Made
      BY <2>0 DEF Made
    <2>4. \A p \in Plugins : import[p] # "running"
      BY <1>0, <2>0 DEF StageInv, StageOver
    <2>5. StageInv'
      BY <1>0, <2>0, <2>4 DEF StageInv, Loading
    <2>6. WholeInv'
      BY <1>0, <2>0, <2>3 DEF WholeInv, Loading
    <2> QED
      BY <2>1, <2>2, <2>5, <2>6 DEF IInv
  <1>11. ASSUME Commit \/ Rollback PROVE IInv'
    <2>0. /\ deferring' = FALSE /\ buffered' = <<>> /\ loader' \in {"loaded", "failed"}
          /\ Loading /\ UNCHANGED <<import, made, dispatch, gone>>
          /\ \A p \in Stage : import[p] # "running"
      BY <1>11 DEF Commit, Rollback, CommitRaises, ListingRaises, EndDeferred, StageOver, Loading
    <2>1. \/ /\ loader' = "loaded" /\ registered' = registered \o Fresh
             /\ cache' = (IF Fresh = <<>> THEN cache ELSE {})
          \/ loader' = "failed" /\ registered' = registered /\ cache' = cache
      BY <1>11 DEF Commit, Rollback, EndDeferred
    <2>2. /\ registered \o Fresh \in Seq(Callbacks) /\ NoRepeats(registered \o Fresh)
          /\ ToSet(registered \o Fresh) = ToSet(registered) \cup ToSet(buffered)
          /\ Fresh = <<>> => registered \o Fresh = registered
      BY <1>0, CommitParts DEF Registries
    <2>3. Flag'
      BY <2>0, Zenon DEF Flag
    <2>4. Registries'
      <3>1. registered' \in Seq(Callbacks) /\ NoRepeats(registered')
        BY <1>0, <2>1, <2>2 DEF Registries
      <3>2. cache' = {} \/ (cache' = cache /\ registered' = registered)
        BY <2>1, <2>2
      <3>3. \A c \in cache' : c = ByPriority(registered')
        BY <1>0, <3>2 DEF Registries
      <3> QED
        BY <1>0, <2>0, <3>1, <3>3 DEF Registries, NoRepeats
    <2>5. Imports' /\ Dispatches'
      BY <1>0, <2>0 DEF Imports, Dispatches, Loaders
    <2>6. StageInv'
      BY <1>0, <2>0 DEF StageInv, Loading
    <2>7. Made' = Made
      BY <2>0 DEF Made
    <2>8. loader # "loaded" /\ \A d \in Dispatchers : ToSet(dispatch[d].seen) \cap Own = {}
      BY <1>0, <2>0 DEF WholeInv, Loading
    <2>9. WholeInv'
      <3>1. CASE loader' = "loaded"
        <4>1. Made' \ gone' \subseteq ToSet(registered')
          BY <1>0, <2>0, <2>1, <2>2, <2>7, <3>1 DEF WholeInv
        <4> QED
          BY <2>0, <2>8, <3>1, <4>1 DEF WholeInv, Loading
      <3>2. CASE loader' = "failed"
        BY <1>0, <2>0, <2>1, <2>8, <3>2 DEF WholeInv, Loading
      <3> QED
        BY <2>0, <3>1, <3>2
    <2> QED
      BY <2>3, <2>4, <2>5, <2>6, <2>9 DEF IInv
  <1>12. ASSUME NEW d \in Dispatchers, Trigger(d) PROVE IInv'
    <2> DEFINE sorted == IF cache = {} THEN ByPriority(registered)
                         ELSE CHOOSE c \in cache : TRUE
    <2>0. /\ cache' = {sorted} /\ UNCHANGED <<registered, deferring, buffered, loading, gone>>
          /\ dispatch' = [dispatch EXCEPT ![d] = [seen |-> sorted, called |-> 0]]
      BY <1>12 DEF Trigger
    <2>1. sorted = ByPriority(registered)
      BY <1>0 DEF Registries
    <2>2. sorted \in Seq(Callbacks) /\ ToSet(sorted) = ToSet(registered)
      BY <1>0, <2>1, SortKeepsAll DEF Registries
    <2> HIDE DEF sorted
    <2>3. Flag'
      BY <1>0, <2>0, Zenon DEF Flag
    <2>4. Registries'
      BY <1>0, <2>0, <2>1 DEF Registries, NoRepeats
    <2>5. Dispatches'
      BY <1>0, <2>0, <2>2 DEF Dispatches
    <2>6. Imports' /\ StageInv' /\ Made' = Made
      BY <1>2, <2>0
    <2>7. \A e \in Dispatchers : dispatch'[e].seen = IF e = d THEN sorted ELSE dispatch[e].seen
      BY <1>0, <2>0 DEF Dispatches
    <2>8. WholeInv'
      BY <1>0, <2>0, <2>2, <2>6, <2>7 DEF WholeInv, Loading
    <2> QED
      BY <2>3, <2>4, <2>5, <2>6, <2>8 DEF IInv
  <1>13. ASSUME NEW d \in Dispatchers, CallNext(d) PROVE IInv'
    <2>0. UNCHANGED <<registry, loading, gone>>
      BY <1>13 DEF CallNext
    <2>1. PICK n \in {dispatch[d].called + 1, Len(dispatch[d].seen)} :
            dispatch' = [dispatch EXCEPT ![d].called = n]
      BY <1>13 DEF CallNext
    <2>2. Flag' /\ Registries'
      BY <1>1, <2>0
    <2>3. Imports' /\ StageInv' /\ Made' = Made
      BY <1>2, <2>0
    <2>4. n \in Nat
      BY <1>0, <2>1 DEF Dispatches
    <2>5. Dispatches' /\ \A e \in Dispatchers : dispatch'[e].seen = dispatch[e].seen
      BY <1>0, <2>1, <2>4 DEF Dispatches
    <2>6. WholeInv'
      BY <1>0, <2>0, <2>3, <2>5 DEF WholeInv, Loading
    <2> QED
      BY <2>2, <2>3, <2>5, <2>6 DEF IInv
  <1> QED
    BY <1>3, <1>4, <1>5, <1>6, <1>7, <1>8, <1>9, <1>10, <1>11, <1>12, <1>13 DEF Next, Load

-----------------------------------------------------------------------------
(* The strengthened invariant holds in every reachable state.              *)
THEOREM InductiveInvariant == Spec => []IInv
  <1>1. Init => IInv
    BY InitHolds
  <1>2. IInv /\ [Next]_vars => IInv'
    BY Step
  <1> QED
    BY <1>1, <1>2, PTL DEF Spec

(* Every variable keeps its type, and no callback is registered twice.     *)
THEOREM TypeCorrect == Spec => []TypeOK
  <1>1. IInv => TypeOK
    <2> SUFFICES ASSUME IInv PROVE TypeOK
      OBVIOUS
    <2>1. deferring \in BOOLEAN
      BY Zenon DEF IInv, Flag
    <2>2. \A c \in cache : c \in Seq(Callbacks)
      BY SortKeepsAll DEF IInv, Registries
    <2> QED
      BY <2>1, <2>2 DEF IInv, TypeOK, Registries, NoRepeats, Imports, Loaders, Dispatches
  <1> QED
    BY <1>1, InductiveInvariant, PTL

(* The cached order is never stale.                                        *)
THEOREM CacheStaysFresh == Spec => []CacheFresh
  <1>1. IInv => CacheFresh
    BY DEF IInv, Registries, CacheFresh
  <1> QED
    BY <1>1, InductiveInvariant, PTL

(* A dispatch sees the plugins' callbacks as a whole or not at all.        *)
THEOREM DispatchesSeeWhole == Spec => []DispatchSeesWhole
  <1>1. IInv => DispatchSeesWhole
    BY DEF IInv, WholeInv, DispatchSeesWhole
  <1> QED
    BY <1>1, InductiveInvariant, PTL

=============================================================================
