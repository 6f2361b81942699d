----------------------- MODULE HistoryProcessorProofs -----------------------
(***************************************************************************)
(* Proofs about the history processor, for any prompts, answers, budgets   *)
(* and thresholds, and histories of any length.  What the recursive        *)
(* functions Total and Chosen compute is shown by minimal counterexample.  *)
(***************************************************************************)
EXTENDS HistoryProcessor, FiniteSetTheorems, SequenceTheorems, TLAPS

-----------------------------------------------------------------------------
\* Least elements.
LEMMA HasLeast ==
    ASSUME NEW n \in Nat, NEW S \in SUBSET (0 .. n), S # {}
    PROVE  \E i \in S : \A j \in S : i <= j
  <1> SUFFICES ASSUME \A i \in S : \E j \in S : j < i PROVE FALSE
    OBVIOUS
  <1> DEFINE U == {i \in 0 .. n : \A j \in S : i <= j}
             f == [i \in U |-> i + 1]
  <1>1. 0 \in U /\ IsFiniteSet(U)
    <2>1. IsFiniteSet(0 .. n)
      BY FS_Interval
    <2> QED
      BY <2>1, FS_Subset
  <1>2. \A i \in U : i + 1 \in U \ {0}
    <2> SUFFICES ASSUME NEW i \in U PROVE i + 1 \in U \ {0}
      OBVIOUS
    <2>1. i \notin S
      OBVIOUS
    <2>2. i \in Nat /\ \A j \in S : j \in Nat /\ i <= j /\ i # j
      BY <2>1
    <2>3. \A j \in S : i + 1 <= j
      BY <2>2
    <2>4. i + 1 \in 0 .. n
      <3>1. PICK j \in S : TRUE
        OBVIOUS
      <3>2. j \in 0 .. n /\ i + 1 <= j
        BY <2>3
      <3> QED
        BY <2>2, <3>2
    <2> QED
      BY <2>2, <2>3, <2>4
  <1>3. f \in [U -> U \ {0}] /\ \A x, y \in U : f[x] = f[y] => x = y
    BY <1>2
  <1>4. IsFiniteSet(U \ {0}) /\ Cardinality(U \ {0}) < Cardinality(U)
    <2>1. Cardinality(U) \in Nat
      BY <1>1, FS_CardinalityType
    <2>2. IsFiniteSet(U \ {0}) /\ Cardinality(U \ {0}) = Cardinality(U) - 1
      BY <1>1, FS_RemoveElement
    <2> QED
      BY <2>1, <2>2
  <1> HIDE DEF f, U
  <1> QED
    BY <1>1, <1>3, <1>4, FS_PigeonHole

LEMMA LeastOf ==
    ASSUME NEW n \in Nat, NEW S \in SUBSET (0 .. n), S # {}
    PROVE  Min(S) \in S /\ \A j \in S : Min(S) <= j
  BY HasLeast DEF Min

\* A function defined by its value at 0 and a step exists, and is of its type.
Steps(T, N) == [T \X (1 .. N) -> T]
Starts(f, z, N, G) == f[0] = z /\ \A n \in 1 .. N : f[n] = G[<<f[n - 1], n>>]

LEMMA Recursion ==
    ASSUME NEW N \in Nat, NEW T, NEW z \in T, NEW G \in Steps(T, N)
    PROVE  \E f \in [0 .. N -> T] : Starts(f, z, N, G)
  <1> USE DEF Steps
  <1> DEFINE Up(m, f) == \A n \in 0 .. m : f[n] = IF n = 0 THEN z ELSE G[<<f[n - 1], n>>]
             Bad == {m \in 0 .. N : ~ \E f \in [0 .. m -> T] : Up(m, f)}
  <1>1. Bad = {}
    <2> SUFFICES ASSUME Bad # {} PROVE FALSE
      OBVIOUS
    <2>1. PICK m \in Bad : \A j \in Bad : m <= j
      BY HasLeast
    <2>2. m # 0
      <3>1. [n \in 0 .. 0 |-> z] \in [0 .. 0 -> T] /\ Up(0, [n \in 0 .. 0 |-> z])
        OBVIOUS
      <3> QED
        BY <3>1, <2>1
    <2>3. m - 1 \in 0 .. N /\ m - 1 \notin Bad
      BY <2>1, <2>2
    <2>4. PICK f \in [0 .. m - 1 -> T] : Up(m - 1, f)
      BY <2>3
    <2> DEFINE g == [n \in 0 .. m |-> IF n = m THEN G[<<f[m - 1], m>>] ELSE f[n]]
    <2>5. g \in [0 .. m -> T]
      BY <2>1, <2>2, <2>4
    <2>6. Up(m, g)
      <3> SUFFICES ASSUME NEW n \in 0 .. m
                   PROVE  g[n] = IF n = 0 THEN z ELSE G[<<g[n - 1], n>>]
        OBVIOUS
      <3>1. CASE n = m
        <4>1. m \in Nat /\ m # 0 /\ m - 1 \in 0 .. m /\ m - 1 # m /\ m \in 0 .. m
          BY <2>1, <2>2
        <4>2. g[m] = G[<<f[m - 1], m>>] /\ g[m - 1] = f[m - 1]
          BY <4>1
        <4> HIDE DEF g
        <4> QED
          BY <3>1, <4>1, <4>2
      <3>2. CASE n # m
        <4>1. n \in 0 .. m - 1 /\ g[n] = f[n] /\ (n # 0 => g[n - 1] = f[n - 1])
          BY <3>2, <2>1, <2>2
        <4>2. f[n] = IF n = 0 THEN z ELSE G[<<f[n - 1], n>>]
          BY <4>1, <2>4
        <4> HIDE DEF g
        <4>3. CASE n = 0
          BY <4>1, <4>2, <4>3
        <4>4. CASE n # 0
          BY <4>1, <4>2, <4>4
        <4> QED
          BY <4>3, <4>4
      <3> QED
        BY <3>1, <3>2
    <2> QED
      BY <2>1, <2>5, <2>6
  <1>2. PICK f \in [0 .. N -> T] : Up(N, f)
    BY <1>1
  <1>3. f[0] = z /\ \A n \in 1 .. N : f[n] = G[<<f[n - 1], n>>]
    <2>1. 0 \in 0 .. N /\ \A n \in 1 .. N : n \in 0 .. N /\ n # 0
      OBVIOUS
    <2> QED
      BY <1>2, <2>1
  <1> QED
    BY <1>3 DEF Starts

-----------------------------------------------------------------------------
\* The parts of a message.
LEMMA MessageParts ==
    ASSUME NEW m \in Messages
    PROVE  /\ m.size \in Nat /\ m.size > 0 /\ m.kind \in {"request", "response"}
           /\ m.calls \subseteq 1 .. MaxCalls /\ m.returns \subseteq 1 .. MaxCalls
           /\ m.thinks \in {"no", "thought", "blank"} /\ m.text \in Texts
  BY DEF Messages

\* Total adds up the sizes.
Adds(s, f) == f = [n \in 0 .. Len(s) |-> IF n = 0 THEN 0 ELSE f[n - 1] + s[n].size]

LEMMA TotalSteps ==
    ASSUME NEW s \in Seq(Messages)
    PROVE  \E f \in [0 .. Len(s) -> Nat] : Adds(s, f) /\ Total(s) = f[Len(s)]
  <1> DEFINE N == Len(s)
             G == [p \in Nat \X (1 .. N) |-> p[1] + s[p[2]].size]
             Sum == CHOOSE f : Adds(s, f)
  <1>0. N \in Nat /\ \A n \in 1 .. N : s[n].size \in Nat
    <2>1. N \in Nat /\ \A n \in 1 .. N : s[n] \in Messages
      OBVIOUS
    <2> QED
      BY <2>1, MessageParts
  <1>1. G \in [Nat \X (1 .. N) -> Nat] /\ \A a \in Nat, n \in 1 .. N : G[<<a, n>>] = a + s[n].size
    BY <1>0
  <1>2. PICK f \in [0 .. N -> Nat] : Starts(f, 0, N, G)
    <2>1. 0 \in Nat /\ N \in Nat /\ G \in Steps(Nat, N)
      BY <1>0, <1>1 DEF Steps
    <2> HIDE DEF G, N
    <2> QED
      BY <2>1, Recursion
  <1>3. \A n \in 0 .. N : f[n] = IF n = 0 THEN 0 ELSE f[n - 1] + s[n].size
    <2> HIDE DEF G, N
    <2> SUFFICES ASSUME NEW n \in 0 .. N
                 PROVE  f[n] = IF n = 0 THEN 0 ELSE f[n - 1] + s[n].size
      OBVIOUS
    <2>1. n # 0 => n \in 1 .. N /\ f[n - 1] \in Nat
      BY <1>0
    <2> QED
      BY <1>1, <1>2, <2>1 DEF Starts
  <1>4. Adds(s, f)
    BY <1>3 DEF Adds
  <1>5. Adds(s, Sum)
    BY <1>4, Zenon
  <1>6. Total(s) = Sum[N]
    BY DEF Total, Adds
  <1> HIDE DEF G, Sum
  <1>7. \A n \in 0 .. N : Sum[n] = IF n = 0 THEN 0 ELSE Sum[n - 1] + s[n].size
    BY <1>5 DEF Adds
  <1>8. \A n \in 0 .. N : Sum[n] = f[n]
    <2> HIDE DEF N
    <2> SUFFICES ASSUME {n \in 0 .. N : Sum[n] # f[n]} # {} PROVE FALSE
      OBVIOUS
    <2>1. PICK m \in 0 .. N : Sum[m] # f[m] /\ \A j \in 0 .. N : Sum[j] # f[j] => m <= j
      BY <1>0, HasLeast
    <2>2. CASE m = 0
      BY <2>1, <2>2, <1>3, <1>7
    <2>3. CASE m # 0
      <3>1. m - 1 \in 0 .. N /\ ~(m <= m - 1)
        BY <1>0, <2>3
      <3>2. Sum[m - 1] = f[m - 1]
        BY <2>1, <3>1
      <3> QED
        BY <2>1, <2>3, <3>2, <1>3, <1>7
    <2> QED
      BY <2>2, <2>3
  <1> QED
    BY <1>0, <1>4, <1>6, <1>8

LEMMA TotalAdds ==
    ASSUME NEW a \in Seq(Messages), NEW b \in Seq(Messages)
    PROVE  /\ Total(a) \in Nat /\ Total(b) \in Nat
           /\ a \o b \in Seq(Messages) /\ Total(a \o b) = Total(a) + Total(b)
  <1> DEFINE c == a \o b  M == Len(a)  N == Len(b)
  <1>0. /\ M \in Nat /\ N \in Nat /\ c \in Seq(Messages) /\ Len(c) = M + N
        /\ \A n \in 1 .. M : c[n] = a[n]
        /\ \A n \in 1 .. N : c[M + n] = b[n] /\ b[n].size \in Nat
    <2>1. /\ M \in Nat /\ N \in Nat /\ c \in Seq(Messages) /\ Len(c) = M + N
          /\ \A n \in 1 .. M : c[n] = a[n]
      OBVIOUS
    <2>2. \A n \in 1 .. N : c[M + n] = b[n] /\ b[n] \in Messages
      OBVIOUS
    <2> QED
      BY <2>1, <2>2, MessageParts
  <1>1. PICK f \in [0 .. M -> Nat] : Adds(a, f) /\ Total(a) = f[M]
    BY TotalSteps
  <1>2. PICK g \in [0 .. N -> Nat] : Adds(b, g) /\ Total(b) = g[N]
    BY TotalSteps
  <1>3. PICK h \in [0 .. M + N -> Nat] : Adds(c, h) /\ Total(c) = h[M + N]
    <2> HIDE DEF c, M, N
    <2> QED
      BY <1>0, TotalSteps
  <1>4. /\ \A n \in 0 .. M : f[n] = IF n = 0 THEN 0 ELSE f[n - 1] + a[n].size
        /\ \A n \in 0 .. N : g[n] = IF n = 0 THEN 0 ELSE g[n - 1] + b[n].size
    BY <1>1, <1>2 DEF Adds
  <1>5. \A n \in 0 .. M + N : h[n] = IF n = 0 THEN 0 ELSE h[n - 1] + c[n].size
    <2> HIDE DEF c
    <2> QED
      BY <1>0, <1>3 DEF Adds
  <1> HIDE DEF c, M, N
  <1>6. \A n \in 0 .. M : h[n] = f[n]
    <2> SUFFICES ASSUME {n \in 0 .. M : h[n] # f[n]} # {} PROVE FALSE
      OBVIOUS
    <2>1. PICK m \in 0 .. M : h[m] # f[m] /\ \A j \in 0 .. M : h[j] # f[j] => m <= j
      <3> DEFINE B == {n \in 0 .. M : h[n] # f[n]}
      <3>1. \E i \in B : \A j \in B : i <= j
        <4>1. B \in SUBSET (0 .. M) /\ B # {}
          OBVIOUS
        <4> HIDE DEF B
        <4> QED
          BY <1>0, <4>1, HasLeast
      <3> QED
        BY <3>1
    <2>2. m \in 0 .. M + N
      BY <1>0
    <2>3. CASE m = 0
      BY <2>1, <2>2, <2>3, <1>4, <1>5
    <2>4. CASE m # 0
      <3>a. M \in Nat /\ m \in 1 .. M
        BY <1>0, <2>4
      <3>b. m - 1 \in 0 .. M /\ ~(m <= m - 1)
        BY <3>a
      <3>1. m - 1 \in 0 .. M /\ ~(m <= m - 1) /\ c[m] = a[m]
        BY <1>0, <3>a, <3>b, Zenon
      <3>2. h[m - 1] = f[m - 1]
        BY <2>1, <3>1
      <3> QED
        BY <2>1, <2>2, <2>4, <3>1, <3>2, <1>4, <1>5
    <2> QED
      BY <2>3, <2>4
  <1>7. \A n \in 0 .. N : h[M + n] = f[M] + g[n]
    <2> SUFFICES ASSUME {n \in 0 .. N : h[M + n] # f[M] + g[n]} # {} PROVE FALSE
      OBVIOUS
    <2>1. PICK m \in 0 .. N : /\ h[M + m] # f[M] + g[m]
                              /\ \A j \in 0 .. N : h[M + j] # f[M] + g[j] => m <= j
      <3> DEFINE B == {n \in 0 .. N : h[M + n] # f[M] + g[n]}
      <3>1. \E i \in B : \A j \in B : i <= j
        <4>1. B \in SUBSET (0 .. N) /\ B # {}
          OBVIOUS
        <4> HIDE DEF B
        <4> QED
          BY <1>0, <4>1, HasLeast
      <3> QED
        BY <3>1
    <2>2. CASE m = 0
      <3>1. g[0] = 0 /\ M \in 0 .. M /\ M + 0 = M /\ f[M] \in Nat
        BY <1>0, <1>4
      <3> QED
        BY <2>1, <2>2, <3>1, <1>6
    <2>3. CASE m # 0
      <3>1. /\ m - 1 \in 0 .. N /\ ~(m <= m - 1) /\ m \in 1 .. N /\ m \in 0 .. N
            /\ M + m \in 0 .. M + N /\ M + m # 0 /\ (M + m) - 1 = M + (m - 1)
        BY <1>0, <2>3
      <3>2. h[M + (m - 1)] = f[M] + g[m - 1]
        BY <2>1, <3>1
      <3>3. h[M + m] = h[M + (m - 1)] + b[m].size
        BY <1>0, <1>5, <3>1
      <3>4. g[m] = g[m - 1] + b[m].size
        BY <1>4, <2>3, <3>1
      <3>5. f[M] \in Nat /\ g[m - 1] \in Nat /\ b[m].size \in Nat
        <4>1. M \in 0 .. M
          BY <1>0
        <4> QED
          BY <1>0, <3>1, <4>1
      <3> QED
        BY <2>1, <3>2, <3>3, <3>4, <3>5, SMTT(30)
    <2> QED
      BY <2>2, <2>3
  <1>8. Total(a) \in Nat /\ Total(b) \in Nat /\ Total(c) = Total(a) + Total(b)
    <2>1. M \in 0 .. M /\ N \in 0 .. N
      BY <1>0
    <2> QED
      BY <1>0, <1>1, <1>2, <1>3, <1>7, <2>1
  <1> QED
    BY <1>0, <1>8 DEF c

LEMMA PairIs ==
    ASSUME NEW m \in Messages, NEW n \in Messages
    PROVE  /\ <<m, n>> \in Seq(Messages) /\ Len(<<m, n>>) = 2
           /\ <<m>> \o <<n>> = <<m, n>> /\ Append(<<m>>, n) = <<m, n>>
  <1>1. /\ <<m>> \o <<n>> \in Seq(Messages) /\ <<m, n>> \in Seq(Messages)
        /\ Append(<<m>>, n) \in Seq(Messages)
    OBVIOUS
  <1>2. Len(<<m>> \o <<n>>) = 2 /\ Len(<<m, n>>) = 2 /\ Len(Append(<<m>>, n)) = 2
    OBVIOUS
  <1>3. /\ \A i \in 1 .. 2 : (<<m>> \o <<n>>)[i] = <<m, n>>[i]
        /\ \A i \in 1 .. 2 : Append(<<m>>, n)[i] = <<m, n>>[i]
    OBVIOUS
  <1> QED
    BY <1>1, <1>2, <1>3, SeqEqual

LEMMA TotalOfFew ==
    /\ Total(<<>>) = 0
    /\ \A m \in Messages : Total(<<m>>) = m.size
    /\ \A m, n \in Messages : Total(<<m, n>>) = m.size + n.size
  <1>1. Total(<<>>) = 0
    <2>1. <<>> \in Seq(Messages) /\ Len(<<>>) = 0 /\ 0 \in 0 .. 0
      OBVIOUS
    <2>2. PICK f \in [0 .. 0 -> Nat] : Adds(<<>>, f) /\ Total(<<>>) = f[0]
      BY <2>1, TotalSteps
    <2> QED
      BY <2>1, <2>2 DEF Adds
  <1>2. \A m \in Messages : Total(<<m>>) = m.size
    <2> SUFFICES ASSUME NEW m \in Messages PROVE Total(<<m>>) = m.size
      OBVIOUS
    <2>1. <<m>> \in Seq(Messages) /\ Len(<<m>>) = 1 /\ <<m>>[1] = m /\ m.size \in Nat
      BY DEF Messages
    <2>2. PICK f \in [0 .. 1 -> Nat] : Adds(<<m>>, f) /\ Total(<<m>>) = f[1]
      BY <2>1, TotalSteps
    <2>3. f[0] = 0 /\ f[1] = f[0] + m.size
      BY <2>1, <2>2 DEF Adds
    <2> QED
      BY <2>1, <2>2, <2>3
  <1>3. \A m, n \in Messages : Total(<<m, n>>) = m.size + n.size
    <2> SUFFICES ASSUME NEW m \in Messages, NEW n \in Messages
                 PROVE  Total(<<m, n>>) = m.size + n.size
      OBVIOUS
    <2>1. <<m>> \in Seq(Messages) /\ <<n>> \in Seq(Messages)
      OBVIOUS
    <2>2. Total(<<m>> \o <<n>>) = Total(<<m>>) + Total(<<n>>)
      BY <2>1, TotalAdds
    <2> QED
      BY <1>2, <2>2, PairIs
  <1> QED
    BY <1>1, <1>2, <1>3

-----------------------------------------------------------------------------
\* Chosen keeps exactly the chosen messages, and the first one if it is chosen.
ChosenUpTo(s, I, h, n) ==
    /\ h \in Seq(Messages)
    /\ ToSet(h) = {s[i] : i \in I \cap (1 .. n)}
    /\ 1 \in I /\ n >= 1 => h # <<>> /\ h[1] = s[1]
    /\ 1 .. n \subseteq I => h = SubSeq(s, 1, n)

Picks(s, I, f) ==
  f = [n \in 0 .. Len(s) |->
         IF n = 0 THEN <<>> ELSE IF n \in I THEN Append(f[n - 1], s[n]) ELSE f[n - 1]]

LEMMA ChosenStep ==
    ASSUME NEW s \in Seq(Messages), NEW I, NEW n \in 1 .. Len(s), NEW h,
           ChosenUpTo(s, I, h, n - 1)
    PROVE  ChosenUpTo(s, I, IF n \in I THEN Append(h, s[n]) ELSE h, n)
  <1>0. /\ h \in Seq(Messages) /\ s[n] \in Messages /\ n \in Nat /\ n - 1 \in Nat
        /\ (1 .. n) = (1 .. n - 1) \cup {n}
    BY DEF ChosenUpTo
  <1>1. CASE n \notin I
    <2>1. I \cap (1 .. n) = I \cap (1 .. n - 1) /\ ~(1 .. n \subseteq I)
      BY <1>0, <1>1
    <2>2. 1 \in I => n - 1 >= 1
      BY <1>0, <1>1
    <2> QED
      BY <1>1, <2>1, <2>2 DEF ChosenUpTo
  <1>2. CASE n \in I
    <2> DEFINE g == Append(h, s[n])
    <2>1. /\ g \in Seq(Messages) /\ Len(g) = Len(h) + 1 /\ Len(h) \in Nat /\ g # <<>>
          /\ \A i \in 1 .. Len(h) : g[i] = h[i]
          /\ g[Len(h) + 1] = s[n]
      BY <1>0
    <2>2. ToSet(g) = ToSet(h) \cup {s[n]}
      <3>0. DOMAIN h = 1 .. Len(h) /\ DOMAIN g = (1 .. Len(h)) \cup {Len(h) + 1}
        BY <1>0, <2>1
      <3> HIDE DEF g
      <3> QED
        BY <2>1, <3>0 DEF ToSet
    <2>3. ToSet(g) = {s[i] : i \in I \cap (1 .. n)}
      <3>1. {s[i] : i \in I \cap (1 .. n)} = {s[i] : i \in I \cap (1 .. n - 1)} \cup {s[n]}
        BY <1>0, <1>2
      <3> QED
        BY <2>2, <3>1 DEF ChosenUpTo
    <2>4. 1 \in I => g[1] = s[1]
      <3>1. CASE n = 1
        <4>1. I \cap (1 .. n - 1) = {}
          BY <1>0, <3>1
        <4>2. ToSet(h) = {}
          BY <4>1 DEF ChosenUpTo
        <4>3. Len(h) = 0
          <5> SUFFICES ASSUME Len(h) # 0 PROVE FALSE
            OBVIOUS
          <5>1. 1 \in DOMAIN h
            BY <1>0
          <5> QED
            BY <4>2, <5>1 DEF ToSet
        <4> QED
          BY <2>1, <3>1, <4>3
      <3>2. CASE n # 1
        <4>1. n - 1 >= 1
          BY <1>0, <3>2
        <4>2. 1 \in I => h # <<>> /\ h[1] = s[1]
          BY <4>1 DEF ChosenUpTo
        <4>3. h # <<>> => 1 \in 1 .. Len(h)
          BY <1>0
        <4> QED
          BY <2>1, <4>2, <4>3
      <3> QED
        BY <3>1, <3>2
    <2>5. 1 .. n \subseteq I => g = SubSeq(s, 1, n)
      <3> SUFFICES ASSUME 1 .. n \subseteq I PROVE g = SubSeq(s, 1, n)
        OBVIOUS
      <3>1. h = SubSeq(s, 1, n - 1)
        BY <1>0 DEF ChosenUpTo
      <3>2. /\ SubSeq(s, 1, n) \in Seq(Messages) /\ Len(SubSeq(s, 1, n)) = n
            /\ \A i \in 1 .. n : SubSeq(s, 1, n)[i] = s[i]
        OBVIOUS
      <3>3. Len(h) = n - 1 /\ \A i \in 1 .. n - 1 : h[i] = s[i]
        BY <3>1
      <3>4. Len(g) = n /\ \A i \in 1 .. n : g[i] = SubSeq(s, 1, n)[i]
        <4> HIDE DEF g
        <4> QED
          BY <1>0, <2>1, <3>2, <3>3
      <3> HIDE DEF g
      <3> QED
        BY <2>1, <3>2, <3>4, SeqEqual
    <2> HIDE DEF g
    <2>6. ChosenUpTo(s, I, g, n)
      BY <2>1, <2>3, <2>4, <2>5 DEF ChosenUpTo
    <2> QED
      BY <1>2, <2>6 DEF g
  <1> QED
    BY <1>1, <1>2

LEMMA ChosenParts ==
    ASSUME NEW s \in Seq(Messages), NEW I
    PROVE  /\ Chosen(s, I) \in Seq(Messages)
           /\ ToSet(Chosen(s, I)) = {s[i] : i \in I \cap DOMAIN s}
           /\ 1 \in I /\ s # <<>> => Chosen(s, I) # <<>> /\ Chosen(s, I)[1] = s[1]
           /\ DOMAIN s \subseteq I => Chosen(s, I) = s
  <1> DEFINE N == Len(s)
             G == [p \in Seq(Messages) \X (1 .. N) |->
                     IF p[2] \in I THEN Append(p[1], s[p[2]]) ELSE p[1]]
             Kept == CHOOSE f : Picks(s, I, f)
  <1>0. N \in Nat /\ DOMAIN s = 1 .. N /\ \A n \in 1 .. N : s[n] \in Messages
    OBVIOUS
  <1>1. /\ G \in Steps(Seq(Messages), N) /\ <<>> \in Seq(Messages)
        /\ \A h \in Seq(Messages), n \in 1 .. N :
             G[<<h, n>>] = IF n \in I THEN Append(h, s[n]) ELSE h
    BY <1>0 DEF Steps
  <1>2. PICK f \in [0 .. N -> Seq(Messages)] : Starts(f, <<>>, N, G)
    <2> HIDE DEF G, N
    <2> QED
      BY <1>0, <1>1, Recursion
  <1>3. Picks(s, I, f)
    <2>1. \A n \in 0 .. N :
            f[n] = IF n = 0 THEN <<>>
                   ELSE IF n \in I THEN Append(f[n - 1], s[n]) ELSE f[n - 1]
      <3> SUFFICES ASSUME NEW n \in 0 .. N
                   PROVE  f[n] = IF n = 0 THEN <<>>
                                 ELSE IF n \in I THEN Append(f[n - 1], s[n]) ELSE f[n - 1]
        OBVIOUS
      <3> HIDE DEF G, N
      <3>1. n # 0 => n \in 1 .. N /\ f[n - 1] \in Seq(Messages)
        BY <1>0
      <3>2. n # 0 => f[n] = G[<<f[n - 1], n>>]
        BY <1>2, <3>1 DEF Starts
      <3> QED
        BY <1>1, <1>2, <3>1, <3>2 DEF Starts
    <2> HIDE DEF G
    <2> QED
      BY <2>1 DEF Picks
  <1>4. Picks(s, I, Kept)
    BY <1>3, Zenon
  <1>5. Chosen(s, I) = Kept[N]
    BY DEF Chosen, Picks
  <1> HIDE DEF G, Kept
  <1>6. /\ Kept[0] = <<>>
        /\ \A n \in 1 .. N : Kept[n] = IF n \in I THEN Append(Kept[n - 1], s[n]) ELSE Kept[n - 1]
    <2>1. 0 \in 0 .. N /\ \A n \in 1 .. N : n \in 0 .. N /\ n # 0
      BY <1>0
    <2> QED
      BY <1>4, <2>1 DEF Picks
  <1>7. ChosenUpTo(s, I, Kept[0], 0)
    <2>1. <<>> \in Seq(Messages) /\ ToSet(<<>>) = {} /\ SubSeq(s, 1, 0) = <<>>
      BY DEF ToSet
    <2>2. I \cap (1 .. 0) = {} /\ ~(0 >= 1)
      OBVIOUS
    <2> QED
      BY <1>6, <2>1, <2>2 DEF ChosenUpTo
  <1>8. \A n \in 0 .. N : ChosenUpTo(s, I, Kept[n], n)
    <2> DEFINE B == {n \in 0 .. N : ~ChosenUpTo(s, I, Kept[n], n)}
    <2> SUFFICES ASSUME B # {} PROVE FALSE
      OBVIOUS
    <2>1. PICK m \in B : \A j \in B : m <= j
      <3>1. B \in SUBSET (0 .. N)
        OBVIOUS
      <3> HIDE DEF B, N
      <3> QED
        BY <1>0, <3>1, HasLeast
    <2>2. m \in 1 .. N /\ m - 1 \in 0 .. N /\ ~(m <= m - 1)
      BY <1>0, <1>7, <2>1
    <2>3. ChosenUpTo(s, I, Kept[m - 1], m - 1)
      BY <2>1, <2>2
    <2>4. ChosenUpTo(s, I, IF m \in I THEN Append(Kept[m - 1], s[m]) ELSE Kept[m - 1], m)
      BY <2>2, <2>3, ChosenStep
    <2> QED
      BY <1>6, <2>1, <2>2, <2>4
  <1>9. ChosenUpTo(s, I, Chosen(s, I), N)
    BY <1>0, <1>5, <1>8
  <1>10. SubSeq(s, 1, N) = s /\ (s # <<>> => N >= 1)
    BY <1>0
  <1> HIDE DEF N
  <1> QED
    BY <1>0, <1>9, <1>10 DEF ChosenUpTo

-----------------------------------------------------------------------------
\* Cutting a history at a position.
LEMMA InSequence ==
    ASSUME NEW s \in Seq(Messages)
    PROVE  /\ Len(s) \in Nat /\ DOMAIN s = 1 .. Len(s) /\ (s = <<>> <=> Len(s) = 0)
           /\ ToSet(s) = {s[i] : i \in 1 .. Len(s)} /\ ToSet(s) \subseteq Messages
  BY DEF ToSet

LEMMA SizeCases ==
    ASSUME NEW s \in Seq(Messages)
    PROVE  /\ s # <<>> <=> Len(s) = 1 \/ Len(s) >= 2
           /\ Len(s) >= 2 => Len(s) # 1
           /\ Len(s) = 2 => Len(s) >= 2
  <1>1. \A n \in Nat : /\ n # 0 <=> n = 1 \/ n >= 2
                       /\ n >= 2 => n # 1
                       /\ n = 2 => n >= 2
    OBVIOUS
  <1> QED
    BY <1>1, InSequence, Zenon

LEMMA Members ==
    ASSUME NEW t \in Seq(Messages), NEW S, \A i \in 1 .. Len(t) : t[i] \in S
    PROVE  ToSet(t) \subseteq S
  BY DEF ToSet

LEMMA Single ==
    ASSUME NEW m \in Messages
    PROVE  /\ <<m>> \in Seq(Messages) /\ Len(<<m>>) = 1 /\ <<m>>[1] = m
           /\ <<m>> # <<>> /\ ToSet(<<m>>) = {m}
  <1>1. <<m>> \in Seq(Messages) /\ Len(<<m>>) = 1 /\ <<m>>[1] = m /\ <<m>> # <<>>
    OBVIOUS
  <1>2. DOMAIN <<m>> = {1}
    OBVIOUS
  <1> QED
    BY <1>1, <1>2 DEF ToSet

LEMMA Concatenated ==
    ASSUME NEW a \in Seq(Messages), NEW b \in Seq(Messages)
    PROVE  /\ a \o b \in Seq(Messages) /\ Len(a \o b) = Len(a) + Len(b)
           /\ \A i \in 1 .. Len(a) : (a \o b)[i] = a[i]
           /\ \A i \in 1 .. Len(b) : (a \o b)[Len(a) + i] = b[i]
           /\ ToSet(a \o b) = ToSet(a) \cup ToSet(b)
           /\ a # <<>> => a \o b # <<>> /\ (a \o b)[1] = a[1]
  <1> DEFINE c == a \o b
  <1>1. /\ c \in Seq(Messages) /\ Len(c) = Len(a) + Len(b)
        /\ \A i \in 1 .. Len(a) : c[i] = a[i]
        /\ \A i \in 1 .. Len(b) : c[Len(a) + i] = b[i]
    <2>1. \A i \in 1 .. Len(a) : i \in 1 .. Len(a) + Len(b) /\ i <= Len(a)
      OBVIOUS
    <2>2. \A i \in 1 .. Len(b) :
            Len(a) + i \in 1 .. Len(a) + Len(b) /\ ~(Len(a) + i <= Len(a)) /\ (Len(a) + i) - Len(a) = i
      OBVIOUS
    <2> QED
      BY <2>1, <2>2, ConcatProperties
  <1> HIDE DEF c
  <1>2. /\ Len(a) \in Nat /\ Len(b) \in Nat
        /\ ToSet(a) = {a[i] : i \in 1 .. Len(a)} /\ ToSet(b) = {b[i] : i \in 1 .. Len(b)}
        /\ ToSet(c) = {c[i] : i \in 1 .. Len(a) + Len(b)}
    BY <1>1, InSequence
  <1>3. \A i \in 1 .. Len(a) + Len(b) :
          i \in 1 .. Len(a) \/ \E j \in 1 .. Len(b) : i = Len(a) + j
    <2> SUFFICES ASSUME NEW i \in 1 .. Len(a) + Len(b), i \notin 1 .. Len(a)
                 PROVE  \E j \in 1 .. Len(b) : i = Len(a) + j
      OBVIOUS
    <2>1. i - Len(a) \in 1 .. Len(b) /\ i = Len(a) + (i - Len(a))
      BY <1>2
    <2> QED
      BY <2>1
  <1>4. \A i \in 1 .. Len(a) : i \in 1 .. Len(a) + Len(b)
    BY <1>2
  <1>5. \A i \in 1 .. Len(b) : Len(a) + i \in 1 .. Len(a) + Len(b)
    BY <1>2
  <1>6. ToSet(c) = ToSet(a) \cup ToSet(b)
    <2>1. ASSUME NEW i \in 1 .. Len(a) + Len(b) PROVE c[i] \in ToSet(a) \cup ToSet(b)
      BY <1>1, <1>2, <1>3
    <2>2. ASSUME NEW i \in 1 .. Len(a) PROVE a[i] \in ToSet(c)
      <3>1. c[i] \in ToSet(c) /\ c[i] = a[i]
        BY <1>1, <1>2, <1>4
      <3> QED
        BY <3>1
    <2>3. ASSUME NEW i \in 1 .. Len(b) PROVE b[i] \in ToSet(c)
      <3>1. c[Len(a) + i] \in ToSet(c) /\ c[Len(a) + i] = b[i]
        BY <1>1, <1>2, <1>5
      <3> QED
        BY <3>1
    <2> QED
      BY <1>2, <2>1, <2>2, <2>3
  <1>7. a # <<>> => c # <<>> /\ c[1] = a[1]
    <2>1. a # <<>> => 1 \in 1 .. Len(a) /\ Len(c) # 0
      BY <1>1, <1>2
    <2> QED
      BY <1>1, <2>1, InSequence
  <1> QED
    BY <1>1, <1>6, <1>7 DEF c

LEMMA Cut ==
    ASSUME NEW s \in Seq(Messages), NEW i \in 1 .. Len(s) + 1
    PROVE  /\ From(s, i) \in Seq(Messages) /\ Len(From(s, i)) = Len(s) - i + 1
           /\ \A j \in 1 .. Len(s) - i + 1 : From(s, i)[j] = s[i + j - 1]
           /\ ToSet(From(s, i)) \subseteq ToSet(s)
           /\ i = Len(s) + 1 => From(s, i) = <<>>
           /\ SubSeq(s, 1, i - 1) \in Seq(Messages) /\ Len(SubSeq(s, 1, i - 1)) = i - 1
           /\ \A j \in 1 .. i - 1 : SubSeq(s, 1, i - 1)[j] = s[j]
           /\ ToSet(SubSeq(s, 1, i - 1)) \subseteq ToSet(s)
           /\ SubSeq(s, 1, i - 1) \o From(s, i) = s
  <1> DEFINE t == From(s, i)  u == SubSeq(s, 1, i - 1)
  <1>1. /\ t \in Seq(Messages) /\ Len(t) = Len(s) - i + 1
        /\ \A j \in 1 .. Len(s) - i + 1 : t[j] = s[i + j - 1]
    BY DEF From
  <1>2. /\ u \in Seq(Messages) /\ Len(u) = i - 1
        /\ \A j \in 1 .. i - 1 : u[j] = s[j]
    OBVIOUS
  <1> HIDE DEF t, u
  <1>3. ToSet(t) \subseteq ToSet(s)
    <2> SUFFICES ASSUME NEW j \in 1 .. Len(t) PROVE t[j] \in ToSet(s)
      BY <1>1, InSequence
    <2>1. j \in 1 .. Len(s) - i + 1 /\ i + j - 1 \in 1 .. Len(s)
      BY <1>1
    <2>2. t[j] = s[i + j - 1] /\ s[i + j - 1] \in ToSet(s)
      BY <1>1, <2>1, InSequence
    <2> QED
      BY <2>2
  <1>4. ToSet(u) \subseteq ToSet(s)
    <2>1. \A j \in 1 .. i - 1 : j \in 1 .. Len(s)
      OBVIOUS
    <2> QED
      BY <1>2, <2>1, InSequence
  <1>5. u \o t = s
    <2> DEFINE c == u \o t
    <2>1. /\ c \in Seq(Messages) /\ Len(c) = Len(u) + Len(t)
          /\ \A j \in 1 .. Len(u) : c[j] = u[j]
          /\ \A j \in 1 .. Len(t) : c[Len(u) + j] = t[j]
      BY <1>1, <1>2, Concatenated
    <2> HIDE DEF c
    <2>2. Len(c) = Len(s)
      BY <1>1, <1>2, <2>1
    <2>3. ASSUME NEW j \in 1 .. Len(s) PROVE c[j] = s[j]
      <3>1. CASE j \in 1 .. i - 1
        BY <1>2, <2>1, <3>1
      <3>2. CASE j \notin 1 .. i - 1
        <4> DEFINE d == j - (i - 1)
        <4>1. d \in 1 .. Len(s) - i + 1 /\ (i - 1) + d = j /\ i + d - 1 = j
          BY <3>2
        <4> HIDE DEF d
        <4>2. c[Len(u) + d] = t[d]
          BY <1>1, <2>1, <4>1
        <4>3. t[d] = s[i + d - 1]
          BY <1>1, <4>1
        <4> QED
          BY <1>2, <4>1, <4>2, <4>3
      <3> QED
        BY <3>1, <3>2
    <2> QED
      BY <2>1, <2>2, <2>3, SeqEqual DEF c
  <1>6. i = Len(s) + 1 => t = <<>>
    BY <1>1
  <1> QED
    BY <1>1, <1>2, <1>3, <1>4, <1>5, <1>6 DEF t, u

LEMMA SafeSplitInRange ==
    ASSUME NEW s, NEW i \in Nat, i >= 2
    PROVE  SafeSplit(s, i) \in 2 .. i
  <1> DEFINE B == {j \in 2 .. i : \A k \in j .. i - 1 : s[k].calls \cap ReturnIds(From(s, i)) # {}}
  <1>1. B \in SUBSET (0 .. i) /\ i \in B
    OBVIOUS
  <1>2. Min(B) \in 2 .. i
    <2>1. Min(B) \in B
      <3> HIDE DEF B
      <3> QED
        BY <1>1, LeastOf
    <2> QED
      BY <2>1
  <1>3. SafeSplit(s, i) = IF i <= 2 THEN i ELSE Min(B)
    BY DEF SafeSplit
  <1> QED
    BY <1>2, <1>3

LEMMA TailStartIs ==
    ASSUME NEW s \in Seq(Messages), NEW first \in 1 .. Len(s) + 1, NEW budget
    PROVE  /\ TailStart(s, first, budget) \in first .. Len(s) + 1
           /\ TailStart(s, first, budget) <= Len(s)
                => Total(From(s, TailStart(s, first, budget))) <= budget
           /\ \A j \in first .. Len(s) :
                Total(From(s, j)) <= budget => TailStart(s, first, budget) <= j
  <1> DEFINE N == Len(s)
             B == {N + 1} \cup {j \in first .. N : Total(From(s, j)) <= budget}
  <1>0. N \in Nat /\ first \in Nat /\ first >= 1 /\ first <= N + 1
    OBVIOUS
  <1>1. B \in SUBSET (0 .. N + 1) /\ B # {} /\ N + 1 \in Nat
    BY <1>0
  <1>2. TailStart(s, first, budget) = Min(B)
    BY DEF TailStart
  <1>3. Min(B) \in B /\ \A j \in B : Min(B) <= j
    <2> HIDE DEF B, N
    <2> QED
      BY <1>1, LeastOf
  <1> HIDE DEF N
  <1> QED
    BY <1>0, <1>2, <1>3 DEF N

-----------------------------------------------------------------------------
\* Truncation.
LEMMA LeastNatural ==
    ASSUME NEW S \in SUBSET Nat, S # {}
    PROVE  Min(S) \in S /\ \A j \in S : Min(S) <= j
  <1>1. PICK x \in S : TRUE
    OBVIOUS
  <1>2. PICK i \in {y \in S : y <= x} : \A j \in {y \in S : y <= x} : i <= j
    <2> DEFINE B == {y \in S : y <= x}
    <2>0. x \in Nat /\ \A y \in S : y \in Nat
      OBVIOUS
    <2>1. B \in SUBSET (0 .. x) /\ x \in B
      <3>1. \A y \in Nat : y <= x => y \in 0 .. x
        BY <2>0
      <3>2. x <= x
        BY <2>0
      <3> QED
        BY <2>0, <3>1, <3>2
    <2> HIDE DEF B
    <2>2. \E i \in B : \A j \in B : i <= j
      BY <2>0, <2>1, HasLeast
    <2> QED
      BY <2>2 DEF B
  <1>3. \E k \in S : \A j \in S : k <= j
    <2>1. ASSUME NEW j \in S PROVE i <= j
      <3>1. j \in Nat /\ x \in Nat /\ i \in Nat /\ i <= x
        OBVIOUS
      <3> QED
        BY <1>2, <3>1
    <2> QED
      BY <1>2, <2>1
  <1> QED
    BY <1>3 DEF Min

LEMMA SmallestInRange ==
    ASSUME NEW s \in Seq(Messages), Len(s) >= 2
    PROVE  SmallestIndex(s) \in 2 .. Len(s)
  <1> DEFINE N == Len(s)
             Sizes == {s[i].size : i \in 2 .. N}
             B == {i \in 2 .. N : s[i].size = Min(Sizes)}
  <1>0. N \in Nat /\ 2 \in 2 .. N /\ \A i \in 2 .. N : s[i] \in Messages
    OBVIOUS
  <1>1. Sizes \in SUBSET Nat /\ Sizes # {}
    BY <1>0, MessageParts
  <1>2. Min(Sizes) \in Sizes
    <2> HIDE DEF Sizes
    <2> QED
      BY <1>1, LeastNatural
  <1>3. B \in SUBSET Nat /\ B # {}
    <2>1. PICK i \in 2 .. N : s[i].size = Min(Sizes)
      <3>1. PICK i \in 2 .. N : Min(Sizes) = s[i].size
        BY <1>2
      <3> QED
        BY <3>1
    <2>2. i \in B
      BY <2>1
    <2>3. 2 .. N \subseteq Nat
      BY <1>0
    <2> QED
      BY <2>2, <2>3
  <1>4. Min(B) \in B
    <2> HIDE DEF B
    <2> QED
      BY <1>3, LeastNatural
  <1> QED
    BY <1>4 DEF SmallestIndex

\* A sequence that keeps the order of s: `at` says where its messages stood.
Ordered(r, s, at) ==
  /\ r \in Seq(Messages) /\ at \in [1 .. Len(r) -> 1 .. Len(s)]
  /\ \A i \in 1 .. Len(r) : r[i] = s[at[i]]
  /\ \A i, j \in 1 .. Len(r) : i <= j => at[i] <= at[j]

Follows(r, s) == \E at : Ordered(r, s, at) /\ \A i \in 1 .. Len(r) : at[i] >= 2

Place(p, q) == [i \in 1 .. q - p + 1 |-> p + i - 1]

LEMMA PieceOrdered ==
    ASSUME NEW s \in Seq(Messages), NEW p \in Nat, NEW q \in Nat,
           p >= 1, p <= q + 1, q <= Len(s)
    PROVE  Ordered(SubSeq(s, p, q), s, Place(p, q)) /\ Len(SubSeq(s, p, q)) = q - p + 1
  <1> DEFINE r == SubSeq(s, p, q)  at == Place(p, q)  n == q - p + 1  N == Len(s)
  <1>0. n \in Nat /\ N \in Nat /\ q <= N
    OBVIOUS
  <1>1. r \in Seq(Messages) /\ Len(r) = n /\ \A i \in 1 .. n : r[i] = s[p + i - 1]
    OBVIOUS
  <1>2. \A i \in 1 .. n : at[i] = p + i - 1 /\ p + i - 1 \in 1 .. N
    BY <1>0 DEF Place
  <1>3. at \in [1 .. n -> 1 .. N]
    BY <1>2 DEF Place
  <1> HIDE DEF r, at, n, N
  <1>4. \A i \in 1 .. Len(r) : r[i] = s[at[i]]
    BY <1>1, <1>2
  <1>5. \A i, j \in 1 .. n : i <= j => p + i - 1 <= p + j - 1
    BY <1>0
  <1>6. \A i, j \in 1 .. Len(r) : i <= j => at[i] <= at[j]
    BY <1>1, <1>2, <1>5
  <1>7. at \in [1 .. Len(r) -> 1 .. N]
    BY <1>1, <1>3
  <1>8. Ordered(r, s, at)
    BY <1>1, <1>4, <1>6, <1>7 DEF Ordered, N
  <1> QED
    BY <1>1, <1>8 DEF r, at, n

Chain(x, y, m, n) == [i \in 1 .. m + n |-> IF i <= m THEN x[i] ELSE y[i - m]]

Beneath(a, x, b, y) == \A i \in 1 .. Len(a), j \in 1 .. Len(b) : x[i] <= y[j]
Chained(a, x, b, y, s) ==
  LET at == Chain(x, y, Len(a), Len(b))
  IN  /\ Ordered(a \o b, s, at) /\ Len(a \o b) = Len(a) + Len(b)
      /\ \A i \in 1 .. Len(a) + Len(b) :
           \/ \E j \in 1 .. Len(a) : at[i] = x[j]
           \/ \E j \in 1 .. Len(b) : at[i] = y[j]

LEMMA JoinOrdered ==
    ASSUME NEW s \in Seq(Messages), NEW a, NEW x, NEW b, NEW y,
           Ordered(a, s, x), Ordered(b, s, y), Beneath(a, x, b, y)
    PROVE  Chained(a, x, b, y, s)
  <1> DEFINE m == Len(a)  n == Len(b)  c == a \o b  at == Chain(x, y, m, n)  N == Len(s)
  <1>0. /\ a \in Seq(Messages) /\ b \in Seq(Messages) /\ m \in Nat /\ n \in Nat
        /\ x \in [1 .. m -> 1 .. N] /\ y \in [1 .. n -> 1 .. N]
        /\ N \in Nat
    BY InSequence DEF Ordered
  <1>1. /\ c \in Seq(Messages) /\ Len(c) = m + n
        /\ \A i \in 1 .. m : c[i] = a[i]
        /\ \A i \in 1 .. n : c[m + i] = b[i]
    BY <1>0, Concatenated
  <1>2. /\ \A i \in 1 .. m : a[i] = s[x[i]]
        /\ \A i \in 1 .. n : b[i] = s[y[i]]
        /\ \A i, j \in 1 .. m : i <= j => x[i] <= x[j]
        /\ \A i, j \in 1 .. n : i <= j => y[i] <= y[j]
        /\ \A i \in 1 .. m, j \in 1 .. n : x[i] <= y[j]
    BY DEF Ordered, Beneath
  <1>3. \A i \in 1 .. m + n : at[i] = IF i <= m THEN x[i] ELSE y[i - m]
    BY DEF Chain
  <1>4. at = [i \in 1 .. m + n |-> at[i]]
    BY DEF Chain
  <1> HIDE DEF at, c, m, n, N
  <1>5. \A i \in 1 .. m + n : i \in 1 .. m \/ (~(i <= m) /\ i - m \in 1 .. n /\ m + (i - m) = i)
    BY <1>0
  <1>6. \A i \in 1 .. m : i <= m
    BY <1>0
  <1>7. ASSUME NEW i \in 1 .. m + n
        PROVE  \/ i \in 1 .. m /\ at[i] = x[i] /\ c[i] = s[at[i]]
               \/ i - m \in 1 .. n /\ at[i] = y[i - m] /\ c[i] = s[at[i]] /\ ~(i <= m)
    <2>1. CASE i \in 1 .. m
      BY <1>1, <1>2, <1>3, <1>6, <2>1
    <2>2. CASE i \notin 1 .. m
      <3>1. ~(i <= m) /\ i - m \in 1 .. n /\ m + (i - m) = i
        BY <1>5, <2>2
      <3> DEFINE d == i - m
      <3>2. d \in 1 .. n /\ m + d = i /\ at[i] = y[d]
        BY <1>3, <3>1
      <3> HIDE DEF d
      <3>3. c[m + d] = b[d] /\ b[d] = s[y[d]]
        BY <1>1, <1>2, <3>2
      <3>4. c[i] = s[at[i]]
        BY <3>2, <3>3
      <3> QED
        BY <3>1, <3>2, <3>4 DEF d
    <2> QED
      BY <2>1, <2>2
  <1>8. at \in [1 .. m + n -> 1 .. N]
    <2>1. \A i \in 1 .. m + n : at[i] \in 1 .. N
      BY <1>0, <1>7
    <2> QED
      BY <1>4, <2>1
  <1>9. ASSUME NEW i \in 1 .. m + n, NEW j \in 1 .. m + n, i <= j PROVE at[i] <= at[j]
    <2>1. CASE i \in 1 .. m /\ j \in 1 .. m
      BY <1>2, <1>3, <1>6, <1>9, <2>1
    <2>2. CASE i \in 1 .. m /\ ~(j <= m)
      <3>1. at[i] = x[i] /\ at[j] = y[j - m] /\ j - m \in 1 .. n
        BY <1>3, <1>5, <1>6, <2>2
      <3> QED
        BY <1>2, <2>2, <3>1
    <2>3. CASE ~(i <= m) /\ ~(j <= m)
      <3>1. at[i] = y[i - m] /\ at[j] = y[j - m] /\ j - m \in 1 .. n /\ i - m \in 1 .. n
        BY <1>3, <1>5, <1>6, <2>3
      <3>2. i - m <= j - m
        BY <1>0, <1>9
      <3> QED
        BY <1>2, <3>1, <3>2
    <2>4. i \in 1 .. m \/ ~(i <= m)
      BY <1>5
    <2>5. ~(i <= m) => ~(j <= m)
      BY <1>0, <1>9
    <2>6. j \in 1 .. m \/ ~(j <= m)
      BY <1>5
    <2> QED
      BY <2>1, <2>2, <2>3, <2>4, <2>5, <2>6
  <1>10. Ordered(c, s, at)
    BY <1>1, <1>7, <1>8, <1>9 DEF Ordered, N
  <1> QED
    BY <1>1, <1>7, <1>10 DEF Chained, c, at, m, n

\* What a safe split puts before a tail keeps the order and leaves the first message out.
LEMMA FromFollows ==
    ASSUME NEW s \in Seq(Messages), NEW k \in 2 .. Len(s) + 1
    PROVE  Follows(From(s, k), s) /\ Len(From(s, k)) = Len(s) - k + 1
  <1>1. Len(s) \in Nat /\ k \in Nat /\ k >= 2 /\ k <= Len(s) + 1
    OBVIOUS
  <1>2. Ordered(From(s, k), s, Place(k, Len(s))) /\ Len(From(s, k)) = Len(s) - k + 1
    BY <1>1, PieceOrdered DEF From
  <1>3. \A i \in 1 .. Len(s) - k + 1 : Place(k, Len(s))[i] >= 2
    BY <1>1 DEF Place
  <1> QED
    BY <1>2, <1>3 DEF Follows

LEMMA ExtendedIs ==
    ASSUME NEW s \in Seq(Messages), NEW start \in 2 .. Len(s)
    PROVE  Follows(Extended(s, start), s) /\ Len(Extended(s, start)) >= Len(s) - start + 1
  <1> DEFINE N == Len(s)
             first == FirstOf(s, start)
             safe == SafeSplit(s, first)
             B == {j \in 1 .. start : s[j] = s[start]}
  <1>0. N \in Nat /\ start \in Nat /\ start >= 2 /\ start <= N
    OBVIOUS
  <1>1. first \in 1 .. start
    <2>1. B \in SUBSET (0 .. start) /\ start \in B
      BY <1>0
    <2>2. Min(B) \in B
      <3> HIDE DEF B
      <3> QED
        BY <1>0, <2>1, LeastOf
    <2>3. first = start \/ first = Min(B)
      BY DEF FirstOf
    <2> HIDE DEF first
    <2> QED
      BY <1>0, <2>2, <2>3
  <1>2. first \in Nat /\ first >= 1 /\ first <= start
    BY <1>0, <1>1
  <1> HIDE DEF first, B, N
  <1>3. safe \in Nat /\ safe >= 1 /\ safe <= first /\ (safe <= first - 1 => safe >= 2)
    <2>1. CASE first = 1
      <3>1. safe = 1
        BY <2>1 DEF SafeSplit
      <3> QED
        BY <2>1, <3>1
    <2>2. CASE first # 1
      <3>1. first >= 2
        BY <1>2, <2>2
      <3>2. safe \in 2 .. first
        BY <1>2, <3>1, SafeSplitInRange
      <3> HIDE DEF safe
      <3> QED
        BY <1>2, <3>2
    <2> QED
      BY <2>1, <2>2
  <1> HIDE DEF safe
  <1> DEFINE q == first - 1  a == SubSeq(s, safe, q)  b == From(s, start)
             x == Place(safe, q)  y == Place(start, N)
  <1>4. q \in Nat /\ safe <= q + 1 /\ q <= N /\ q < start
    BY <1>0, <1>2, <1>3
  <1>5. Ordered(a, s, x) /\ Len(a) = q - safe + 1
    <2> HIDE DEF q
    <2> QED
      BY <1>3, <1>4, PieceOrdered DEF N
  <1>6. Ordered(b, s, y) /\ Len(b) = N - start + 1
    BY <1>0, PieceOrdered DEF N, From
  <1>7. \A i \in 1 .. q - safe + 1 : x[i] = safe + i - 1 /\ x[i] >= 2 /\ x[i] <= q
    <2> SUFFICES ASSUME NEW i \in 1 .. q - safe + 1
                 PROVE  x[i] = safe + i - 1 /\ x[i] >= 2 /\ x[i] <= q
      OBVIOUS
    <2>1. x[i] = safe + i - 1
      BY DEF Place
    <2>2. safe <= first - 1
      BY <1>2, <1>3
    <2> QED
      BY <1>2, <1>3, <2>1, <2>2
  <1>8. \A i \in 1 .. N - start + 1 : y[i] = start + i - 1 /\ y[i] >= start
    BY <1>0 DEF Place
  <1>9. Len(a) \in Nat /\ Len(b) \in Nat
    BY <1>5, <1>6, InSequence DEF Ordered
  <1> HIDE DEF a, b, x, y, q
  <1>10. Beneath(a, x, b, y)
    <2> SUFFICES ASSUME NEW i \in 1 .. Len(a), NEW j \in 1 .. Len(b) PROVE x[i] <= y[j]
      BY DEF Beneath
    <2>1. x[i] = safe + i - 1 /\ x[i] <= q
      BY <1>5, <1>7
    <2>2. y[j] = start + j - 1 /\ y[j] >= start
      BY <1>6, <1>8
    <2>3. i \in Nat /\ j \in Nat
      BY <1>9
    <2> QED
      BY <1>0, <1>3, <1>4, <2>1, <2>2, <2>3
  <1> DEFINE at == Chain(x, y, Len(a), Len(b))
  <1>11. /\ Ordered(a \o b, s, at) /\ Len(a \o b) = Len(a) + Len(b)
         /\ \A i \in 1 .. Len(a) + Len(b) :
              \/ \E j \in 1 .. Len(a) : at[i] = x[j]
              \/ \E j \in 1 .. Len(b) : at[i] = y[j]
    <2>1. Chained(a, x, b, y, s)
      BY <1>5, <1>6, <1>10, JoinOrdered
    <2> QED
      BY <2>1, Zenon DEF Chained
  <1> HIDE DEF at
  <1>12. \A j \in 1 .. Len(a) : x[j] >= 2
    BY <1>5, <1>7
  <1>13. \A j \in 1 .. Len(b) : y[j] >= 2
    <2>1. \A j \in 1 .. Len(b) : y[j] = start + j - 1
      BY <1>6, <1>8
    <2> QED
      BY <1>0, <1>9, <2>1
  <1>14. \A i \in 1 .. Len(a \o b) : at[i] >= 2
    BY <1>11, <1>12, <1>13
  <1>15. Follows(a \o b, s)
    BY <1>11, <1>14 DEF Follows
  <1>16. Extended(s, start) = a \o b
    BY DEF Extended, a, b, q, safe, first
  <1> QED
    BY <1>6, <1>9, <1>11, <1>15, <1>16 DEF N

\* The recent part follows the head, it fits, and it is all there is if that fits.
RecentFits(s, head, room, r) ==
  /\ Follows(r, s)
  /\ r # <<>> => Total(r) <= room
  /\ head + 1 <= Len(s) /\ Total(From(s, head + 1)) <= room => Len(r) >= Len(s) - head

LEMMA RecentIs ==
    ASSUME NEW s \in Seq(Messages), Len(s) >= 2, NEW head \in 1 .. 2, NEW room
    PROVE  RecentFits(s, head, room, Recent(s, head, room))
  <1> DEFINE N == Len(s)
             start == TailStart(s, head + 1, room)
  <1>0. N \in Nat /\ N >= 2 /\ head + 1 \in 1 .. N + 1 /\ head \in Nat /\ head + 1 >= 2
    OBVIOUS
  <1>1. /\ start \in head + 1 .. N + 1
        /\ start <= N => Total(From(s, start)) <= room
        /\ \A j \in head + 1 .. N : Total(From(s, j)) <= room => start <= j
    BY <1>0, TailStartIs
  <1> HIDE DEF start, N
  <1>2. start \in Nat /\ start >= 2 /\ start <= N + 1
    BY <1>0, <1>1
  <1>3. head + 1 <= N /\ Total(From(s, head + 1)) <= room => start <= head + 1
    <2>1. head + 1 <= N => head + 1 \in head + 1 .. N
      BY <1>0
    <2> QED
      BY <1>1, <2>1
  <1>4. Recent(s, head, room) =
          IF start <= N /\ Total(Extended(s, start)) <= room
            THEN Extended(s, start) ELSE From(s, start)
    BY DEF Recent, start, N
  <1> DEFINE r == Recent(s, head, room)
  <1>5. Len(r) >= N - start + 1 => (start <= head + 1 => Len(r) >= N - head) \/ Len(r) \notin Nat
    <2> SUFFICES ASSUME Len(r) \in Nat, Len(r) >= N - start + 1, start <= head + 1
                 PROVE  Len(r) >= N - head
      OBVIOUS
    <2> HIDE DEF r
    <2> QED
      BY <1>0, <1>2
  <1>6. CASE start <= N /\ Total(Extended(s, start)) <= room
    <2>1. start \in 2 .. Len(s)
      BY <1>2, <1>6 DEF N
    <2>2. Follows(r, s) /\ Len(r) >= N - start + 1 /\ Total(r) <= room
      BY <1>4, <1>6, <2>1, ExtendedIs DEF N
    <2>3. Len(r) \in Nat
      BY <2>2, InSequence DEF Follows, Ordered
    <2> HIDE DEF r
    <2> QED
      BY <1>3, <1>5, <2>2, <2>3 DEF N, RecentFits, r
  <1>7. CASE ~(start <= N /\ Total(Extended(s, start)) <= room)
    <2>1. start \in 2 .. Len(s) + 1
      BY <1>0, <1>2 DEF N
    <2>2. Follows(r, s) /\ Len(r) = N - start + 1
      BY <1>4, <1>7, <2>1, FromFollows DEF N
    <2>3. r # <<>> => Total(r) <= room
      <3>1. CASE start <= N
        BY <1>1, <1>4, <1>7, <3>1
      <3>2. CASE ~(start <= N)
        <4>1. start = N + 1
          BY <1>0, <1>2, <3>2
        <4>2. From(s, start) = <<>>
          BY <2>1, <4>1, Cut DEF N
        <4> QED
          BY <1>4, <1>7, <4>2
      <3> QED
        BY <3>1, <3>2
    <2>4. Len(r) \in Nat /\ Len(r) >= N - start + 1
      BY <1>0, <1>2, <2>2
    <2> HIDE DEF r
    <2> QED
      BY <1>3, <1>5, <2>2, <2>3, <2>4 DEF N, RecentFits, r
  <1> QED
    BY <1>6, <1>7

\* What truncation returns: the first message and nothing, one or a part of the rest.
Joined(s, h, r) == SubSeq(s, 1, h) \o r

CutAt(s, b, h, r) ==
  /\ Follows(r, s)
  /\ h = 2 => s[1].size + s[2].size < b
  /\ r # <<>> => Total(r) <= b - Total(SubSeq(s, 1, h))
  /\ h + 1 <= Len(s) /\ Total(From(s, h + 1)) <= b - Total(SubSeq(s, 1, h)) => Len(r) >= Len(s) - h
  /\ Truncate(s, b) = IF Len(Joined(s, h, r)) = 1
                      THEN Append(Joined(s, h, r), s[SmallestIndex(s)]) ELSE Joined(s, h, r)

LEMMA TruncateLong ==
    ASSUME NEW s \in Seq(Messages), Len(s) >= 2, NEW b, ~(s[1].size >= b)
    PROVE  \E h \in 1 .. 2 : \E r : CutAt(s, b, h, r)
  <1> DEFINE h == HeadLength(s, b)
             room == b - Total(SubSeq(s, 1, h))
             r == Recent(s, h, room)
  <1>1. h \in 1 .. 2 /\ (h = 2 => s[1].size + s[2].size < b)
    BY DEF HeadLength
  <1>2. RecentFits(s, h, room, r)
    <2> HIDE DEF h, room
    <2> QED
      BY <1>1, RecentIs
  <1>3. Truncate(s, b) = IF Len(Joined(s, h, r)) = 1
                         THEN Append(Joined(s, h, r), s[SmallestIndex(s)]) ELSE Joined(s, h, r)
    <2>1. s # <<>> /\ Len(s) # 1
      BY SizeCases, Zenon
    <2>2. Truncate(s, b) =
            LET result == SubSeq(s, 1, h) \o Recent(s, h, room)
            IN  IF Len(result) = 1 THEN Append(result, s[SmallestIndex(s)]) ELSE result
      BY <2>1, Zenon DEF Truncate
    <2> HIDE DEF h, room
    <2> QED
      BY <2>2, Zenon DEF Joined
  <1> HIDE DEF r
  <1>4. CutAt(s, b, h, r)
    <2> HIDE DEF h
    <2> QED
      BY <1>1, <1>2, <1>3 DEF RecentFits, CutAt
  <1> HIDE DEF h
  <1> QED
    BY <1>1, <1>4

JoinedWell(s, h, r) ==
  LET c == Joined(s, h, r)
  IN  /\ r \in Seq(Messages) /\ c \in Seq(Messages) /\ Len(c) = h + Len(r)
      /\ ToSet(c) \subseteq ToSet(s) /\ c # <<>> /\ c[1] = s[1]
      /\ Total(c) = Total(SubSeq(s, 1, h)) + Total(r)
      /\ \A i, j \in 1 .. Len(c) : i <= j =>
           \E p, q \in 1 .. Len(s) : p <= q /\ s[p] = c[i] /\ s[q] = c[j]

LEMMA JoinedIs ==
    ASSUME NEW s \in Seq(Messages), NEW h \in 1 .. 2, h <= Len(s), NEW r, Follows(r, s)
    PROVE  JoinedWell(s, h, r)
  <1> DEFINE a == SubSeq(s, 1, h)  N == Len(s)  c == Joined(s, h, r)  x == Place(1, h)
  <1>0. N \in Nat /\ h \in Nat /\ h >= 1 /\ h <= 2 /\ h <= N /\ 1 <= h + 1 /\ h - 1 + 1 = h
    OBVIOUS
  <1>1. PICK y : Ordered(r, s, y) /\ \A i \in 1 .. Len(r) : y[i] >= 2
    BY DEF Follows
  <1>2. r \in Seq(Messages) /\ Len(r) \in Nat /\ y \in [1 .. Len(r) -> 1 .. N]
    BY <1>1, InSequence DEF Ordered
  <1>3. Ordered(a, s, x) /\ Len(a) = h
    <2>1. Ordered(a, s, x) /\ Len(a) = h - 1 + 1
      BY <1>0, PieceOrdered
    <2> QED
      BY <1>0, <2>1
  <1>4. \A i \in 1 .. h : x[i] = i
    BY <1>0 DEF Place
  <1>a. a \in Seq(Messages)
    OBVIOUS
  <1> HIDE DEF a, N, x
  <1>5. Beneath(a, x, r, y)
    <2> SUFFICES ASSUME NEW i \in 1 .. Len(a), NEW j \in 1 .. Len(r) PROVE x[i] <= y[j]
      BY DEF Beneath
    <2>1. x[i] = i /\ i \in Nat /\ i <= 2
      BY <1>0, <1>3, <1>4
    <2>2. y[j] >= 2 /\ y[j] \in 1 .. N
      BY <1>1, <1>2
    <2> QED
      BY <1>0, <2>1, <2>2
  <1> DEFINE at == Chain(x, y, Len(a), Len(r))
  <1>6. Ordered(c, s, at) /\ Len(c) = h + Len(r)
    <2>1. Chained(a, x, r, y, s)
      BY <1>1, <1>3, <1>5, JoinOrdered
    <2>2. Ordered(a \o r, s, at) /\ Len(a \o r) = Len(a) + Len(r)
      BY <2>1, Zenon DEF Chained
    <2>3. c = a \o r
      BY DEF Joined, a
    <2> HIDE DEF c, at
    <2> QED
      BY <1>3, <2>2, <2>3
  <1> HIDE DEF at
  <1>7. Total(c) = Total(a) + Total(r)
    BY <1>a, <1>2, TotalAdds DEF Joined, a
  <1>8. c # <<>> /\ c[1] = s[1]
    <2>1. a[1] = s[1]
      BY <1>0, <1>3, <1>4 DEF Ordered
    <2>2. a # <<>>
      BY <1>0, <1>a, <1>3, InSequence
    <2> QED
      BY <1>a, <1>2, <2>1, <2>2, Concatenated DEF Joined, a
  <1> HIDE DEF c
  <1>9. /\ c \in Seq(Messages) /\ at \in [1 .. Len(c) -> 1 .. N]
        /\ \A i \in 1 .. Len(c) : c[i] = s[at[i]]
        /\ \A i, j \in 1 .. Len(c) : i <= j => at[i] <= at[j]
    BY <1>6 DEF Ordered, N
  <1>10. ToSet(c) \subseteq ToSet(s)
    <2>1. \A i \in 1 .. Len(c) : c[i] \in ToSet(s)
      BY <1>9, InSequence DEF N
    <2> QED
      BY <1>9, <2>1, Members
  <1>11. \A i, j \in 1 .. Len(c) : i <= j =>
           \E p, q \in 1 .. N : p <= q /\ s[p] = c[i] /\ s[q] = c[j]
    <2> SUFFICES ASSUME NEW i \in 1 .. Len(c), NEW j \in 1 .. Len(c), i <= j
                 PROVE  \E p, q \in 1 .. N : p <= q /\ s[p] = c[i] /\ s[q] = c[j]
      OBVIOUS
    <2>1. /\ at[i] \in 1 .. N /\ c[i] = s[at[i]]
          /\ at[j] \in 1 .. N /\ c[j] = s[at[j]] /\ at[i] <= at[j]
      BY <1>9
    <2> QED
      BY <2>1
  <1> QED
    BY <1>2, <1>6, <1>7, <1>8, <1>9, <1>10, <1>11 DEF JoinedWell, c, N, a

LEMMA TruncateShape ==
    ASSUME NEW s \in Seq(Messages), s # <<>>, NEW b
    PROVE  \/ Truncate(s, b) = <<s[1]>> /\ (s[1].size >= b \/ Len(s) = 1)
           \/ Len(s) >= 2 /\ \E i \in 2 .. Len(s) : Truncate(s, b) = <<s[1], s[i]>>
           \/ Len(s) >= 2 /\ \E h \in 1 .. 2 : \E r : Follows(r, s) /\ Truncate(s, b) = Joined(s, h, r)
  <1>0. Len(s) \in Nat /\ Len(s) # 0 /\ s[1] \in Messages
    BY InSequence
  <1>1. CASE s[1].size >= b \/ Len(s) = 1
    BY <1>1 DEF Truncate
  <1>2. CASE ~(s[1].size >= b \/ Len(s) = 1)
    <2>1. Len(s) >= 2 /\ ~(s[1].size >= b)
      <3>1. ~(s[1].size >= b)
        BY <1>2, Zenon
      <3>2. Len(s) # 1
        BY <1>2, Zenon
      <3>3. Len(s) >= 2
        BY <3>2, SizeCases, Zenon
      <3> QED
        BY <3>1, <3>3
    <2>a. PICK h \in 1 .. 2 : \E r : CutAt(s, b, h, r)
      BY <2>1, TruncateLong
    <2>b. PICK r : CutAt(s, b, h, r)
      BY <2>a
    <2>c. Follows(r, s)
      BY <2>b DEF CutAt
    <2>2. Truncate(s, b) = IF Len(Joined(s, h, r)) = 1
                           THEN Append(Joined(s, h, r), s[SmallestIndex(s)])
                           ELSE Joined(s, h, r)
      BY <2>b, Zenon DEF CutAt
    <2>3. CASE Len(Joined(s, h, r)) # 1
      BY <2>1, <2>2, <2>3, <2>c
    <2>4. CASE Len(Joined(s, h, r)) = 1
      <3>1. Joined(s, h, r) \in Seq(Messages) /\ Joined(s, h, r)[1] = s[1]
        BY <2>1, <2>c, JoinedIs DEF JoinedWell
      <3>2. Joined(s, h, r) = <<s[1]>>
        <4>1. <<s[1]>> \in Seq(Messages) /\ Len(<<s[1]>>) = 1 /\ <<s[1]>>[1] = s[1]
          BY <1>0
        <4> QED
          BY <2>4, <3>1, <4>1, SeqEqual
      <3>3. SmallestIndex(s) \in 2 .. Len(s)
        BY <2>1, SmallestInRange
      <3>4. Append(<<s[1]>>, s[SmallestIndex(s)]) = <<s[1], s[SmallestIndex(s)]>>
        <4>1. s[SmallestIndex(s)] \in Messages
          BY <3>3
        <4> QED
          BY <1>0, <4>1, PairIs
      <3> QED
        BY <2>1, <2>2, <2>4, <3>2, <3>3, <3>4
    <2> QED
      BY <2>3, <2>4
  <1> QED
    BY <1>1, <1>2

\* A derived history: it says nothing new, and starts as before.
Within(t, s) == t \in Seq(Messages) /\ ToSet(t) \subseteq ToSet(s)
Heads(t, s)  == t # <<>> /\ t[1] = s[1]

LEMMA TruncateKeeps ==
    ASSUME NEW s \in Seq(Messages), s # <<>>, NEW b
    PROVE  /\ Within(Truncate(s, b), s) /\ Heads(Truncate(s, b), s)
           /\ \A i, j \in DOMAIN Truncate(s, b) : i <= j =>
                \E p, q \in DOMAIN s :
                  p <= q /\ s[p] = Truncate(s, b)[i] /\ s[q] = Truncate(s, b)[j]
  <1> DEFINE t == Truncate(s, b)
  <1>0. /\ Len(s) \in Nat /\ Len(s) # 0 /\ s[1] \in Messages /\ DOMAIN s = 1 .. Len(s)
        /\ 1 \in 1 .. Len(s) /\ ToSet(s) = {s[i] : i \in 1 .. Len(s)}
    BY InSequence
  <1>1. CASE t = <<s[1]>>
    <2>1. /\ t \in Seq(Messages) /\ Len(t) = 1 /\ t # <<>> /\ t[1] = s[1] /\ DOMAIN t = {1}
      BY <1>0, <1>1
    <2> HIDE DEF t
    <2>2. ToSet(t) \subseteq ToSet(s)
      BY <1>0, <2>1 DEF ToSet
    <2>3. \A i, j \in DOMAIN t : i <= j => \E p, q \in DOMAIN s : p <= q /\ s[p] = t[i] /\ s[q] = t[j]
      <3>1. 1 <= 1
        OBVIOUS
      <3> QED
        BY <1>0, <2>1, <3>1
    <2> QED
      BY <2>1, <2>2, <2>3 DEF t, Within, Heads
  <1>2. ASSUME NEW i \in 2 .. Len(s), t = <<s[1], s[i]>>
        PROVE  /\ Within(t, s) /\ Heads(t, s)
               /\ \A m, n \in DOMAIN t : m <= n =>
                    \E p, q \in DOMAIN s : p <= q /\ s[p] = t[m] /\ s[q] = t[n]
    <2>0. i \in 1 .. Len(s) /\ 1 <= i /\ i <= i /\ 1 <= 1 /\ ~(2 <= 1)
      OBVIOUS
    <2>1. /\ t \in Seq(Messages) /\ Len(t) = 2 /\ t # <<>> /\ t[1] = s[1] /\ t[2] = s[i]
          /\ DOMAIN t = {1, 2}
      BY <1>0, <1>2, <2>0
    <2> HIDE DEF t
    <2>2. ToSet(t) \subseteq ToSet(s)
      BY <1>0, <2>0, <2>1 DEF ToSet
    <2>3. \A m, n \in DOMAIN t : m <= n => \E p, q \in DOMAIN s : p <= q /\ s[p] = t[m] /\ s[q] = t[n]
      <3> SUFFICES ASSUME NEW m \in DOMAIN t, NEW n \in DOMAIN t, m <= n
                   PROVE  \E p, q \in DOMAIN s : p <= q /\ s[p] = t[m] /\ s[q] = t[n]
        OBVIOUS
      <3>0. m \in {1, 2} /\ n \in {1, 2} /\ 1 \in DOMAIN s /\ i \in DOMAIN s
        BY <1>0, <2>0, <2>1
      <3>1. CASE m = 1 /\ n = 1
        BY <2>0, <2>1, <3>0, <3>1
      <3>2. CASE m = 1 /\ n = 2
        BY <2>0, <2>1, <3>0, <3>2
      <3>3. CASE m = 2 /\ n = 2
        BY <2>0, <2>1, <3>0, <3>3
      <3> QED
        BY <2>0, <3>0, <3>1, <3>2, <3>3
    <2> QED
      BY <2>1, <2>2, <2>3 DEF Within, Heads
  <1>3. ASSUME NEW h \in 1 .. 2, NEW r, Follows(r, s), Len(s) >= 2, t = Joined(s, h, r)
        PROVE  /\ Within(t, s) /\ Heads(t, s)
               /\ \A m, n \in DOMAIN t : m <= n =>
                    \E p, q \in DOMAIN s : p <= q /\ s[p] = t[m] /\ s[q] = t[n]
    <2>1. h <= Len(s)
      BY <1>0, <1>3
    <2> DEFINE J == Joined(s, h, r)
    <2>2. /\ J \in Seq(Messages) /\ ToSet(J) \subseteq ToSet(s) /\ J # <<>> /\ J[1] = s[1]
          /\ \A m, n \in 1 .. Len(J) : m <= n =>
                \E p, q \in 1 .. Len(s) : p <= q /\ s[p] = J[m] /\ s[q] = J[n]
      <3>1. JoinedWell(s, h, r)
        BY <1>3, <2>1, JoinedIs
      <3> QED
        BY <3>1, Zenon DEF JoinedWell
    <2>3. DOMAIN J = 1 .. Len(J)
      <3> HIDE DEF J
      <3> QED
        BY <2>2
    <2>4. Within(J, s) /\ Heads(J, s)
      BY <2>2 DEF Within, Heads
    <2>5. \A m, n \in DOMAIN J : m <= n =>
            \E p, q \in DOMAIN s : p <= q /\ s[p] = J[m] /\ s[q] = J[n]
      <3> HIDE DEF J
      <3> SUFFICES ASSUME NEW m \in DOMAIN J, NEW n \in DOMAIN J, m <= n
                   PROVE  \E p, q \in DOMAIN s : p <= q /\ s[p] = J[m] /\ s[q] = J[n]
        OBVIOUS
      <3>1. m \in 1 .. Len(J) /\ n \in 1 .. Len(J)
        BY <2>3, Zenon
      <3>2. PICK p \in 1 .. Len(s), q \in 1 .. Len(s) : p <= q /\ s[p] = J[m] /\ s[q] = J[n]
        BY <2>2, <3>1
      <3>3. p \in DOMAIN s /\ q \in DOMAIN s
        BY <1>0
      <3> QED
        BY <3>2, <3>3
    <2> HIDE DEF J, t
    <2>6. t = J
      BY <1>3 DEF J
    <2> QED
      BY <2>4, <2>5, <2>6
  <1> QED
    BY <1>1, <1>2, <1>3, TruncateShape

\* The budget is kept, and a history that fits is not cut short.
LEMMA TruncateFits ==
    ASSUME NEW s \in Seq(Messages), Len(s) >= 2, NEW b \in Nat
    PROVE  /\ Total(Truncate(s, b)) <= b \/ Len(Truncate(s, b)) <= 2
           /\ Total(s) <= b => Len(Truncate(s, b)) >= Len(s)
  <1> DEFINE t == Truncate(s, b)
  <1>0. /\ Len(s) \in Nat /\ s # <<>> /\ s[1] \in Messages /\ s[2] \in Messages
        /\ s[1].size \in Nat /\ s[2].size \in Nat /\ s[1].size > 0 /\ s[2].size > 0
    <2>1. Len(s) \in Nat /\ s # <<>> /\ s[1] \in Messages /\ s[2] \in Messages
      BY InSequence
    <2> QED
      BY <2>1, MessageParts
  <1>a. SubSeq(s, 1, 1) = <<s[1]>> /\ SubSeq(s, 1, 2) = <<s[1], s[2]>>
    <2>1. SubSeq(s, 1, 1) \in Seq(Messages) /\ <<s[1]>> \in Seq(Messages)
      BY <1>0
    <2>2. Len(SubSeq(s, 1, 1)) = 1 /\ Len(<<s[1]>>) = 1 /\ SubSeq(s, 1, 1)[1] = s[1] /\ <<s[1]>>[1] = s[1]
      BY <1>0
    <2>3. SubSeq(s, 1, 2) \in Seq(Messages) /\ <<s[1], s[2]>> \in Seq(Messages)
      BY <1>0
    <2>4. /\ Len(SubSeq(s, 1, 2)) = 2 /\ Len(<<s[1], s[2]>>) = 2
          /\ \A i \in 1 .. 2 : SubSeq(s, 1, 2)[i] = <<s[1], s[2]>>[i]
      BY <1>0
    <2>5. \A i \in 1 .. 1 : SubSeq(s, 1, 1)[i] = <<s[1]>>[i]
      BY <2>2
    <2>6. SubSeq(s, 1, 1) = <<s[1]>>
      BY <2>1, <2>2, <2>5, SeqEqual
    <2>7. SubSeq(s, 1, 2) = <<s[1], s[2]>>
      BY <2>3, <2>4, SeqEqual
    <2> QED
      BY <2>6, <2>7
  <1>b. Total(SubSeq(s, 1, 1)) = s[1].size /\ Total(SubSeq(s, 1, 2)) = s[1].size + s[2].size
    BY <1>0, <1>a, TotalOfFew
  <1>1. CASE s[1].size >= b
    <2>1. t = <<s[1]>> /\ Len(t) = 1
      BY <1>0, <1>1 DEF Truncate
    <2>2. ~(Total(s) <= b)
      <3>1. 2 \in 1 .. Len(s) + 1 /\ 2 - 1 = 1 /\ 3 \in 1 .. Len(s) + 1 /\ 3 - 1 = 2
        BY <1>0
      <3>2. /\ SubSeq(s, 1, 2) \in Seq(Messages) /\ From(s, 3) \in Seq(Messages)
            /\ SubSeq(s, 1, 2) \o From(s, 3) = s
        BY <3>1, Cut
      <3>3. Total(s) = Total(SubSeq(s, 1, 2)) + Total(From(s, 3)) /\ Total(From(s, 3)) \in Nat
        BY <3>2, TotalAdds
      <3> QED
        BY <1>0, <1>1, <1>b, <3>3
    <2> QED
      BY <2>1, <2>2
  <1>2. CASE ~(s[1].size >= b)
    <2>a. PICK h \in 1 .. 2 : \E r : CutAt(s, b, h, r)
      BY <1>2, TruncateLong
    <2>b. PICK rest : CutAt(s, b, h, rest)
      BY <2>a
    <2>1. /\ Follows(rest, s)
          /\ h = 2 => s[1].size + s[2].size < b
          /\ rest # <<>> => Total(rest) <= b - Total(SubSeq(s, 1, h))
          /\ h + 1 <= Len(s) /\ Total(From(s, h + 1)) <= b - Total(SubSeq(s, 1, h))
               => Len(rest) >= Len(s) - h
          /\ Truncate(s, b) = IF Len(Joined(s, h, rest)) = 1
                              THEN Append(Joined(s, h, rest), s[SmallestIndex(s)])
                              ELSE Joined(s, h, rest)
      BY <2>b, Zenon DEF CutAt
    <2> DEFINE r == Joined(s, h, rest)
    <2>2. /\ h \in Nat /\ h >= 1 /\ h <= 2 /\ h <= Len(s)
          /\ h + 1 \in 1 .. Len(s) + 1 /\ (h + 1) - 1 = h
      BY <1>0
    <2>3. /\ rest \in Seq(Messages) /\ r \in Seq(Messages) /\ Len(r) = h + Len(rest)
          /\ Total(r) = Total(SubSeq(s, 1, h)) + Total(rest)
      <3>1. JoinedWell(s, h, rest)
        BY <2>1, <2>2, JoinedIs
      <3> QED
        BY <3>1, Zenon DEF JoinedWell
    <2>c. Len(rest) \in Nat
      BY <2>3, InSequence
    <2>4. Total(SubSeq(s, 1, h)) \in Nat /\ Total(SubSeq(s, 1, h)) <= b
      <3>1. CASE h = 1
        BY <1>0, <1>2, <1>b, <3>1
      <3>2. CASE h = 2
        BY <1>0, <1>b, <2>1, <3>2
      <3> QED
        BY <3>1, <3>2
    <2>5. Total(rest) \in Nat
      BY <2>3, TotalAdds
    <2>6. Total(rest) <= b - Total(SubSeq(s, 1, h))
      <3>1. CASE rest # <<>>
        BY <2>1, <3>1
      <3>2. CASE rest = <<>>
        BY <2>4, <3>2, TotalOfFew
      <3> QED
        BY <3>1, <3>2
    <2>7. Total(r) <= b
      <3> HIDE DEF r
      <3> QED
        BY <2>3, <2>4, <2>5, <2>6
    <2>8. Total(s) <= b => Len(r) >= Len(s)
      <3> SUFFICES ASSUME Total(s) <= b PROVE Len(r) >= Len(s)
        OBVIOUS
      <3>1. /\ SubSeq(s, 1, (h + 1) - 1) \in Seq(Messages) /\ From(s, h + 1) \in Seq(Messages)
            /\ SubSeq(s, 1, (h + 1) - 1) \o From(s, h + 1) = s
        BY <2>2, Cut
      <3>2. /\ Total(s) = Total(SubSeq(s, 1, h)) + Total(From(s, h + 1))
            /\ Total(From(s, h + 1)) \in Nat
        <4>1. (h + 1) - 1 = h
          OBVIOUS
        <4>2. SubSeq(s, 1, h) \in Seq(Messages) /\ SubSeq(s, 1, h) \o From(s, h + 1) = s
          BY <3>1, <4>1, Zenon
        <4> HIDE DEF r
        <4> QED
          BY <3>1, <4>2, TotalAdds, Zenon
      <3>3. Total(From(s, h + 1)) <= b - Total(SubSeq(s, 1, h))
        BY <2>4, <3>2
      <3>4. CASE h + 1 <= Len(s)
        <4>1. Len(rest) >= Len(s) - h
          BY <2>1, <3>3, <3>4
        <4> HIDE DEF r
        <4> QED
          BY <1>0, <2>2, <2>3, <2>c, <4>1
      <3>5. CASE ~(h + 1 <= Len(s))
        <4> HIDE DEF r
        <4> QED
          BY <1>0, <2>2, <2>3, <2>c, <3>5
      <3> QED
        BY <3>4, <3>5
    <2> HIDE DEF r
    <2>9. t = IF Len(r) = 1 THEN Append(r, s[SmallestIndex(s)]) ELSE r
      BY <2>1 DEF r
    <2>10. CASE Len(r) = 1
      <3>1. s[SmallestIndex(s)] \in Messages
        BY SmallestInRange
      <3>2. Len(t) = 2
        <4>1. Len(Append(r, s[SmallestIndex(s)])) = 2
          <5>1. \A x \in Messages : Len(Append(r, x)) = Len(r) + 1
            BY <2>3
          <5> QED
            BY <2>10, <3>1, <5>1
        <4> HIDE DEF t
        <4> QED
          BY <2>9, <2>10, <4>1
      <3> QED
        BY <1>0, <2>8, <2>10, <3>2
    <2>11. CASE Len(r) # 1
      BY <2>7, <2>8, <2>9, <2>11
    <2> QED
      BY <2>10, <2>11
  <1> QED
    BY <1>1, <1>2

-----------------------------------------------------------------------------
\* Pruning.  Messages that share a tool call id belong together: they carry
\* the same ids, so that pruning takes all of them or none.
Ids(m) == m.calls \cup m.returns
Together(S) == \A m, n \in S : Ids(m) \cap Ids(n) # {} => Ids(m) = Ids(n)

(* What never loses its place at the head of the history.                  *)
Plain(m) == /\ Ids(m) = {} /\ m.size < Huge
            /\ m.thinks = "no" /\ m.kind = "request"

LEMMA IdsOfHistory ==
    ASSUME NEW s \in Seq(Messages), NEW x
    PROVE  /\ x \in CallIds(s) <=> \E m \in ToSet(s) : x \in m.calls
           /\ x \in ReturnIds(s) <=> \E m \in ToSet(s) : x \in m.returns
  BY DEF CallIds, ReturnIds, ToSet

LEMMA PruneParts ==
    ASSUME NEW s \in Seq(Messages)
    PROVE  /\ Within(Prune(s), s)
           /\ s # <<>> /\ Ids(s[1]) = {} => Heads(Prune(s), s)
           /\ Together(ToSet(s)) => Mismatched(Prune(s)) = {}
           /\ Mismatched(s) = {} => Prune(s) = s
  <1> DEFINE bad == Mismatched(s)
             I == {i \in DOMAIN s : Ids(s[i]) \cap bad = {}}
             t == Prune(s)
  <1>0. /\ Len(s) \in Nat /\ DOMAIN s = 1 .. Len(s) /\ (s # <<>> => 1 \in DOMAIN s)
        /\ ToSet(s) = {s[i] : i \in DOMAIN s}
    BY InSequence
  <1>1. t = Chosen(s, I)
    BY DEF Prune, Ids
  <1>2. /\ t \in Seq(Messages) /\ ToSet(t) = {s[i] : i \in I \cap DOMAIN s}
        /\ 1 \in I /\ s # <<>> => t # <<>> /\ t[1] = s[1]
        /\ DOMAIN s \subseteq I => t = s
    <2> HIDE DEF I, t
    <2> QED
      BY <1>1, ChosenParts
  <1>3. ToSet(t) = {m \in ToSet(s) : Ids(m) \cap bad = {}}
    <2> HIDE DEF bad, t
    <2> QED
      BY <1>0, <1>2
  <1>4. Together(ToSet(s)) => Mismatched(t) = {}
    <2> HIDE DEF t
    <2> SUFFICES ASSUME Together(ToSet(s)), NEW x \in Mismatched(t) PROVE FALSE
      OBVIOUS
    <2>1. PICK m \in ToSet(t) : x \in Ids(m)
      <3>1. x \in CallIds(t) \/ x \in ReturnIds(t)
        BY DEF Mismatched
      <3> QED
        BY <1>2, <3>1, IdsOfHistory DEF Ids
    <2>2. m \in ToSet(s) /\ Ids(m) \cap bad = {}
      <3> HIDE DEF bad
      <3> QED
        BY <1>3, <2>1
    <2>3. x \in CallIds(s) /\ x \in ReturnIds(s)
      <3>1. x \in CallIds(s) \/ x \in ReturnIds(s)
        BY <2>1, <2>2, IdsOfHistory DEF Ids
      <3>2. x \notin bad
        <4> HIDE DEF bad
        <4> QED
          BY <2>1, <2>2
      <3> QED
        BY <3>1, <3>2 DEF Mismatched
    <2>4. PICK c \in ToSet(s) : x \in c.calls
      BY <2>3, IdsOfHistory
    <2>5. PICK r \in ToSet(s) : x \in r.returns
      BY <2>3, IdsOfHistory
    <2>6. x \in Ids(c) /\ x \in Ids(r)
      BY <2>4, <2>5 DEF Ids
    <2>7. Ids(c) = Ids(m) /\ Ids(r) = Ids(m)
      BY <2>1, <2>2, <2>6 DEF Together
    <2>8. c \in ToSet(t) /\ r \in ToSet(t)
      <3> HIDE DEF bad
      <3> QED
        BY <1>3, <2>2, <2>7
    <2>9. x \in CallIds(t) /\ x \in ReturnIds(t)
      BY <1>2, <2>4, <2>5, <2>8, IdsOfHistory
    <2> QED
      BY <2>9 DEF Mismatched
  <1>5. s # <<>> /\ Ids(s[1]) = {} => 1 \in I
    BY <1>0
  <1>6. bad = {} => DOMAIN s \subseteq I
    BY <1>0
  <1>7. ToSet(t) \subseteq ToSet(s)
    <2> HIDE DEF t, bad
    <2> QED
      BY <1>3
  <1> HIDE DEF I
  <1> QED
    BY <1>2, <1>4, <1>5, <1>6, <1>7 DEF Within, Heads

LEMMA FilterHugeParts ==
    ASSUME NEW s \in Seq(Messages), NEW huge
    PROVE  /\ Within(FilterHuge(s, huge), s)
           /\ s # <<>> /\ Ids(s[1]) = {} /\ s[1].size < huge => Heads(FilterHuge(s, huge), s)
  <1> DEFINE I == {i \in DOMAIN s : s[i].size < huge}
             t == Chosen(s, I)
  <1>0. /\ Len(s) \in Nat /\ DOMAIN s = 1 .. Len(s) /\ (s # <<>> => 1 \in DOMAIN s)
        /\ ToSet(s) = {s[i] : i \in DOMAIN s}
    BY InSequence
  <1>1. /\ t \in Seq(Messages) /\ ToSet(t) = {s[i] : i \in I \cap DOMAIN s}
        /\ 1 \in I /\ s # <<>> => t # <<>> /\ t[1] = s[1]
    <2> HIDE DEF I
    <2> QED
      BY ChosenParts
  <1>2. FilterHuge(s, huge) = IF t = s THEN s ELSE Prune(t)
    BY DEF FilterHuge
  <1>3. s # <<>> /\ s[1].size < huge => 1 \in I
    BY <1>0
  <1>4. ToSet(t) \subseteq ToSet(s)
    <2> HIDE DEF I
    <2> QED
      BY <1>0, <1>1
  <1> HIDE DEF t, I
  <1>5. /\ Within(Prune(t), t)
        /\ t # <<>> /\ Ids(t[1]) = {} => Heads(Prune(t), t)
    BY <1>1, PruneParts
  <1> QED
    BY <1>1, <1>2, <1>3, <1>4, <1>5 DEF Within, Heads

LEMMA SplitParts ==
    ASSUME NEW s \in Seq(Messages), Len(s) > 1, NEW protected
    PROVE  /\ ToSet(Split(s, protected).fodder) \subseteq ToSet(s)
           /\ Within(Split(s, protected).kept, s)
           /\ Within(Tail(Split(s, protected).kept), s)
  <1> DEFINE start == TailStart(s, 2, protected - s[1].size)
             safe == SafeSplit(s, start)
             N == Len(s)
  <1>0. N \in Nat /\ N >= 2 /\ ~(N <= 1) /\ s[1] \in Messages /\ s[1] \in ToSet(s) /\ 2 \in 1 .. N + 1
    <2>1. N \in Nat /\ N >= 2 /\ 1 \in 1 .. N
      OBVIOUS
    <2>2. s[1] \in Messages /\ s[1] \in ToSet(s)
      BY <2>1, InSequence
    <2> QED
      BY <2>1, <2>2
  <1>1. start \in 2 .. N + 1
    BY <1>0, TailStartIs
  <1>2. Split(s, protected) = [fodder |-> SubSeq(s, 2, safe - 1), kept |-> <<s[1]>> \o From(s, start)]
    BY <1>0 DEF Split
  <1> HIDE DEF start, N
  <1>3. safe \in 2 .. start
    BY <1>0, <1>1, SafeSplitInRange
  <1> HIDE DEF safe
  <1>4. ToSet(SubSeq(s, 2, safe - 1)) \subseteq ToSet(s)
    <2> DEFINE f == SubSeq(s, 2, safe - 1)
    <2>0. safe \in Nat /\ start \in Nat /\ safe >= 2 /\ safe <= N + 1
      BY <1>0, <1>1, <1>3
    <2>1. /\ f \in Seq(Messages) /\ Len(f) = safe - 2
          /\ \A j \in 1 .. safe - 2 : f[j] = s[2 + j - 1]
      BY <1>0, <2>0 DEF N
    <2> HIDE DEF f
    <2>2. ASSUME NEW j \in 1 .. Len(f) PROVE f[j] \in ToSet(s)
      <3>1. j \in 1 .. safe - 2 /\ 2 + j - 1 \in 1 .. N
        BY <1>0, <2>0, <2>1
      <3>2. f[j] = s[2 + j - 1] /\ s[2 + j - 1] \in ToSet(s)
        BY <2>1, <3>1, InSequence DEF N
      <3> QED
        BY <3>2
    <2>3. ToSet(f) \subseteq ToSet(s)
      BY <2>1, <2>2, Members
    <2> QED
      BY <2>3 DEF f
  <1>5. From(s, start) \in Seq(Messages) /\ ToSet(From(s, start)) \subseteq ToSet(s)
    <2>1. start \in 1 .. N + 1
      BY <1>0, <1>1
    <2> QED
      BY <2>1, Cut DEF N
  <1> DEFINE t == From(s, start)  one == <<s[1]>>  k == one \o t
  <1>6. one \in Seq(Messages) /\ ToSet(one) = {s[1]} /\ one # <<>>
    BY <1>0, Single
  <1>11. t \in Seq(Messages)
    BY <1>5
  <1> HIDE DEF t, one
  <1>7. /\ k \in Seq(Messages) /\ k # <<>> /\ ToSet(k) = {s[1]} \cup ToSet(t)
    BY <1>6, <1>11, Concatenated
  <1> HIDE DEF k
  <1>8. Within(k, s)
    BY <1>0, <1>5, <1>7 DEF Within, t
  <1>9. Within(Tail(k), s)
    <2>1. /\ Tail(k) \in Seq(Messages) /\ Len(Tail(k)) = Len(k) - 1 /\ Len(k) \in Nat
          /\ \A i \in 1 .. Len(k) - 1 : Tail(k)[i] = k[i + 1]
      BY <1>7
    <2>2. ToSet(Tail(k)) \subseteq ToSet(k)
      <3>1. ASSUME NEW i \in 1 .. Len(Tail(k)) PROVE Tail(k)[i] \in ToSet(k)
        <4>1. i \in 1 .. Len(k) - 1 /\ i + 1 \in 1 .. Len(k)
          BY <2>1
        <4>2. Tail(k)[i] = k[i + 1] /\ k[i + 1] \in ToSet(k)
          BY <1>7, <2>1, <4>1, InSequence
        <4> QED
          BY <4>2
      <3> QED
        BY <2>1, <3>1, Members
    <2> QED
      BY <1>8, <2>1, <2>2 DEF Within
  <1>10. Split(s, protected) = [fodder |-> SubSeq(s, 2, safe - 1), kept |-> k]
    BY <1>2 DEF k, t, one
  <1> QED
    BY <1>4, <1>8, <1>9, <1>10

-----------------------------------------------------------------------------
\* The other steps of the history processor.
LEMMA StripBlankParts ==
    ASSUME NEW s \in Seq(Messages)
    PROVE  /\ Within(StripBlank(s), s)
           /\ s # <<>> /\ s[1].thinks = "no" => Heads(StripBlank(s), s)
           /\ (\A m \in ToSet(s) : m.thinks # "blank") => StripBlank(s) = s
  <1> DEFINE I == {i \in DOMAIN s : s[i].thinks # "blank"}
  <1>0. /\ Len(s) \in Nat /\ DOMAIN s = 1 .. Len(s) /\ (s # <<>> => 1 \in DOMAIN s)
        /\ ToSet(s) = {s[i] : i \in DOMAIN s}
    BY InSequence
  <1>1. StripBlank(s) = Chosen(s, I)
    BY DEF StripBlank
  <1>2. /\ StripBlank(s) \in Seq(Messages)
        /\ ToSet(StripBlank(s)) = {s[i] : i \in I \cap DOMAIN s}
        /\ 1 \in I /\ s # <<>> => StripBlank(s) # <<>> /\ StripBlank(s)[1] = s[1]
        /\ DOMAIN s \subseteq I => StripBlank(s) = s
    <2> HIDE DEF I
    <2> QED
      BY <1>1, ChosenParts
  <1>3. s # <<>> /\ s[1].thinks = "no" => 1 \in I
    BY <1>0
  <1>4. (\A m \in ToSet(s) : m.thinks # "blank") => DOMAIN s \subseteq I
    BY <1>0
  <1> HIDE DEF I
  <1> QED
    BY <1>0, <1>2, <1>3, <1>4 DEF Within, Heads

LEMMA GreatestOf ==
    ASSUME NEW n \in Nat, NEW S \in SUBSET (0 .. n), S # {}
    PROVE  Max(S) \in S /\ \A j \in S : Max(S) >= j
  <1> DEFINE B == {x \in 0 .. n : n - x \in S}
  <1>0. \A y \in S : y \in Nat /\ y <= n /\ n - y \in 0 .. n /\ n - (n - y) = y
    OBVIOUS
  <1>1. B \in SUBSET (0 .. n) /\ B # {}
    <2>1. PICK y \in S : TRUE
      OBVIOUS
    <2>2. n - y \in B
      BY <1>0, <2>1
    <2> QED
      BY <2>2
  <1>2. PICK x \in B : \A j \in B : x <= j
    <2> HIDE DEF B
    <2> QED
      BY <1>1, HasLeast
  <1>3. n - x \in S /\ x \in 0 .. n
    BY <1>2
  <1>4. ASSUME NEW y \in S PROVE n - x >= y
    <2>1. n - y \in B
      BY <1>0
    <2>2. x <= n - y
      BY <1>2, <2>1
    <2> QED
      BY <1>0, <1>3, <2>2
  <1>5. \E g \in S : \A j \in S : g >= j
    BY <1>3, <1>4
  <1> QED
    BY <1>5 DEF Max

LEMMA PopResponsesParts ==
    ASSUME NEW s \in Seq(Messages)
    PROVE  /\ Within(PopResponses(s), s)
           /\ s # <<>> /\ s[1].kind = "request" => Heads(PopResponses(s), s)
           /\ s # <<>> /\ s[Len(s)].kind = "request" => PopResponses(s) = s
  <1> DEFINE N == Len(s)
             B == {0} \cup {i \in DOMAIN s : s[i].kind = "request"}
             m == Max(B)
  <1>0. N \in Nat /\ DOMAIN s = 1 .. N /\ (s # <<>> => 1 \in DOMAIN s /\ N \in DOMAIN s)
    BY InSequence
  <1>1. B \in SUBSET (0 .. N) /\ B # {}
    BY <1>0
  <1>2. m \in B /\ \A j \in B : m >= j
    <2> HIDE DEF B, N
    <2> QED
      BY <1>0, <1>1, GreatestOf
  <1>3. m \in 0 .. N
    BY <1>1, <1>2
  <1>4. s # <<>> /\ s[1].kind = "request" => m >= 1
    BY <1>0, <1>2
  <1>5. s # <<>> /\ s[N].kind = "request" => m >= N
    BY <1>0, <1>2
  <1>6. PopResponses(s) = SubSeq(s, 1, m)
    BY DEF PopResponses
  <1> HIDE DEF m, B, N
  <1>7. m \in Nat /\ m <= N /\ m + 1 \in 1 .. N + 1 /\ (m + 1) - 1 = m
    BY <1>0, <1>3
  <1> DEFINE t == SubSeq(s, 1, m)
  <1>8. /\ t \in Seq(Messages) /\ Len(t) = m /\ ToSet(t) \subseteq ToSet(s)
        /\ \A j \in 1 .. m : t[j] = s[j]
    <2>1. LET i == m + 1
          IN  /\ SubSeq(s, 1, i - 1) \in Seq(Messages) /\ Len(SubSeq(s, 1, i - 1)) = i - 1
              /\ \A j \in 1 .. i - 1 : SubSeq(s, 1, i - 1)[j] = s[j]
              /\ ToSet(SubSeq(s, 1, i - 1)) \subseteq ToSet(s)
      BY <1>7, Cut DEF N
    <2> QED
      BY <1>7, <2>1
  <1> HIDE DEF t
  <1>9. m >= 1 => Heads(t, s)
    <2> SUFFICES ASSUME m >= 1 PROVE Heads(t, s)
      OBVIOUS
    <2>1. 1 \in 1 .. m /\ Len(t) # 0
      BY <1>7, <1>8
    <2>2. t # <<>>
      BY <1>8, <2>1, InSequence
    <2> QED
      BY <1>8, <2>1, <2>2 DEF Heads
  <1>10. m >= N => t = s
    <2> SUFFICES ASSUME m >= N PROVE t = s
      OBVIOUS
    <2>1. m = N
      BY <1>0, <1>7
    <2> QED
      BY <1>8, <2>1, SeqEqual DEF N
  <1>11. PopResponses(s) = t
    BY <1>6 DEF t
  <1> QED
    BY <1>4, <1>5, <1>8, <1>9, <1>10, <1>11 DEF Within, N

LEMMA EmptyWithin ==
    ASSUME NEW t \in Seq(Messages), ToSet(t) \subseteq {}
    PROVE  t = <<>>
  <1> SUFFICES ASSUME t # <<>> PROVE FALSE
    OBVIOUS
  <1>1. Len(t) \in Nat /\ Len(t) # 0 /\ DOMAIN t = 1 .. Len(t)
    BY InSequence
  <1>2. 1 \in DOMAIN t
    BY <1>1
  <1> QED
    BY <1>2 DEF ToSet

\* What the plugin leaves of a history.
LEMMA WithoutParts ==
    ASSUME NEW h \in Seq(Messages), NEW D
    PROVE  /\ Within(Without(h, D), h)
           /\ h # <<>> /\ 1 \notin D => Heads(Without(h, D), h)
           /\ D = {} => Without(h, D) = h
  <1> DEFINE I == DOMAIN h \ D
             t == Without(h, D)
  <1>0. /\ (h # <<>> => 1 \in DOMAIN h) /\ ToSet(h) = {h[i] : i \in DOMAIN h}
    <2>1. Len(h) \in Nat /\ DOMAIN h = 1 .. Len(h) /\ (h = <<>> <=> Len(h) = 0)
      BY InSequence
    <2>2. h # <<>> => 1 \in DOMAIN h
      BY <2>1
    <2> QED
      BY <2>2 DEF ToSet
  <1>1. /\ t \in Seq(Messages) /\ ToSet(t) = {h[i] : i \in I \cap DOMAIN h}
        /\ 1 \in I /\ h # <<>> => t # <<>> /\ t[1] = h[1]
        /\ DOMAIN h \subseteq I => t = h
    <2> HIDE DEF I
    <2>1. t = Chosen(h, I)
      BY DEF Without, I
    <2> HIDE DEF t
    <2> QED
      BY <2>1, ChosenParts
  <1> HIDE DEF t
  <1>2. ToSet(t) \subseteq ToSet(h)
    BY <1>0, <1>1
  <1>3. h # <<>> /\ 1 \notin D => Heads(t, h)
    BY <1>0, <1>1 DEF Heads
  <1>4. D = {} => t = h
    BY <1>1
  <1> QED
    BY <1>1, <1>2, <1>3, <1>4 DEF Within, t

LEMMA MergeParts ==
    ASSUME NEW h \in Seq(Messages), NEW new \in Seq(Messages), NEW seen,
           NEW held, Within(held, h)
    PROVE  /\ Merge(held, seen, h, new) \in Seq(Messages)
           /\ ToSet(Merge(held, seen, h, new)) \subseteq ToSet(h) \cup ToSet(new)
           /\ held # <<>> => Heads(Merge(held, seen, h, new), held)
           /\ /\ held = h
              /\ ToSet(new) \cap ToSet(h) = {}
              /\ \A i \in 1 .. Len(new) : i # Len(new) => new[i] \notin seen
              => Merge(held, seen, h, new) = h \o new
  <1> DEFINE I == {i \in DOMAIN h : h[i] \notin ToSet(held) \cup seen}
             J == {i \in DOMAIN new : /\ new[i] \notin ToSet(held)
                                      /\ (i = Len(new) \/ new[i] \notin seen)}
             a == Chosen(h, I)
             b == Chosen(new, J)
  <1>0. /\ Len(new) \in Nat /\ DOMAIN new = 1 .. Len(new)
        /\ ToSet(new) = {new[i] : i \in DOMAIN new} /\ ToSet(h) = {h[i] : i \in DOMAIN h}
        /\ held \in Seq(Messages) /\ ToSet(held) \subseteq ToSet(h)
    BY InSequence DEF Within, ToSet
  <1>1. Merge(held, seen, h, new) = (held \o a) \o b
    BY DEF Merge
  <1>2. a \in Seq(Messages) /\ ToSet(a) = {h[i] : i \in I \cap DOMAIN h}
    <2> HIDE DEF I
    <2> QED
      BY ChosenParts
  <1>3. /\ b \in Seq(Messages) /\ ToSet(b) = {new[i] : i \in J \cap DOMAIN new}
        /\ DOMAIN new \subseteq J => b = new
    <2> HIDE DEF J
    <2> QED
      BY ChosenParts
  <1>4. ToSet(a) \subseteq ToSet(h) /\ ToSet(b) \subseteq ToSet(new)
    <2> HIDE DEF I, J, a, b
    <2> QED
      BY <1>0, <1>2, <1>3
  <1>5. held = h => a = <<>>
    <2> SUFFICES ASSUME held = h PROVE a = <<>>
      OBVIOUS
    <2>1. I = {}
      BY <1>0
    <2>2. ToSet(a) = {}
      <3> HIDE DEF I, a
      <3>1. \A x : x \in {h[i] : i \in I \cap DOMAIN h} => \E i \in I : TRUE
        BY Zenon
      <3> QED
        BY <1>2, <2>1, <3>1, ZenonT(60)
    <2> HIDE DEF a
    <2> QED
      BY <1>2, <2>2, EmptyWithin
  <1>6. /\ held = h
        /\ ToSet(new) \cap ToSet(h) = {}
        /\ \A i \in 1 .. Len(new) : i # Len(new) => new[i] \notin seen
        => DOMAIN new \subseteq J
    BY <1>0
  <1> HIDE DEF a, b, I, J
  <1> DEFINE c == held \o a
  <1>7. /\ c \in Seq(Messages) /\ ToSet(c) = ToSet(held) \cup ToSet(a)
        /\ held # <<>> => c # <<>> /\ c[1] = held[1]
    BY <1>0, <1>2, Concatenated
  <1>8. held = h => c = h
    BY <1>0, <1>5
  <1> HIDE DEF c
  <1>9. /\ c \o b \in Seq(Messages) /\ ToSet(c \o b) = ToSet(c) \cup ToSet(b)
        /\ c # <<>> => c \o b # <<>> /\ (c \o b)[1] = c[1]
    BY <1>3, <1>7, Concatenated
  <1>10. ToSet(c \o b) \subseteq ToSet(h) \cup ToSet(new)
    BY <1>0, <1>4, <1>7, <1>9
  <1>11. Merge(held, seen, h, new) = c \o b
    BY <1>1 DEF c
  <1>12. held # <<>> => Heads(c \o b, held)
    BY <1>7, <1>9 DEF Heads
  <1>13. /\ held = h
         /\ ToSet(new) \cap ToSet(h) = {}
         /\ \A i \in 1 .. Len(new) : i # Len(new) => new[i] \notin seen
         => c \o b = h \o new
    BY <1>3, <1>6, <1>8
  <1> QED
    BY <1>9, <1>10, <1>11, <1>12, <1>13

-----------------------------------------------------------------------------
\* Compaction, the gate, and the whole of history_processor.
LEMMA NewMessages ==
    /\ \A p \in Prompts : Request(p) \in Messages
    /\ \A r \in Replies, t \in Thoughts : Response(r, {}, t) \in Messages
    /\ \A r \in Replies, t \in Thoughts, ids \in SUBSET (1 .. MaxCalls) :
         Response(r, ids, t) \in Messages
    /\ \A t \in Results, ids \in SUBSET (1 .. MaxCalls) : ToolResult(ids, t) \in Messages
    /\ Response([text |-> "", size |-> 1], {}, "blank") \in Messages /\ Nudge \in Messages
    /\ Summary \in Seq(Messages) /\ \A m \in ToSet(Summary) : Ids(m) = {}
  <1>1. /\ \A p \in Prompts \cup Replies \cup Results : p.size \in Nat \ {0} /\ p.text \in Texts
        /\ {"retry", "summarize", "summary", ""} \subseteq Texts
    BY MessageAssumption DEF Texts
  <1>2. \A p \in Prompts : Request(p) \in Messages
    BY <1>1 DEF Request, Messages
  <1>3. \A r \in Replies, t \in Thoughts, ids \in SUBSET (1 .. MaxCalls) :
          Response(r, ids, t) \in Messages
    BY <1>1, MessageAssumption DEF Response, Messages
  <1>4. \A t \in Results, ids \in SUBSET (1 .. MaxCalls) : ToolResult(ids, t) \in Messages
    BY <1>1 DEF ToolResult, Messages
  <1>a. ASSUME NEW x \in Texts
        PROVE  /\ Request([text |-> x, size |-> 1]) \in Messages
               /\ Response([text |-> x, size |-> 1], {}, "no") \in Messages
               /\ Response([text |-> x, size |-> 1], {}, "blank") \in Messages
               /\ Ids(Request([text |-> x, size |-> 1])) = {}
               /\ Ids(Response([text |-> x, size |-> 1], {}, "no")) = {}
    <2>1. 1 \in Nat \ {0} /\ {} \subseteq 1 .. MaxCalls
      OBVIOUS
    <2>2. Request([text |-> x, size |-> 1]) \in Messages
      BY <2>1 DEF Request, Messages
    <2>3. Response([text |-> x, size |-> 1], {}, "no") \in Messages
      BY <2>1 DEF Response, Messages
    <2>4. Response([text |-> x, size |-> 1], {}, "blank") \in Messages
      BY <2>1 DEF Response, Messages
    <2>5. /\ Ids(Request([text |-> x, size |-> 1])) = {}
          /\ Ids(Response([text |-> x, size |-> 1], {}, "no")) = {}
      BY DEF Request, Response, Ids
    <2> QED
      BY <2>2, <2>3, <2>4, <2>5
  <1>5. Response([text |-> "", size |-> 1], {}, "blank") \in Messages /\ Nudge \in Messages
    BY <1>1, <1>a DEF Nudge
  <1>6. /\ Request([text |-> "summarize", size |-> 1]) \in Messages
        /\ Response([text |-> "summary", size |-> 1], {}, "no") \in Messages
        /\ Ids(Request([text |-> "summarize", size |-> 1])) = {}
        /\ Ids(Response([text |-> "summary", size |-> 1], {}, "no")) = {}
    BY <1>1, <1>a
  <1>7. Summary \in Seq(Messages) /\ \A m \in ToSet(Summary) : Ids(m) = {}
    <2> SUFFICES ASSUME NEW a \in Messages, NEW b \in Messages, Ids(a) = {}, Ids(b) = {}
                 PROVE  <<a, b>> \in Seq(Messages) /\ \A m \in ToSet(<<a, b>>) : Ids(m) = {}
      BY <1>6 DEF Summary
    <2>1. DOMAIN <<a, b>> = {1, 2} /\ <<a, b>>[1] = a /\ <<a, b>>[2] = b /\ <<a, b>> \in Seq(Messages)
      OBVIOUS
    <2> QED
      BY <2>1 DEF ToSet
  <1> QED
    BY <1>2, <1>3, <1>4, <1>5, <1>7

LEMMA CompactParts ==
    ASSUME NEW s \in Seq(Messages), NEW strategy
    PROVE  /\ Compact(s, strategy).kept \in Seq(Messages)
           /\ ToSet(Compact(s, strategy).kept) \subseteq ToSet(s) \cup ToSet(Summary)
           /\ s # <<>> /\ Plain(s[1]) => Heads(Compact(s, strategy).kept, s)
           /\ Compact(s, strategy).dropped \subseteq ToSet(s)
  <1> DEFINE f == FilterHuge(s, Huge)
             split == Split(f, Protected)
             summarized == [kept    |-> <<f[1]>> \o Summary \o Tail(split.kept),
                            dropped |-> ToSet(split.fodder)]
             truncated == TruncateWithDropped(f, Protected)
             same == [kept |-> s, dropped |-> {}]
             Fine(r) == /\ r.kept \in Seq(Messages)
                        /\ ToSet(r.kept) \subseteq ToSet(s) \cup ToSet(Summary)
                        /\ s # <<>> /\ Plain(s[1]) => Heads(r.kept, s)
                        /\ r.dropped \subseteq ToSet(s)
  <1>1. /\ f \in Seq(Messages) /\ ToSet(f) \subseteq ToSet(s)
        /\ s # <<>> /\ Plain(s[1]) => f # <<>> /\ f[1] = s[1]
    BY FilterHugeParts DEF Within, Heads, Plain
  <1>2. \/ Compact(s, strategy) = same
        \/ Len(f) > 1 /\ Compact(s, strategy) = summarized
        \/ Compact(s, strategy) = truncated
    BY Zenon DEF Compact
  <1> HIDE DEF f
  <1>3. Fine(same)
    BY DEF Heads
  <1>4. Len(f) > 1 => Fine(summarized)
    <2> SUFFICES ASSUME Len(f) > 1 PROVE Fine(summarized)
      OBVIOUS
    <2>1. /\ ToSet(split.fodder) \subseteq ToSet(f)
          /\ Tail(split.kept) \in Seq(Messages) /\ ToSet(Tail(split.kept)) \subseteq ToSet(f)
      BY <1>1, SplitParts DEF Within
    <2>2. f[1] \in Messages /\ f[1] \in ToSet(f)
      <3>1. 1 \in 1 .. Len(f)
        BY <1>1
      <3> QED
        BY <1>1, <3>1, InSequence
    <2>3. /\ <<f[1]>> \in Seq(Messages) /\ ToSet(<<f[1]>>) = {f[1]}
          /\ <<f[1]>> # <<>> /\ <<f[1]>>[1] = f[1]
      BY <2>2, Single
    <2>4. Summary \in Seq(Messages)
      BY NewMessages
    <2> DEFINE one == <<f[1]>>  rest == Tail(split.kept)  a == one \o Summary  k == a \o rest
    <2>9. one \in Seq(Messages) /\ ToSet(one) = {f[1]} /\ one # <<>> /\ one[1] = f[1]
      BY <2>3
    <2> HIDE DEF split, one, rest
    <2>5. /\ a \in Seq(Messages) /\ ToSet(a) = {f[1]} \cup ToSet(Summary)
          /\ a # <<>> /\ a[1] = f[1]
      BY <2>4, <2>9, Concatenated
    <2> HIDE DEF a
    <2>6. /\ k \in Seq(Messages) /\ ToSet(k) = ToSet(a) \cup ToSet(rest)
          /\ k # <<>> /\ k[1] = f[1]
      BY <2>1, <2>5, Concatenated DEF rest
    <2> HIDE DEF k
    <2>7. ToSet(k) \subseteq ToSet(s) \cup ToSet(Summary)
      BY <1>1, <2>1, <2>2, <2>5, <2>6 DEF rest
    <2>8. summarized = [kept |-> k, dropped |-> ToSet(split.fodder)]
      BY DEF k, a, one, rest
    <2> QED
      BY <1>1, <2>1, <2>6, <2>7, <2>8 DEF Heads
  <1>5. Fine(truncated)
    <2> DEFINE t == Truncate(f, Protected)
    <2>1. t \in Seq(Messages) /\ ToSet(t) \subseteq ToSet(f) /\ (f # <<>> => t # <<>> /\ t[1] = f[1])
      <3>1. CASE f = <<>>
        BY <1>1, <3>1 DEF Truncate
      <3>2. CASE f # <<>>
        BY <1>1, <3>2, TruncateKeeps DEF Within, Heads
      <3> QED
        BY <3>1, <3>2
    <2>2. truncated = [kept |-> t, dropped |-> ToSet(f) \ ToSet(t)]
      BY DEF TruncateWithDropped
    <2> HIDE DEF t, truncated
    <2> QED
      BY <1>1, <2>1, <2>2 DEF Heads
  <1> HIDE DEF same, summarized, truncated, Fine
  <1>6. Fine(Compact(s, strategy))
    BY <1>2, <1>3, <1>4, <1>5
  <1> QED
    BY <1>6 DEF Fine

LEMMA CompactNothing ==
    ASSUME NEW s, ~ OverCap(s), ~ OverThreshold(s), NEW strategy
    PROVE  Compact(s, strategy) = [kept |-> s, dropped |-> {}]
  BY DEF Compact

\* What the gate and its passes may do to a history.
Gated(t, s) ==
    /\ Within(t, s)
    /\ s # <<>> /\ Plain(s[1]) => Heads(t, s)
    /\ Together(ToSet(s)) /\ Mismatched(s) = {} => Mismatched(t) = {}

LEMMA GatedChain ==
    ASSUME NEW s \in Seq(Messages), NEW t, NEW u, Gated(t, s), Gated(u, t)
    PROVE  Gated(u, s)
  <1>1. Within(u, s)
    BY DEF Gated, Within
  <1>2. s # <<>> /\ Plain(s[1]) => Heads(u, s)
    BY DEF Gated, Heads
  <1>3. Together(ToSet(s)) => Together(ToSet(t))
    BY DEF Gated, Within, Together
  <1> QED
    BY <1>1, <1>2, <1>3 DEF Gated

LEMMA GatePassParts ==
    ASSUME NEW s \in Seq(Messages), NEW k
    PROVE  /\ Gated(GatePass(s, k), s) /\ GatePass(s, k) \in Seq(Messages)
           /\ Fits(s) => GatePass(s, k) = s
  <1>1. CASE GatePass(s, k) = s
    BY <1>1 DEF Gated, Within, Heads
  <1>2. CASE GatePass(s, k) # s
    <2> DEFINE t == Truncate(s, Shrunk(k))
    <2>1. ~ Fits(s) /\ ~ (Len(s) <= 2) /\ GatePass(s, k) = Prune(t)
      BY <1>2 DEF GatePass
    <2>2. s # <<>>
      BY <2>1
    <2>3. Within(t, s) /\ Heads(t, s)
      BY <2>2, TruncateKeeps
    <2> HIDE DEF t
    <2>4. /\ Within(Prune(t), t)
          /\ t # <<>> /\ Ids(t[1]) = {} => Heads(Prune(t), t)
          /\ Together(ToSet(t)) => Mismatched(Prune(t)) = {}
      BY <2>3, PruneParts DEF Within
    <2>5. Together(ToSet(s)) => Together(ToSet(t))
      BY <2>3 DEF Within, Together
    <2> QED
      BY <2>1, <2>3, <2>4, <2>5 DEF Gated, Within, Heads, Plain
  <1>3. Fits(s) => GatePass(s, k) = s
    BY DEF GatePass
  <1> QED
    BY <1>1, <1>2, <1>3 DEF Gated, Within

LEMMA GateParts ==
    ASSUME NEW s \in Seq(Messages)
    PROVE  Gated(Gate(s), s) /\ (Fits(s) => Gate(s) = s)
  <1> DEFINE a == GatePass(s, 0)  b == GatePass(a, 1)  c == GatePass(b, 2)  d == GatePass(c, 3)
  <1>1. Gated(a, s) /\ a \in Seq(Messages) /\ (Fits(s) => a = s)
    BY GatePassParts
  <1> HIDE DEF a
  <1>2. Gated(b, a) /\ b \in Seq(Messages) /\ (Fits(a) => b = a)
    BY <1>1, GatePassParts
  <1> HIDE DEF b
  <1>3. Gated(c, b) /\ c \in Seq(Messages) /\ (Fits(b) => c = b)
    BY <1>2, GatePassParts
  <1> HIDE DEF c
  <1>4. Gated(d, c) /\ d \in Seq(Messages) /\ (Fits(c) => d = c)
    BY <1>3, GatePassParts
  <1> HIDE DEF d
  <1>5. Gated(b, s)
    BY <1>1, <1>2, GatedChain
  <1>6. Gated(c, s)
    BY <1>3, <1>5, GatedChain
  <1>7. Gated(d, s)
    BY <1>4, <1>6, GatedChain
  <1>8. Gated(s, s)
    BY DEF Gated, Within, Heads
  <1>9. Gate(s) = IF Len(d) <= 1 /\ Len(s) > 1 THEN s ELSE d
    BY DEF Gate, a, b, c, d
  <1>10. Fits(s) => d = s
    BY <1>1, <1>2, <1>3, <1>4
  <1> QED
    BY <1>7, <1>8, <1>9, <1>10

LEMMA TogetherWith ==
    ASSUME NEW S, NEW T, Together(S), \A m \in T : Ids(m) = {}
    PROVE  Together(S \cup T)
  BY DEF Together

LEMMA ProcessedParts ==
    ASSUME NEW m \in Seq(Messages), NEW seen, NEW strategy
    PROVE  LET p == Processed(m, seen, strategy)
           IN  /\ p.history \in Seq(Messages)
               /\ ToSet(p.history) \subseteq ToSet(m) \cup ToSet(Summary)
               /\ p.compacted \subseteq seen \cup ToSet(m)
               /\ Together(ToSet(m)) => Mismatched(p.history) = {}
               /\ m # <<>> /\ Plain(m[1]) => Heads(p.history, m)
  <1> DEFINE r == Compact(m, strategy)
             a == StripBlank(r.kept)
             b == PopResponses(a)
             c == Prune(b)
             g == Gate(c)
  <1>3. /\ r.kept \in Seq(Messages)
        /\ ToSet(r.kept) \subseteq ToSet(m) \cup ToSet(Summary)
        /\ m # <<>> /\ Plain(m[1]) => Heads(r.kept, m)
        /\ r.dropped \subseteq ToSet(m)
    BY CompactParts
  <1> HIDE DEF r
  <1>4. /\ Within(a, r.kept)
        /\ r.kept # <<>> /\ r.kept[1].thinks = "no" => Heads(a, r.kept)
    BY <1>3, StripBlankParts
  <1> HIDE DEF a
  <1>5. /\ Within(b, a)
        /\ a # <<>> /\ a[1].kind = "request" => Heads(b, a)
    BY <1>4, PopResponsesParts DEF Within
  <1> HIDE DEF b
  <1>6. /\ Within(c, b)
        /\ b # <<>> /\ Ids(b[1]) = {} => Heads(c, b)
        /\ Together(ToSet(b)) => Mismatched(c) = {}
    BY <1>5, PruneParts DEF Within
  <1> HIDE DEF c
  <1>7. Gated(g, c)
    BY <1>6, GateParts DEF Within
  <1> HIDE DEF g
  <1>8. ToSet(b) \subseteq ToSet(m) \cup ToSet(Summary)
    BY <1>3, <1>4, <1>5 DEF Within
  <1>9. g \in Seq(Messages) /\ ToSet(g) \subseteq ToSet(m) \cup ToSet(Summary)
    BY <1>6, <1>7, <1>8 DEF Within, Gated
  <1>10. m # <<>> /\ Plain(m[1]) => Heads(g, m)
    BY <1>3, <1>4, <1>5, <1>6, <1>7 DEF Heads, Plain, Gated
  <1>11. Together(ToSet(m)) => Mismatched(g) = {}
    <2> SUFFICES ASSUME Together(ToSet(m)) PROVE Mismatched(g) = {}
      OBVIOUS
    <2>1. Together(ToSet(m) \cup ToSet(Summary))
      BY NewMessages, TogetherWith
    <2>2. Together(ToSet(b)) /\ Together(ToSet(c))
      BY <1>6, <1>8, <2>1 DEF Together, Within
    <2> QED
      BY <1>6, <1>7, <2>2 DEF Gated
  <1>12. Processed(m, seen, strategy) = [history |-> g, compacted |-> seen \cup r.dropped]
    BY DEF Processed, r, a, b, c, g
  <1>13. seen \cup r.dropped \subseteq seen \cup ToSet(m)
    BY <1>3
  <1> QED
    BY <1>9, <1>10, <1>11, <1>12, <1>13

\* A small history passes through unchanged.
LEMMA ProcessedSmall ==
    ASSUME NEW all \in Seq(Messages), NEW seen, NEW strategy,
           all # <<>>, all[Len(all)].kind = "request", Mismatched(all) = {},
           NoPressure(all), \A m \in ToSet(all) : m.thinks # "blank"
    PROVE  Processed(all, seen, strategy).history = all
  <1>1. Compact(all, strategy) = [kept |-> all, dropped |-> {}]
    BY CompactNothing DEF NoPressure
  <1>2. StripBlank(all) = all
    BY StripBlankParts
  <1>3. PopResponses(all) = all
    BY PopResponsesParts
  <1>4. Prune(all) = all
    BY PruneParts
  <1>5. Gate(all) = all
    BY GateParts DEF NoPressure
  <1> QED
    BY <1>1, <1>2, <1>3, <1>4, <1>5 DEF Processed

\* Of two parts that each pair their calls, the second ending in a request.
LEMMA PairedParts ==
    ASSUME NEW h \in Seq(Messages), NEW new \in Seq(Messages),
           new # <<>>, new[Len(new)].kind = "request",
           Mismatched(h) = {}, Mismatched(new) = {}
    PROVE  /\ h \o new \in Seq(Messages) /\ h \o new # <<>>
           /\ (h \o new)[Len(h \o new)].kind = "request"
           /\ Mismatched(h \o new) = {}
  <1> DEFINE all == h \o new
  <1>1. /\ all \in Seq(Messages) /\ Len(all) = Len(h) + Len(new)
        /\ all[Len(h) + Len(new)] = new[Len(new)] /\ ToSet(all) = ToSet(h) \cup ToSet(new)
        /\ all # <<>>
    <2>1. Len(new) \in 1 .. Len(new) /\ Len(h) \in Nat /\ Len(new) \in Nat /\ Len(new) # 0
      BY InSequence
    <2>2. /\ all \in Seq(Messages) /\ Len(all) = Len(h) + Len(new)
          /\ \A i \in 1 .. Len(new) : all[Len(h) + i] = new[i]
          /\ ToSet(all) = ToSet(h) \cup ToSet(new)
      BY Concatenated
    <2> HIDE DEF all
    <2>3. Len(all) # 0
      BY <2>1, <2>2
    <2> QED
      BY <2>1, <2>2, <2>3, InSequence
  <1> HIDE DEF all
  <1>2. Mismatched(all) = {}
    <2>1. CallIds(h) = ReturnIds(h) /\ CallIds(new) = ReturnIds(new)
      BY DEF Mismatched
    <2>2. CallIds(all) = CallIds(h) \cup CallIds(new)
      BY <1>1, IdsOfHistory
    <2>3. ReturnIds(all) = ReturnIds(h) \cup ReturnIds(new)
      BY <1>1, IdsOfHistory
    <2> QED
      BY <2>1, <2>2, <2>3 DEF Mismatched
  <1> QED
    BY <1>1, <1>2 DEF all

-----------------------------------------------------------------------------
(***************************************************************************)
(* The invariant.  PairedWhenSent holds because pruning takes a call and   *)
(* its result together: messages that share an id carry the same ids, and  *)
(* the ids of a new answer are fresh.                                      *)
(***************************************************************************)
IdsOpened == \A m \in ToSet(history) \cup compacted : Ids(m) \subseteq 1 .. opened
AskedIsPrompt == asked # <<>> => \E p \in Prompts : asked = <<Request(p)>>
StubsAreLong == \A m \in stubs : m.text \in LongTexts

HistInv ==
  /\ TypeOK
  /\ PairedWhenSent
  /\ IdsOpened
  /\ Together(ToSet(history))
  /\ AskedIsPrompt
  /\ StubsAreLong

LEMMA RequestIs ==
    ASSUME NEW p \in Prompts
    PROVE  /\ <<Request(p)>> \in Seq(Messages) /\ Len(<<Request(p)>>) = 1
           /\ ToSet(<<Request(p)>>) = {Request(p)} /\ <<Request(p)>>[1] = Request(p)
           /\ Ids(Request(p)) = {} /\ Request(p).kind = "request"
           /\ Request(p).size = p.size /\ Request(p).thinks = "no"
  <1>1. Request(p) \in Messages
    BY NewMessages
  <1>2. ASSUME NEW m \in Messages
        PROVE  <<m>> \in Seq(Messages) /\ Len(<<m>>) = 1 /\ ToSet(<<m>>) = {m} /\ <<m>>[1] = m
    BY DEF ToSet
  <1>3. /\ Ids(Request(p)) = {} /\ Request(p).kind = "request"
        /\ Request(p).size = p.size /\ Request(p).thinks = "no"
    BY DEF Request, Ids
  <1> QED
    BY <1>1, <1>2, <1>3

\* What one call of history_processor does, once its choices are made.
Merged(h, seen, new, D) == Merge(Without(h, D), seen, h, new)
Submitted(h, seen, new, strategy, D, facts) ==
  LET m == Merged(h, seen, new, D)
      p == Processed(m, seen, strategy)
  IN  /\ D \in Deletions(h) /\ removed' = D
      /\ history' = p.history /\ compacted' = p.compacted
      /\ noted' = noted \cup Noted(m, facts)

LEMMA SubmitIs ==
    ASSUME NEW h, NEW seen, NEW new, Submit(h, seen, new)
    PROVE  /\ \E strategy, D, facts : Submitted(h, seen, new, strategy, D, facts)
           /\ stubs' = stubs \cup LongIn(h \o new)
           /\ given' = new /\ phase' = "sent" /\ turns' = turns + 1 /\ turns < MaxTurns
  <1>1. \E strategy, D, facts : Submitted(h, seen, new, strategy, D, facts)
    BY Zenon DEF Submit, Submitted, Merged
  <1> QED
    BY <1>1, Zenon DEF Submit

LEMMA MergedParts ==
    ASSUME NEW h \in Seq(Messages), NEW new \in Seq(Messages), NEW seen, NEW D
    PROVE  /\ Merged(h, seen, new, D) \in Seq(Messages)
           /\ ToSet(Merged(h, seen, new, D)) \subseteq ToSet(h) \cup ToSet(new)
           /\ h # <<>> /\ 1 \notin D => Heads(Merged(h, seen, new, D), h)
           /\ /\ D = {}
              /\ ToSet(new) \cap ToSet(h) = {}
              /\ \A i \in 1 .. Len(new) : i # Len(new) => new[i] \notin seen
              => Merged(h, seen, new, D) = h \o new
  <1> DEFINE held == Without(h, D)
             m == Merge(held, seen, h, new)
  <1>1. /\ Within(held, h)
        /\ h # <<>> /\ 1 \notin D => Heads(held, h)
        /\ D = {} => held = h
    BY WithoutParts
  <1> HIDE DEF held
  <1>2. /\ m \in Seq(Messages) /\ ToSet(m) \subseteq ToSet(h) \cup ToSet(new)
        /\ held # <<>> => Heads(m, held)
        /\ /\ held = h
           /\ ToSet(new) \cap ToSet(h) = {}
           /\ \A i \in 1 .. Len(new) : i # Len(new) => new[i] \notin seen
           => m = h \o new
    BY <1>1, MergeParts
  <1> HIDE DEF m
  <1>3. Merged(h, seen, new, D) = m
    BY DEF Merged, m, held
  <1> QED
    BY <1>1, <1>2, <1>3 DEF Heads

LEMMA SubmitKeeps ==
    ASSUME HistInv, NEW h, Within(h, history), NEW seen,
           seen \subseteq compacted \cup ToSet(history),
           NEW new \in Seq(Messages), Submit(h, seen, new),
           opened' \in Nat, opened <= opened', opened' <= MaxCalls,
           \A m \in ToSet(new) : Ids(m) \subseteq 1 .. opened',
           Together(ToSet(h) \cup ToSet(new)),
           asked' \in Seq(Messages), asked' # <<>>, AskedIsPrompt'
    PROVE  HistInv'
  <1>1. PICK strategy, D, facts : Submitted(h, seen, new, strategy, D, facts)
    BY SubmitIs
  <1> DEFINE m == Merged(h, seen, new, D)
             P == Processed(m, seen, strategy)
  <1>2. /\ D \in Deletions(h) /\ removed' = D
        /\ history' = P.history /\ compacted' = P.compacted
        /\ noted' = noted \cup Noted(m, facts)
    BY <1>1, Zenon DEF Submitted
  <1>0. h \in Seq(Messages)
    BY DEF Within
  <1>a. m \in Seq(Messages) /\ ToSet(m) \subseteq ToSet(h) \cup ToSet(new)
    BY <1>0, MergedParts
  <1> HIDE DEF m
  <1>b. Together(ToSet(m))
    BY <1>a DEF Together
  <1>c. /\ P.history \in Seq(Messages) /\ ToSet(P.history) \subseteq ToSet(m) \cup ToSet(Summary)
        /\ P.compacted \subseteq seen \cup ToSet(m)
        /\ Mismatched(P.history) = {}
    BY <1>a, <1>b, ProcessedParts
  <1> HIDE DEF P
  <1>3. /\ history' \in Seq(Messages)
        /\ ToSet(history') \subseteq ToSet(h) \cup ToSet(new) \cup ToSet(Summary)
        /\ compacted' \subseteq seen \cup ToSet(h) \cup ToSet(new)
        /\ Mismatched(history') = {}
    BY <1>2, <1>a, <1>c
  <1>4. /\ ToSet(h) \subseteq ToSet(history) /\ ToSet(new) \subseteq Messages
        /\ ToSet(history) \subseteq Messages /\ compacted \subseteq Messages
    BY InSequence DEF Within, HistInv, TypeOK
  <1>5. /\ given' = new /\ phase' = "sent" /\ turns' = turns + 1 /\ turns < MaxTurns
        /\ stubs' = stubs \cup LongIn(h \o new)
    BY SubmitIs
  <1>d. /\ stubs' \subseteq Messages /\ StubsAreLong'
    <2>1. ToSet(h \o new) = ToSet(h) \cup ToSet(new)
      BY <1>0, Concatenated
    <2>2. LongIn(h \o new) \subseteq Messages /\ \A x \in LongIn(h \o new) : x.text \in LongTexts
      BY <1>4, <2>1 DEF LongIn
    <2> QED
      BY <1>5, <2>2 DEF HistInv, TypeOK, StubsAreLong
  <1>e. noted' \subseteq Messages
    <2>1. Noted(m, facts) \subseteq ToSet(m)
      BY Zenon DEF Noted
    <2>2. noted \subseteq Messages
      BY DEF HistInv, TypeOK
    <2> QED
      BY <1>2, <1>4, <1>a, <2>1, <2>2
  <1>f. removed' \subseteq Nat
    <2>1. DOMAIN h = 1 .. Len(h)
      BY <1>0, InSequence
    <2> QED
      BY <1>2, <2>1 DEF Deletions
  <1>6. TypeOK'
    <2>1. turns' \in 0 .. MaxTurns /\ opened' \in 0 .. MaxCalls
      <3>1. MaxTurns \in Nat /\ MaxCalls \in Nat /\ turns \in 0 .. MaxTurns
        BY BudgetAssumption DEF HistInv, TypeOK
      <3> QED
        BY <1>5, <3>1
    <2>2. compacted' \subseteq Messages
      BY <1>3, <1>4
    <2>3. (phase' = "idle") <=> (asked' = <<>>)
      BY <1>5
    <2> QED
      BY <1>3, <1>5, <1>d, <1>e, <1>f, <2>1, <2>2, <2>3 DEF TypeOK
  <1>7. IdsOpened'
    <2>1. \A x \in ToSet(history) \cup compacted : Ids(x) \subseteq 1 .. opened'
      <3>1. 1 .. opened \subseteq 1 .. opened'
        BY DEF HistInv, TypeOK
      <3> QED
        BY <3>1 DEF HistInv, IdsOpened
    <2>2. \A x \in ToSet(Summary) : Ids(x) \subseteq 1 .. opened'
      BY NewMessages
    <2>3. \A x \in ToSet(history') \cup compacted' :
            x \in ToSet(history) \cup compacted \/ x \in ToSet(new) \/ x \in ToSet(Summary)
      BY <1>3, <1>4
    <2> QED
      BY <2>1, <2>2, <2>3 DEF IdsOpened
  <1>8. Together(ToSet(history'))
    <2>1. Together(ToSet(h) \cup ToSet(new) \cup ToSet(Summary))
      BY NewMessages, TogetherWith
    <2> QED
      BY <1>3, <2>1 DEF Together
  <1>9. PairedWhenSent'
    BY <1>3 DEF PairedWhenSent
  <1> QED
    BY <1>6, <1>7, <1>8, <1>9, <1>d DEF HistInv

LEMMA WithinItself ==
    ASSUME NEW s \in Seq(Messages)
    PROVE  Within(s, s)
  BY DEF Within

LEMMA TogetherPlain ==
    ASSUME HistInv, NEW h, Within(h, history), NEW new,
           \A m \in ToSet(new) : Ids(m) = {}
    PROVE  /\ Together(ToSet(h) \cup ToSet(new))
           /\ \A m \in ToSet(new) : Ids(m) \subseteq 1 .. opened
  <1>1. Together(ToSet(h))
    BY DEF HistInv, Within, Together
  <1> QED
    BY <1>1, TogetherWith

LEMMA HistInit == Init => HistInv
  <1> SUFFICES ASSUME Init PROVE HistInv
    OBVIOUS
  <1>1. ToSet(history) = {}
    BY DEF Init, ToSet
  <1>2. <<>> \in Seq(Messages) /\ MaxTurns \in Nat /\ MaxCalls \in Nat
    BY BudgetAssumption
  <1>3. TypeOK
    BY <1>2 DEF Init, TypeOK
  <1> QED
    BY <1>1, <1>3 DEF Init, HistInv, PairedWhenSent, IdsOpened, AskedIsPrompt, StubsAreLong,
                      Together

\* What UseTools adds: the answer with its calls, and their results.
TurnIds(first, n) == first + 1 .. first + n
Turn(first, n, r, result, t) ==
  <<Response(r, TurnIds(first, n), t), ToolResult(TurnIds(first, n), result)>>

IsTurn(new, ids, first, top) ==
  /\ new \in Seq(Messages) /\ Len(new) = 2 /\ new[2].kind = "request"
  /\ \A m \in ToSet(new) : Ids(m) = ids
  /\ ids \subseteq 1 .. top /\ first + 1 \in ids /\ ids \cap (1 .. first) = {}
  /\ CallIds(new) = ids /\ ReturnIds(new) = ids

LEMMA ToolTurn ==
    ASSUME NEW first \in Nat, NEW n \in 1 .. 2, first + n <= MaxCalls,
           NEW r \in Replies, NEW result \in Results, NEW t \in Thoughts
    PROVE  IsTurn(Turn(first, n, r, result, t), TurnIds(first, n), first, first + n)
  <1> DEFINE ids == TurnIds(first, n)
             a == Response(r, ids, t)
             b == ToolResult(ids, result)
  <1>1. /\ ids \subseteq 1 .. first + n /\ first + 1 \in ids /\ ids \cap (1 .. first) = {}
        /\ ids \subseteq 1 .. MaxCalls
    BY BudgetAssumption DEF TurnIds
  <1> HIDE DEF ids
  <1>2. a \in Messages /\ b \in Messages
    BY <1>1, NewMessages
  <1>3. /\ a.calls = ids /\ a.returns = {} /\ b.calls = {} /\ b.returns = ids
        /\ b.kind = "request"
    BY DEF Response, ToolResult
  <1> HIDE DEF a, b
  <1>4. /\ <<a, b>> \in Seq(Messages) /\ Len(<<a, b>>) = 2 /\ DOMAIN <<a, b>> = {1, 2}
        /\ <<a, b>>[1] = a /\ <<a, b>>[2] = b
    BY <1>2
  <1>5. ToSet(<<a, b>>) = {a, b}
    BY <1>4 DEF ToSet
  <1>6. Ids(a) = ids /\ Ids(b) = ids
    BY <1>3 DEF Ids
  <1>7. CallIds(<<a, b>>) = ids /\ ReturnIds(<<a, b>>) = ids
    <2>1. \A x : x \in CallIds(<<a, b>>) <=> x \in ids
      BY <1>3, <1>4, <1>5, IdsOfHistory
    <2>2. \A x : x \in ReturnIds(<<a, b>>) <=> x \in ids
      BY <1>3, <1>4, <1>5, IdsOfHistory
    <2> QED
      BY <2>1, <2>2
  <1>8. /\ <<a, b>> \in Seq(Messages) /\ Len(<<a, b>>) = 2 /\ <<a, b>>[1] = a /\ <<a, b>>[2] = b
        /\ ToSet(<<a, b>>) = {a, b} /\ \A m \in ToSet(<<a, b>>) : Ids(m) = ids
        /\ <<a, b>>[2].kind = "request"
    BY <1>3, <1>4, <1>5, <1>6
  <1>9. IsTurn(<<a, b>>, ids, first, first + n)
    BY <1>1, <1>7, <1>8 DEF IsTurn
  <1> QED
    BY <1>9 DEF Turn, ids, a, b

LEMMA HistPrompt == HistInv /\ Prompt => HistInv'
  <1> SUFFICES ASSUME HistInv, Prompt PROVE HistInv'
    OBVIOUS
  <1>1. PICK p \in Prompts : /\ Submit(Prune(history), compacted, <<Request(p)>>)
                             /\ asked' = <<Request(p)>> /\ opened' = opened
    BY DEF Prompt
  <1>2. /\ <<Request(p)>> \in Seq(Messages) /\ Len(<<Request(p)>>) = 1
        /\ \A m \in ToSet(<<Request(p)>>) : Ids(m) = {}
    BY RequestIs
  <1>3. history \in Seq(Messages) /\ opened \in Nat /\ opened <= MaxCalls
    BY BudgetAssumption DEF HistInv, TypeOK
  <1>4. Within(Prune(history), history)
    BY <1>3, PruneParts
  <1>5. asked' \in Seq(Messages) /\ asked' # <<>> /\ AskedIsPrompt'
    BY <1>1, <1>2 DEF AskedIsPrompt
  <1>6. opened' \in Nat /\ opened <= opened' /\ opened' <= MaxCalls
    BY <1>1, <1>3
  <1>7. /\ Together(ToSet(Prune(history)) \cup ToSet(<<Request(p)>>))
        /\ \A m \in ToSet(<<Request(p)>>) : Ids(m) \subseteq 1 .. opened'
    BY <1>1, <1>2, <1>4, TogetherPlain
  <1> QED
    BY <1>1, <1>2, <1>4, <1>5, <1>6, <1>7, SubmitKeeps

LEMMA HistReply == HistInv /\ Reply => HistInv'
  <1> SUFFICES ASSUME HistInv, Reply PROVE HistInv'
    OBVIOUS
  <1>1. PICK r \in Replies, t \in Thoughts :
          history' = Append(history, Response(r, {}, t))
    BY DEF Reply
  <1>2. /\ phase' = "idle" /\ asked' = <<>> /\ given' = <<>>
        /\ compacted' = compacted /\ turns' = turns /\ opened' = opened
        /\ stubs' = stubs /\ noted' = noted /\ removed' = {}
    BY DEF Reply
  <1> DEFINE m == Response(r, {}, t)
  <1>3. m \in Messages /\ Ids(m) = {}
    <2>1. m \in Messages
      BY NewMessages
    <2>2. Ids(m) = {}
      BY DEF Response, Ids
    <2> QED
      BY <2>1, <2>2
  <1> HIDE DEF m
  <1>4. history \in Seq(Messages)
    BY DEF HistInv, TypeOK
  <1>5. history' \in Seq(Messages) /\ ToSet(history') = ToSet(history) \cup {m}
    <2>1. history' = history \o <<m>>
      BY <1>1, <1>3, <1>4 DEF m
    <2> DEFINE last == <<m>>
    <2>2. last \in Seq(Messages) /\ ToSet(last) = {m}
      BY <1>3, Single
    <2>3. history' = history \o last
      BY <2>1
    <2> HIDE DEF last
    <2> QED
      BY <1>4, <2>2, <2>3, Concatenated
  <1>6. TypeOK'
    BY <1>2, <1>5 DEF HistInv, TypeOK
  <1>7. IdsOpened'
    BY <1>2, <1>3, <1>5 DEF HistInv, IdsOpened
  <1>8. Together(ToSet(history'))
    BY <1>3, <1>5, TogetherWith DEF HistInv
  <1>9. PairedWhenSent' /\ AskedIsPrompt' /\ StubsAreLong'
    BY <1>2 DEF PairedWhenSent, AskedIsPrompt, StubsAreLong, HistInv
  <1> QED
    BY <1>6, <1>7, <1>8, <1>9 DEF HistInv

LEMMA HistUseTools == HistInv /\ UseTools => HistInv'
  <1> SUFFICES ASSUME HistInv, UseTools PROVE HistInv'
    OBVIOUS
  <1>1. PICK n \in 1 .. 2, r \in Replies, result \in Results, t \in Thoughts :
          /\ Accepted /\ opened + n <= MaxCalls
          /\ Submit(history, compacted, Turn(opened, n, r, result, t))
          /\ opened' = opened + n /\ asked' = asked
    BY DEF UseTools, Turn, TurnIds
  <1>2. history \in Seq(Messages) /\ opened \in Nat /\ MaxCalls \in Nat
    BY BudgetAssumption DEF HistInv, TypeOK
  <1> DEFINE ids == TurnIds(opened, n)
             new == Turn(opened, n, r, result, t)
  <1>a. IsTurn(new, ids, opened, opened + n)
    BY <1>1, <1>2, ToolTurn
  <1>4. Submit(history, compacted, new)
    BY <1>1
  <1> HIDE DEF new, ids
  <1>3. /\ new \in Seq(Messages) /\ \A m \in ToSet(new) : Ids(m) = ids
        /\ ids \subseteq 1 .. opened + n /\ ids \cap (1 .. opened) = {}
    BY <1>a DEF IsTurn
  <1>5. Within(history, history) /\ history # <<>>
    BY <1>1, <1>2, WithinItself DEF Accepted
  <1>6. opened' \in Nat /\ opened <= opened' /\ opened' <= MaxCalls
    BY <1>1, <1>2
  <1>7. \A m \in ToSet(new) : Ids(m) \subseteq 1 .. opened'
    BY <1>1, <1>3
  <1>8. Together(ToSet(history) \cup ToSet(new))
    <2>1. \A m \in ToSet(history) : Ids(m) \cap ids = {}
      BY <1>3 DEF HistInv, IdsOpened
    <2> QED
      BY <1>3, <2>1 DEF HistInv, Together
  <1>9. asked' \in Seq(Messages) /\ asked' # <<>> /\ AskedIsPrompt'
    BY <1>1 DEF HistInv, TypeOK, AskedIsPrompt, Accepted
  <1> QED
    BY <1>3, <1>4, <1>5, <1>6, <1>7, <1>8, <1>9, SubmitKeeps

LEMMA HistEmptyAnswer == HistInv /\ EmptyAnswer => HistInv'
  <1> SUFFICES ASSUME HistInv, EmptyAnswer PROVE HistInv'
    OBVIOUS
  <1> DEFINE a == Response([text |-> "", size |-> 1], {}, "blank")
  <1>1. Accepted /\ Submit(history, compacted, <<a, Nudge>>)
        /\ asked' = asked /\ opened' = opened
    BY DEF EmptyAnswer
  <1>2. history \in Seq(Messages) /\ opened \in Nat /\ opened <= MaxCalls
    BY BudgetAssumption DEF HistInv, TypeOK
  <1>3. a \in Messages /\ Nudge \in Messages
    BY NewMessages
  <1>4. Ids(a) = {} /\ Ids(Nudge) = {}
    BY DEF Response, Nudge, Request, Ids
  <1> HIDE DEF a
  <1>5. <<a, Nudge>> \in Seq(Messages) /\ \A m \in ToSet(<<a, Nudge>>) : Ids(m) = {}
    <2>1. <<a, Nudge>> \in Seq(Messages) /\ DOMAIN <<a, Nudge>> = {1, 2}
          /\ <<a, Nudge>>[1] = a /\ <<a, Nudge>>[2] = Nudge
      BY <1>3
    <2> QED
      BY <1>4, <2>1 DEF ToSet
  <1>6. Within(history, history) /\ history # <<>>
    BY <1>1, <1>2, WithinItself DEF Accepted
  <1>7. opened' \in Nat /\ opened <= opened' /\ opened' <= MaxCalls
    BY <1>1, <1>2
  <1>8. /\ Together(ToSet(history) \cup ToSet(<<a, Nudge>>))
        /\ \A m \in ToSet(<<a, Nudge>>) : Ids(m) \subseteq 1 .. opened'
    BY <1>1, <1>5, <1>6, TogetherPlain
  <1>9. asked' \in Seq(Messages) /\ asked' # <<>> /\ AskedIsPrompt'
    BY <1>1 DEF HistInv, TypeOK, AskedIsPrompt, Accepted
  <1> QED
    BY <1>1, <1>5, <1>6, <1>7, <1>8, <1>9, SubmitKeeps

LEMMA Resubmits ==
    ASSUME HistInv, phase = "sent", NEW h, Within(h, history), NEW seen,
           seen \subseteq compacted \cup ToSet(history),
           Submit(h, seen, asked), asked' = asked, opened' = opened
    PROVE  HistInv'
  <1>1. asked # <<>>
    BY DEF HistInv, TypeOK
  <1>2. PICK p \in Prompts : asked = <<Request(p)>>
    BY <1>1 DEF HistInv, AskedIsPrompt
  <1>3. /\ asked \in Seq(Messages) /\ Len(asked) = 1
        /\ \A m \in ToSet(asked) : Ids(m) = {}
    BY <1>2, RequestIs
  <1>4. opened' \in Nat /\ opened <= opened' /\ opened' <= MaxCalls
    BY BudgetAssumption DEF HistInv, TypeOK
  <1>5. /\ Together(ToSet(h) \cup ToSet(asked))
        /\ \A m \in ToSet(asked) : Ids(m) \subseteq 1 .. opened'
    BY <1>3, TogetherPlain
  <1>6. asked' \in Seq(Messages) /\ asked' # <<>> /\ AskedIsPrompt'
    BY <1>1, <1>2, <1>3 DEF AskedIsPrompt
  <1> QED
    BY <1>3, <1>4, <1>5, <1>6, SubmitKeeps

LEMMA HistRetry == HistInv /\ Retry => HistInv'
  <1> SUFFICES ASSUME HistInv, Retry PROVE HistInv'
    OBVIOUS
  <1>1. phase = "sent" /\ Submit(history, compacted, asked) /\ asked' = asked /\ opened' = opened
    BY DEF Retry
  <1>2. Within(history, history)
    BY WithinItself DEF HistInv, TypeOK
  <1> QED
    BY <1>1, <1>2, Resubmits

LEMMA HistOverflow == HistInv /\ Overflow => HistInv'
  <1> SUFFICES ASSUME HistInv, Overflow PROVE HistInv'
    OBVIOUS
  <1> DEFINE cut == TruncateWithDropped(history, Emergency)
             t == Truncate(history, Emergency)
  <1>1. /\ phase = "sent" /\ Len(history) > 2
        /\ Submit(cut.kept, compacted \cup cut.dropped, asked)
        /\ asked' = asked /\ opened' = opened
    BY DEF Overflow
  <1>2. cut.kept = t /\ cut.dropped = ToSet(history) \ ToSet(t)
    BY DEF TruncateWithDropped
  <1>3. history \in Seq(Messages) /\ history # <<>>
    BY <1>1 DEF HistInv, TypeOK
  <1>4. Within(t, history)
    BY <1>3, TruncateKeeps
  <1> HIDE DEF cut, t
  <1> QED
    BY <1>1, <1>2, <1>4, Resubmits

LEMMA HistCancel == HistInv /\ Cancel => HistInv'
  BY DEF HistInv, Cancel, TypeOK, PairedWhenSent, IdsOpened, AskedIsPrompt, StubsAreLong

LEMMA HistStep == HistInv /\ [Next]_vars => HistInv'
  <1>1. HistInv /\ UNCHANGED vars => HistInv'
    BY DEF HistInv, vars, TypeOK, PairedWhenSent, IdsOpened, AskedIsPrompt, StubsAreLong
  <1> QED
    BY <1>1, HistPrompt, HistReply, HistUseTools, HistEmptyAnswer, HistRetry,
       HistOverflow, HistCancel DEF Next

(* The inductive invariant of HistoryProcessor.                            *)
THEOREM HistoryInvariant == Spec => []HistInv
  BY HistInit, HistStep, PTL DEF Spec

(* history_processor, the retries and the emergency cut keep the history,  *)
(* the forgotten messages and the pending request well formed.             *)
THEOREM HistoryTypeCorrect == Spec => []TypeOK
  <1>1. HistInv => TypeOK
    BY DEF HistInv
  <1> QED
    BY <1>1, HistoryInvariant, PTL

(* What history_processor sends never holds a tool call without its result *)
(* or a result without its call, whatever was truncated, summarized,       *)
(* pruned or cut by the gate on the way.                                   *)
THEOREM SentIsPaired == Spec => []PairedWhenSent
  <1>1. HistInv => PairedWhenSent
    BY DEF HistInv
  <1> QED
    BY <1>1, HistoryInvariant, PTL

-----------------------------------------------------------------------------
(* truncate promises its budget, or two messages, and never swaps two, for *)
(* every history that can be reached and every budget.                     *)
THEOREM TruncationIsSound == Spec => []TruncateSound
  <1>1. HistInv => TruncateSound
    <2> SUFFICES ASSUME HistInv, NEW b \in 1 .. Total(history) + 1
                 PROVE  LET t == Truncate(history, b)
                        IN  /\ Total(t) <= b \/ Len(t) <= 2
                            /\ \A i, j \in DOMAIN t : i <= j =>
                                 \E p, q \in DOMAIN history :
                                   p <= q /\ history[p] = t[i] /\ history[q] = t[j]
      BY DEF TruncateSound
    <2>1. history \in Seq(Messages) /\ Len(history) \in Nat
      BY DEF HistInv, TypeOK
    <2>2. Total(history) \in Nat
      BY <2>1, TotalAdds
    <2>3. b \in Nat
      BY <2>2
    <2>4. CASE history = <<>>
      <3>1. Truncate(history, b) = <<>>
        BY <2>4 DEF Truncate
      <3> QED
        BY <3>1
    <2>5. CASE history # <<>>
      <3> DEFINE t == Truncate(history, b)
      <3>1. \A i, j \in DOMAIN t : i <= j =>
              \E p, q \in DOMAIN history :
                p <= q /\ history[p] = t[i] /\ history[q] = t[j]
        BY <2>1, <2>5, TruncateKeeps
      <3>3. Len(history) = 1 => t = <<history[1]>>
        BY <2>5 DEF Truncate
      <3>4. Len(history) >= 2 => Total(t) <= b \/ Len(t) <= 2
        BY <2>1, <2>3, TruncateFits
      <3> HIDE DEF t
      <3>5. t = <<history[1]>> => Len(t) <= 2
        OBVIOUS
      <3>6. Len(history) = 1 \/ Len(history) >= 2
        BY <2>1, <2>5, SizeCases, Zenon
      <3>7. Total(t) <= b \/ Len(t) <= 2
        BY <3>3, <3>4, <3>5, <3>6, Zenon
      <3> QED
        BY <3>1, <3>7 DEF t
    <2> QED
      BY <2>4, <2>5
  <1> QED
    BY <1>1, HistoryInvariant, PTL

-----------------------------------------------------------------------------
(***************************************************************************)
(* The first message.  Nothing but its size or the plugin takes a message  *)
(* that opens a conversation from its place.                               *)
(***************************************************************************)
FirstStays ==
  history # <<>> /\ Opening(history[1]) /\ 1 \notin removed'
    => history' # <<>> /\ history'[1] = history[1]

LEMMA SubmitKeepsFirst ==
    ASSUME NEW h \in Seq(Messages), NEW new \in Seq(Messages), NEW seen,
           Submit(h, seen, new), h # <<>>, Plain(h[1]), 1 \notin removed'
    PROVE  history' # <<>> /\ history'[1] = h[1]
  <1>1. PICK strategy, D, facts : Submitted(h, seen, new, strategy, D, facts)
    BY SubmitIs
  <1> DEFINE m == Merged(h, seen, new, D)
             P == Processed(m, seen, strategy)
  <1>2. removed' = D /\ history' = P.history
    BY <1>1, Zenon DEF Submitted
  <1>3. m \in Seq(Messages) /\ Heads(m, h)
    BY <1>2, MergedParts
  <1> HIDE DEF m
  <1>4. m # <<>> /\ Plain(m[1]) => Heads(P.history, m)
    BY <1>3, ProcessedParts
  <1> HIDE DEF P
  <1> QED
    BY <1>2, <1>3, <1>4 DEF Heads

LEMMA FirstStep ==
    ASSUME HistInv, [Next]_vars
    PROVE  FirstStays
  <1> SUFFICES ASSUME history # <<>>, Opening(history[1]), 1 \notin removed'
               PROVE  history' # <<>> /\ history'[1] = history[1]
    BY DEF FirstStays
  <1>0. Plain(history[1])
    BY DEF Opening, Plain, Ids
  <1>1. /\ history \in Seq(Messages) /\ asked \in Seq(Messages) /\ opened \in Nat
    BY DEF HistInv, TypeOK
  <1>2. CASE Prompt
    <2>1. PICK p \in Prompts : Submit(Prune(history), compacted, <<Request(p)>>)
      BY <1>2 DEF Prompt
    <2>2. <<Request(p)>> \in Seq(Messages)
      BY RequestIs
    <2>3. Prune(history) \in Seq(Messages) /\ Heads(Prune(history), history)
      BY <1>0, <1>1, PruneParts DEF Within, Plain
    <2>4. Prune(history) # <<>> /\ Prune(history)[1] = history[1]
      BY <2>3 DEF Heads
    <2> QED
      BY <1>0, <2>1, <2>2, <2>3, <2>4, SubmitKeepsFirst
  <1>3. CASE Reply
    <2>1. PICK r \in Replies, t \in Thoughts : history' = Append(history, Response(r, {}, t))
      BY <1>3 DEF Reply
    <2>2. Response(r, {}, t) \in Messages
      BY NewMessages
    <2> DEFINE m == Response(r, {}, t)
    <2> HIDE DEF m
    <2>3. <<m>> \in Seq(Messages) /\ history' = history \o <<m>>
      BY <1>1, <2>1, <2>2 DEF m
    <2> QED
      BY <1>1, <2>3, Concatenated
  <1>4. CASE UseTools
    <2>1. PICK n \in 1 .. 2, r \in Replies, result \in Results, t \in Thoughts :
            /\ opened + n <= MaxCalls
            /\ Submit(history, compacted, Turn(opened, n, r, result, t))
      BY <1>4 DEF UseTools, Turn, TurnIds
    <2>2. Turn(opened, n, r, result, t) \in Seq(Messages)
      <3>1. IsTurn(Turn(opened, n, r, result, t), TurnIds(opened, n), opened, opened + n)
        BY <1>1, <2>1, ToolTurn
      <3> QED
        BY <3>1 DEF IsTurn
    <2> QED
      BY <1>0, <1>1, <2>1, <2>2, SubmitKeepsFirst
  <1>5. CASE EmptyAnswer
    <2> DEFINE a == Response([text |-> "", size |-> 1], {}, "blank")
    <2>1. Submit(history, compacted, <<a, Nudge>>)
      BY <1>5 DEF EmptyAnswer
    <2>2. a \in Messages /\ Nudge \in Messages
      BY NewMessages
    <2> HIDE DEF a
    <2>3. <<a, Nudge>> \in Seq(Messages)
      BY <2>2
    <2> QED
      BY <1>0, <1>1, <2>1, <2>3, SubmitKeepsFirst
  <1>6. CASE Retry
    <2>1. Submit(history, compacted, asked)
      BY <1>6 DEF Retry
    <2> QED
      BY <1>0, <1>1, <2>1, SubmitKeepsFirst
  <1>7. CASE Overflow
    <2> DEFINE cut == TruncateWithDropped(history, Emergency)
               t == Truncate(history, Emergency)
    <2>1. Submit(cut.kept, compacted \cup cut.dropped, asked)
      BY <1>7 DEF Overflow
    <2>2. cut.kept = t
      BY DEF TruncateWithDropped
    <2>3. t \in Seq(Messages) /\ t # <<>> /\ t[1] = history[1]
      BY <1>1, TruncateKeeps DEF Within, Heads
    <2> HIDE DEF cut, t
    <2> QED
      BY <1>0, <1>1, <2>1, <2>2, <2>3, SubmitKeepsFirst
  <1>8. CASE Cancel
    BY <1>8 DEF Cancel
  <1>9. CASE UNCHANGED vars
    BY <1>9 DEF vars
  <1> QED
    BY <1>2, <1>3, <1>4, <1>5, <1>6, <1>7, <1>8, <1>9 DEF Next

(* A first message smaller than what filter_huge_messages drops keeps its  *)
(* place through every merge, compaction, pruning, gate and emergency cut, *)
(* unless the task_context plugin deleted it.                              *)
THEOREM SystemPromptSurvives == Spec => SystemStaysFirst
  <1>1. HistInv /\ [Next]_vars => [FirstStays]_vars
    BY FirstStep
  <1>2. SystemStaysFirst <=> [][FirstStays]_vars
    BY PTL DEF SystemStaysFirst, FirstStays
  <1> QED
    BY <1>1, <1>2, HistoryInvariant, PTL DEF Spec

-----------------------------------------------------------------------------
(***************************************************************************)
(* A small conversation is sent whole.                                     *)
(***************************************************************************)
Relaxed ==
  LET all == history \o given'
  IN  /\ turns' > turns
      /\ NoPressure(all) /\ ~ Crowded(history) /\ Total(all) <= Emergency
      /\ ToSet(given') \cap ToSet(history) = {}
      /\ Mismatched(history) = {}
      /\ \A m \in ToSet(all) : m.thinks # "blank"
SentWhole ==
  LET all == history \o given'
  IN  /\ history' = all
      /\ stubs' \cap ToSet(all) = LongIn(all)
      /\ noted' \subseteq noted \cup {all[1]}

LEMMA SubmitSmall ==
    ASSUME HistInv, Relaxed, NEW new \in Seq(Messages), NEW seen,
           Submit(history, seen, new), new # <<>>, new[Len(new)].kind = "request",
           \A i \in 1 .. Len(new) : i # Len(new) => new[i] \notin seen,
           Mismatched(new) = {}
    PROVE  SentWhole
  <1>1. /\ given' = new /\ history \in Seq(Messages)
        /\ stubs' = stubs \cup LongIn(history \o new) /\ StubsAreLong
    BY SubmitIs DEF HistInv, TypeOK
  <1>2. PICK strategy, D, facts : Submitted(history, seen, new, strategy, D, facts)
    BY SubmitIs
  <1> DEFINE all == history \o new
             m == Merged(history, seen, new, D)
             P == Processed(m, seen, strategy)
  <1>3. /\ NoPressure(all) /\ Mismatched(history) = {} /\ ~ Crowded(history)
        /\ ToSet(new) \cap ToSet(history) = {}
        /\ \A x \in ToSet(all) : x.thinks # "blank"
    BY <1>1 DEF Relaxed
  <1>4. D \in Deletions(history) /\ history' = P.history /\ noted' = noted \cup Noted(m, facts)
    BY <1>2, Zenon DEF Submitted
  <1>5. D = {}
    BY <1>3, <1>4 DEF Deletions
  <1>6. m = all
    BY <1>1, <1>3, <1>5, MergedParts, ZenonT(60)
  <1>7. all \in Seq(Messages) /\ all # <<>> /\ all[Len(all)].kind = "request" /\ Mismatched(all) = {}
    BY <1>1, <1>3, PairedParts
  <1> HIDE DEF m, all
  <1>8. history' = all
    BY <1>3, <1>4, <1>6, <1>7, ProcessedSmall
  <1>9. stubs' \cap ToSet(all) = LongIn(all)
    <2>1. stubs' = stubs \cup LongIn(all)
      BY <1>1 DEF all
    <2> QED
      BY <1>1, <2>1 DEF LongIn, StubsAreLong
  <1>10. noted' \subseteq noted \cup {all[1]}
    <2>1. Noted(all, facts) \subseteq {all[1]}
      BY Zenon DEF Noted
    <2> QED
      BY <1>4, <1>6, <2>1
  <1>11. history \o given' = all
    BY <1>1 DEF all
  <1> QED
    BY <1>8, <1>9, <1>10, <1>11, Zenon DEF SentWhole

LEMMA SmallPrompt ==
    ASSUME HistInv, Relaxed, NEW p \in Prompts, NEW seen,
           Submit(history, seen, <<Request(p)>>)
    PROVE  SentWhole
  <1>1. /\ <<Request(p)>> \in Seq(Messages) /\ Len(<<Request(p)>>) = 1
        /\ <<Request(p)>>[1] = Request(p) /\ Request(p).kind = "request"
        /\ ToSet(<<Request(p)>>) = {Request(p)} /\ Ids(Request(p)) = {}
    BY RequestIs
  <1>2. Mismatched(<<Request(p)>>) = {}
    <2>1. \A x : x \notin CallIds(<<Request(p)>>) /\ x \notin ReturnIds(<<Request(p)>>)
      BY <1>1, IdsOfHistory DEF Ids
    <2> QED
      BY <2>1 DEF Mismatched
  <1> DEFINE new == <<Request(p)>>
  <1>3. new \in Seq(Messages) /\ Len(new) = 1 /\ new[1].kind = "request" /\ Mismatched(new) = {}
    BY <1>1, <1>2
  <1>4. Submit(history, seen, new)
    OBVIOUS
  <1> HIDE DEF new
  <1>5. new # <<>> /\ \A i \in 1 .. Len(new) : i = Len(new)
    BY <1>3
  <1> QED
    BY <1>3, <1>4, <1>5, SubmitSmall

LEMMA WholeStep ==
    ASSUME HistInv, [Next]_vars, Relaxed
    PROVE  SentWhole
  <1>1. /\ history \in Seq(Messages) /\ opened \in Nat /\ turns' > turns
        /\ turns \in Int
    BY DEF HistInv, TypeOK, Relaxed
  <1>2. CASE Prompt
    <2>1. PICK p \in Prompts : Submit(Prune(history), compacted, <<Request(p)>>)
      BY <1>2 DEF Prompt
    <2>2. Prune(history) = history
      BY <1>1, PruneParts DEF Relaxed
    <2> QED
      BY <2>1, <2>2, SmallPrompt
  <1>3. CASE UseTools
    <2>1. PICK n \in 1 .. 2, r \in Replies, result \in Results, t \in Thoughts :
            /\ opened + n <= MaxCalls
            /\ Submit(history, compacted, Turn(opened, n, r, result, t))
      BY <1>3 DEF UseTools, Turn, TurnIds
    <2> DEFINE new == Turn(opened, n, r, result, t)
               ids == TurnIds(opened, n)
    <2>a. IsTurn(new, ids, opened, opened + n)
      BY <1>1, <2>1, ToolTurn
    <2>3. Submit(history, compacted, new)
      BY <2>1
    <2> HIDE DEF new, ids
    <2>2. /\ new \in Seq(Messages) /\ Len(new) = 2 /\ new[2].kind = "request"
          /\ \A m \in ToSet(new) : Ids(m) = ids
          /\ opened + 1 \in ids /\ CallIds(new) = ids /\ ReturnIds(new) = ids
          /\ ids \cap (1 .. opened) = {}
      BY <2>a DEF IsTurn
    <2>4. Mismatched(new) = {}
      BY <2>2 DEF Mismatched
    <2>5. \A m \in ToSet(new) : m \notin compacted
      <3> SUFFICES ASSUME NEW m \in ToSet(new), m \in compacted PROVE FALSE
        OBVIOUS
      <3>1. Ids(m) \subseteq 1 .. opened
        BY DEF HistInv, IdsOpened
      <3>2. opened + 1 \in Ids(m) /\ Ids(m) \cap (1 .. opened) = {}
        BY <2>2
      <3> QED
        BY <3>1, <3>2, Zenon
    <2>6. \A i \in 1 .. Len(new) : new[i] \in ToSet(new)
      BY <2>2, InSequence
    <2>7. new # <<>> /\ new[Len(new)].kind = "request"
      BY <2>2, SizeCases, Zenon
    <2>8. \A i \in 1 .. Len(new) : i # Len(new) => new[i] \notin compacted
      BY <2>5, <2>6
    <2>9. new \in Seq(Messages)
      BY <2>2
    <2> QED
      BY <2>3, <2>4, <2>7, <2>8, <2>9, SubmitSmall
  <1>4. CASE EmptyAnswer
    <2> DEFINE a == Response([text |-> "", size |-> 1], {}, "blank")
    <2>1. given' = <<a, Nudge>>
      BY <1>4, SubmitIs DEF EmptyAnswer
    <2>2. a \in Messages /\ Nudge \in Messages
      BY NewMessages
    <2>3. a.thinks = "blank"
      BY DEF Response
    <2> HIDE DEF a
    <2>4. <<a, Nudge>> \in Seq(Messages) /\ a \in ToSet(<<a, Nudge>>)
      <3>1. /\ <<a, Nudge>> \in Seq(Messages) /\ 1 \in DOMAIN <<a, Nudge>>
            /\ <<a, Nudge>>[1] = a
        BY <2>2
      <3> QED
        BY <3>1 DEF ToSet
    <2> DEFINE new == <<a, Nudge>>
    <2>5. given' = new /\ new \in Seq(Messages) /\ a \in ToSet(new)
      BY <2>1, <2>4
    <2> HIDE DEF new
    <2>6. a \in ToSet(history \o new)
      BY <1>1, <2>5, Concatenated
    <2> QED
      BY <2>3, <2>5, <2>6 DEF Relaxed
  <1>5. CASE Retry
    <2>1. phase = "sent" /\ Submit(history, compacted, asked)
      BY <1>5 DEF Retry
    <2>2. PICK p \in Prompts : asked = <<Request(p)>>
      BY <2>1 DEF HistInv, TypeOK, AskedIsPrompt
    <2> QED
      BY <2>1, <2>2, SmallPrompt
  <1>6. CASE Overflow
    <2>1. /\ Len(history) > 2 /\ Len(Truncate(history, Emergency)) < Len(history)
          /\ given' = asked
      BY <1>6, SubmitIs DEF Overflow, TruncateWithDropped
    <2>2. asked \in Seq(Messages)
      BY DEF HistInv, TypeOK
    <2>3. Total(history \o asked) <= Emergency
      BY <2>1 DEF Relaxed
    <2>4. /\ Total(history) \in Nat /\ Total(asked) \in Nat
          /\ Total(history \o asked) = Total(history) + Total(asked)
      BY <1>1, <2>2, TotalAdds
    <2>5. Emergency \in Nat
      BY BudgetAssumption
    <2>6. Total(history) <= Emergency
      BY <2>3, <2>4, <2>5
    <2>7. Len(history) >= 2 /\ Len(history) \in Nat
      BY <1>1, <2>1
    <2>8. Len(Truncate(history, Emergency)) >= Len(history)
      BY <1>1, <2>5, <2>6, <2>7, TruncateFits
    <2>9. Len(Truncate(history, Emergency)) \in Nat
      <3>1. history # <<>>
        BY <2>1
      <3> QED
        BY <1>1, <3>1, TruncateKeeps DEF Within
    <2> QED
      BY <2>1, <2>7, <2>8, <2>9
  <1>7. CASE turns' = turns
    BY <1>1, <1>7
  <1> QED
    BY <1>2, <1>3, <1>4, <1>5, <1>6, <1>7 DEF Next, Reply, Cancel, vars

(* While nothing calls for compaction or deletion, a request carries all   *)
(* that was said and what is new, even what an earlier compaction forgot:  *)
(* the merge excepts the newest message from the test for compacted ones.  *)
(* Long documents are stubs in it, and the first message may have the      *)
(* protected facts appended.                                               *)
THEOREM SmallConversationIsSentWhole == Spec => NothingLostWithoutPressure
  <1> DEFINE Whole == Relaxed => SentWhole
  <1>1. HistInv /\ [Next]_vars => [Whole]_vars
    BY WholeStep
  <1>2. NothingLostWithoutPressure <=> [][Whole]_vars
    BY PTL DEF NothingLostWithoutPressure, Relaxed, SentWhole
  <1> QED
    BY <1>1, <1>2, HistoryInvariant, PTL DEF Spec

=============================================================================
