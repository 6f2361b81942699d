--------------------------- MODULE SubAgentsProofs ---------------------------
(***************************************************************************)
(* Proofs about the calls of invoke_agent, for any number of calls, agents *)
(* and turns.  The calls at work form a tree; without an overlap it is a   *)
(* path, whose end is the only agent at work.                              *)
(***************************************************************************)
EXTENDS SubAgents, FiniteSetTheorems, TLAPS

-----------------------------------------------------------------------------
\* Removing an element shifts those behind it.
LEMMA RemovedAt ==
    ASSUME NEW S, NEW s \in Seq(S), NEW k \in 1..Len(s)
    PROVE  /\ RemoveAt(s, k) \in Seq(S) /\ Len(RemoveAt(s, k)) = Len(s) - 1
           /\ \A j \in 1..Len(s) - 1 : RemoveAt(s, k)[j] = IF j < k THEN s[j] ELSE s[j + 1]
  <1>1. /\ SubSeq(s, 1, k - 1) \in Seq(S) /\ Len(SubSeq(s, 1, k - 1)) = k - 1
        /\ \A j \in 1..k - 1 : SubSeq(s, 1, k - 1)[j] = s[j]
    OBVIOUS
  <1>2. /\ SubSeq(s, k + 1, Len(s)) \in Seq(S) /\ Len(SubSeq(s, k + 1, Len(s))) = Len(s) - k
        /\ \A j \in 1..Len(s) - k : SubSeq(s, k + 1, Len(s))[j] = s[k + j]
    OBVIOUS
  <1>3. /\ RemoveAt(s, k) \in Seq(S) /\ Len(RemoveAt(s, k)) = (k - 1) + (Len(s) - k)
        /\ \A j \in 1..(k - 1) + (Len(s) - k) : RemoveAt(s, k)[j] =
              IF j <= k - 1 THEN SubSeq(s, 1, k - 1)[j]
                            ELSE SubSeq(s, k + 1, Len(s))[j - (k - 1)]
    <2> HIDE <1>1, <1>2
    <2> DEFINE a == SubSeq(s, 1, k - 1)  b == SubSeq(s, k + 1, Len(s))
    <2>1. a \in Seq(S) /\ b \in Seq(S) /\ Len(a) = k - 1 /\ Len(b) = Len(s) - k
      BY <1>1, <1>2
    <2>2. RemoveAt(s, k) = a \o b
      BY DEF RemoveAt
    <2> HIDE DEF a, b
    <2>3. a \o b \in Seq(S) /\ Len(a \o b) = Len(a) + Len(b)
      BY <2>1
    <2>4. \A j \in 1..Len(a) + Len(b) : (a \o b)[j] = IF j <= Len(a) THEN a[j] ELSE b[j - Len(a)]
      BY <2>1
    <2> QED
      BY <2>1, <2>2, <2>3, <2>4 DEF a, b
  <1>4. \A j \in 1..Len(s) - 1 : RemoveAt(s, k)[j] = IF j < k THEN s[j] ELSE s[j + 1]
    <2> SUFFICES ASSUME NEW j \in 1..Len(s) - 1
                 PROVE  RemoveAt(s, k)[j] = IF j < k THEN s[j] ELSE s[j + 1]
      OBVIOUS
    <2>1. CASE j < k
      BY <1>1, <1>3, <2>1
    <2>2. CASE ~(j < k)
      <3>1. j - (k - 1) \in 1..Len(s) - k /\ k + (j - (k - 1)) = j + 1
        BY <2>2
      <3> QED
        BY <1>2, <1>3, <2>2, <3>1
    <2> QED
      BY <2>1, <2>2
  <1> QED
    BY <1>3, <1>4

-----------------------------------------------------------------------------

\* TypeOK in three parts, for the provers.
Flags == overlapped \in BOOLEAN /\ mixed \in BOOLEAN
Shape ==
    /\ pc \in [Invocations -> PCs] /\ parent \in [Invocations -> Nodes]
    /\ name \in [Invocations -> Agents] /\ session \in [Invocations -> Invocations]
    /\ previous \in [Invocations -> Invocations \cup {NoSession}]
    /\ built \in [Invocations -> Invocations]
    /\ loaded \in [Invocations -> SUBSET Messages]
    /\ held \in [Invocations -> SUBSET Messages]
    /\ messages \in [Invocations -> SUBSET Messages]
    /\ requests \in [Invocations -> 0..MaxTurns] /\ shed \in [Invocations -> SUBSET Messages]
    /\ files \in [Invocations -> SUBSET Messages]
    /\ context \in Invocations \cup {NoSession}
GoodCache(c) ==
    /\ c \in Seq(Invocations) /\ Len(c) <= CacheMax
    /\ \A j, k \in 1..Len(c) : name[c[j]] = name[c[k]] => j = k

Started(i) == pc[i] # "idle"
Calling(i) == pc[i] \in {"loaded", "running"}

(* An agent stays at work while a call it made is under way.               *)
TreeInv ==
    \A i \in Invocations : Calling(i) => Active(parent[i]) /\ parent[i] # i

(* Without an overlap every agent has one call at work, the call knows its *)
(* caller's session, and one agent is the innermost of all.                *)
PathInv ==
    /\ \A i, j \in Invocations :
          pc[i] = "running" /\ pc[j] = "running" /\ parent[i] = parent[j] => i = j
    /\ \A i \in Invocations : pc[i] = "running" => previous[i] = SessionOf(parent[i])
    /\ \E x \in Nodes : /\ Innermost(x) /\ context = SessionOf(x)
                        /\ \A y \in Nodes : Innermost(y) => y = x
FocusInv == ~overlapped => PathInv

(* Only calls that have begun are in the cache, have built an agent for    *)
(* another call, have a history or appear in one.                          *)
BegunInv ==
    /\ \A k \in 1..Len(cache) : Started(cache[k])
    /\ \A i \in Invocations : built[i] = i \/ Started(built[i])
    /\ \A i \in Invocations :
          /\ ~Started(i) => loaded[i] = {} /\ held[i] = {} /\ messages[i] = {} /\ shed[i] = {}
          /\ \A m \in loaded[i] \cup held[i] \cup messages[i] \cup shed[i] \cup files[i] :
                Started(m[1])

(* Until agents are mixed, histories stay within their session.            *)
OwnInv ==
    /\ FilesOwn
    /\ \A i \in Invocations :
          /\ \A m \in loaded[i] \cup held[i] \cup messages[i] \cup shed[i] :
                session[m[1]] = session[i]
          /\ pc[i] = "running" => session[built[i]] = session[i]
OwnIfUnmixed == ~mixed => OwnInv

(* Histories are finite; none loaded has turns of the call itself; and an  *)
(* agent used by the call it was built for has, or has dropped, all of the *)
(* call's messages.                                                        *)
HistoryInv ==
    \A i \in Invocations :
        /\ IsFiniteSet(loaded[i]) /\ IsFiniteSet(held[i])
        /\ IsFiniteSet(messages[i]) /\ IsFiniteSet(shed[i]) /\ IsFiniteSet(files[i])
        /\ \A m \in loaded[i] : m[1] # i
        /\ pc[i] = "running" /\ built[i] = i =>
              loaded[i] \cup messages[i] \subseteq held[i] \cup shed[i]

IInv == /\ Flags /\ Shape /\ GoodCache(cache)
        /\ TreeInv /\ FocusInv /\ BegunInv /\ OwnIfUnmixed /\ HistoryInv

-----------------------------------------------------------------------------
LEMMA TypeParts == TypeOK <=> Flags /\ Shape /\ GoodCache(cache)
  BY DEF TypeOK, Flags, Shape, GoodCache

LEMMA InitHolds == Init => IInv
  <1> SUFFICES ASSUME Init PROVE IInv
    OBVIOUS
  <1> USE SubAgentsAssumption DEF Init
  <1>1. Flags
    BY Zenon DEF Flags
  <1>2. Shape
    BY DEF Shape, PCs, Nodes
  <1>3. GoodCache(cache)
    BY DEF GoodCache
  <1>4. TreeInv
    BY DEF TreeInv, Calling
  <1>5. FocusInv
    <2>1. \A x : Children(x) = {}
      BY DEF Children
    <2>2. \A x \in Invocations : ~Active(x)
      BY DEF Active
    <2>3. Innermost(Main) /\ Main \in Nodes /\ context = SessionOf(Main)
      BY <2>1 DEF Innermost, Active, SessionOf, Nodes
    <2>4. \A y \in Nodes : Innermost(y) => y = Main
      BY <2>2 DEF Innermost, Nodes
    <2> QED
      BY <2>3, <2>4 DEF FocusInv, PathInv
  <1>6. BegunInv
    BY DEF BegunInv, Started
  <1>7. OwnIfUnmixed
    BY DEF OwnIfUnmixed, OwnInv, FilesOwn
  <1>8. HistoryInv
    BY FS_EmptySet DEF HistoryInv
  <1> QED
    BY <1>1, <1>2, <1>3, <1>4, <1>5, <1>6, <1>7, <1>8 DEF IInv

-----------------------------------------------------------------------------
\* What becomes of the cache.
LEMMA CacheMoves ==
    ASSUME Shape, GoodCache(cache), NEW k \in 1..Len(cache)
    PROVE  \E new \in Seq(Invocations) :
             /\ new = Append(RemoveAt(cache, k), cache[k]) /\ GoodCache(new)
             /\ \A j \in 1..Len(new) : \E l \in 1..Len(cache) : new[j] = cache[l]
  <1>1. cache \in Seq(Invocations) /\ Len(cache) \in Nat
    BY DEF GoodCache
  <1>2. /\ RemoveAt(cache, k) \in Seq(Invocations) /\ Len(RemoveAt(cache, k)) = Len(cache) - 1
        /\ \A j \in 1..Len(cache) - 1 :
              RemoveAt(cache, k)[j] = IF j < k THEN cache[j] ELSE cache[j + 1]
    BY <1>1, RemovedAt
  <1>b. Append(RemoveAt(cache, k), cache[k]) \in Seq(Invocations)
    BY <1>1, <1>2
  <1>a. PICK new \in Seq(Invocations) : new = Append(RemoveAt(cache, k), cache[k])
    BY <1>b, Zenon
  <1>3. /\ Len(new) = Len(cache)
        /\ \A j \in 1..Len(cache) :
              new[j] = IF j = Len(cache) THEN cache[k] ELSE IF j < k THEN cache[j] ELSE cache[j + 1]
    BY <1>1, <1>2, <1>a
  <1> DEFINE at(j) == IF j = Len(cache) THEN k ELSE IF j < k THEN j ELSE j + 1
  <1>4. \A j \in 1..Len(cache) : at(j) \in 1..Len(cache) /\ new[j] = cache[at(j)]
    BY <1>1, <1>3
  <1>5. \A j, l \in 1..Len(cache) : at(j) = at(l) => j = l
    BY <1>1
  <1> HIDE DEF at
  <1>6. \A j, l \in 1..Len(new) : name[new[j]] = name[new[l]] => j = l
    <2> SUFFICES ASSUME NEW j \in 1..Len(cache), NEW l \in 1..Len(cache),
                        name[new[j]] = name[new[l]]
                 PROVE  j = l
      BY <1>3
    <2>1. at(j) \in 1..Len(cache) /\ at(l) \in 1..Len(cache)
      BY <1>4
    <2>2. name[cache[at(j)]] = name[cache[at(l)]]
      BY <1>4
    <2>3. at(j) = at(l)
      BY <2>1, <2>2 DEF GoodCache
    <2> QED
      BY <1>5, <2>3
  <1>7. \A j \in 1..Len(new) : \E l \in 1..Len(cache) : new[j] = cache[l]
    BY <1>3, <1>4
  <1> QED
    BY <1>1, <1>a, <1>3, <1>6, <1>7 DEF GoodCache

LEMMA CacheGrows ==
    ASSUME Shape, GoodCache(cache), NEW i \in Invocations, Cached(i) = {}
    PROVE  \E new \in Seq(Invocations) :
             /\ new = Append(IF Len(cache) >= CacheMax THEN Tail(cache) ELSE cache, i)
             /\ GoodCache(new)
             /\ \A j \in 1..Len(new) : new[j] = i \/ \E l \in 1..Len(cache) : new[j] = cache[l]
  <1>1. cache \in Seq(Invocations) /\ Len(cache) \in Nat /\ CacheMax \in Nat \ {0}
    BY SubAgentsAssumption DEF GoodCache
  <1>2. \A l \in 1..Len(cache) : name[cache[l]] # name[i]
    BY DEF Cached
  <1>b. Append(IF Len(cache) >= CacheMax THEN Tail(cache) ELSE cache, i) \in Seq(Invocations)
    BY <1>1
  <1>a. PICK new \in Seq(Invocations) :
          new = Append(IF Len(cache) >= CacheMax THEN Tail(cache) ELSE cache, i)
    BY <1>b, Zenon
  <1>3. CASE Len(cache) >= CacheMax
    <2>1. /\ new \in Seq(Invocations) /\ Len(new) = Len(cache)
          /\ \A j \in 1..Len(cache) : new[j] = IF j = Len(cache) THEN i ELSE cache[j + 1]
      BY <1>1, <1>3, <1>a
    <2>2. \A j \in 1..Len(cache) : j # Len(cache) => j + 1 \in 1..Len(cache)
      BY <1>1
    <2>3. \A j \in 1..Len(new) : new[j] = i \/ \E l \in 1..Len(cache) : new[j] = cache[l]
      BY <2>1, <2>2
    <2>4. \A j, l \in 1..Len(new) : name[new[j]] = name[new[l]] => j = l
      <3> SUFFICES ASSUME NEW j \in 1..Len(cache), NEW l \in 1..Len(cache),
                          name[new[j]] = name[new[l]]
                   PROVE  j = l
        BY <2>1
      <3>1. CASE j = Len(cache) \/ l = Len(cache)
        BY <1>2, <2>1, <2>2, <3>1
      <3>2. CASE j # Len(cache) /\ l # Len(cache)
        <4>1. j + 1 = l + 1
          BY <2>1, <2>2, <3>2 DEF GoodCache
        <4> QED
          BY <4>1
      <3> QED
        BY <3>1, <3>2
    <2> QED
      BY <1>1, <1>a, <2>1, <2>3, <2>4 DEF GoodCache
  <1>4. CASE ~(Len(cache) >= CacheMax)
    <2>1. /\ new \in Seq(Invocations) /\ Len(new) = Len(cache) + 1
          /\ \A j \in 1..Len(cache) + 1 : new[j] = IF j = Len(cache) + 1 THEN i ELSE cache[j]
      BY <1>1, <1>4, <1>a
    <2> QED
      BY <1>1, <1>2, <1>4, <1>a, <2>1 DEF GoodCache
  <1> QED
    BY <1>3, <1>4

-----------------------------------------------------------------------------
LEMMA LoadKeeps ==
    ASSUME IInv, NEW i \in Invocations, NEW x \in Nodes, Load(i, x)
    PROVE  IInv'
  <1> USE DEF Started
  <1>0. /\ Shape /\ pc[i] = "idle" /\ Active(x) /\ x # i
        /\ pc' = [pc EXCEPT ![i] = "loaded"] /\ parent' = [parent EXCEPT ![i] = x]
        /\ UNCHANGED <<name, previous, built, held, messages, requests, shed, context, cache, files,
                       ghosts>>
    BY SubAgentsAssumption DEF IInv, Load, Active, counts
  <1>1. PICK s \in {i} \cup {j \in Invocations : files[j] # {}} :
          session' = [session EXCEPT ![i] = s] /\ loaded' = [loaded EXCEPT ![i] = files[s]]
    BY DEF Load
  <1>2. s \in Invocations
    OBVIOUS
  <1>3. Flags'
    BY <1>0, Zenon DEF IInv, Flags, ghosts
  <1>4. Shape'
    BY <1>0, <1>1, <1>2 DEF Shape, PCs
  <1>5. GoodCache(cache)'
    BY <1>0 DEF IInv, GoodCache
  <1>6. TreeInv'
    BY <1>0 DEF IInv, TreeInv, Calling, Active, Shape, Nodes, PCs
  <1>7. FocusInv'
    <2> SUFFICES ASSUME PathInv PROVE PathInv'
      BY <1>0, Zenon DEF IInv, FocusInv, ghosts
    <2>1. \A j \in Invocations : pc'[j] = "running" <=> pc[j] = "running"
      BY <1>0 DEF Shape
    <2>2. \A j \in Invocations :
             pc[j] = "running" => parent'[j] = parent[j] /\ session'[j] = session[j]
      BY <1>0, <1>1 DEF Shape
    <2>3. \A y \in Nodes : /\ Active(y)' <=> Active(y)
                           /\ Children(y)' = Children(y)
                           /\ Active(y) => SessionOf(y)' = SessionOf(y)
      BY <1>0, <2>1, <2>2 DEF Active, Children, SessionOf, Nodes
    <2>4. \A j \in Invocations : pc[j] = "running" =>
             Active(parent[j]) /\ parent[j] \in Nodes
      BY <1>0 DEF IInv, TreeInv, Calling, Shape
    <2>5. \A y \in Nodes : Innermost(y)' <=> Innermost(y)
      BY <2>3 DEF Innermost
    <2>6. \A j \in Invocations : pc'[j] = "running" => previous'[j] = SessionOf(parent[j])'
      BY <1>0, <2>1, <2>2, <2>3, <2>4 DEF PathInv, SessionOf
    <2>7. \E y \in Nodes : /\ Innermost(y)' /\ context' = SessionOf(y)'
                           /\ \A z \in Nodes : Innermost(z)' => z = y
      BY <1>0, <2>3, <2>5 DEF PathInv, Innermost
    <2> QED
      BY <2>1, <2>2, <2>6, <2>7 DEF PathInv
  <1>8. BegunInv'
    <2>1. \A j \in Invocations : Started(j) => Started(j)'
      BY <1>0 DEF Shape
    <2>2. Started(i)' /\ \A m \in loaded'[i] : Started(m[1])
      BY <1>0, <1>1, <1>2 DEF IInv, BegunInv, Shape
    <2> QED
      BY <1>0, <1>1, <2>1, <2>2 DEF IInv, BegunInv, GoodCache, Shape, Messages
  <1>9. OwnIfUnmixed'
    <2> SUFFICES ASSUME OwnInv PROVE OwnInv'
      BY <1>0, Zenon DEF IInv, OwnIfUnmixed, ghosts
    <2>1. \A j \in Invocations : Started(j) => session'[j] = session[j] /\ j # i
      BY <1>0, <1>1 DEF Shape
    <2>2. \A j \in Invocations :
             \A m \in loaded[j] \cup held[j] \cup messages[j] \cup shed[j] \cup files[j] :
             m[1] \in Invocations /\ session'[m[1]] = session[m[1]]
      BY <1>0, <2>1 DEF IInv, BegunInv, Shape, Messages
    <2>3. FilesOwn'
      BY <1>0, <2>2 DEF OwnInv, FilesOwn
    <2>4. \A m \in loaded'[i] \cup held'[i] \cup messages'[i] \cup shed'[i] :
             session'[m[1]] = session'[i]
      BY <1>0, <1>1, <1>2, <2>2 DEF IInv, BegunInv, OwnInv, FilesOwn, Shape
    <2>5. \A j \in Invocations \ {i} :
             \A m \in loaded'[j] \cup held'[j] \cup messages'[j] \cup shed'[j] :
                session'[m[1]] = session'[j]
      BY <1>0, <1>1, <2>2 DEF OwnInv, Shape
    <2>6. \A j \in Invocations : pc'[j] = "running" => session'[built'[j]] = session'[j]
      BY <1>0, <2>1 DEF IInv, BegunInv, OwnInv, Shape
    <2> QED
      BY <2>3, <2>4, <2>5, <2>6 DEF OwnInv
  <1>10. HistoryInv'
    <2>1. IsFiniteSet(loaded'[i]) /\ \A m \in loaded'[i] : m[1] # i
      BY <1>0, <1>1, <1>2 DEF IInv, HistoryInv, BegunInv, Shape
    <2> QED
      BY <1>0, <1>1, <2>1 DEF IInv, HistoryInv, Shape
  <1> QED
    BY <1>3, <1>4, <1>5, <1>6, <1>7, <1>8, <1>9, <1>10 DEF IInv

\* An agent is found or built: it was built for this call, or for one begun
\* before.
LEMMA EnterKeeps ==
    ASSUME IInv, NEW i \in Invocations, NEW b \in Invocations, NEW new,
           EnterWith(i, b, new), GoodCache(new),
           b = i \/ Started(b),
           \A j \in 1..Len(new) : new[j] = i \/ Started(new[j])
    PROVE  IInv'
  <1> USE DEF Started
  <1>0. /\ Shape /\ pc[i] = "loaded"
        /\ pc' = [pc EXCEPT ![i] = "running"] /\ previous' = [previous EXCEPT ![i] = context]
        /\ context' = session[i] /\ held' = [held EXCEPT ![i] = loaded[i]]
        /\ messages' = [messages EXCEPT ![i] = loaded[i]]
        /\ built' = [built EXCEPT ![i] = b] /\ cache' = new
        /\ parent' = parent /\ name' = name /\ session' = session /\ loaded' = loaded
        /\ files' = files /\ requests' = requests /\ shed' = shed
    BY DEF IInv, EnterWith, input, counts
  <1>1. /\ overlapped' = (overlapped \/ Children(parent[i]) # {})
        /\ mixed' = (mixed \/ session[b] # session[i])
    BY DEF EnterWith
  <1>2. /\ Active(parent[i]) /\ parent[i] # i /\ parent[i] \in Nodes
        /\ i \in Nodes /\ i # Main
    BY <1>0, SubAgentsAssumption DEF IInv, TreeInv, Calling, Shape, Nodes
  <1>3. Flags'
    BY <1>1, Zenon DEF Flags
  <1>4. Shape'
    BY <1>0 DEF Shape, PCs
  <1>5. GoodCache(cache)'
    BY <1>0 DEF GoodCache
  <1>6. TreeInv'
    BY <1>0 DEF IInv, TreeInv, Calling, Active, Shape, Nodes
  <1>7. FocusInv'
    <2> SUFFICES ASSUME PathInv, Children(parent[i]) = {} PROVE PathInv'
      BY <1>1, Zenon DEF IInv, FocusInv
    <2>1. \A j \in Invocations : pc'[j] = "running" <=> pc[j] = "running" \/ j = i
      BY <1>0 DEF Shape
    <2>2. PICK x \in Nodes : /\ Innermost(x) /\ context = SessionOf(x)
                             /\ \A y \in Nodes : Innermost(y) => y = x
      BY DEF PathInv
    <2>3. x = parent[i]
      BY <1>2, <2>2 DEF Innermost
    <2>4. \A j \in Invocations : pc[j] = "running" => parent[j] # parent[i]
      BY DEF Children
    <2>5. \A j, k \in Invocations :
             pc'[j] = "running" /\ pc'[k] = "running" /\ parent'[j] = parent'[k] => j = k
      BY <1>0, <2>1, <2>4 DEF PathInv
    <2>6. \A j \in Invocations : pc'[j] = "running" => previous'[j] = SessionOf(parent[j])'
      BY <1>0, <2>1, <2>2, <2>3 DEF PathInv, SessionOf, Shape
    <2>7. /\ Children(i)' = {}
          /\ \A y \in Nodes : y # i => Children(y) \subseteq Children(y)'
          /\ i \in Children(parent[i])'
          /\ \A y \in Nodes : y # i => (Active(y)' <=> Active(y))
      BY <1>0, <1>2, <2>1 DEF IInv, TreeInv, Calling, Children, Active, Nodes
    <2>8. Innermost(i)' /\ context' = SessionOf(i)'
      BY <1>0, <1>2, <2>1, <2>7 DEF Innermost, Active, SessionOf
    <2>9. \A y \in Nodes : Innermost(y)' => y = i
      <3> SUFFICES ASSUME NEW y \in Nodes, y # i, Active(y)', Children(y)' = {} PROVE FALSE
        BY DEF Innermost
      <3>1. Active(y) /\ Children(y) = {}
        BY <2>7
      <3>2. y = parent[i]
        BY <2>2, <2>3, <3>1 DEF Innermost
      <3> QED
        BY <1>0, <2>1, <3>2 DEF Children
    <2> QED
      BY <1>0, <1>2, <2>5, <2>6, <2>8, <2>9 DEF PathInv
  <1>8. BegunInv'
    <2>1. \A j \in Invocations : Started(j) => Started(j)'
      BY <1>0 DEF Shape
    <2>2. Started(i)' /\ Started(i)
      BY <1>0 DEF Shape
    <2>3. \A j \in Invocations : held'[j] \cup messages'[j] \subseteq
                                  loaded[j] \cup held[j] \cup messages[j]
      BY <1>0 DEF Shape
    <2>4. \A k \in 1..Len(cache') : pc'[cache'[k]] # "idle"
      BY <1>0, <2>1, <2>2 DEF GoodCache
    <2>5. \A j \in Invocations : built'[j] = j \/ pc'[built'[j]] # "idle"
      BY <1>0, <2>1 DEF IInv, BegunInv, Shape
    <2>6. \A j \in Invocations : ~Started(j)' =>
             loaded'[j] = {} /\ held'[j] = {} /\ messages'[j] = {} /\ shed'[j] = {}
      BY <1>0, <2>1, <2>2, <2>3 DEF IInv, BegunInv
    <2>7. \A j \in Invocations :
             \A m \in loaded'[j] \cup held'[j] \cup messages'[j] \cup shed'[j] \cup files'[j] :
                Started(m[1])'
      <3> SUFFICES ASSUME NEW j \in Invocations,
                          NEW m \in loaded[j] \cup held[j] \cup messages[j] \cup shed[j]
                                      \cup files[j]
                   PROVE  Started(m[1])'
        BY <1>0, <2>3
      <3>1. m[1] \in Invocations /\ Started(m[1])
        BY <1>0 DEF IInv, BegunInv, Shape, Messages
      <3> QED
        BY <2>1, <3>1
    <2> QED
      BY <2>4, <2>5, <2>6, <2>7 DEF BegunInv
  <1>9. OwnIfUnmixed'
    <2> SUFFICES ASSUME OwnInv, session[b] = session[i] PROVE OwnInv'
      BY <1>1, Zenon DEF IInv, OwnIfUnmixed
    <2>1. FilesOwn'
      BY <1>0 DEF OwnInv, FilesOwn
    <2> QED
      BY <1>0, <2>1 DEF OwnInv, Shape
  <1>10. HistoryInv'
    BY <1>0 DEF IInv, HistoryInv, Shape
  <1> QED
    BY <1>3, <1>4, <1>5, <1>6, <1>7, <1>8, <1>9, <1>10 DEF IInv

LEMMA TurnKeeps ==
    ASSUME IInv, NEW i \in Invocations, Turn(i)
    PROVE  IInv'
  <1> USE DEF Started
  <1> DEFINE b == built[i]
             new == <<i, requests[i] + 1>>
  <1>a. PICK back \in SUBSET (messages[i] \cap shed[b]), said \in {{new}, {}} :
          \E lost \in SUBSET (held[b] \cup (messages[i] \ shed[b]) \cup back \cup said) :
             LET merged == held[b] \cup (messages[i] \ shed[b]) \cup back \cup said
             IN  /\ held' = [held EXCEPT ![b] = merged \ lost]
                 /\ messages' = [messages EXCEPT ![i] = merged \ lost]
                 /\ shed' = [shed EXCEPT ![b] = @ \cup lost]
    BY DEF Turn
  <1> DEFINE merged == held[b] \cup (messages[i] \ shed[b]) \cup back \cup said
  <1>b. PICK lost \in SUBSET merged :
          /\ held' = [held EXCEPT ![b] = merged \ lost]
          /\ messages' = [messages EXCEPT ![i] = merged \ lost]
          /\ shed' = [shed EXCEPT ![b] = @ \cup lost]
    BY <1>a
  <1>0. /\ Shape /\ pc[i] = "running" /\ b \in Invocations /\ requests[i] \in 0..MaxTurns
        /\ requests[i] < MaxTurns /\ requests' = [requests EXCEPT ![i] = @ + 1]
        /\ pc' = pc /\ parent' = parent /\ name' = name /\ session' = session
        /\ loaded' = loaded /\ previous' = previous /\ built' = built /\ context' = context
        /\ cache' = cache /\ files' = files /\ UNCHANGED ghosts
    BY DEF IInv, Turn, input, Shape
  <1>1. Started(b)
    BY <1>0 DEF IInv, BegunInv
  <1>2. new \in Messages /\ requests[i] + 1 \in 0..MaxTurns
    BY <1>0, SubAgentsAssumption DEF Messages
  <1>3. \A m \in merged : m \in held[b] \/ m \in messages[i] \/ m[1] = i
    OBVIOUS
  <1>4. merged \subseteq Messages /\ IsFiniteSet(merged)
    <2>1. IsFiniteSet(held[b] \cup messages[i])
      BY <1>0, FS_Union DEF IInv, HistoryInv
    <2>2. IsFiniteSet(held[b] \cup messages[i] \cup {new})
      BY <2>1, FS_AddElement
    <2>3. merged \subseteq held[b] \cup messages[i] \cup {new}
      OBVIOUS
    <2> QED
      BY <1>0, <1>2, <2>2, <2>3, FS_Subset DEF Shape
  <1>5. held[b] \subseteq merged /\ messages[i] \subseteq merged \cup shed[b]
    OBVIOUS
  <1> DEFINE kept == merged \ lost
  <1>c. /\ kept \subseteq merged /\ lost \subseteq merged /\ merged \subseteq kept \cup lost
        /\ IsFiniteSet(kept) /\ IsFiniteSet(lost) /\ IsFiniteSet(shed[b] \cup lost)
    <2>1. IsFiniteSet(kept) /\ IsFiniteSet(lost)
      BY <1>4, FS_Subset
    <2>2. IsFiniteSet(shed[b])
      BY <1>0 DEF IInv, HistoryInv
    <2> QED
      BY <2>1, <2>2, FS_Union
  <1>d. /\ held' = [held EXCEPT ![b] = kept] /\ messages' = [messages EXCEPT ![i] = kept]
        /\ shed' = [shed EXCEPT ![b] = shed[b] \cup lost]
    BY <1>b
  <1> HIDE <1>a, <1>b DEF merged, new, kept
  <1>6. Flags'
    BY <1>0, Zenon DEF IInv, Flags, ghosts
  <1>7. Shape'
    BY <1>0, <1>2, <1>4, <1>c, <1>d DEF Shape
  <1>8. GoodCache(cache)'
    BY <1>0 DEF IInv, GoodCache
  <1>9. TreeInv'
    BY <1>0 DEF IInv, TreeInv, Calling, Active
  <1>10. FocusInv'
    <2> SUFFICES ASSUME PathInv PROVE PathInv'
      BY <1>0, Zenon DEF IInv, FocusInv, ghosts
    <2> QED
      BY <1>0 DEF PathInv, Innermost, Active, Children, SessionOf
  <1>11. BegunInv'
    <2>1. \A m \in merged : pc[m[1]] # "idle"
      BY <1>0, <1>3 DEF IInv, BegunInv
    <2>2. \A j \in Invocations :
             /\ held'[j] = held[j] \/ (j = b /\ held'[j] \subseteq merged)
             /\ messages'[j] = messages[j] \/ (j = i /\ messages'[j] \subseteq merged)
             /\ shed'[j] = shed[j] \/ (j = b /\ shed'[j] \subseteq shed[j] \cup merged)
      BY <1>0, <1>c, <1>d DEF Shape
    <2> QED
      BY <1>0, <1>1, <2>1, <2>2 DEF IInv, BegunInv
  <1>12. OwnIfUnmixed'
    <2> SUFFICES ASSUME OwnInv PROVE OwnInv'
      BY <1>0, Zenon DEF IInv, OwnIfUnmixed, ghosts
    <2>1. session[b] = session[i]
      BY <1>0 DEF OwnInv
    <2>2. \A m \in merged : session[m[1]] = session[i]
      BY <1>0, <1>3, <2>1 DEF OwnInv
    <2>3. \A j \in Invocations :
             /\ held'[j] = held[j] \/ (j = b /\ held'[j] \subseteq merged)
             /\ messages'[j] = messages[j] \/ (j = i /\ messages'[j] \subseteq merged)
             /\ shed'[j] = shed[j] \/ (j = b /\ shed'[j] \subseteq shed[j] \cup merged)
      BY <1>0, <1>c, <1>d DEF Shape
    <2> QED
      BY <1>0, <2>1, <2>2, <2>3 DEF OwnInv, FilesOwn
  <1>13. HistoryInv'
    <2>1. \A j \in Invocations :
             IsFiniteSet(held'[j]) /\ IsFiniteSet(messages'[j]) /\ IsFiniteSet(shed'[j])
      BY <1>0, <1>c, <1>d DEF IInv, HistoryInv, Shape
    <2>2. ASSUME NEW j \in Invocations, pc[j] = "running", built[j] = j
          PROVE  loaded[j] \cup messages'[j] \subseteq held'[j] \cup shed'[j]
      <3>1. loaded[j] \cup messages[j] \subseteq held[j] \cup shed[j]
        BY <2>2 DEF IInv, HistoryInv
      <3>2. held[j] \cup shed[j] \subseteq held'[j] \cup shed'[j]
        BY <1>0, <1>5, <1>c, <1>d DEF Shape
      <3>3. CASE j # i
        BY <1>0, <1>d, <3>1, <3>2, <3>3 DEF Shape
      <3>4. CASE j = i
        <4>1. b = j /\ messages'[j] = kept /\ held'[j] = kept
          BY <1>0, <1>d, <2>2, <3>4 DEF Shape
        <4> QED
          BY <3>1, <3>2, <4>1
      <3> QED
        BY <3>3, <3>4
    <2> QED
      BY <1>0, <2>1, <2>2 DEF IInv, HistoryInv
  <1> QED
    BY <1>6, <1>7, <1>8, <1>9, <1>10, <1>11, <1>12, <1>13 DEF IInv

\* However a call ends, a file keeps to what the call has, or is unchanged.
LEMMA LeaveKeeps ==
    ASSUME IInv, NEW i \in Invocations, Leave(i),
           messages' = [messages EXCEPT ![i] = {}],
           NEW saved \in {messages[i] \cup {<<i, 0>>}, held[i]},
           files' = files \/ files' = [files EXCEPT ![session[i]] = saved]
    PROVE  IInv'
  <1> USE DEF Started
  <1>0. /\ Shape /\ pc[i] = "running" /\ Called(i) = {}
        /\ pc' = [pc EXCEPT ![i] = "done"] /\ context' = previous[i]
        /\ parent' = parent /\ name' = name /\ session' = session /\ loaded' = loaded
        /\ previous' = previous /\ built' = built /\ held' = held /\ cache' = cache
        /\ requests' = requests /\ shed' = shed /\ UNCHANGED ghosts
    BY DEF IInv, Leave, input, counts
  <1>1. <<i, 0>> \in Messages
    BY SubAgentsAssumption DEF Messages
  <1>2. /\ saved \subseteq Messages /\ IsFiniteSet(saved)
        /\ \A m \in saved : m[1] = i \/ m \in held[i] \cup messages[i]
    <2>1. IsFiniteSet(messages[i] \cup {<<i, 0>>})
      BY FS_AddElement DEF IInv, HistoryInv
    <2>2. CASE saved = messages[i] \cup {<<i, 0>>}
      <3>1. \A m \in saved : m \in messages[i] \/ m[1] = i
        BY <2>2
      <3>2. saved \subseteq Messages
        BY <1>0, <1>1, <2>2 DEF Shape
      <3> QED
        BY <2>1, <2>2, <3>1, <3>2
    <2>3. CASE saved = held[i]
      BY <1>0, <2>3 DEF IInv, HistoryInv, Shape
    <2> QED
      BY <2>2, <2>3
  <1>3. \A s \in Invocations : files'[s] = files[s] \/ (s = session[i] /\ files'[s] = saved)
    BY <1>0 DEF Shape
  <1>4. Flags'
    BY <1>0, Zenon DEF IInv, Flags, ghosts
  <1>5. Shape'
    BY <1>0, <1>2 DEF Shape, PCs
  <1>6. GoodCache(cache)'
    BY <1>0 DEF IInv, GoodCache
  <1>7. \A j \in Invocations : Calling(j) => parent[j] # i
    BY <1>0 DEF Called, Calling
  <1>8. TreeInv'
    BY <1>0, <1>7 DEF IInv, TreeInv, Calling, Active, Shape, Nodes
  <1>9. FocusInv'
    <2> SUFFICES ASSUME PathInv PROVE PathInv'
      BY <1>0, Zenon DEF IInv, FocusInv, ghosts
    <2>1. \A j \in Invocations : pc'[j] = "running" <=> pc[j] = "running" /\ j # i
      BY <1>0 DEF Shape
    <2>2. /\ i \in Nodes /\ i # Main /\ parent[i] \in Nodes /\ parent[i] # i /\ Active(parent[i])
      BY <1>0, SubAgentsAssumption DEF IInv, TreeInv, Calling, Nodes, Shape
    <2>3. Innermost(i)
      BY <1>0 DEF Innermost, Active, Children, Called
    <2>4. \A y \in Nodes : Innermost(y) => y = i
      BY <2>2, <2>3 DEF PathInv
    <2>5. /\ \A y \in Nodes : y # i => (Active(y)' <=> Active(y))
          /\ ~Active(i)'
          /\ \A y \in Nodes : Children(y)' = Children(y) \ {i}
      BY <1>0, <2>1, <2>2 DEF Active, Children, Nodes
    <2>6. Children(parent[i]) = {i}
      BY <1>0 DEF PathInv, Children
    <2>7. \A y \in Nodes : y # parent[i] => i \notin Children(y)
      BY DEF Children
    <2>8. \A y \in Nodes : Innermost(y)' => y = parent[i]
      BY <2>4, <2>5, <2>7 DEF Innermost
    <2>9. \A y \in Nodes : y = parent[i] => Innermost(y)' /\ context' = SessionOf(y)'
      BY <1>0, <2>2, <2>5, <2>6 DEF PathInv, Innermost, SessionOf
    <2>10. \A j \in Invocations : pc'[j] = "running" => previous'[j] = SessionOf(parent[j])'
      BY <1>0, <2>1 DEF PathInv, SessionOf
    <2> QED
      BY <1>0, <2>1, <2>2, <2>8, <2>9, <2>10 DEF PathInv
  <1>10. BegunInv'
    <2>1. \A x : pc[x] # "idle" => pc'[x] # "idle"
      <3>1. \A x \in Invocations : pc[x] # "idle" => pc'[x] # "idle"
        BY <1>0 DEF Shape
      <3>2. \A x : x \notin Invocations => pc'[x] = pc[x]
        BY <1>0 DEF Shape
      <3> QED
        BY <3>1, <3>2
    <2>2. pc[i] # "idle" /\ \A m \in saved : pc[m[1]] # "idle"
      BY <1>0, <1>2 DEF IInv, BegunInv
    <2> QED
      BY <1>0, <1>3, <2>1, <2>2 DEF IInv, BegunInv, Shape
  <1>11. OwnIfUnmixed'
    <2> SUFFICES ASSUME OwnInv PROVE OwnInv'
      BY <1>0, Zenon DEF IInv, OwnIfUnmixed, ghosts
    <2>1. \A m \in saved : session[m[1]] = session[i]
      BY <1>2 DEF OwnInv
    <2>2. FilesOwn'
      BY <1>0, <1>3, <2>1 DEF OwnInv, FilesOwn
    <2> QED
      BY <1>0, <2>2 DEF OwnInv, Shape
  <1>12. HistoryInv'
    BY <1>0, <1>2, <1>3, FS_EmptySet DEF IInv, HistoryInv, Shape
  <1> QED
    BY <1>4, <1>5, <1>6, <1>8, <1>9, <1>10, <1>11, <1>12 DEF IInv

LEMMA CancelLoadedKeeps ==
    ASSUME IInv, NEW i \in Invocations, CancelLoaded(i)
    PROVE  IInv'
  <1> USE DEF Started
  <1>0. /\ Shape /\ pc[i] = "loaded" /\ pc' = [pc EXCEPT ![i] = "done"]
        /\ parent' = parent /\ name' = name /\ session' = session /\ loaded' = loaded
        /\ previous' = previous /\ built' = built /\ held' = held /\ messages' = messages
        /\ requests' = requests /\ shed' = shed
        /\ context' = context /\ cache' = cache /\ files' = files /\ UNCHANGED ghosts
    BY DEF IInv, CancelLoaded, input, counts
  <1>1. Flags'
    BY <1>0, Zenon DEF IInv, Flags, ghosts
  <1>2. Shape'
    BY <1>0 DEF Shape, PCs
  <1>3. GoodCache(cache)'
    BY <1>0 DEF IInv, GoodCache
  <1>4. \A j \in Invocations : pc'[j] = "running" <=> pc[j] = "running"
    BY <1>0 DEF Shape
  <1>5. \A y \in Nodes : Active(y)' <=> Active(y)
    BY <1>0, <1>4 DEF Active, Nodes
  <1>6. TreeInv'
    BY <1>0, <1>5 DEF IInv, TreeInv, Calling, Shape
  <1>7. FocusInv'
    <2> SUFFICES ASSUME PathInv PROVE PathInv'
      BY <1>0, Zenon DEF IInv, FocusInv, ghosts
    <2>1. \A y \in Nodes : Innermost(y)' <=> Innermost(y)
      BY <1>0, <1>4, <1>5 DEF Innermost, Children
    <2> QED
      BY <1>0, <1>4, <2>1 DEF PathInv, SessionOf
  <1>8. BegunInv'
    <2>1. \A x : pc[x] # "idle" => pc'[x] # "idle"
      <3>1. \A x \in Invocations : pc[x] # "idle" => pc'[x] # "idle"
        BY <1>0 DEF Shape
      <3>2. \A x : x \notin Invocations => pc'[x] = pc[x]
        BY <1>0 DEF Shape
      <3> QED
        BY <3>1, <3>2
    <2> QED
      BY <1>0, <2>1 DEF IInv, BegunInv
  <1>9. OwnIfUnmixed'
    <2> SUFFICES ASSUME OwnInv PROVE OwnInv'
      BY <1>0, Zenon DEF IInv, OwnIfUnmixed, ghosts
    <2> QED
      BY <1>0, <1>4 DEF OwnInv, FilesOwn
  <1>10. HistoryInv'
    BY <1>0, <1>4 DEF IInv, HistoryInv
  <1> QED
    BY <1>1, <1>2, <1>3, <1>6, <1>7, <1>8, <1>9, <1>10 DEF IInv

LEMMA Step == IInv /\ [Next]_vars => IInv'
  <1> SUFFICES ASSUME IInv, [Next]_vars PROVE IInv'
    OBVIOUS
  <1>0. CASE UNCHANGED vars \/ ClearCache
    <2>0. /\ pc' = pc /\ parent' = parent /\ name' = name /\ session' = session
          /\ loaded' = loaded /\ previous' = previous /\ built' = built /\ held' = held
          /\ messages' = messages /\ context' = context /\ files' = files /\ UNCHANGED ghosts
          /\ requests' = requests /\ shed' = shed /\ (cache' = cache \/ cache' = <<>>)
      BY <1>0 DEF vars, ClearCache, input, counts
    <2>1. Flags'
      BY <2>0, Zenon DEF IInv, Flags, ghosts
    <2>2. Shape'
      BY <2>0 DEF IInv, Shape
    <2>3. GoodCache(cache)'
      <3>1. CacheMax \in Nat \ {0} /\ GoodCache(cache)
        BY SubAgentsAssumption DEF IInv
      <3>2. GoodCache(<<>>)
        BY <3>1 DEF GoodCache
      <3>3. CASE cache' = cache
        BY <2>0, <3>1, <3>3 DEF GoodCache
      <3>4. CASE cache' = <<>>
        BY <2>0, <3>2, <3>4 DEF GoodCache
      <3> QED
        BY <2>0, <3>3, <3>4
    <2>4. TreeInv'
      BY <2>0 DEF IInv, TreeInv, Calling, Active
    <2>5. PathInv => PathInv'
      BY <2>0 DEF PathInv, Innermost, Active, Children, SessionOf
    <2>6. FocusInv'
      BY <2>0, <2>5, Zenon DEF IInv, FocusInv, ghosts
    <2>7. BegunInv'
      BY <2>0 DEF IInv, BegunInv, Started
    <2>8. OwnInv => OwnInv'
      BY <2>0 DEF OwnInv, FilesOwn
    <2>9. OwnIfUnmixed'
      BY <2>0, <2>8, Zenon DEF IInv, OwnIfUnmixed, ghosts
    <2>10. HistoryInv'
      BY <2>0 DEF IInv, HistoryInv
    <2> QED
      BY <2>1, <2>2, <2>3, <2>4, <2>6, <2>7, <2>9, <2>10 DEF IInv
  <1>1. ASSUME NEW i \in Invocations, Invoke(i) PROVE IInv'
    <2>0. GoodCache(cache) /\ Shape /\ BegunInv
      BY DEF IInv
    <2>1. ASSUME NEW x \in Nodes, Load(i, x) PROVE IInv'
      BY <2>1, LoadKeeps
    <2>2. CASE EnterCached(i)
      <3>1. PICK k \in Cached(i) : EnterWith(i, cache[k], Append(RemoveAt(cache, k), cache[k]))
        BY <2>2 DEF EnterCached
      <3>2. k \in 1..Len(cache)
        BY DEF Cached
      <3>3. PICK new \in Seq(Invocations) :
              /\ new = Append(RemoveAt(cache, k), cache[k]) /\ GoodCache(new)
              /\ \A j \in 1..Len(new) : \E l \in 1..Len(cache) : new[j] = cache[l]
        BY <2>0, <3>2, CacheMoves
      <3>4. PICK b \in Invocations : b = cache[k] /\ Started(b)
        BY <2>0, <3>2 DEF GoodCache, BegunInv
      <3>5. \A j \in 1..Len(new) : Started(new[j])
        BY <2>0, <3>3 DEF BegunInv
      <3> QED
        BY <3>1, <3>3, <3>4, <3>5, EnterKeeps
    <2>3. CASE EnterBuilt(i)
      <3>1. PICK new \in Seq(Invocations) :
              /\ new = Append(IF Len(cache) >= CacheMax THEN Tail(cache) ELSE cache, i)
              /\ GoodCache(new)
              /\ \A j \in 1..Len(new) : new[j] = i \/ \E l \in 1..Len(cache) : new[j] = cache[l]
        BY <2>0, <2>3, CacheGrows DEF EnterBuilt
      <3>2. \A j \in 1..Len(new) : new[j] = i \/ Started(new[j])
        BY <2>0, <3>1 DEF BegunInv
      <3> QED
        BY <2>3, <3>1, <3>2, EnterKeeps DEF EnterBuilt
    <2>4. CASE Turn(i)
      BY <2>4, TurnKeeps
    <2>5. CASE Succeed(i)
      BY <2>5, LeaveKeeps DEF Succeed
    <2>6. CASE Fail(i)
      BY <2>6, LeaveKeeps DEF Fail
    <2>7. CASE Cancel(i)
      BY <2>7, LeaveKeeps DEF Cancel
    <2>8. CASE CancelLoaded(i)
      BY <2>8, CancelLoadedKeeps
    <2> QED
      BY <1>1, <2>1, <2>2, <2>3, <2>4, <2>5, <2>6, <2>7, <2>8 DEF Invoke
  <1> QED
    BY <1>0, <1>1 DEF Next

-----------------------------------------------------------------------------
(* The strengthened invariant holds in every reachable state.              *)
THEOREM InductiveInvariant == Spec => []IInv
  <1>1. Init => IInv
    BY InitHolds
  <1>2. IInv /\ [Next]_vars => IInv'
    BY Step
  <1> QED
    BY <1>1, <1>2, PTL DEF Spec

(* Every variable keeps its type; the cache never holds more than CacheMax *)
(* agents, nor one twice.                                                  *)
THEOREM TypeCorrect == Spec => []TypeOK
  <1>1. IInv => TypeOK
    BY TypeParts DEF IInv
  <1> QED
    BY <1>1, InductiveInvariant, PTL

(* Until two calls of one agent run side by side, the session context is   *)
(* that of the innermost agent at work, however deep the calls go.         *)
THEOREM ScopesStayRight == Spec => []ScopesRight
  <1>1. IInv => ScopesRight
    <2> SUFFICES ASSUME IInv, ~overlapped, NEW x \in Nodes, Innermost(x)
                 PROVE  context = SessionOf(x)
      BY DEF ScopesRight
    <2>1. PathInv
      BY Zenon DEF IInv, FocusInv
    <2> QED
      BY <2>1 DEF PathInv
  <1> QED
    BY <1>1, InductiveInvariant, PTL

(* Until an agent built for one session is reused in another, the file of  *)
(* a session holds messages of that session only.                          *)
THEOREM FilesStayOwn == Spec => []FilesOwnUnlessMixed
  <1>1. IInv => FilesOwnUnlessMixed
    BY Zenon DEF IInv, OwnIfUnmixed, OwnInv, FilesOwnUnlessMixed
  <1> QED
    BY <1>1, InductiveInvariant, PTL

(* A call that fails with an agent built for it keeps all that was not     *)
(* dropped of what it said, unless as many messages were dropped as it had *)
(* said: what was loaded and what was said are disjoint, and both are held *)
(* or were dropped, so the history is longer than what was loaded.         *)
THEOREM FailureKeepsTurns == Spec => PartialKept
  <1>1. ASSUME IInv, [Next]_vars
        PROVE  [\A i \in Invocations :
                  Fail(i) /\ built[i] = i /\ Cardinality(shed[i]) < Cardinality(Said(i)) =>
                  Said(i) \ shed[i] \subseteq files'[session[i]]]_vars
    <2> SUFFICES ASSUME NEW i \in Invocations, Fail(i), built[i] = i,
                        Cardinality(shed[i]) < Cardinality(Said(i))
                 PROVE  Said(i) \ shed[i] \subseteq files'[session[i]]
      OBVIOUS
    <2>1. pc[i] = "running" /\ Shape
      BY <1>1 DEF Fail, Leave, IInv
    <2>2. /\ loaded[i] \cup messages[i] \subseteq held[i] \cup shed[i]
          /\ IsFiniteSet(held[i]) /\ IsFiniteSet(shed[i]) /\ IsFiniteSet(loaded[i])
          /\ \A m \in loaded[i] : m[1] # i
      BY <1>1, <2>1 DEF IInv, HistoryInv
    <2> DEFINE all == held[i] \cup shed[i]  said == Said(i)
    <2>3. said \subseteq all /\ loaded[i] \subseteq all /\ said \cap loaded[i] = {}
      BY <2>2 DEF Said
    <2>4. /\ IsFiniteSet(all) /\ IsFiniteSet(said)
          /\ Cardinality(all) =
               Cardinality(held[i]) + Cardinality(shed[i]) - Cardinality(held[i] \cap shed[i])
      BY <2>2, <2>3, FS_Union, FS_Subset
    <2>5. IsFiniteSet(held[i] \cap shed[i])
      BY <2>2, FS_Intersection
    <2>6. /\ IsFiniteSet(said \cup loaded[i])
          /\ Cardinality(said \cup loaded[i]) =
               Cardinality(said) + Cardinality(loaded[i]) - Cardinality(said \cap loaded[i])
      BY <2>2, <2>4, FS_Union
    <2>7. Cardinality(said \cup loaded[i]) <= Cardinality(all)
      BY <2>3, <2>4, FS_Subset
    <2>8. Cardinality(said \cap loaded[i]) = 0
      BY <2>3, FS_EmptySet
    <2>9. /\ Cardinality(held[i]) \in Nat /\ Cardinality(shed[i]) \in Nat
          /\ Cardinality(loaded[i]) \in Nat /\ Cardinality(said) \in Nat
          /\ Cardinality(held[i] \cap shed[i]) \in Nat
      BY <2>2, <2>4, <2>5, FS_CardinalityType
    <2> HIDE DEF all, said
    <2>10. Cardinality(shed[i]) < Cardinality(said)
      BY DEF said
    <2>11. Cardinality(held[i]) > Cardinality(loaded[i])
      BY <2>4, <2>6, <2>7, <2>8, <2>9, <2>10
    <2>12. files' = [files EXCEPT ![session[i]] = held[i]]
      BY <2>11 DEF Fail
    <2>13. said \ shed[i] \subseteq held[i]
      BY <2>3 DEF all
    <2> QED
      BY <2>1, <2>12, <2>13 DEF Shape, said
  <1> QED
    BY <1>1, InductiveInvariant, PTL DEF Spec, PartialKept

=============================================================================
