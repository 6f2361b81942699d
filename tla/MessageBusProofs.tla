--------------------------- MODULE MessageBusProofs ---------------------------
(***************************************************************************)
(* For a renderer that is started once, as the command line interface      *)
(* does, the bus implements an in-order channel (ShownInOrder), loses no   *)
(* message while the renderer is up (AccountedWhileUp) and drops the       *)
(* oldest (DropsOldest).  IInv says how the messages in the places a       *)
(* message can be in are ordered, as long as they can still be shown;      *)
(* Placed says that each is in one of these places.                        *)
(***************************************************************************)
EXTENDS MessageBus, TLAPS

Inc(s)      == \A i, j \in DOMAIN s : i < j => s[i] < s[j]
Below(s, t) == \A i \in DOMAIN s, j \in DOMAIN t : s[i] < t[j]
UpTo(s, n)  == \A i \in DOMAIN s : s[i] <= n

(* s comes before everything in the queue, and before what the loop still  *)
(* has to put there.                                                       *)
BeforeQueue(s) ==
  /\ Below(s, outgoing) /\ Below(s, putting)
  /\ loop = "running" => Below(s, scheduled)

QueueOrdered ==
  /\ Inc(buffer) /\ Inc(outgoing) /\ Inc(scheduled)
  /\ Below(outgoing, putting)
  /\ loop = "running" => Below(outgoing, scheduled) /\ Below(putting, scheduled)

AllEmitted ==
  /\ UpTo(buffer, emitted) /\ UpTo(outgoing, emitted)
  /\ UpTo(putting, emitted) /\ UpTo(scheduled, emitted)
  /\ UpTo(shown, emitted)
  /\ UpTo(batch[1], emitted) /\ UpTo(holding[1], emitted)

(* The thread may still take from the queue.                               *)
Polling == pc[1] \in {"get", "show"} \/ (pc[1] = "poll" /\ life = "up")

ThreadOrdered ==
  /\ pc[1] \in {"off", "copy"} => shown = <<>>
  /\ pc[1] # "replay" => batch[1] = <<>>
  /\ pc[1] \in {"off", "copy"} /\ life = "up" => BeforeQueue(buffer)
  /\ pc[1] = "replay" => Inc(batch[1]) /\ Below(shown, batch[1])
  /\ pc[1] = "replay" /\ life = "up" => BeforeQueue(batch[1]) /\ BeforeQueue(shown)
  /\ Polling => BeforeQueue(shown)
  /\ pc[1] = "show" => Below(shown, holding[1]) /\ BeforeQueue(holding[1])

Lifecycle ==
  /\ starts = 0 => /\ pc[1] = "off" /\ life = "down" /\ ~ active
                   /\ outgoing = <<>> /\ putting = <<>> /\ scheduled = <<>>
                   /\ loop = "none"
  /\ starts # 0 => pc[1] # "off"
  /\ life = "up" => active

IInv == TypeOK /\ QueueOrdered /\ AllEmitted /\ ThreadOrdered /\ Lifecycle
-------------------------------------------------------------------------------
(* What appending to a sequence of numbers does to its order.              *)
LEMMA AppendOrder ==
  ASSUME NEW s \in Seq(Nat), NEW t \in Seq(Nat), NEW m \in Nat
  PROVE  /\ Inc(s) /\ (\A i \in DOMAIN s : s[i] < m) => Inc(Append(s, m))
         /\ Below(t, s) /\ (\A i \in DOMAIN t : t[i] < m) => Below(t, Append(s, m))
         /\ Below(s, t) /\ (\A j \in DOMAIN t : m < t[j]) => Below(Append(s, m), t)
  BY DEF Inc, Below

(* What taking the head of a sequence of numbers does to its order.        *)
LEMMA TailOrder ==
  ASSUME NEW s \in Seq(Nat), s # <<>>, NEW t \in Seq(Nat)
  PROVE  /\ Inc(s) => Inc(Tail(s)) /\ \A i \in DOMAIN Tail(s) : Head(s) < Tail(s)[i]
         /\ Below(s, t) => Below(Tail(s), t) /\ \A j \in DOMAIN t : Head(s) < t[j]
         /\ Below(t, s) => Below(t, Tail(s)) /\ \A j \in DOMAIN t : t[j] < Head(s)
<1>1. /\ Len(s) \in Nat \ {0} /\ DOMAIN s = 1 .. Len(s) /\ 1 \in DOMAIN s
      /\ Head(s) = s[1]
      /\ \A i \in DOMAIN s : s[i] \in Nat
  OBVIOUS
<1>2. /\ DOMAIN Tail(s) = 1 .. Len(s) - 1
      /\ \A i \in DOMAIN Tail(s) : Tail(s)[i] = s[i + 1]
  OBVIOUS
<1>3. \A i \in DOMAIN Tail(s) : i + 1 \in DOMAIN s /\ 1 < i + 1
  BY <1>1, <1>2
<1>4. ASSUME Inc(s)
      PROVE  Inc(Tail(s)) /\ \A i \in DOMAIN Tail(s) : Head(s) < Tail(s)[i]
  <2>1. ASSUME NEW i \in DOMAIN Tail(s), NEW j \in DOMAIN Tail(s), i < j
        PROVE  Tail(s)[i] < Tail(s)[j]
    <3>1. i + 1 \in DOMAIN s /\ j + 1 \in DOMAIN s /\ i + 1 < j + 1
      BY <1>1, <1>2, <2>1
    <3>2. s[i + 1] < s[j + 1]
      BY <3>1, <1>4 DEF Inc
    <3> QED BY <3>2, <1>2
  <2>2. \A i \in DOMAIN Tail(s) : s[1] < s[i + 1]
    BY <1>1, <1>3, <1>4 DEF Inc
  <2>3. Inc(Tail(s))
    BY <2>1 DEF Inc
  <2> QED BY <2>2, <2>3, <1>1, <1>2
<1>5. ASSUME Below(s, t)
      PROVE  Below(Tail(s), t) /\ \A j \in DOMAIN t : Head(s) < t[j]
  BY <1>1, <1>2, <1>3, <1>5 DEF Below
<1>6. ASSUME Below(t, s)
      PROVE  Below(t, Tail(s)) /\ \A j \in DOMAIN t : t[j] < Head(s)
  BY <1>1, <1>2, <1>3, <1>6 DEF Below
<1> QED BY <1>4, <1>5, <1>6

(* Both operations stay within an upper bound.                             *)
LEMMA UpToKept ==
  ASSUME NEW s \in Seq(Nat), NEW m \in Nat, NEW n \in Nat
  PROVE  /\ UpTo(s, n) /\ m <= n => UpTo(Append(s, m), n)
         /\ UpTo(s, n) /\ s # <<>> => UpTo(Tail(s), n) /\ Head(s) <= n
         /\ UpTo(s, n) => UpTo(s, n + 1) /\ \A i \in DOMAIN s : s[i] < n + 1
  BY DEF UpTo
-------------------------------------------------------------------------------
LEMMA MessagesAreNumbers ==
  ASSUME NEW s \in Seq(Messages)
  PROVE  /\ s \in Seq(Nat)
         /\ \A i \in DOMAIN s : s[i] \in Messages
         /\ s # <<>> => Head(s) \in Messages /\ Tail(s) \in Seq(Messages)
                        /\ Len(Tail(s)) = Len(s) - 1 /\ Head(s) = s[1]
  BY BoundAssumption DEF Messages

LEMMA AppendType ==
  ASSUME NEW s \in Seq(Messages), NEW m \in Messages
  PROVE  /\ Append(s, m) \in Seq(Messages) /\ Append(s, m) # <<>>
         /\ Len(Append(s, m)) = Len(s) + 1
<1>1. Append(s, m) \in Seq(Messages) /\ Len(Append(s, m)) = Len(s) + 1
  OBVIOUS
<1>2. Len(s) + 1 # 0 /\ Len(<<>>) = 0
  OBVIOUS
<1>3. Append(s, m) # <<>>
  BY <1>1, <1>2, Zenon
<1> QED BY <1>1, <1>3

(* The two halves of a put keep the types.                                 *)
LEMMA TryPutType ==
  ASSUME NEW m \in Messages, outgoing \in Seq(Messages), Len(outgoing) <= MaxSize,
         putting \in Seq(Messages), Len(putting) <= 1, TryPut(m)
  PROVE  /\ outgoing' \in Seq(Messages) /\ Len(outgoing') <= MaxSize
         /\ putting' \in Seq(Messages) /\ Len(putting') <= 1
<1>1. CASE Len(outgoing) < MaxSize
  <2>1. outgoing' = Append(outgoing, m) /\ putting' = putting
    BY <1>1 DEF TryPut
  <2> QED BY <1>1, <2>1, AppendType, SizeAssumption
<1>2. CASE ~ (Len(outgoing) < MaxSize)
  <2>1. outgoing' = outgoing /\ putting' = <<m>>
    BY <1>2 DEF TryPut
  <2>2. <<m>> \in Seq(Messages) /\ Len(<<m>>) = 1
    OBVIOUS
  <2> QED BY <2>1, <2>2
<1> QED BY <1>1, <1>2

(* Every variable keeps its type, the bounds on buffer and queue included, *)
(* for any number of starts.                                               *)
LEMMA TypeStep == TypeOK /\ [Next]_vars => TypeOK'
<1> SUFFICES ASSUME TypeOK, [Next]_vars PROVE TypeOK'
  OBVIOUS
<1> USE SizeAssumption, BoundAssumption
<1>1. CASE EmitBuffered
  <2>1. emitted + 1 \in Messages /\ emitted' \in 0 .. MaxEmits
    BY <1>1 DEF EmitBuffered, TypeOK, Messages
  <2>2. /\ buffer' \in Seq(Messages) /\ Len(buffer') <= MaxSize
        /\ dropped' \subseteq Messages
    <3> DEFINE longer == Append(buffer, emitted + 1)
    <3>1. longer \in Seq(Messages) /\ longer # <<>> /\ Len(longer) = Len(buffer) + 1
      BY <2>1, AppendType DEF TypeOK
    <3>2. /\ Head(longer) \in Messages /\ Tail(longer) \in Seq(Messages)
          /\ Len(Tail(longer)) = Len(longer) - 1
      BY <3>1, MessagesAreNumbers
    <3>3. /\ buffer' = longer \/ buffer' = Tail(longer)
          /\ Len(longer) > MaxSize => buffer' = Tail(longer)
          /\ dropped' = dropped \/ dropped' = dropped \cup {Head(longer)}
      BY <1>1 DEF EmitBuffered
    <3> HIDE DEF longer
    <3>4. Len(buffer') <= MaxSize
      BY <3>1, <3>2, <3>3 DEF TypeOK
    <3>5. buffer' \in Seq(Messages)
      BY <3>1, <3>2, <3>3
    <3> QED BY <3>2, <3>3, <3>4, <3>5 DEF TypeOK
  <2> QED BY <1>1, <2>1, <2>2 DEF EmitBuffered, rendererVars, TypeOK
<1>2. CASE EmitScheduled
  <2>1. emitted + 1 \in Messages /\ emitted' \in 0 .. MaxEmits
    BY <1>2 DEF EmitScheduled, TypeOK, Messages
  <2>2. scheduled' \in Seq(Messages)
    BY <1>2, <2>1 DEF EmitScheduled, TypeOK
  <2> QED BY <1>2, <2>1, <2>2 DEF EmitScheduled, rendererVars, TypeOK
<1>3. CASE EmitDirect
  <2>1. emitted + 1 \in Messages /\ emitted' \in 0 .. MaxEmits
    BY <1>3 DEF EmitDirect, TypeOK, Messages
  <2>2. /\ outgoing' \in Seq(Messages) /\ Len(outgoing') <= MaxSize
        /\ putting' \in Seq(Messages) /\ Len(putting') <= 1
    BY <1>3, <2>1, TryPutType DEF EmitDirect, TypeOK
  <2> QED BY <1>3, <2>1, <2>2 DEF EmitDirect, rendererVars, TypeOK
<1>4. CASE LoopPut
  <2>1. Head(scheduled) \in Messages /\ Tail(scheduled) \in Seq(Messages)
    BY <1>4, MessagesAreNumbers DEF LoopPut, TypeOK
  <2>2. /\ outgoing' \in Seq(Messages) /\ Len(outgoing') <= MaxSize
        /\ putting' \in Seq(Messages) /\ Len(putting') <= 1
    BY <1>4, <2>1, TryPutType DEF LoopPut, TypeOK
  <2> QED BY <1>4, <2>1, <2>2 DEF LoopPut, rendererVars, TypeOK
<1>5. CASE Evict
  <2>1. putting[1] \in Messages
    BY <1>5, MessagesAreNumbers DEF Evict, TypeOK
  <2>2. /\ outgoing' \in Seq(Messages) /\ Len(outgoing') <= MaxSize
        /\ dropped' \subseteq Messages
    <3>1. CASE outgoing = <<>>
      BY <1>5, <2>1, <3>1 DEF Evict, TypeOK
    <3>2. CASE outgoing # <<>>
      <4>1. /\ Head(outgoing) \in Messages /\ Tail(outgoing) \in Seq(Messages)
            /\ Len(Tail(outgoing)) = Len(outgoing) - 1
        BY <3>2, MessagesAreNumbers DEF TypeOK
      <4>2. /\ Append(Tail(outgoing), putting[1]) \in Seq(Messages)
            /\ Len(Append(Tail(outgoing), putting[1])) = Len(Tail(outgoing)) + 1
        BY <4>1, <2>1, AppendType
      <4>3. /\ outgoing' = Append(Tail(outgoing), putting[1])
            /\ dropped' = dropped \cup {Head(outgoing)}
        BY <1>5, <3>2 DEF Evict
      <4>4. Len(outgoing') <= MaxSize
        BY <4>1, <4>2, <4>3 DEF TypeOK
      <4> QED BY <4>1, <4>2, <4>3, <4>4 DEF TypeOK
    <3> QED BY <3>1, <3>2
  <2> QED BY <1>5, <2>2 DEF Evict, rendererVars, TypeOK
<1>6. CASE LoopEnds
  BY <1>6 DEF LoopEnds, rendererVars, TypeOK
<1>7. CASE Start
  BY <1>7 DEF Start, TypeOK, Threads
<1>8. CASE Stop
  BY <1>8 DEF Stop, busVars, TypeOK
<1>9. CASE MarkInactive
  BY <1>9 DEF MarkInactive, TypeOK
<1>10. ASSUME NEW t \in Threads, Render(t) PROVE TypeOK'
  <2>1. CASE CopyBuffer(t)
    BY <2>1 DEF CopyBuffer, Goto, busVars, TypeOK
  <2>2. CASE Replay(t)
    <3>1. batch[t] \in Seq(Messages) /\ batch[t] # <<>>
      BY <2>2 DEF Replay, TypeOK
    <3>2. Head(batch[t]) \in Messages /\ Tail(batch[t]) \in Seq(Messages)
      BY <3>1, MessagesAreNumbers
    <3>3. shown' \in Seq(Messages)
      BY <2>2, <3>2 DEF Replay, TypeOK
    <3> QED BY <2>2, <3>2, <3>3 DEF Replay, busVars, TypeOK
  <2>3. CASE ClearBuffer(t)
    BY <2>3 DEF ClearBuffer, Goto, TypeOK
  <2>4. CASE Poll(t)
    BY <2>4 DEF Poll, Goto, busVars, TypeOK
  <2>5. CASE GetNowait(t)
    <3>1. CASE outgoing = <<>>
      BY <2>5, <3>1 DEF GetNowait, Goto, TypeOK
    <3>2. CASE outgoing # <<>>
      <4>1. /\ Head(outgoing) \in Messages /\ Tail(outgoing) \in Seq(Messages)
            /\ Len(Tail(outgoing)) = Len(outgoing) - 1
        BY <3>2, MessagesAreNumbers DEF TypeOK
      <4>2. <<Head(outgoing)>> \in Seq(Messages) /\ Len(<<Head(outgoing)>>) = 1
        BY <4>1
      <4>3. Len(outgoing') <= MaxSize /\ outgoing' \in Seq(Messages)
        <5>1. outgoing' = Tail(outgoing)
          BY <2>5, <3>2 DEF GetNowait
        <5>2. Len(outgoing) - 1 <= MaxSize
          BY DEF TypeOK
        <5> QED BY <5>1, <5>2, <4>1
      <4>4. /\ holding' = [holding EXCEPT ![t] = <<Head(outgoing)>>]
            /\ pc' = [pc EXCEPT ![t] = "show"]
        BY <2>5, <3>2 DEF GetNowait, Goto
      <4> QED BY <2>5, <4>2, <4>3, <4>4 DEF GetNowait, TypeOK
    <3> QED BY <3>1, <3>2
  <2>6. CASE ShowMessage(t)
    <3>1. holding[t] \in Seq(Messages) /\ holding[t] # <<>>
      BY <2>6 DEF ShowMessage, TypeOK
    <3>2. shown' \in Seq(Messages)
      BY <2>6, <3>1, MessagesAreNumbers, AppendType DEF ShowMessage, TypeOK
    <3>3. /\ holding' = [holding EXCEPT ![t] = <<>>]
          /\ pc' = [pc EXCEPT ![t] = "poll"] /\ pc[t] = "show"
      BY <2>6 DEF ShowMessage, Goto
    <3>4. /\ holding' \in [Threads -> Seq(Messages)]
          /\ \A u \in Threads : Len(holding'[u]) = IF pc'[u] = "show" THEN 1 ELSE 0
      <4>1. <<>> \in Seq(Messages) /\ Len(<<>>) = 0
        OBVIOUS
      <4>2. ASSUME NEW u \in Threads
            PROVE  /\ holding'[u] \in Seq(Messages)
                   /\ Len(holding'[u]) = IF pc'[u] = "show" THEN 1 ELSE 0
        <5>1. CASE u = t
          <6>1. holding'[u] = <<>> /\ pc'[u] = "poll"
            BY <3>3, <5>1 DEF TypeOK
          <6> QED BY <6>1, <4>1
        <5>2. CASE u # t
          BY <3>3, <5>2 DEF TypeOK
        <5> QED BY <5>1, <5>2
      <4> QED BY <3>3, <4>2 DEF TypeOK
    <3> QED BY <2>6, <3>2, <3>3, <3>4 DEF ShowMessage, busVars, TypeOK
  <2> QED BY <1>10, <2>1, <2>2, <2>3, <2>4, <2>5, <2>6 DEF Render
<1>11. CASE UNCHANGED vars
  BY <1>11 DEF vars, busVars, rendererVars, TypeOK
<1> QED
  BY <1>1, <1>2, <1>3, <1>4, <1>5, <1>6, <1>7, <1>8, <1>9, <1>10, <1>11
  DEF Next, Emit
-------------------------------------------------------------------------------
(* An empty sequence is before, after and within everything.               *)
LEMMA EmptyOrder ==
  /\ Inc(<<>>)
  /\ \A s : Below(<<>>, s) /\ Below(s, <<>>)
  /\ \A n : UpTo(<<>>, n)
  BY DEF Inc, Below, UpTo

(* A sequence of one message.                                              *)
LEMMA SingleOrder ==
  ASSUME NEW m \in Nat
  PROVE  /\ \A s : Below(s, <<m>>) <=> \A i \in DOMAIN s : s[i] < m
         /\ \A s : Below(<<m>>, s) <=> \A i \in DOMAIN s : m < s[i]
         /\ \A n : UpTo(<<m>>, n) <=> m <= n
  BY DEF Below, UpTo

(* A put keeps the queue in order, after whatever was before it and before *)
(* whatever is after it.                                                   *)
LEMMA TryPutOrder ==
  ASSUME outgoing \in Seq(Nat), putting = <<>>, NEW m \in Nat, TryPut(m),
         Inc(outgoing), \A i \in DOMAIN outgoing : outgoing[i] < m
  PROVE  /\ Inc(outgoing') /\ Below(outgoing', putting')
         /\ \A s \in Seq(Nat) :
              Below(s, outgoing) /\ (\A i \in DOMAIN s : s[i] < m)
                => Below(s, outgoing') /\ Below(s, putting')
         /\ \A s \in Seq(Nat) :
              Below(outgoing, s) /\ (\A i \in DOMAIN s : m < s[i])
                => Below(outgoing', s) /\ Below(putting', s)
         /\ \A n \in Nat : UpTo(outgoing, n) /\ m <= n
                => UpTo(outgoing', n) /\ UpTo(putting', n)
<1>1. CASE Len(outgoing) < MaxSize
  <2>1. outgoing' = Append(outgoing, m) /\ putting' = <<>>
    BY <1>1 DEF TryPut
  <2> QED BY <2>1, EmptyOrder, AppendOrder, UpToKept
<1>2. CASE ~ (Len(outgoing) < MaxSize)
  <2>1. outgoing' = outgoing /\ putting' = <<m>>
    BY <1>2 DEF TryPut
  <2> QED BY <2>1, SingleOrder
<1> QED BY <1>1, <1>2

Places == {buffer, outgoing, putting, scheduled, shown, batch[1], holding[1]}

(* The next message is after every message that is anywhere.               *)
LEMMA NextIsLast ==
  ASSUME AllEmitted, TypeOK, 1 \in Threads
  PROVE  /\ emitted \in Nat
         /\ \A s \in Places :
              /\ s \in Seq(Nat) /\ UpTo(s, emitted) /\ UpTo(s, emitted + 1)
              /\ \A i \in DOMAIN s : s[i] < emitted + 1
<1>1. emitted \in Nat /\ emitted + 1 \in Nat
  BY BoundAssumption DEF TypeOK
<1>2. \A s \in Places : s \in Seq(Nat)
  BY MessagesAreNumbers DEF TypeOK, Places
<1>3. \A s \in Places : UpTo(s, emitted)
  BY DEF AllEmitted, Places
<1> QED BY <1>1, <1>2, <1>3, UpToKept
-------------------------------------------------------------------------------
(* The invariant is inductive; one step per action.                        *)
LEMMA OrderStep ==
  ASSUME MaxStarts = 1, IInv, [Next]_vars
  PROVE  QueueOrdered' /\ AllEmitted' /\ ThreadOrdered' /\ Lifecycle'
<1> DEFINE Goal == QueueOrdered' /\ AllEmitted' /\ ThreadOrdered' /\ Lifecycle'
<1>0. /\ Threads = {1} /\ 1 \in Threads /\ TypeOK
      /\ QueueOrdered /\ AllEmitted /\ ThreadOrdered /\ Lifecycle
  BY DEF IInv, Threads
<1>a. /\ emitted \in Nat
      /\ \A s \in Places :
           /\ s \in Seq(Nat) /\ UpTo(s, emitted) /\ UpTo(s, emitted + 1)
           /\ \A i \in DOMAIN s : s[i] < emitted + 1
  BY <1>0, NextIsLast
<1>1. CASE EmitBuffered
  <2> DEFINE longer == Append(buffer, emitted + 1)
  <2>1. UNCHANGED <<active, loop, scheduled, outgoing, putting,
                    life, starts, pc, batch, holding, shown>>
        /\ emitted' = emitted + 1 /\ ~ active
        /\ buffer' \in {longer, Tail(longer)}
    BY <1>1 DEF EmitBuffered, rendererVars
  <2>2. longer \in Seq(Nat) /\ longer # <<>> /\ Inc(longer) /\ UpTo(longer, emitted + 1)
    <3>1. buffer \in Places
      BY DEF Places
    <3>2. longer \in Seq(Nat) /\ Len(longer) = Len(buffer) + 1
      BY <3>1, <1>a
    <3>3. longer # <<>>
      BY <3>2, <3>1, <1>a
    <3>4. buffer \in Seq(Nat) /\ emitted + 1 \in Nat
      BY <3>1, <1>a
    <3>5. Inc(longer)
      BY <3>1, <3>4, <1>0, <1>a, AppendOrder DEF QueueOrdered
    <3>6. UpTo(longer, emitted + 1)
      BY <3>1, <3>4, <1>a, UpToKept
    <3> QED BY <3>2, <3>3, <3>5, <3>6
  <2>3. Inc(buffer') /\ UpTo(buffer', emitted')
    <3>1. emitted + 1 \in Nat
      BY <1>a
    <3>2. Inc(Tail(longer)) /\ UpTo(Tail(longer), emitted + 1)
      BY <2>2, <3>1, TailOrder, UpToKept
    <3> QED BY <2>1, <2>2, <3>2
  <2>4. QueueOrdered'
    BY <1>0, <2>1, <2>3 DEF QueueOrdered
  <2>5. AllEmitted'
    BY <1>a, <2>1, <2>3 DEF AllEmitted, Places
  <2>6. life # "up"
    BY <1>0, <2>1 DEF Lifecycle
  <2>7. ThreadOrdered'
    BY <1>0, <2>1, <2>6 DEF ThreadOrdered, BeforeQueue, Polling
  <2>8. Lifecycle'
    BY <1>0, <2>1 DEF Lifecycle
  <2> QED BY <2>4, <2>5, <2>7, <2>8
<1>2. CASE EmitScheduled
  <2>1. UNCHANGED <<active, loop, buffer, outgoing, putting,
                    life, starts, pc, batch, holding, shown>>
        /\ emitted' = emitted + 1 /\ active
        /\ scheduled' = Append(scheduled, emitted + 1)
    BY <1>2 DEF EmitScheduled, rendererVars
  <2>2. /\ Inc(scheduled') /\ UpTo(scheduled', emitted')
        /\ \A s \in Places : Below(s, scheduled) => Below(s, scheduled')
    <3>1. scheduled \in Places /\ emitted + 1 \in Nat
      BY <1>a DEF Places
    <3>2. Inc(scheduled') /\ UpTo(scheduled', emitted')
      BY <3>1, <1>0, <1>a, <2>1, AppendOrder, UpToKept DEF QueueOrdered
    <3>3. ASSUME NEW s \in Places, Below(s, scheduled) PROVE Below(s, scheduled')
      BY <3>1, <3>3, <1>a, <2>1, AppendOrder
    <3> QED BY <3>2, <3>3
  <2>3. QueueOrdered'
    BY <1>0, <2>1, <2>2 DEF QueueOrdered, Places
  <2>4. AllEmitted'
    BY <1>a, <2>1, <2>2 DEF AllEmitted, Places
  <2>5. \A s \in Places : BeforeQueue(s) =>
           /\ Below(s, outgoing') /\ Below(s, putting')
           /\ loop' = "running" => Below(s, scheduled')
    BY <2>1, <2>2 DEF BeforeQueue
  <2>6. ThreadOrdered'
    BY <1>0, <2>1, <2>5 DEF ThreadOrdered, BeforeQueue, Polling, Places
  <2>7. Lifecycle'
    BY <1>0, <2>1 DEF Lifecycle
  <2> QED BY <2>3, <2>4, <2>6, <2>7
<1>3. CASE EmitDirect
  <2>1. UNCHANGED <<active, loop, buffer, scheduled,
                    life, starts, pc, batch, holding, shown>>
        /\ emitted' = emitted + 1 /\ active /\ loop # "running"
        /\ putting = <<>> /\ TryPut(emitted + 1)
    BY <1>3 DEF EmitDirect, rendererVars, LockFree
  <2>2. /\ Inc(outgoing') /\ Below(outgoing', putting')
        /\ \A s \in Places : Below(s, outgoing) => Below(s, outgoing') /\ Below(s, putting')
        /\ UpTo(outgoing', emitted') /\ UpTo(putting', emitted')
    <3>1. outgoing \in Places /\ emitted + 1 \in Nat
      BY <1>a DEF Places
    <3> QED BY <3>1, <1>0, <1>a, <2>1, TryPutOrder DEF QueueOrdered
  <2>3. QueueOrdered'
    BY <1>0, <2>1, <2>2 DEF QueueOrdered
  <2>4. AllEmitted'
    BY <1>a, <2>1, <2>2 DEF AllEmitted, Places
  <2>5. \A s \in Places : BeforeQueue(s) => Below(s, outgoing') /\ Below(s, putting')
    BY <2>2 DEF BeforeQueue
  <2>6. ThreadOrdered'
    BY <1>0, <2>1, <2>5 DEF ThreadOrdered, BeforeQueue, Polling, Places
  <2>7. Lifecycle'
    BY <1>0, <2>1 DEF Lifecycle
  <2> QED BY <2>3, <2>4, <2>6, <2>7
<1>4. CASE LoopPut
  <2> DEFINE m == Head(scheduled)
  <2>1. UNCHANGED <<emitted, active, loop, buffer,
                    life, starts, pc, batch, holding, shown>>
        /\ loop = "running" /\ putting = <<>> /\ scheduled # <<>>
        /\ TryPut(m) /\ scheduled' = Tail(scheduled)
    BY <1>4 DEF LoopPut, rendererVars
  <2>2. m \in Nat /\ Tail(scheduled) \in Seq(Nat) /\ m <= emitted
    <3>1. scheduled \in Seq(Messages) /\ scheduled \in Places
      BY <1>0 DEF TypeOK, Places
    <3> QED BY <3>1, <2>1, <1>a, MessagesAreNumbers, UpToKept, BoundAssumption DEF Messages
  <2>3. /\ Inc(Tail(scheduled)) /\ \A i \in DOMAIN Tail(scheduled) : m < Tail(scheduled)[i]
        /\ UpTo(Tail(scheduled), emitted)
        /\ \A s \in Places : Below(s, scheduled) =>
              Below(s, Tail(scheduled)) /\ \A i \in DOMAIN s : s[i] < m
    <3>1. scheduled \in Places
      BY DEF Places
    <3> QED BY <3>1, <1>0, <1>a, <2>1, TailOrder, UpToKept DEF QueueOrdered
  <2>4. /\ Inc(outgoing') /\ Below(outgoing', putting')
        /\ Below(outgoing', scheduled') /\ Below(putting', scheduled')
        /\ UpTo(outgoing', emitted') /\ UpTo(putting', emitted')
        /\ \A s \in Places : Below(s, outgoing) /\ Below(s, scheduled)
              => Below(s, outgoing') /\ Below(s, putting')
    <3>1. outgoing \in Places /\ Below(outgoing, scheduled) /\ Inc(outgoing)
      BY <1>0, <2>1 DEF Places, QueueOrdered
    <3>2. Below(outgoing, Tail(scheduled)) /\ \A i \in DOMAIN outgoing : outgoing[i] < m
      BY <3>1, <2>3
    <3> HIDE DEF m
    <3> QED BY <3>1, <3>2, <1>a, <2>1, <2>2, <2>3, TryPutOrder
  <2>5. QueueOrdered'
    BY <1>0, <2>1, <2>3, <2>4 DEF QueueOrdered
  <2>6. AllEmitted'
    BY <1>a, <2>1, <2>3, <2>4 DEF AllEmitted, Places
  <2>7. \A s \in Places : BeforeQueue(s) =>
           Below(s, outgoing') /\ Below(s, putting') /\ Below(s, scheduled')
    BY <2>1, <2>3, <2>4 DEF BeforeQueue
  <2>8. ThreadOrdered'
    BY <1>0, <2>1, <2>7 DEF ThreadOrdered, BeforeQueue, Polling, Places
  <2>9. Lifecycle'
    BY <1>0, <2>1 DEF Lifecycle
  <2> QED BY <2>5, <2>6, <2>8, <2>9
<1>5. CASE Evict
  <2> DEFINE m == putting[1]
  <2>1. UNCHANGED <<emitted, active, loop, buffer, scheduled,
                    life, starts, pc, batch, holding, shown>>
        /\ putting # <<>> /\ putting' = <<>>
    BY <1>5 DEF Evict, rendererVars
  <2>2. outgoing \in Places /\ scheduled \in Places /\ putting \in Places
    BY DEF Places
  <2>3. 1 \in DOMAIN putting /\ m \in Nat /\ m <= emitted
    BY <1>a, <2>1, <2>2 DEF UpTo
  <2>4. /\ Inc(outgoing') /\ UpTo(outgoing', emitted)
        /\ \A s \in Places : Below(s, outgoing) /\ Below(s, putting) => Below(s, outgoing')
        /\ loop = "running" => Below(outgoing', scheduled)
    <3>1. CASE outgoing = <<>>
      <4>1. outgoing' = outgoing
        BY <1>5, <3>1 DEF Evict
      <4> QED BY <4>1, <1>0, <1>a, <2>2, <3>1, EmptyOrder
    <3>2. CASE outgoing # <<>>
      <4> DEFINE rest == Tail(outgoing)
      <4>1. outgoing' = Append(rest, m) /\ rest \in Seq(Nat)
        BY <1>5, <1>a, <2>2, <3>2 DEF Evict
      <4>2. /\ Inc(rest) /\ UpTo(rest, emitted) /\ Below(rest, putting)
            /\ loop = "running" => Below(rest, scheduled)
            /\ \A s \in Places : Below(s, outgoing) => Below(s, rest)
        BY <1>0, <1>a, <2>2, <3>2, TailOrder, UpToKept DEF QueueOrdered
      <4>3. /\ \A i \in DOMAIN rest : rest[i] < m
            /\ \A s \in Places : Below(s, putting) => \A i \in DOMAIN s : s[i] < m
            /\ loop = "running" => \A j \in DOMAIN scheduled : m < scheduled[j]
        BY <1>0, <2>3, <4>2 DEF Below, QueueOrdered
      <4> HIDE DEF rest, m
      <4>4. Inc(outgoing') /\ UpTo(outgoing', emitted)
        BY <1>a, <2>3, <4>1, <4>2, <4>3, AppendOrder, UpToKept
      <4>5. ASSUME NEW s \in Places, Below(s, outgoing), Below(s, putting)
            PROVE  Below(s, outgoing')
        BY <1>a, <2>3, <4>1, <4>2, <4>3, <4>5, AppendOrder
      <4>6. loop = "running" => Below(outgoing', scheduled)
        BY <1>a, <2>2, <2>3, <4>1, <4>2, <4>3, AppendOrder
      <4> QED BY <4>4, <4>5, <4>6
    <3> QED BY <3>1, <3>2
  <2>5. QueueOrdered' /\ AllEmitted'
    BY <1>0, <2>1, <2>4, EmptyOrder DEF QueueOrdered, AllEmitted
  <2>6. \A s \in Places : BeforeQueue(s) => Below(s, outgoing') /\ Below(s, putting')
    BY <2>1, <2>4, EmptyOrder DEF BeforeQueue
  <2>7. ThreadOrdered'
    BY <1>0, <2>1, <2>6 DEF ThreadOrdered, BeforeQueue, Polling, Places
  <2>8. starts # 0
    BY <1>0, <2>1 DEF Lifecycle
  <2>9. Lifecycle'
    BY <1>0, <2>1, <2>8 DEF Lifecycle
  <2> QED BY <2>5, <2>7, <2>9
<1>6. CASE LoopEnds
  BY <1>0, <1>6 DEF LoopEnds, rendererVars, QueueOrdered, AllEmitted, ThreadOrdered,
     Lifecycle, BeforeQueue, Polling
<1>7. CASE Start
  <2>1. /\ UNCHANGED <<emitted, buffer, scheduled, outgoing, putting, batch, holding, shown>>
        /\ starts = 0 /\ starts' = 1 /\ life' = "up" /\ active' = TRUE
        /\ pc' = [pc EXCEPT ![1] = "copy"]
    <3>1. starts < MaxStarts /\ starts \in 0 .. MaxStarts
      BY <1>0, <1>7 DEF Start, TypeOK
    <3>2. starts = 0
      BY <3>1
    <3> QED BY <1>7, <3>2 DEF Start
  <2>2. pc'[1] = "copy"
    BY <1>0, <2>1 DEF TypeOK
  <2>3. outgoing = <<>> /\ putting = <<>> /\ scheduled = <<>> /\ pc[1] = "off"
    BY <1>0, <2>1 DEF Lifecycle
  <2> QED BY <1>0, <2>1, <2>2, <2>3, EmptyOrder
          DEF QueueOrdered, AllEmitted, ThreadOrdered, Lifecycle, BeforeQueue, Polling
<1>8. CASE Stop
  BY <1>0, <1>8 DEF Stop, busVars, QueueOrdered, AllEmitted, ThreadOrdered,
     Lifecycle, BeforeQueue, Polling
<1>9. CASE MarkInactive
  BY <1>0, <1>9 DEF MarkInactive, QueueOrdered, AllEmitted, ThreadOrdered,
     Lifecycle, BeforeQueue, Polling
<1>10. CASE CopyBuffer(1)
  <2>1. /\ UNCHANGED <<emitted, active, loop, buffer, scheduled, outgoing, putting,
                       life, starts, holding, shown>>
        /\ pc[1] = "copy" /\ pc'[1] = "replay" /\ batch'[1] = buffer
    BY <1>0, <1>10 DEF CopyBuffer, Goto, busVars, TypeOK
  <2> QED BY <1>0, <2>1, EmptyOrder
          DEF QueueOrdered, AllEmitted, ThreadOrdered, Lifecycle, BeforeQueue, Polling
<1>11. CASE Replay(1)
  <2> DEFINE m == Head(batch[1])
  <2>1. /\ UNCHANGED <<emitted, active, loop, buffer, scheduled, outgoing, putting,
                       life, starts, pc, holding>>
        /\ pc[1] = "replay" /\ batch[1] # <<>>
        /\ shown' = Append(shown, m) /\ batch'[1] = Tail(batch[1])
    BY <1>0, <1>11 DEF Replay, busVars, TypeOK
  <2>2. batch[1] \in Places /\ shown \in Places
    BY DEF Places
  <2>3. m \in Nat /\ Tail(batch[1]) \in Seq(Nat) /\ m <= emitted
        /\ UpTo(Tail(batch[1]), emitted)
    <3>1. batch[1] \in Seq(Messages)
      BY <1>0 DEF TypeOK
    <3>2. m \in Nat /\ Tail(batch[1]) \in Seq(Nat)
      BY <3>1, <2>1, MessagesAreNumbers, BoundAssumption DEF Messages
    <3> QED BY <3>2, <1>a, <2>1, <2>2, UpToKept
  <2>4. /\ Inc(Tail(batch[1])) /\ Below(shown, Tail(batch[1]))
        /\ \A i \in DOMAIN Tail(batch[1]) : m < Tail(batch[1])[i]
        /\ \A s \in Places : Below(batch[1], s) => Below(Tail(batch[1]), s)
                                 /\ \A i \in DOMAIN s : m < s[i]
    BY <1>0, <1>a, <2>1, <2>2, TailOrder DEF ThreadOrdered
  <2> HIDE DEF m
  <2>5. /\ Below(shown', batch'[1]) /\ UpTo(shown', emitted)
        /\ \A s \in Places : Below(shown, s) /\ Below(batch[1], s) => Below(shown', s)
    BY <1>a, <2>1, <2>2, <2>3, <2>4, AppendOrder, UpToKept
  <2>6. QueueOrdered' /\ AllEmitted' /\ Lifecycle'
    BY <1>0, <2>1, <2>3, <2>5 DEF QueueOrdered, AllEmitted, Lifecycle
  <2>7. life = "up" => BeforeQueue(batch[1])' /\ BeforeQueue(shown)'
    BY <1>0, <2>1, <2>4, <2>5 DEF ThreadOrdered, BeforeQueue, Places
  <2>8. ThreadOrdered'
    BY <1>0, <2>1, <2>4, <2>5, <2>7 DEF ThreadOrdered, Polling
  <2> QED BY <2>6, <2>8
<1>12. CASE ClearBuffer(1)
  <2>1. /\ UNCHANGED <<emitted, active, loop, scheduled, outgoing, putting,
                       life, starts, batch, holding, shown>>
        /\ pc[1] = "replay" /\ pc'[1] = "poll" /\ batch[1] = <<>> /\ buffer' = <<>>
    BY <1>0, <1>12 DEF ClearBuffer, Goto, TypeOK
  <2> QED BY <1>0, <2>1, EmptyOrder
          DEF QueueOrdered, AllEmitted, ThreadOrdered, Lifecycle, BeforeQueue, Polling
<1>13. CASE Poll(1)
  <2>1. /\ UNCHANGED <<emitted, active, loop, buffer, scheduled, outgoing, putting,
                       life, starts, batch, holding, shown>>
        /\ pc[1] = "poll" /\ pc'[1] = IF life = "up" THEN "get" ELSE "done"
    BY <1>0, <1>13 DEF Poll, Goto, busVars, TypeOK
  <2> QED BY <1>0, <2>1
          DEF QueueOrdered, AllEmitted, ThreadOrdered, Lifecycle, BeforeQueue, Polling
<1>14. CASE GetNowait(1) /\ outgoing = <<>>
  <2>1. /\ UNCHANGED <<emitted, active, loop, buffer, scheduled, outgoing, putting,
                       life, starts, batch, holding, shown>>
        /\ pc[1] = "get" /\ pc'[1] = "poll"
    BY <1>0, <1>14 DEF GetNowait, Goto, TypeOK
  <2> QED BY <1>0, <2>1
          DEF QueueOrdered, AllEmitted, ThreadOrdered, Lifecycle, BeforeQueue, Polling
<1>15. CASE GetNowait(1) /\ outgoing # <<>>
  <2> DEFINE m == Head(outgoing)
             rest == Tail(outgoing)
  <2>1. /\ UNCHANGED <<emitted, active, loop, buffer, scheduled, putting,
                       life, starts, batch, shown>>
        /\ pc[1] = "get" /\ pc'[1] = "show"
        /\ outgoing' = rest /\ holding'[1] = <<m>>
    BY <1>0, <1>15 DEF GetNowait, Goto, TypeOK
  <2>2. outgoing \in Places /\ outgoing \in Seq(Messages)
    BY <1>0 DEF Places, TypeOK
  <2>3. m \in Nat /\ m <= emitted /\ UpTo(rest, emitted)
    BY <1>15, <1>a, <2>2, MessagesAreNumbers, UpToKept, BoundAssumption DEF Messages
  <2>4. /\ Inc(rest) /\ \A i \in DOMAIN rest : m < rest[i]
        /\ \A s \in Places : Below(outgoing, s) => Below(rest, s) /\ \A j \in DOMAIN s : m < s[j]
        /\ \A s \in Places : Below(s, outgoing) => Below(s, rest) /\ \A j \in DOMAIN s : s[j] < m
    BY <1>0, <1>15, <1>a, <2>2, TailOrder DEF QueueOrdered
  <2> HIDE DEF m, rest
  <2>5. QueueOrdered' /\ Lifecycle'
    BY <1>0, <2>1, <2>4 DEF QueueOrdered, Lifecycle, Places
  <2>6. AllEmitted'
    BY <1>0, <2>1, <2>3, SingleOrder DEF AllEmitted
  <2>7. BeforeQueue(shown)
    BY <1>0, <2>1 DEF ThreadOrdered, Polling
  <2>8. BeforeQueue(shown)' /\ Below(shown', holding'[1])
    BY <2>1, <2>3, <2>4, <2>7, SingleOrder DEF BeforeQueue, Places
  <2>9. BeforeQueue(holding[1])'
    BY <1>0, <2>1, <2>3, <2>4, SingleOrder DEF BeforeQueue, QueueOrdered, Places
  <2>10. ThreadOrdered'
    BY <1>0, <2>1, <2>8, <2>9 DEF ThreadOrdered, Polling
  <2> QED BY <2>5, <2>6, <2>10
<1>16. CASE ShowMessage(1)
  <2> DEFINE m == holding[1][1]
  <2>1. /\ UNCHANGED <<emitted, active, loop, buffer, scheduled, outgoing, putting,
                       life, starts, batch>>
        /\ pc[1] = "show" /\ pc'[1] = "poll" /\ holding'[1] = <<>>
        /\ shown' = Append(shown, m)
    BY <1>0, <1>16 DEF ShowMessage, Goto, busVars, TypeOK
  <2>2. 1 \in DOMAIN holding[1] /\ m \in Nat /\ m <= emitted
    <3>1. holding[1] \in Seq(Messages) /\ Len(holding[1]) = 1
      BY <1>0, <2>1 DEF TypeOK
    <3>2. 1 \in DOMAIN holding[1] /\ m \in Messages
      BY <3>1
    <3> QED BY <1>0, <3>2, BoundAssumption DEF Messages, AllEmitted, UpTo
  <2>3. /\ BeforeQueue(shown) /\ BeforeQueue(holding[1])
        /\ \A s \in Places : Below(holding[1], s) => \A i \in DOMAIN s : m < s[i]
    BY <1>0, <2>1, <2>2 DEF ThreadOrdered, Polling, Below
  <2> HIDE DEF m
  <2>4. UpTo(shown', emitted) /\ BeforeQueue(shown)'
    <3>1. /\ shown \in Places /\ outgoing \in Places /\ putting \in Places
          /\ scheduled \in Places
      BY DEF Places
    <3>2. ASSUME NEW s \in Places, Below(shown, s), Below(holding[1], s)
          PROVE  Below(shown', s)
      BY <1>a, <2>1, <2>2, <2>3, <3>1, <3>2, AppendOrder
    <3>3. UpTo(shown', emitted)
      BY <1>a, <2>1, <2>2, <3>1, UpToKept
    <3> QED BY <2>1, <2>3, <3>1, <3>2, <3>3 DEF BeforeQueue
  <2>5. QueueOrdered' /\ AllEmitted' /\ Lifecycle'
    BY <1>0, <2>1, <2>4, EmptyOrder DEF QueueOrdered, AllEmitted, Lifecycle
  <2>6. ThreadOrdered'
    BY <1>0, <2>1, <2>4 DEF ThreadOrdered, Polling
  <2> QED BY <2>5, <2>6
<1>17. CASE UNCHANGED vars
  BY <1>0, <1>17 DEF vars, busVars, rendererVars, QueueOrdered, AllEmitted,
     ThreadOrdered, Lifecycle, BeforeQueue, Polling
<1> QED
  <2>1. \A t \in Threads : Render(t) => Render(1)
    BY <1>0
  <2> QED
    BY <1>1, <1>2, <1>3, <1>4, <1>5, <1>6, <1>7, <1>8, <1>9, <1>10, <1>11, <1>12,
       <1>13, <1>14, <1>15, <1>16, <1>17, <2>1
    DEF IInv, Next, Emit, Render
-------------------------------------------------------------------------------
(* Where messages are.  What an append and the taking of the head do to    *)
(* the messages of a sequence.                                             *)
LEMMA Elements ==
  ASSUME NEW s \in Seq(Messages), NEW m \in Messages
  PROVE  /\ ToSet(Append(s, m)) = ToSet(s) \cup {m}
         /\ ToSet(<<>>) = {} /\ ToSet(<<m>>) = {m}
<1>1. ToSet(Append(s, m)) = ToSet(s) \cup {m}
  <2> DEFINE r == Append(s, m)
  <2>1. /\ DOMAIN r = 1 .. Len(s) + 1 /\ r[Len(s) + 1] = m /\ Len(s) \in Nat
        /\ DOMAIN s = 1 .. Len(s) /\ \A i \in 1 .. Len(s) : r[i] = s[i]
    OBVIOUS
  <2> HIDE DEF r
  <2>2. ToSet(r) = {r[i] : i \in 1 .. Len(s) + 1} /\ ToSet(s) = {s[i] : i \in 1 .. Len(s)}
    BY <2>1 DEF ToSet
  <2>3. \A i \in 1 .. Len(s) + 1 : i \in 1 .. Len(s) \/ i = Len(s) + 1
    BY <2>1
  <2>4. Len(s) + 1 \in 1 .. Len(s) + 1 /\ \A i \in 1 .. Len(s) : i \in 1 .. Len(s) + 1
    BY <2>1
  <2>5. ToSet(r) \subseteq ToSet(s) \cup {m}
    BY <2>1, <2>2, <2>3
  <2>6. ToSet(s) \subseteq ToSet(r) /\ m \in ToSet(r)
    BY <2>1, <2>2, <2>4
  <2> QED BY <2>5, <2>6 DEF r
<1>2. ToSet(<<>>) = {} /\ ToSet(<<m>>) = {m}
  BY DEF ToSet
<1> QED BY <1>1, <1>2

LEMMA TailElements ==
  ASSUME NEW s \in Seq(Messages), s # <<>>
  PROVE  ToSet(s) = ToSet(Tail(s)) \cup {Head(s)} /\ Head(s) \in Messages
<1> DEFINE r == Tail(s)
<1>1. /\ Len(s) \in Nat \ {0} /\ DOMAIN s = 1 .. Len(s) /\ Head(s) = s[1]
      /\ DOMAIN r = 1 .. Len(s) - 1 /\ \A i \in 1 .. Len(s) - 1 : r[i] = s[i + 1]
  OBVIOUS
<1> HIDE DEF r
<1>2. ToSet(r) = {r[i] : i \in 1 .. Len(s) - 1} /\ ToSet(s) = {s[i] : i \in 1 .. Len(s)}
  BY <1>1 DEF ToSet
<1>3. ToSet(r) \subseteq ToSet(s) /\ Head(s) \in ToSet(s)
  <2>1. 1 \in 1 .. Len(s) /\ \A i \in 1 .. Len(s) - 1 : i + 1 \in 1 .. Len(s)
    BY <1>1
  <2> QED BY <1>1, <1>2, <2>1
<1>4. ASSUME NEW i \in 1 .. Len(s) PROVE s[i] \in ToSet(r) \cup {Head(s)}
  <2>1. CASE i = 1
    BY <1>1, <2>1
  <2>2. CASE i # 1
    <3>1. i - 1 \in 1 .. Len(s) - 1 /\ r[i - 1] = s[i]
      BY <1>1, <2>2
    <3> QED BY <1>2, <3>1
  <2> QED BY <2>1, <2>2
<1> QED BY <1>2, <1>3, <1>4, MessagesAreNumbers DEF r

LEMMA SingleElement ==
  ASSUME NEW s \in Seq(Messages), s # <<>>, Len(s) <= 1
  PROVE  ToSet(s) = {s[1]} /\ s[1] \in Messages /\ 1 \in DOMAIN s
<1>1. Len(s) = 1
  <2> DEFINE n == Len(s)
  <2>1. n \in Nat /\ n # 0 /\ n <= 1
    OBVIOUS
  <2> HIDE DEF n
  <2>2. n = 1
    BY <2>1
  <2> QED BY <2>2 DEF n
<1>2. DOMAIN s = {1} /\ s[1] \in Messages
  BY <1>1
<1> QED BY <1>2 DEF ToSet

(* The places of a single start.                                           *)
Somewhere ==
  ToSet(buffer) \cup ToSet(scheduled) \cup ToSet(outgoing) \cup ToSet(putting)
    \cup ToSet(batch[1]) \cup ToSet(holding[1]) \cup ToSet(shown) \cup dropped

(* Until the renderer stops nothing vanishes: what the thread clears from  *)
(* the buffer it has shown.                                                *)
Accounted ==
  life = "up" \/ starts = 0 => 1 .. emitted \subseteq Somewhere
BufferCopied ==
  life = "up" /\ pc[1] = "replay" => ToSet(buffer) \subseteq ToSet(batch[1]) \cup ToSet(shown)

(* A message takes one of the two ways, the buffer or the queue.           *)
Apart == ToSet(buffer) \cap (ToSet(outgoing) \cup ToSet(putting) \cup ToSet(scheduled)) = {}

Placed == Accounted /\ BufferCopied /\ Apart

LEMMA TryPutElements ==
  ASSUME outgoing \in Seq(Messages), putting = <<>>, NEW m \in Messages, TryPut(m)
  PROVE  ToSet(outgoing') \cup ToSet(putting') = ToSet(outgoing) \cup {m}
<1>1. CASE Len(outgoing) < MaxSize
  <2>1. outgoing' = Append(outgoing, m) /\ putting' = <<>>
    BY <1>1 DEF TryPut
  <2> QED BY <2>1, Elements
<1>2. CASE ~ (Len(outgoing) < MaxSize)
  <2>1. outgoing' = outgoing /\ putting' = <<m>>
    BY <1>2 DEF TryPut
  <2> QED BY <2>1, Elements
<1> QED BY <1>1, <1>2

(* Every step leaves each message somewhere; one step per action.          *)
LEMMA PlacedStep ==
  ASSUME MaxStarts = 1, IInv, Placed, [Next]_vars
  PROVE  Placed'
<1>0. /\ Threads = {1} /\ 1 \in Threads /\ TypeOK /\ AllEmitted /\ ThreadOrdered /\ Lifecycle
      /\ Accounted /\ BufferCopied /\ Apart
  BY DEF IInv, Placed, Threads
<1>a. /\ emitted \in Nat /\ emitted \in 0 .. MaxEmits
      /\ buffer \in Seq(Messages) /\ outgoing \in Seq(Messages) /\ putting \in Seq(Messages)
      /\ scheduled \in Seq(Messages) /\ shown \in Seq(Messages)
      /\ batch[1] \in Seq(Messages) /\ holding[1] \in Seq(Messages)
  BY <1>0, BoundAssumption DEF TypeOK
<1>b. 1 .. emitted + 1 = (1 .. emitted) \cup {emitted + 1}
  BY <1>a
<1>c. ToSet(<<>>) = {} /\ \A s : s = <<>> => ToSet(s) = {}
  BY DEF ToSet
<1>d. emitted + 1 \notin ToSet(buffer) \cup ToSet(outgoing) \cup ToSet(putting) \cup ToSet(scheduled)
  <2>1. \A s \in Places : \A i \in DOMAIN s : s[i] < emitted + 1
    BY <1>0, NextIsLast
  <2>2. \A s \in {buffer, outgoing, putting, scheduled} : \A i \in DOMAIN s : s[i] # emitted + 1
    <3>1. SUFFICES ASSUME NEW s \in {buffer, outgoing, putting, scheduled}, NEW i \in DOMAIN s
                   PROVE  s[i] # emitted + 1
      OBVIOUS
    <3>2. s[i] < emitted + 1 /\ s[i] \in Nat
      BY <1>a, <2>1, MessagesAreNumbers DEF Places
    <3> QED BY <3>2, <1>a
  <2> QED BY <2>2 DEF ToSet
<1>1. CASE EmitBuffered
  <2> DEFINE longer == Append(buffer, emitted + 1)
  <2>1. /\ UNCHANGED <<active, loop, scheduled, outgoing, putting,
                       life, starts, pc, batch, holding, shown>>
        /\ emitted' = emitted + 1 /\ ~ active
        /\ \/ buffer' = longer /\ dropped' = dropped
           \/ buffer' = Tail(longer) /\ dropped' = dropped \cup {Head(longer)}
    BY <1>1 DEF EmitBuffered, rendererVars
  <2>2. emitted + 1 \in Messages
    BY <1>1, <1>a, BoundAssumption DEF EmitBuffered, Messages
  <2>3. /\ ToSet(longer) = ToSet(buffer) \cup {emitted + 1}
        /\ ToSet(longer) = ToSet(Tail(longer)) \cup {Head(longer)}
    <3>1. longer \in Seq(Messages) /\ longer # <<>>
      BY <1>a, <2>2, AppendType
    <3>2. ToSet(longer) = ToSet(Tail(longer)) \cup {Head(longer)}
      <4> HIDE DEF longer
      <4> QED BY <3>1, TailElements
    <3> QED BY <1>a, <2>2, <3>2, Elements
  <2> HIDE DEF longer
  <2>4. /\ ToSet(buffer') \cup dropped' = ToSet(buffer) \cup {emitted + 1} \cup dropped
        /\ ToSet(buffer') \subseteq ToSet(buffer) \cup {emitted + 1}
    BY <2>1, <2>3
  <2>5. Accounted'
    BY <1>0, <1>b, <2>1, <2>4 DEF Accounted, Somewhere
  <2>6. BufferCopied'
    BY <1>0, <2>1 DEF BufferCopied, Lifecycle
  <2>7. Apart'
    BY <1>0, <1>d, <2>1, <2>4 DEF Apart
  <2> QED BY <2>5, <2>6, <2>7 DEF Placed
<1>2. CASE EmitScheduled
  <2>1. /\ UNCHANGED <<buffer, outgoing, putting, life, starts, pc, batch, holding, shown, dropped>>
        /\ emitted' = emitted + 1 /\ scheduled' = Append(scheduled, emitted + 1)
    BY <1>2 DEF EmitScheduled, rendererVars
  <2>2. emitted + 1 \in Messages
    BY <1>2, <1>a, BoundAssumption DEF EmitScheduled, Messages
  <2>3. ToSet(scheduled') = ToSet(scheduled) \cup {emitted + 1}
    BY <1>a, <2>1, <2>2, Elements
  <2>4. Accounted' /\ BufferCopied'
    BY <1>0, <1>b, <2>1, <2>3 DEF Accounted, Somewhere, BufferCopied
  <2>5. Apart'
    BY <1>0, <1>d, <2>1, <2>3 DEF Apart
  <2> QED BY <2>4, <2>5 DEF Placed
<1>3. CASE EmitDirect
  <2>1. /\ UNCHANGED <<buffer, scheduled, life, starts, pc, batch, holding, shown, dropped>>
        /\ emitted' = emitted + 1 /\ putting = <<>> /\ TryPut(emitted + 1)
    BY <1>3 DEF EmitDirect, rendererVars, LockFree
  <2>2. emitted + 1 \in Messages
    BY <1>3, <1>a, BoundAssumption DEF EmitDirect, Messages
  <2>3. ToSet(outgoing') \cup ToSet(putting') = ToSet(outgoing) \cup {emitted + 1}
    BY <1>a, <2>1, <2>2, TryPutElements
  <2>4. Accounted' /\ BufferCopied'
    BY <1>0, <1>b, <1>c, <2>1, <2>3 DEF Accounted, Somewhere, BufferCopied
  <2>5. Apart'
    BY <1>0, <1>d, <2>1, <2>3 DEF Apart
  <2> QED BY <2>4, <2>5 DEF Placed
<1>4. CASE LoopPut
  <2>1. /\ UNCHANGED <<emitted, buffer, life, starts, pc, batch, holding, shown, dropped>>
        /\ putting = <<>> /\ scheduled # <<>>
        /\ TryPut(Head(scheduled)) /\ scheduled' = Tail(scheduled)
    BY <1>4 DEF LoopPut, rendererVars
  <2>2. Head(scheduled) \in Messages
    BY <1>a, <2>1, MessagesAreNumbers
  <2>3. /\ ToSet(outgoing') \cup ToSet(putting') = ToSet(outgoing) \cup {Head(scheduled)}
        /\ ToSet(scheduled) = ToSet(scheduled') \cup {Head(scheduled)}
    BY <1>a, <2>1, <2>2, TryPutElements, TailElements
  <2>4. Accounted' /\ BufferCopied'
    BY <1>0, <1>c, <2>1, <2>3 DEF Accounted, Somewhere, BufferCopied
  <2>5. Apart'
    BY <1>0, <2>1, <2>3 DEF Apart
  <2> QED BY <2>4, <2>5 DEF Placed
<1>5. CASE Evict
  <2>1. /\ UNCHANGED <<emitted, buffer, scheduled, life, starts, pc, batch, holding, shown>>
        /\ putting # <<>> /\ putting' = <<>>
    BY <1>5 DEF Evict, rendererVars
  <2>2. ToSet(putting) = {putting[1]} /\ putting[1] \in Messages
    BY <1>0, <1>a, <2>1, SingleElement DEF TypeOK
  <2>3. /\ ToSet(outgoing') \cup dropped' = ToSet(outgoing) \cup {putting[1]} \cup dropped
        /\ ToSet(outgoing') \subseteq ToSet(outgoing) \cup {putting[1]}
    <3>1. CASE outgoing = <<>>
      BY <1>5, <3>1 DEF Evict
    <3>2. CASE outgoing # <<>>
      <4>1. /\ outgoing' = Append(Tail(outgoing), putting[1])
            /\ dropped' = dropped \cup {Head(outgoing)}
        BY <1>5, <3>2 DEF Evict
      <4>2. Tail(outgoing) \in Seq(Messages)
        BY <1>a, <3>2, MessagesAreNumbers
      <4>3. /\ ToSet(outgoing') = ToSet(Tail(outgoing)) \cup {putting[1]}
            /\ ToSet(outgoing) = ToSet(Tail(outgoing)) \cup {Head(outgoing)}
        BY <1>a, <2>2, <3>2, <4>1, <4>2, Elements, TailElements
      <4> QED BY <4>1, <4>3
    <3> QED BY <3>1, <3>2
  <2>4. Accounted' /\ BufferCopied'
    BY <1>0, <1>c, <2>1, <2>2, <2>3 DEF Accounted, Somewhere, BufferCopied
  <2>5. Apart'
    BY <1>0, <1>c, <2>1, <2>2, <2>3 DEF Apart
  <2> QED BY <2>4, <2>5 DEF Placed
<1>6. CASE LoopEnds \/ Stop \/ MarkInactive \/ UNCHANGED vars
  BY <1>0, <1>6 DEF LoopEnds, Stop, MarkInactive, vars, busVars, rendererVars,
     Placed, Accounted, Somewhere, BufferCopied, Apart
<1>7. CASE Start
  <2>1. /\ UNCHANGED <<emitted, buffer, scheduled, outgoing, putting, batch, holding, shown, dropped>>
        /\ starts = 0 /\ pc'[1] # "replay"
    <3>1. starts = 0
      BY <1>0, <1>7 DEF Start, TypeOK
    <3> QED BY <1>0, <1>7, <3>1 DEF Start, TypeOK
  <2> QED BY <1>0, <2>1 DEF Placed, Accounted, Somewhere, BufferCopied, Apart
<1>8. CASE CopyBuffer(1)
  <2>1. /\ UNCHANGED <<emitted, buffer, scheduled, outgoing, putting, life, starts, holding, shown, dropped>>
        /\ pc[1] = "copy" /\ batch'[1] = buffer
    BY <1>0, <1>8 DEF CopyBuffer, Goto, busVars, TypeOK
  <2>2. ToSet(batch[1]) = {}
    BY <1>0, <1>c, <2>1 DEF ThreadOrdered
  <2> QED BY <1>0, <2>1, <2>2 DEF Placed, Accounted, Somewhere, BufferCopied, Apart
<1>9. CASE Replay(1)
  <2>1. /\ UNCHANGED <<emitted, buffer, scheduled, outgoing, putting, life, starts, pc, holding, dropped>>
        /\ batch[1] # <<>> /\ shown' = Append(shown, Head(batch[1])) /\ batch'[1] = Tail(batch[1])
    BY <1>0, <1>9 DEF Replay, busVars, TypeOK
  <2>2. Head(batch[1]) \in Messages
    BY <1>a, <2>1, MessagesAreNumbers
  <2>3. /\ ToSet(shown') = ToSet(shown) \cup {Head(batch[1])}
        /\ ToSet(batch[1]) = ToSet(batch'[1]) \cup {Head(batch[1])}
    BY <1>a, <2>1, <2>2, Elements, TailElements
  <2> QED BY <1>0, <2>1, <2>3 DEF Placed, Accounted, Somewhere, BufferCopied, Apart
<1>10. CASE ClearBuffer(1)
  <2>1. /\ UNCHANGED <<emitted, scheduled, outgoing, putting, life, starts, batch, holding, shown, dropped>>
        /\ pc[1] = "replay" /\ pc'[1] = "poll" /\ batch[1] = <<>> /\ buffer' = <<>>
    BY <1>0, <1>10 DEF ClearBuffer, Goto, TypeOK
  <2>2. life = "up" => ToSet(buffer) \subseteq ToSet(shown)
    BY <1>0, <1>c, <2>1 DEF BufferCopied
  <2>3. starts # 0
    BY <1>0, <2>1 DEF Lifecycle
  <2> QED BY <1>0, <1>c, <2>1, <2>2, <2>3 DEF Placed, Accounted, Somewhere, BufferCopied, Apart
<1>11. CASE Poll(1)
  <2>1. /\ UNCHANGED <<emitted, buffer, scheduled, outgoing, putting, life, starts, batch, holding, shown, dropped>>
        /\ pc'[1] # "replay"
    BY <1>0, <1>11 DEF Poll, Goto, busVars, TypeOK
  <2> QED BY <1>0, <2>1 DEF Placed, Accounted, Somewhere, BufferCopied, Apart
<1>12. CASE GetNowait(1)
  <2>1. /\ UNCHANGED <<emitted, buffer, scheduled, putting, life, starts, batch, shown, dropped>>
        /\ pc[1] = "get" /\ pc'[1] # "replay"
    BY <1>0, <1>12 DEF GetNowait, Goto, TypeOK
  <2>2. CASE outgoing = <<>>
    <3>1. UNCHANGED <<outgoing, holding>>
      BY <1>12, <2>2 DEF GetNowait
    <3> QED BY <1>0, <2>1, <3>1 DEF Placed, Accounted, Somewhere, BufferCopied, Apart
  <2>3. CASE outgoing # <<>>
    <3>1. outgoing' = Tail(outgoing) /\ holding'[1] = <<Head(outgoing)>>
      BY <1>0, <1>12, <2>3 DEF GetNowait, TypeOK
    <3>2. Head(outgoing) \in Messages /\ ToSet(holding[1]) = {}
      <4>1. Len(holding[1]) = 0
        BY <1>0, <2>1 DEF TypeOK
      <4>2. holding[1] = <<>>
        BY <1>a, <4>1
      <4> QED BY <1>a, <1>c, <2>3, <4>2, MessagesAreNumbers
    <3>3. /\ ToSet(outgoing) = ToSet(outgoing') \cup {Head(outgoing)}
          /\ ToSet(holding'[1]) = {Head(outgoing)}
      BY <1>a, <2>3, <3>1, <3>2, Elements, TailElements
    <3> QED BY <1>0, <2>1, <3>2, <3>3 DEF Placed, Accounted, Somewhere, BufferCopied, Apart
  <2> QED BY <2>2, <2>3
<1>13. CASE ShowMessage(1)
  <2>1. /\ UNCHANGED <<emitted, buffer, scheduled, outgoing, putting, life, starts, batch, dropped>>
        /\ pc[1] = "show" /\ pc'[1] = "poll" /\ holding'[1] = <<>>
        /\ shown' = Append(shown, holding[1][1])
    BY <1>0, <1>13 DEF ShowMessage, Goto, busVars, TypeOK
  <2>2. holding[1][1] \in Messages /\ ToSet(holding[1]) = {holding[1][1]}
    <3>1. Len(holding[1]) <= 1 /\ holding[1] # <<>>
      <4>1. Len(holding[1]) = 1
        BY <1>0, <2>1 DEF TypeOK
      <4>2. holding[1] # <<>>
        BY <4>1
      <4>3. Len(holding[1]) <= 1
        BY <4>1
      <4> QED BY <4>2, <4>3
    <3> QED BY <1>a, <3>1, SingleElement
  <2>3. ToSet(shown') = ToSet(shown) \cup ToSet(holding[1])
    BY <1>a, <2>1, <2>2, Elements
  <2> QED BY <1>0, <2>1, <2>3 DEF Placed, Accounted, Somewhere, BufferCopied, Apart
<1> QED
  <2>1. \A t \in Threads : Render(t) => Render(1)
    BY <1>0
  <2> QED
    BY <1>1, <1>2, <1>3, <1>4, <1>5, <1>6, <1>7, <1>8, <1>9, <1>10, <1>11, <1>12, <1>13, <2>1
    DEF Next, Emit, Render

LEMMA InitType == Init => TypeOK
<1> SUFFICES ASSUME Init PROVE TypeOK
  OBVIOUS
<1>1. \A S : <<>> \in Seq(S)
  OBVIOUS
<1>2. Len(<<>>) = 0
  OBVIOUS
<1>3. /\ emitted \in 0 .. MaxEmits /\ starts \in 0 .. MaxStarts
      /\ active \in BOOLEAN /\ loop \in {"none", "running", "ended"}
      /\ life \in {"down", "up", "stopping"} /\ dropped \subseteq Messages
  <2>1. emitted \in 0 .. MaxEmits /\ starts \in 0 .. MaxStarts
    BY BoundAssumption DEF Init
  <2>2. active \in BOOLEAN /\ dropped \subseteq Messages
    BY DEF Init
  <2>3. loop \in {"none", "running", "ended"} /\ life \in {"down", "up", "stopping"}
    BY DEF Init
  <2> QED BY <2>1, <2>2, <2>3
<1>4. /\ buffer \in Seq(Messages) /\ Len(buffer) <= MaxSize
      /\ outgoing \in Seq(Messages) /\ Len(outgoing) <= MaxSize
      /\ scheduled \in Seq(Messages) /\ shown \in Seq(Messages)
      /\ putting \in Seq(Messages) /\ Len(putting) <= 1
  <2>1. Len(<<>>) <= MaxSize
    BY <1>2, SizeAssumption
  <2> QED BY <1>1, <1>2, <2>1 DEF Init
<1>5. \A t \in Threads : /\ pc[t] = "off" /\ batch[t] = <<>> /\ holding[t] = <<>>
                         /\ t > starts
  BY BoundAssumption DEF Init, Threads
<1> QED BY <1>1, <1>2, <1>3, <1>4, <1>5 DEF Init, TypeOK

LEMMA InitIInv == ASSUME MaxStarts = 1, Init PROVE IInv
<1>1. TypeOK
  BY InitType
<1>2. Threads = {1}
  BY DEF Threads
<1>3. /\ shown = <<>> /\ buffer = <<>> /\ scheduled = <<>> /\ outgoing = <<>>
      /\ putting = <<>> /\ batch[1] = <<>> /\ holding[1] = <<>> /\ pc[1] = "off"
  BY <1>2 DEF Init
<1>4. QueueOrdered /\ AllEmitted
  BY <1>3, <1>2, EmptyOrder DEF Init, QueueOrdered, AllEmitted, BeforeQueue
<1>5. ThreadOrdered
  BY <1>3, <1>2, EmptyOrder DEF Init, ThreadOrdered, Polling
<1>6. Lifecycle
  BY <1>3, <1>2 DEF Init, Lifecycle, Polling
<1> QED BY <1>1, <1>4, <1>5, <1>6 DEF IInv
-------------------------------------------------------------------------------
(* Every variable keeps its type, for any number of starts: the queue and  *)
(* the startup buffer never outgrow maxsize, a thread holds a message only *)
(* while it is showing it.                                                 *)
THEOREM TypeCorrect == Spec => []TypeOK
<1>1. Init => TypeOK
  BY InitType
<1> QED BY <1>1, TypeStep, PTL DEF Spec

(* The order of all places a message can be in, for a single start.        *)
THEOREM InductiveInvariant == ASSUME MaxStarts = 1 PROVE Spec => []IInv
<1>1. Init => IInv
  BY InitIInv
<1>2. IInv /\ [Next]_vars => IInv'
  BY TypeStep, OrderStep DEF IInv
<1> QED BY <1>1, <1>2, PTL DEF Spec

(* The display of a renderer that is started once implements the in-order  *)
(* channel: bus.emit to the user through buffer, event loop and queue.     *)
THEOREM ShowsInOrder == ASSUME MaxStarts = 1 PROVE Spec => ShownInOrder
<1>1. Init => Channel!Init
  BY DEF Init, Channel!Init
<1>2. ASSUME IInv, [Next]_vars PROVE [Channel!Next]_<<emitted, shown>>
  <2>0. /\ Threads = {1} /\ TypeOK /\ AllEmitted /\ ThreadOrdered
        /\ emitted \in Nat /\ shown \in Seq(Nat)
    BY <1>2, MessagesAreNumbers, BoundAssumption DEF IInv, Threads, TypeOK
  <2>1. ASSUME NEW m \in Nat \ {0}, m <= emitted, emitted' = emitted,
               shown' = Append(shown, m), \A i \in DOMAIN shown : shown[i] < m
        PROVE  Channel!Show
    <3>1. shown # <<>> => Len(shown) \in DOMAIN shown /\ shown[Len(shown)] \in Nat
      BY <2>0
    <3>2. Channel!LastShown < m /\ Channel!LastShown \in Nat
      <4>1. CASE shown # <<>>
        <5>1. Channel!LastShown = shown[Len(shown)]
          BY <4>1 DEF Channel!LastShown
        <5>2. shown[Len(shown)] < m /\ shown[Len(shown)] \in Nat
          BY <2>1, <3>1, <4>1
        <5> QED BY <5>1, <5>2
      <4>2. CASE shown = <<>>
        <5>1. Channel!LastShown = 0
          BY <4>2 DEF Channel!LastShown
        <5>2. 0 < m
          BY <2>1
        <5> QED BY <5>1, <5>2
      <4> QED BY <4>1, <4>2
    <3>3. m \in Channel!LastShown + 1 .. emitted
      BY <2>0, <2>1, <3>2
    <3> QED BY <2>1, <3>3 DEF Channel!Show
  <2>2. CASE Replay(1)
    <3> DEFINE m == Head(batch[1])
    <3>1. /\ pc[1] = "replay" /\ batch[1] # <<>> /\ emitted' = emitted
          /\ shown' = Append(shown, m)
      BY <2>2 DEF Replay
    <3>2. batch[1] \in Seq(Messages) /\ m \in Nat \ {0} /\ m = batch[1][1] /\ 1 \in DOMAIN batch[1]
      <4>1. batch[1] \in Seq(Messages) /\ batch[1] # <<>>
        BY <2>0, <3>1 DEF TypeOK
      <4>2. m \in Messages /\ m = batch[1][1] /\ 1 \in DOMAIN batch[1]
        BY <4>1
      <4> QED BY <4>1, <4>2, BoundAssumption DEF Messages
    <3>3. m <= emitted /\ \A i \in DOMAIN shown : shown[i] < m
      BY <2>0, <3>1, <3>2 DEF AllEmitted, ThreadOrdered, UpTo, Below
    <3> QED BY <2>1, <3>1, <3>2, <3>3 DEF Channel!Next
  <2>3. CASE ShowMessage(1)
    <3> DEFINE m == holding[1][1]
    <3>1. pc[1] = "show" /\ emitted' = emitted /\ shown' = Append(shown, m)
      BY <2>3 DEF ShowMessage
    <3>2. m \in Nat \ {0} /\ 1 \in DOMAIN holding[1]
      <4>1. holding[1] \in Seq(Messages) /\ Len(holding[1]) = 1
        BY <2>0, <3>1 DEF TypeOK
      <4> QED BY <4>1, BoundAssumption DEF Messages
    <3>3. m <= emitted /\ \A i \in DOMAIN shown : shown[i] < m
      BY <2>0, <3>1, <3>2 DEF AllEmitted, ThreadOrdered, UpTo, Below
    <3> QED BY <2>1, <3>1, <3>2, <3>3 DEF Channel!Next
  <2>4. CASE Emit
    BY <2>4 DEF Emit, EmitBuffered, EmitScheduled, EmitDirect, rendererVars,
       Channel!Next, Channel!Send
  <2>5. CASE LoopPut \/ Evict \/ LoopEnds \/ Start \/ Stop \/ MarkInactive
    BY <2>5 DEF LoopPut, Evict, LoopEnds, Start, Stop, MarkInactive, rendererVars
  <2>6. CASE CopyBuffer(1) \/ ClearBuffer(1) \/ Poll(1) \/ GetNowait(1)
    BY <2>6 DEF CopyBuffer, ClearBuffer, Poll, GetNowait
  <2>7. CASE UNCHANGED vars
    BY <2>7 DEF vars, rendererVars
  <2> QED BY <1>2, <2>0, <2>2, <2>3, <2>4, <2>5, <2>6, <2>7 DEF Next, Render
<1> QED BY <1>1, <1>2, InductiveInvariant, PTL DEF Spec, ShownInOrder, Channel!Spec
LEMMA InitPlaced == ASSUME MaxStarts = 1, Init PROVE Placed
<1>1. \A s : s = <<>> => ToSet(s) = {}
  BY DEF ToSet
<1>2. ToSet(buffer) = {} /\ pc[1] = "off" /\ 1 .. emitted = {}
  BY <1>1 DEF Init, Threads
<1> QED BY <1>2 DEF Placed, Accounted, BufferCopied, Apart

(* Both invariants together.                                               *)
THEOREM PlacedAlways == ASSUME MaxStarts = 1 PROVE Spec => [](IInv /\ Placed)
<1>1. Init => IInv /\ Placed
  BY InitIInv, InitPlaced
<1>2. IInv /\ Placed /\ [Next]_vars => (IInv /\ Placed)'
  BY TypeStep, OrderStep, PlacedStep DEF IInv
<1> QED BY <1>1, <1>2, PTL DEF Spec

(* While the renderer is up no emitted message vanishes: it is waiting in  *)
(* a queue, with the thread, shown, or dropped because something was full; *)
(* for any sizes and numbers of messages, with one start.                  *)
THEOREM NothingVanishesWhileUp == ASSUME MaxStarts = 1 PROVE Spec => []AccountedWhileUp
<1>1. IInv /\ Placed => AccountedWhileUp
  <2> SUFFICES ASSUME IInv, Placed, life = "up" PROVE Located
    BY DEF AccountedWhileUp
  <2>1. Threads = {1}
    BY DEF Threads
  <2>2. InThreads = ToSet(batch[1]) \cup ToSet(holding[1])
    BY <2>1 DEF InThreads
  <2>3. 1 .. emitted \subseteq Somewhere
    BY DEF Placed, Accounted
  <2> QED BY <2>2, <2>3 DEF Located, Somewhere
<1> QED BY <1>1, PlacedAlways, PTL

(* Whatever a full queue or a full startup buffer throws away is older     *)
(* than all that stays in it, for any sizes, with one start.               *)
THEOREM OverflowDropsOldest == ASSUME MaxStarts = 1 PROVE Spec => DropsOldest
<1> DEFINE Kept(d) == IF d \in ToSet(outgoing \o putting) THEN outgoing' ELSE buffer'
           Oldest == \A d \in dropped' \ dropped : \A m \in ToSet(Kept(d)) : d < m
<1>1. ASSUME IInv, Placed, [Next]_vars PROVE Oldest
  <2> SUFFICES ASSUME NEW d \in dropped' \ dropped PROVE \A m \in ToSet(Kept(d)) : d < m
    OBVIOUS
  <2>0. /\ TypeOK /\ QueueOrdered /\ AllEmitted /\ Apart
        /\ buffer \in Seq(Messages) /\ outgoing \in Seq(Messages) /\ putting \in Seq(Messages)
        /\ emitted \in Nat /\ Threads = {1}
    BY <1>1, BoundAssumption DEF IInv, Placed, TypeOK, Threads
  <2>1. ToSet(outgoing \o putting) = ToSet(outgoing) \cup ToSet(putting)
    <3> DEFINE n == Len(outgoing)  k == Len(putting)
    <3>1. /\ n \in Nat /\ k \in Nat /\ DOMAIN (outgoing \o putting) = 1 .. n + k
          /\ DOMAIN outgoing = 1 .. n /\ DOMAIN putting = 1 .. k
          /\ \A i \in 1 .. n : i \in 1 .. n + k /\ (outgoing \o putting)[i] = outgoing[i]
          /\ \A i \in 1 .. k : n + i \in 1 .. n + k /\ (outgoing \o putting)[n + i] = putting[i]
      BY <2>0
    <3> HIDE DEF n, k
    <3>2. \A i \in 1 .. n + k : i \in 1 .. n \/ (i - n \in 1 .. k /\ i = n + (i - n))
      BY <3>1
    <3>3. ToSet(outgoing \o putting) \subseteq ToSet(outgoing) \cup ToSet(putting)
      BY <3>1, <3>2 DEF ToSet
    <3>4. ToSet(outgoing) \cup ToSet(putting) \subseteq ToSet(outgoing \o putting)
      BY <3>1 DEF ToSet
    <3> QED BY <3>3, <3>4
  <2>2. CASE EmitBuffered
    <3> DEFINE longer == Append(buffer, emitted + 1)
    <3>1. d = Head(longer) /\ buffer' = Tail(longer)
      BY <2>2 DEF EmitBuffered
    <3>2. emitted + 1 \in Messages
      BY <2>0, <2>2, BoundAssumption DEF EmitBuffered, Messages
    <3>3. longer \in Seq(Messages) /\ longer # <<>> /\ ToSet(longer) = ToSet(buffer) \cup {emitted + 1}
      BY <2>0, <3>2, AppendType, Elements
    <3>4. Inc(longer)
      <4>1. \A i \in DOMAIN buffer : buffer[i] < emitted + 1
        BY <2>0, NextIsLast DEF Places
      <4> QED BY <2>0, <4>1, AppendOrder, MessagesAreNumbers DEF QueueOrdered
    <3> HIDE DEF longer
    <3>5. d \in ToSet(longer)
      BY <3>1, <3>3, TailElements
    <3>6. d \notin ToSet(outgoing \o putting)
      <4>1. \A s \in {outgoing, putting} : \A i \in DOMAIN s : s[i] \in Nat /\ s[i] < emitted + 1
        BY <2>0, NextIsLast, MessagesAreNumbers DEF Places
      <4>2. \A s \in {outgoing, putting} : \A i \in DOMAIN s : s[i] # emitted + 1
        BY <2>0, <4>1
      <4>3. emitted + 1 \notin ToSet(outgoing) \cup ToSet(putting)
        BY <4>2 DEF ToSet
      <4> QED BY <2>0, <2>1, <3>3, <3>5, <4>3 DEF Apart
    <3>7. \A i \in DOMAIN buffer' : d < buffer'[i]
      BY <3>1, <3>3, <3>4, TailOrder, MessagesAreNumbers
    <3> QED BY <3>6, <3>7 DEF ToSet
  <2>3. CASE Evict
    <3>1. d \in ToSet(outgoing \o putting)
      <4>1. ToSet(putting) = {putting[1]} /\ putting[1] \in Messages
        BY <2>0, <2>3, SingleElement DEF Evict, TypeOK
      <4>2. outgoing # <<>> => Head(outgoing) \in ToSet(outgoing)
        BY <2>0, TailElements
      <4> QED BY <2>1, <2>3, <4>1, <4>2 DEF Evict
    <3>2. CASE outgoing = <<>>
      <4>1. outgoing' = <<>>
        BY <2>3, <3>2 DEF Evict
      <4> QED BY <3>1, <4>1 DEF ToSet
    <3>3. CASE outgoing # <<>>
      <4> DEFINE rest == Tail(outgoing)  p == putting[1]
      <4>1. d = Head(outgoing) /\ outgoing' = Append(rest, p)
        BY <2>3, <3>3 DEF Evict
      <4>2. /\ \A i \in DOMAIN rest : d < rest[i]
            /\ \A j \in DOMAIN putting : d < putting[j]
            /\ rest \in Seq(Messages)
        <5>1. /\ outgoing \in Seq(Nat) /\ putting \in Seq(Nat) /\ rest \in Seq(Messages)
              /\ Inc(outgoing) /\ Below(outgoing, putting)
          BY <2>0, <3>3, MessagesAreNumbers DEF QueueOrdered
        <5>2. \A i \in DOMAIN rest : d < rest[i]
          BY <3>3, <4>1, <5>1, TailOrder
        <5>3. \A j \in DOMAIN putting : d < putting[j]
          BY <3>3, <4>1, <5>1, TailOrder
        <5> QED BY <5>1, <5>2, <5>3
      <4>3. 1 \in DOMAIN putting /\ p \in Messages
        BY <2>0, <2>3 DEF Evict
      <4> HIDE DEF rest, p
      <4>4. ToSet(outgoing') = ToSet(rest) \cup {p}
        BY <4>1, <4>2, <4>3, Elements
      <4>5. d < p
        <5>1. \A j \in DOMAIN putting : d < putting[j]
          BY <4>2, Zenon
        <5>2. d < putting[1]
          BY <4>3, <5>1
        <5> QED BY <5>2 DEF p
      <4> QED BY <3>1, <4>2, <4>4, <4>5 DEF ToSet
    <3> QED BY <3>2, <3>3
  <2>4. CASE ~ EmitBuffered /\ ~ Evict
    <3>1. dropped' = dropped
      BY <1>1, <2>4 DEF Next, Emit, EmitScheduled, EmitDirect, LoopPut, LoopEnds, Start, Stop,
         MarkInactive, Render, CopyBuffer, Replay, ClearBuffer, Poll, GetNowait, ShowMessage, vars
    <3> QED BY <3>1
  <2> QED BY <2>2, <2>3, <2>4
<1>2. IInv /\ Placed /\ [Next]_vars => [Oldest]_vars
  BY <1>1
<1>3. DropsOldest <=> [][Oldest]_vars
  BY PTL DEF DropsOldest
<1> QED BY <1>2, <1>3, PlacedAlways, PTL DEF Spec
===============================================================================

