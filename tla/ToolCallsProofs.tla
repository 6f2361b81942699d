-------------------------- MODULE ToolCallsProofs --------------------------
(***************************************************************************)
(* Proofs about the gate of the tool calls, for any calls, tools and       *)
(* limits.  A limit is tested before a call and charged after it, so the   *)
(* invariants charge a call as soon as it has passed the test: then the    *)
(* counter and the calls that passed never exceed the limit by more than   *)
(* the calls there are, less the one that passed last.                     *)
(***************************************************************************)
EXTENDS ToolCalls, FiniteSetTheorems, TLAPS

(* The calls that may still raise the breaker's counters, all of them and  *)
(* those of one tool, and those that may still be counted as reviews.      *)
PastBreaker ==
    {c \in Calls : \/ pc[c] \in {"running", "posting"}
                   \/ pc[c] = "checking" /\ "breaker" \notin left[c]}
PastBreakerOf(t) == {c \in PastBreaker : tool[c] = t}
PastDebate ==
    {c \in Calls : /\ tool[c] = "request_review"
                   /\ \/ pc[c] = "running"
                      \/ pc[c] = "checking" /\ "debate" \notin left[c]}

N == Cardinality(Calls)

(* Errors counted and still to be counted stay within the limits.          *)
ErrorInv ==
    /\ total + Cardinality(PastBreaker) <= MaxTotal + N - 1
    /\ \A t \in Tools : consec[t] + Cardinality(PastBreakerOf(t)) <= MaxErrors + N - 1

(* The same for reviews, while debate mode is on; it is switched only      *)
(* while no call is in flight.                                             *)
ReviewInv ==
    /\ ~inRun => \A c \in Calls : pc[c] = "idle"
    /\ ReviewsBounded
    /\ debate => /\ reviews + Cardinality(PastDebate) <= MaxReviews + N - 1
                 /\ revisions + Cardinality(PastDebate) <= MaxLoops + N - 1

(* A call that has passed plan mode is allowed, if the mode stayed.        *)
ModeInv ==
    \A c \in Calls :
        /\ steady[c]
        /\ \/ pc[c] = "running"
           \/ pc[c] = "checking" /\ "plan_mode" \notin left[c]
        => tool[c] \in Allowed(mode)

IInv == TypeOK /\ ErrorInv /\ ReviewInv /\ ModeInv

-----------------------------------------------------------------------------
LEMMA CallsCounted ==
    ASSUME NEW S \in SUBSET Calls
    PROVE  Cardinality(S) \in Nat /\ Cardinality(S) <= N
  BY ToolCallsAssumption, FS_Subset, FS_CardinalityType DEF N

LEMMA SomeCall == N \in Nat /\ N >= 1
  BY ToolCallsAssumption, FS_CardinalityType, FS_EmptySet DEF N

LEMMA FewerCounted ==
    ASSUME NEW S \in SUBSET Calls, NEW T \in SUBSET S
    PROVE  Cardinality(T) <= Cardinality(S)
  <1>1. IsFiniteSet(S)
    BY ToolCallsAssumption, FS_Subset
  <1> QED
    BY <1>1, FS_Subset

LEMMA OneFewer ==
    ASSUME NEW S \in SUBSET Calls, NEW c \in S, NEW T \in SUBSET (S \ {c})
    PROVE  Cardinality(T) <= Cardinality(S) - 1
  <1>1. IsFiniteSet(S)
    BY ToolCallsAssumption, FS_Subset
  <1>2. IsFiniteSet(S \ {c}) /\ Cardinality(S \ {c}) = Cardinality(S) - 1
    BY <1>1, FS_RemoveElement
  <1> QED
    BY <1>2, FS_Subset

-----------------------------------------------------------------------------
LEMMA TypeInit == Init => TypeOK
  <1> SUFFICES ASSUME Init PROVE TypeOK
    OBVIOUS
  <1> USE ToolCallsAssumption DEF Init
  <1>1. /\ inRun \in BOOLEAN /\ debate \in BOOLEAN
        /\ failed \in [Calls -> BOOLEAN] /\ steady \in [Calls -> BOOLEAN]
    BY Zenon
  <1>2. /\ consec \in [Tools -> Nat] /\ total \in Nat
        /\ mode \in Modes
        /\ reviews \in Nat /\ revisions \in Nat
    BY DEF Modes
  <1>3. pc \in [Calls -> PCs] /\ tool \in [Calls -> Tools \cup {"none"}]
    BY DEF PCs
  <1>4. left \in [Calls -> SUBSET Hooks]
    BY DEF Hooks
  <1>5. \A c \in Calls : /\ left[c] # {} => pc[c] = "checking"
                        /\ tool[c] = "none" <=> pc[c] = "idle"
    OBVIOUS
  <1> QED
    BY <1>1, <1>2, <1>3, <1>4, <1>5 DEF TypeOK

LEMMA ModeAfterType ==
    ASSUME mode \in Modes, NEW t
    PROVE  ModeAfter(t) \in Modes
  <1>1. DOMAIN ModeSet = {"enter_plan_mode", "exit_plan_mode", "approve_plan"}
    BY DEF ModeSet
  <1>2. \A u \in DOMAIN ModeSet : ModeSet[u] \in Modes
    BY <1>1 DEF ModeSet, Modes
  <1> QED
    BY <1>2 DEF ModeAfter

LEMMA ModeSetting ==
    ASSUME mode \in Modes, NEW c, Succeed(c) \/ CancelRunning(c)
    PROVE  \E m \in Modes : SetMode(m)
  <1>1. ModeAfter(tool[c]) \in Modes
    BY ModeAfterType
  <1>2. CASE Succeed(c)
    BY <1>1, <1>2, Zenon DEF Succeed
  <1>3. CASE CancelRunning(c)
    BY <1>1, <1>3, Zenon DEF CancelRunning
  <1> QED
    BY <1>2, <1>3

LEMMA TypeStep == TypeOK /\ [Next]_vars => TypeOK'
  <1> SUFFICES ASSUME TypeOK, [Next]_vars PROVE TypeOK'
    OBVIOUS
  <1> USE ToolCallsAssumption DEF TypeOK, Modes, PCs, Hooks, ToolNames, tracker, debateVars, callVars
  <1> DEFINE Flags == /\ inRun \in BOOLEAN /\ debate \in BOOLEAN
                      /\ failed \in [Calls -> BOOLEAN] /\ steady \in [Calls -> BOOLEAN]
             Rest == /\ consec \in [Tools -> Nat] /\ total \in Nat
                     /\ mode \in Modes
                     /\ reviews \in Nat /\ revisions \in Nat
                     /\ pc \in [Calls -> PCs] /\ tool \in [Calls -> Tools \cup {"none"}]
                     /\ left \in [Calls -> SUBSET Hooks]
                     /\ \A c \in Calls : /\ left[c] # {} => pc[c] = "checking"
                                         /\ tool[c] = "none" <=> pc[c] = "idle"
  <1>1. CASE Between
    <2>1. Flags'
      <3>1. CASE StartRun \/ EndRun \/ DebateSwitch \/ DebateReset
        BY <3>1, Zenon DEF StartRun, EndRun, DebateSwitch, DebateReset
      <3>2. ASSUME NEW m, SetMode(m), UNCHANGED <<inRun, debateVars, callVars>>
            PROVE  Flags'
        BY <3>2, Zenon DEF SetMode
      <3> QED
        BY <1>1, <3>1, <3>2, Zenon DEF Between, ModeCommand
    <2>2. Rest'
      BY <1>1, SMT DEF Between, StartRun, EndRun, ModeCommand, DebateSwitch, DebateReset, SetMode, CycleMode
    <2> QED
      BY <2>1, <2>2
  <1>2. ASSUME NEW c \in Calls, Call(c) PROVE TypeOK'
    <2>1. CASE Begin(c)
      BY <2>1 DEF Begin
    <2>2. CASE Over(c) /\ UNCHANGED tracker
      BY <2>2 DEF Over
    <2>3. ASSUME NEW h \in Hooks, pc[c] = "checking", Pass(c, h) PROVE TypeOK'
      BY <2>3 DEF Pass
    <2>4. CASE CheckBreaker(c) \/ CheckPlanMode(c) \/ CheckDebate(c)
      BY <2>2, <2>3, <2>4 DEF CheckBreaker, CheckPlanMode, CheckDebate, Check, Refuse
    <2>5. CASE OtherHookBlocks(c) \/ CancelInHooks(c)
      BY <2>2, <2>5 DEF OtherHookBlocks, CancelInHooks, Refuse
    <2>6. CASE Run(c)
      BY <2>6 DEF Run
    <2>7. CASE Succeed(c) \/ CancelRunning(c)
      <3>1. PICK m \in Modes : SetMode(m)
        BY <2>7, ModeSetting
      <3>2. Ends(c, FALSE) /\ UNCHANGED debateVars
        BY <2>7 DEF Succeed, CancelRunning
      <3>3. Flags'
        BY <3>1, <3>2, Zenon DEF Ends, SetMode
      <3>4. Rest'
        BY <3>1, <3>2 DEF Ends, SetMode
      <3> QED
        BY <3>3, <3>4
    <2>8. CASE Review(c) \/ Fail(c)
      <3>1. Flags'
        BY <2>8, Zenon DEF Review, Fail, Ends
      <3>2. Rest'
        BY <2>8 DEF Review, Fail, Ends
      <3> QED
        BY <3>1, <3>2
    <2>9. CASE Post(c)
      <3>1. tool[c] \in Tools
        BY <2>9 DEF Post
      <3>2. consec' \in [Tools -> Nat] /\ total' \in Nat
        <4>1. CASE failed[c]
          <5>1. consec' = [consec EXCEPT ![tool[c]] = @ + 1] /\ total' = total + 1
            BY <2>9, <4>1, Zenon DEF Post
          <5>2. consec[tool[c]] \in Nat /\ total \in Nat
            BY <3>1, Zenon
          <5>3. consec[tool[c]] + 1 \in Nat /\ total + 1 \in Nat
            BY <5>2
          <5>4. total' \in Nat
            BY <5>1, <5>3
          <5>5. consec' \in [Tools -> Nat]
            BY <3>1, <5>1, <5>3
          <5> QED
            BY <5>4, <5>5
        <4>2. CASE ~failed[c]
          <5>1. consec' = [consec EXCEPT ![tool[c]] = 0] /\ total' = total
            BY <2>9, <4>2, Zenon DEF Post
          <5> QED
            BY <3>1, <5>1
        <4> QED
          BY <4>1, <4>2
      <3>3. Flags'
        BY <2>9, Zenon DEF Post, Over
      <3>4. Rest'
        BY <2>9, <3>2 DEF Post, Over
      <3> QED
        BY <3>3, <3>4
    <2> QED
      BY <1>2, <2>1, <2>4, <2>5, <2>6, <2>7, <2>8, <2>9 DEF Call
  <1>3. CASE UNCHANGED vars
    BY <1>3 DEF vars
  <1> QED
    BY <1>1, <1>2, <1>3 DEF Next

-----------------------------------------------------------------------------
LEMMA ErrorInit == Init => ErrorInv
  <1> SUFFICES ASSUME Init PROVE ErrorInv
    OBVIOUS
  <1>1. PastBreaker = {} /\ \A t \in Tools : PastBreakerOf(t) = {}
    BY DEF Init, PastBreaker, PastBreakerOf
  <1>2. total = 0 /\ \A t \in Tools : consec[t] = 0
    BY DEF Init
  <1>3. Cardinality(PastBreaker) = 0 /\ \A t \in Tools : Cardinality(PastBreakerOf(t)) = 0
    BY <1>1, FS_EmptySet
  <1>4. MaxTotal >= 1 /\ MaxErrors >= 1 /\ MaxTotal \in Nat /\ MaxErrors \in Nat
    BY ToolCallsAssumption
  <1>5. total + Cardinality(PastBreaker) <= MaxTotal + N - 1
    BY <1>2, <1>3, <1>4, SomeCall
  <1>6. ASSUME NEW t \in Tools
        PROVE  consec[t] + Cardinality(PastBreakerOf(t)) <= MaxErrors + N - 1
    BY <1>2, <1>3, <1>4, SomeCall
  <1> QED
    BY <1>5, <1>6 DEF ErrorInv

\* The calls past the breaker are among those that were, under their names.
FewerPast == \A d \in Calls :
    d \in PastBreaker' => d \in PastBreaker /\ tool'[d] = tool[d]

LEMMA FewerPastKeeps ==
    ASSUME TypeOK, ErrorInv, FewerPast,
           \/ UNCHANGED tracker
           \/ total' = 0 /\ consec' = [t \in Tools |-> 0]
    PROVE  ErrorInv'
  <1>1. PastBreaker' \in SUBSET PastBreaker /\ PastBreaker \in SUBSET Calls
    BY DEF FewerPast, PastBreaker
  <1>2. total' + Cardinality(PastBreaker') <= MaxTotal + N - 1
    <2>1. Cardinality(PastBreaker') <= Cardinality(PastBreaker)
      BY <1>1, FewerCounted
    <2>2. /\ Cardinality(PastBreaker') \in Nat /\ Cardinality(PastBreaker) \in Nat
          /\ N \in Nat /\ MaxTotal \in Nat /\ total \in Nat
      BY <1>1, CallsCounted, SomeCall, ToolCallsAssumption DEF TypeOK
    <2>3. total' <= total /\ total' \in Nat
      BY <2>2 DEF tracker
    <2> QED
      BY <2>1, <2>2, <2>3 DEF ErrorInv
  <1>3. ASSUME NEW t \in Tools
        PROVE  consec'[t] + Cardinality(PastBreakerOf(t)') <= MaxErrors + N - 1
    <2>1. PastBreakerOf(t)' \in SUBSET PastBreakerOf(t) /\ PastBreakerOf(t) \in SUBSET Calls
      BY <1>1 DEF FewerPast, PastBreakerOf
    <2>2. Cardinality(PastBreakerOf(t)') <= Cardinality(PastBreakerOf(t))
      BY <2>1, FewerCounted
    <2>3. /\ Cardinality(PastBreakerOf(t)') \in Nat /\ Cardinality(PastBreakerOf(t)) \in Nat
          /\ N \in Nat /\ MaxErrors \in Nat /\ consec[t] \in Nat
      BY <2>1, CallsCounted, SomeCall, ToolCallsAssumption DEF TypeOK
    <2>4. consec'[t] <= consec[t] /\ consec'[t] \in Nat
      BY <2>3 DEF tracker
    <2> QED
      BY <2>2, <2>3, <2>4 DEF ErrorInv
  <1> QED
    BY <1>2, <1>3 DEF ErrorInv

LEMMA PassingBreaker ==
    ASSUME TypeOK, ErrorInv, NEW c \in Calls, tool[c] \in Tools,
           consec[tool[c]] < MaxErrors, total < MaxTotal,
           UNCHANGED <<tracker, tool>>,
           PastBreaker' \subseteq PastBreaker \cup {c}
    PROVE  ErrorInv'
  <1>1. PastBreaker' \in SUBSET Calls
    BY DEF PastBreaker
  <1>2. total' + Cardinality(PastBreaker') <= MaxTotal + N - 1
    BY <1>1, CallsCounted, SomeCall, ToolCallsAssumption DEF TypeOK, tracker
  <1>3. ASSUME NEW t \in Tools
        PROVE  consec'[t] + Cardinality(PastBreakerOf(t)') <= MaxErrors + N - 1
    <2>1. PastBreakerOf(t)' \in SUBSET Calls /\ PastBreakerOf(t) \in SUBSET Calls
      BY <1>1 DEF PastBreakerOf, PastBreaker
    <2>2. /\ Cardinality(PastBreakerOf(t)') \in Nat /\ Cardinality(PastBreakerOf(t)) \in Nat
          /\ Cardinality(PastBreakerOf(t)') <= N
          /\ N \in Nat /\ MaxErrors \in Nat /\ consec[t] \in Nat /\ consec'[t] = consec[t]
      BY <2>1, CallsCounted, SomeCall, ToolCallsAssumption DEF TypeOK, tracker
    <2>3. CASE t = tool[c]
      BY <2>2, <2>3
    <2>4. CASE t # tool[c]
      <3>1. PastBreakerOf(t)' \in SUBSET PastBreakerOf(t)
        BY <2>4 DEF PastBreakerOf
      <3>2. Cardinality(PastBreakerOf(t)') <= Cardinality(PastBreakerOf(t))
        BY <3>1, <2>1, FewerCounted
      <3> QED
        BY <3>2, <2>2 DEF ErrorInv
    <2> QED
      BY <2>3, <2>4
  <1> QED
    BY <1>2, <1>3 DEF ErrorInv

LEMMA PostCounts ==
    ASSUME TypeOK, ErrorInv, NEW c \in Calls, Post(c)
    PROVE  ErrorInv'
  <1>1. /\ tool[c] \in Tools /\ c \in PastBreaker
        /\ PastBreaker' \in SUBSET (PastBreaker \ {c}) /\ PastBreaker \in SUBSET Calls
    BY DEF Post, Over, TypeOK, PastBreaker
  <1>2. \A d \in Calls : d # c => tool'[d] = tool[d]
    BY DEF Post, Over, TypeOK
  <1>3. total' + Cardinality(PastBreaker') <= MaxTotal + N - 1
    <2>1. Cardinality(PastBreaker') <= Cardinality(PastBreaker) - 1
      BY <1>1, OneFewer
    <2>2. total' = total + 1 \/ total' = total
      BY Zenon DEF Post
    <2>3. /\ Cardinality(PastBreaker') \in Nat /\ Cardinality(PastBreaker) \in Nat
          /\ N \in Nat /\ MaxTotal \in Nat /\ total \in Nat
      BY <1>1, CallsCounted, SomeCall, ToolCallsAssumption DEF TypeOK
    <2> QED
      BY <2>1, <2>2, <2>3 DEF ErrorInv
  <1>4. ASSUME NEW t \in Tools
        PROVE  consec'[t] + Cardinality(PastBreakerOf(t)') <= MaxErrors + N - 1
    <2>1. /\ PastBreakerOf(t)' \in SUBSET (PastBreakerOf(t) \ {c})
          /\ PastBreakerOf(t)' \in SUBSET PastBreakerOf(t)
          /\ PastBreakerOf(t) \in SUBSET Calls
      BY <1>1, <1>2 DEF PastBreakerOf
    <2>2. /\ Cardinality(PastBreakerOf(t)') \in Nat /\ Cardinality(PastBreakerOf(t)) \in Nat
          /\ N \in Nat /\ MaxErrors \in Nat /\ consec[t] \in Nat
      BY <2>1, CallsCounted, SomeCall, ToolCallsAssumption DEF TypeOK
    <2>3. Cardinality(PastBreakerOf(t)') <= Cardinality(PastBreakerOf(t))
      BY <2>1, FewerCounted
    <2>4. CASE t = tool[c]
      <3>1. c \in PastBreakerOf(t)
        BY <1>1, <2>4 DEF PastBreakerOf
      <3>2. Cardinality(PastBreakerOf(t)') <= Cardinality(PastBreakerOf(t)) - 1
        BY <3>1, <2>1, OneFewer
      <3>3. \/ consec' = [consec EXCEPT ![t] = @ + 1]
            \/ consec' = [consec EXCEPT ![t] = 0]
        BY <2>4, Zenon DEF Post
      <3>4. consec'[t] = consec[t] + 1 \/ consec'[t] = 0
        BY <3>3 DEF TypeOK
      <3> QED
        BY <3>2, <3>4, <2>2 DEF ErrorInv
    <2>5. CASE t # tool[c]
      <3>1. consec'[t] = consec[t]
        BY <2>5 DEF Post, TypeOK
      <3> QED
        BY <3>1, <2>2, <2>3 DEF ErrorInv
    <2> QED
      BY <2>4, <2>5
  <1> QED
    BY <1>3, <1>4 DEF ErrorInv

LEMMA ErrorStep == TypeOK /\ ErrorInv /\ [Next]_vars => ErrorInv'
  <1> SUFFICES ASSUME TypeOK, ErrorInv, [Next]_vars PROVE ErrorInv'
    OBVIOUS
  <1> USE DEF tracker, debateVars, callVars
  <1>1. CASE Between
    <2>1. UNCHANGED callVars
      BY <1>1 DEF Between, StartRun, EndRun, ModeCommand, DebateSwitch, DebateReset
    <2>2. FewerPast
      BY <2>1 DEF FewerPast, PastBreaker
    <2>3. \/ UNCHANGED tracker
          \/ total' = 0 /\ consec' = [t \in Tools |-> 0]
      BY <1>1 DEF Between, StartRun, EndRun, ModeCommand, DebateSwitch, DebateReset
    <2> QED
      BY <2>2, <2>3, FewerPastKeeps
  <1>2. ASSUME NEW c \in Calls, Call(c) PROVE ErrorInv'
    <2>1. ASSUME UNCHANGED tracker, FewerPast PROVE ErrorInv'
      BY <2>1, FewerPastKeeps
    <2>2. CASE Begin(c)
      <3>1. FewerPast
        BY <2>2 DEF Begin, FewerPast, PastBreaker, TypeOK, Hooks
      <3> QED
        BY <2>1, <2>2, <3>1 DEF Begin
    <2>3. CASE Refuse(c)
      <3>1. FewerPast
        BY <2>3 DEF Refuse, Over, FewerPast, PastBreaker, TypeOK
      <3> QED
        BY <2>1, <2>3, <3>1 DEF Refuse
    <2>4. ASSUME NEW h, h # "breaker", pc[c] = "checking", Pass(c, h) PROVE ErrorInv'
      <3>1. FewerPast
        BY <2>4 DEF Pass, FewerPast, PastBreaker, TypeOK
      <3> QED
        BY <2>1, <2>4, <3>1 DEF Pass
    <2>5. CASE CheckBreaker(c)
      <3>1. CASE Refuse(c)
        BY <2>3, <3>1
      <3>2. CASE /\ consec[tool[c]] < MaxErrors /\ total < MaxTotal
                 /\ pc[c] = "checking" /\ Pass(c, "breaker")
        <4>1. tool[c] \in Tools
          BY <3>2 DEF TypeOK
        <4>2. UNCHANGED <<tracker, tool>>
          BY <3>2 DEF Pass
        <4>3. PastBreaker' \subseteq PastBreaker \cup {c}
          BY <3>2 DEF Pass, PastBreaker, TypeOK
        <4> QED
          BY <3>2, <4>1, <4>2, <4>3, PassingBreaker
      <3> QED
        BY <2>5, <3>1, <3>2 DEF CheckBreaker, Check
    <2>6. CASE CheckPlanMode(c) \/ CheckDebate(c)
      BY <2>3, <2>4, <2>6 DEF CheckPlanMode, CheckDebate, Check
    <2>7. CASE OtherHookBlocks(c) \/ CancelInHooks(c)
      BY <2>3, <2>7 DEF OtherHookBlocks, CancelInHooks
    <2>8. CASE Run(c)
      <3>1. FewerPast
        BY <2>8 DEF Run, FewerPast, PastBreaker, TypeOK
      <3> QED
        BY <2>1, <2>8, <3>1 DEF Run
    <2>9. CASE \E e \in BOOLEAN : Ends(c, e)
      <3>1. FewerPast
        BY <2>9 DEF Ends, FewerPast, PastBreaker, TypeOK
      <3> QED
        BY <2>1, <2>9, <3>1 DEF Ends
    <2>10. CASE Succeed(c) \/ Review(c) \/ Fail(c) \/ CancelRunning(c)
      BY <2>9, <2>10, Zenon DEF Succeed, Review, Fail, CancelRunning
    <2>11. CASE Post(c)
      BY <2>11, PostCounts
    <2> QED
      BY <1>2, <2>2, <2>5, <2>6, <2>7, <2>8, <2>10, <2>11 DEF Call
  <1>3. CASE UNCHANGED vars
    <2>1. FewerPast
      BY <1>3 DEF FewerPast, PastBreaker, vars
    <2> QED
      BY <1>3, <2>1, FewerPastKeeps DEF vars
  <1> QED
    BY <1>1, <1>2, <1>3 DEF Next

-----------------------------------------------------------------------------
LEMMA ReviewInit == Init => ReviewInv
  <1> SUFFICES ASSUME Init PROVE ReviewInv
    OBVIOUS
  <1>1. PastDebate = {}
    BY DEF Init, PastDebate
  <1>2. Cardinality(PastDebate) = 0 /\ reviews = 0 /\ revisions = 0
    BY <1>1, FS_EmptySet DEF Init
  <1>3. \A c \in Calls : pc[c] = "idle"
    BY DEF Init
  <1>4. MaxReviews >= 1 /\ MaxLoops >= 1 /\ MaxReviews \in Nat /\ MaxLoops \in Nat
    BY ToolCallsAssumption
  <1>5. /\ reviews + Cardinality(PastDebate) <= MaxReviews + N - 1
        /\ revisions + Cardinality(PastDebate) <= MaxLoops + N - 1
        /\ reviews <= MaxReviews + N - 1 /\ revisions <= MaxLoops + N - 1
    BY <1>2, <1>4, SomeCall
  <1> QED
    BY <1>3, <1>5 DEF ReviewInv, ReviewsBounded, N

\* What the limits bound, as numbers.
LEMMA ReviewNumbers ==
    ASSUME TypeOK
    PROVE  /\ PastDebate \in SUBSET Calls /\ Cardinality(PastDebate) \in Nat
           /\ Cardinality(PastDebate) <= N
           /\ N \in Nat /\ N >= 1 /\ MaxReviews \in Nat /\ MaxLoops \in Nat
           /\ reviews \in Nat /\ revisions \in Nat
  <1>1. PastDebate \in SUBSET Calls
    BY DEF PastDebate
  <1> QED
    BY <1>1, CallsCounted, SomeCall, ToolCallsAssumption DEF TypeOK

\* No review is under way outside a run.
StillQuiet == ~inRun' => \A d \in Calls : pc'[d] = "idle"

LEMMA FewerReviewsKeep ==
    ASSUME TypeOK, TypeOK', ReviewInv, StillQuiet,
           PastDebate' \subseteq PastDebate, UNCHANGED debateVars
    PROVE  ReviewInv'
  <1>1. Cardinality(PastDebate') <= Cardinality(PastDebate)
    BY ReviewNumbers, FewerCounted
  <1>2. Cardinality(PastDebate') \in Nat
    BY ReviewNumbers, CallsCounted
  <1> QED
    BY <1>1, <1>2, ReviewNumbers DEF ReviewInv, ReviewsBounded, StillQuiet, debateVars, N

LEMMA ReviewStep == TypeOK /\ TypeOK' /\ ReviewInv /\ [Next]_vars => ReviewInv'
  <1> SUFFICES ASSUME TypeOK, TypeOK', ReviewInv, [Next]_vars PROVE ReviewInv'
    OBVIOUS
  <1> USE DEF tracker, debateVars, callVars
  <1>1. CASE Between
    <2>1. CASE StartRun \/ EndRun \/ ModeCommand
      <3>1. UNCHANGED callVars /\ UNCHANGED debateVars
        BY <2>1 DEF StartRun, EndRun, ModeCommand
      <3>2. PastDebate' \subseteq PastDebate
        BY <3>1 DEF PastDebate
      <3>3. StillQuiet
        BY <2>1 DEF StillQuiet, StartRun, EndRun, ModeCommand, ReviewInv, Quiet
      <3> QED
        BY <3>1, <3>2, <3>3, FewerReviewsKeep
    <2>2. CASE DebateSwitch \/ DebateReset
      <3>1. ~inRun /\ ~inRun' /\ UNCHANGED pc
        BY <2>2 DEF DebateSwitch, DebateReset
      <3>2. \A c \in Calls : pc'[c] = "idle"
        BY <3>1 DEF ReviewInv
      <3>3. PastDebate' = {}
        BY <3>2 DEF PastDebate
      <3>4. Cardinality(PastDebate') = 0
        BY <3>3, FS_EmptySet
      <3>5. ReviewsBounded'
        <4>1. \/ reviews' = reviews /\ revisions' = revisions
              \/ reviews' = 0 /\ revisions' = 0
          BY <2>2 DEF DebateSwitch, DebateReset
        <4> QED
          BY <4>1, ReviewNumbers, ToolCallsAssumption DEF ReviewInv, ReviewsBounded, N
      <3> QED
        BY <3>2, <3>4, <3>5, ReviewNumbers DEF ReviewInv, ReviewsBounded, TypeOK, N
    <2> QED
      BY <1>1, <2>1, <2>2 DEF Between
  <1>2. ASSUME NEW c \in Calls, Call(c) PROVE ReviewInv'
    <2>1. ASSUME UNCHANGED debateVars, UNCHANGED inRun, pc'[c] = "idle" \/ inRun \/ pc[c] # "idle",
                 \A d \in Calls : d # c => pc'[d] = pc[d],
                 PastDebate' \subseteq PastDebate
          PROVE  ReviewInv'
      <3>1. StillQuiet
        BY <2>1 DEF StillQuiet, ReviewInv
      <3> QED
        BY <2>1, <3>1, FewerReviewsKeep
    <2>2. CASE Begin(c)
      <3>1. PastDebate' \subseteq PastDebate
        BY <2>2 DEF Begin, PastDebate, TypeOK, Hooks
      <3> QED
        BY <2>1, <2>2, <3>1 DEF Begin, TypeOK
    <2>3. CASE Over(c)
      <3>1. PastDebate' \subseteq PastDebate
        BY <2>3 DEF Over, PastDebate, TypeOK
      <3> QED
        BY <2>1, <2>3, <3>1 DEF Over, TypeOK
    <2>4. ASSUME NEW h, h # "debate", pc[c] = "checking", Pass(c, h) PROVE ReviewInv'
      <3>1. PastDebate' \subseteq PastDebate
        BY <2>4 DEF Pass, PastDebate, TypeOK
      <3> QED
        BY <2>1, <2>4, <3>1 DEF Pass
    <2>5. CASE CheckDebate(c)
      <3>1. CASE Refuse(c)
        BY <2>3, <3>1 DEF Refuse
      <3>2. CASE /\ tool[c] = "request_review" /\ debate => reviews < MaxReviews /\ revisions < MaxLoops
                 /\ pc[c] = "checking" /\ Pass(c, "debate")
        <4>1. CASE tool[c] = "request_review"
          <5>1. StillQuiet
            BY <3>2 DEF StillQuiet, Pass, ReviewInv
          <5>2. PastDebate' \in SUBSET Calls
            BY DEF PastDebate
          <5>3. Cardinality(PastDebate') \in Nat /\ Cardinality(PastDebate') <= N
            BY <5>2, CallsCounted
          <5>4. UNCHANGED debateVars
            BY <3>2 DEF Pass
          <5> QED
            BY <3>2, <4>1, <5>1, <5>3, <5>4, ReviewNumbers DEF ReviewInv, ReviewsBounded, StillQuiet, N
        <4>2. CASE tool[c] # "request_review"
          <5>1. PastDebate' \subseteq PastDebate
            BY <3>2, <4>2 DEF Pass, PastDebate, TypeOK
          <5> QED
            BY <2>1, <3>2, <5>1 DEF Pass
        <4> QED
          BY <4>1, <4>2
      <3> QED
        BY <2>5, <3>1, <3>2 DEF CheckDebate, Check
    <2>6. CASE CheckBreaker(c) \/ CheckPlanMode(c)
      BY <2>3, <2>4, <2>6 DEF CheckBreaker, CheckPlanMode, Check, Refuse
    <2>7. CASE OtherHookBlocks(c) \/ CancelInHooks(c) \/ Post(c)
      BY <2>3, <2>7 DEF OtherHookBlocks, CancelInHooks, Refuse, Post
    <2>8. CASE Run(c)
      <3>1. PastDebate' \subseteq PastDebate
        BY <2>8 DEF Run, PastDebate, TypeOK
      <3> QED
        BY <2>1, <2>8, <3>1 DEF Run, TypeOK
    <2>9. CASE Succeed(c) \/ Fail(c) \/ CancelRunning(c)
      <3>1. /\ \E e \in BOOLEAN : Ends(c, e)
            /\ UNCHANGED debateVars
        BY <2>9, Zenon DEF Succeed, Fail, CancelRunning
      <3>2. PastDebate' \subseteq PastDebate
        BY <3>1 DEF Ends, PastDebate, TypeOK
      <3> QED
        BY <2>1, <3>1, <3>2 DEF Ends, TypeOK
    <2>10. CASE Review(c)
      <3>1. /\ pc[c] = "running" /\ tool[c] = "request_review" /\ debate
            /\ UNCHANGED <<inRun, tool, left, debate>> /\ pc' = [pc EXCEPT ![c] = "posting"]
        BY <2>10 DEF Review, Ends
      <3>2. PastDebate' \in SUBSET (PastDebate \ {c}) /\ c \in PastDebate
        BY <3>1 DEF PastDebate, TypeOK
      <3>3. Cardinality(PastDebate') <= Cardinality(PastDebate) - 1
        BY <3>2, ReviewNumbers, OneFewer
      <3>4. Cardinality(PastDebate') \in Nat
        BY <3>2, ReviewNumbers, CallsCounted
      <3>5. /\ reviews' = reviews + 1
            /\ revisions' = 0 \/ revisions' = revisions + 1
        BY <2>10 DEF Review
      <3>6. inRun
        BY <3>1 DEF ReviewInv
      <3> QED
        BY <3>1, <3>3, <3>4, <3>5, <3>6, ReviewNumbers DEF ReviewInv, ReviewsBounded, N
    <2> QED
      BY <1>2, <2>2, <2>5, <2>6, <2>7, <2>8, <2>9, <2>10 DEF Call
  <1>3. CASE UNCHANGED vars
    BY <1>3 DEF vars, ReviewInv, ReviewsBounded, PastDebate
  <1> QED
    BY <1>1, <1>2, <1>3 DEF Next

-----------------------------------------------------------------------------
LEMMA ModeInit == Init => ModeInv
  BY DEF Init, ModeInv

\* The calls that plan mode has let pass.
PastPlanMode(c) == \/ pc[c] = "running"
                   \/ pc[c] = "checking" /\ "plan_mode" \notin left[c]

\* A step of c that leaves the mode alone only has to answer for c.
LEMMA OthersKeepMode ==
    ASSUME ModeInv, UNCHANGED mode, NEW c \in Calls,
           \A d \in Calls : d # c => UNCHANGED <<pc[d], tool[d], left[d], steady[d]>>,
           steady'[c] /\ PastPlanMode(c)' => tool'[c] \in Allowed(mode)
    PROVE  ModeInv'
  BY DEF ModeInv, PastPlanMode, Allowed

LEMMA SettingKeepsMode ==
    ASSUME TypeOK, ModeInv, NEW m, SetMode(m), UNCHANGED <<tool, left>>,
           \A d \in Calls : pc'[d] # "idle" => pc[d] # "idle",
           \A d \in Calls : PastPlanMode(d)' => PastPlanMode(d)
    PROVE  ModeInv'
  <1> SUFFICES ASSUME NEW d \in Calls, steady'[d], PastPlanMode(d)'
               PROVE  tool'[d] \in Allowed(mode')
    BY DEF ModeInv, PastPlanMode
  <1>1. pc[d] # "idle"
    BY DEF PastPlanMode
  <1>2. steady'[d] = (steady[d] /\ (m = mode \/ pc[d] = "idle")) /\ mode' = m
    BY DEF SetMode
  <1>3. steady[d] /\ mode' = mode
    BY <1>1, <1>2
  <1> QED
    BY <1>3 DEF ModeInv, PastPlanMode

LEMMA ModeStep == TypeOK /\ ModeInv /\ [Next]_vars => ModeInv'
  <1> SUFFICES ASSUME TypeOK, ModeInv, [Next]_vars PROVE ModeInv'
    OBVIOUS
  <1> USE DEF tracker, debateVars, callVars
  <1>1. CASE Between
    <2>1. CASE StartRun \/ EndRun \/ DebateSwitch \/ DebateReset
      BY <2>1 DEF StartRun, EndRun, DebateSwitch, DebateReset, ModeInv, Allowed
    <2>2. ASSUME NEW m, SetMode(m), UNCHANGED callVars PROVE ModeInv'
      BY <2>2, SettingKeepsMode DEF PastPlanMode
    <2> QED
      BY <1>1, <2>1, <2>2, Zenon DEF Between, ModeCommand
  <1>2. ASSUME NEW c \in Calls, Call(c) PROVE ModeInv'
    <2>1. CASE Begin(c)
      BY <2>1, OthersKeepMode DEF Begin, TypeOK, PastPlanMode, Hooks
    <2>2. CASE Over(c)
      BY <2>2, OthersKeepMode DEF Over, TypeOK, PastPlanMode
    <2>3. ASSUME NEW h, h # "plan_mode", pc[c] = "checking", Pass(c, h) PROVE ModeInv'
      <3>1. steady'[c] /\ PastPlanMode(c)' => tool'[c] \in Allowed(mode)
        BY <2>3 DEF Pass, TypeOK, PastPlanMode, ModeInv
      <3> QED
        BY <2>3, <3>1, OthersKeepMode DEF Pass, TypeOK
    <2>4. CASE CheckPlanMode(c)
      <3>1. CASE Refuse(c)
        BY <2>2, <3>1 DEF Refuse
      <3>2. CASE tool[c] \in Allowed(mode) /\ Pass(c, "plan_mode")
        BY <3>2, OthersKeepMode DEF Pass, TypeOK
      <3> QED
        BY <2>4, <3>1, <3>2 DEF CheckPlanMode, Check
    <2>5. CASE CheckBreaker(c) \/ CheckDebate(c)
      BY <2>2, <2>3, <2>5 DEF CheckBreaker, CheckDebate, Check, Refuse
    <2>6. CASE OtherHookBlocks(c) \/ CancelInHooks(c) \/ Post(c)
      BY <2>2, <2>6 DEF OtherHookBlocks, CancelInHooks, Refuse, Post
    <2>7. CASE Run(c)
      <3>1. steady'[c] /\ PastPlanMode(c)' => tool'[c] \in Allowed(mode)
        BY <2>7 DEF Run, TypeOK, PastPlanMode, ModeInv
      <3> QED
        BY <2>7, <3>1, OthersKeepMode DEF Run, TypeOK
    <2>8. CASE Review(c) \/ Fail(c)
      <3>1. UNCHANGED <<mode, steady, tool, left>> /\ pc' = [pc EXCEPT ![c] = "posting"]
        BY <2>8, Zenon DEF Review, Fail, Ends
      <3> QED
        BY <3>1, OthersKeepMode DEF TypeOK, PastPlanMode
    <2>9. CASE Succeed(c) \/ CancelRunning(c)
      <3>1. PICK m \in Modes : SetMode(m)
        BY <2>9, ModeSetting DEF TypeOK
      <3>2. /\ pc[c] = "running" /\ UNCHANGED <<tool, left>>
            /\ pc' = [pc EXCEPT ![c] = "posting"]
        BY <2>9, Zenon DEF Succeed, CancelRunning, Ends
      <3> QED
        BY <3>1, <3>2, SettingKeepsMode DEF TypeOK, PastPlanMode
    <2> QED
      BY <1>2, <2>1, <2>4, <2>5, <2>6, <2>7, <2>8, <2>9 DEF Call
  <1>3. CASE UNCHANGED vars
    BY <1>3 DEF vars, ModeInv, Allowed
  <1> QED
    BY <1>1, <1>2, <1>3 DEF Next

-----------------------------------------------------------------------------
(* The variables keep their types, for any calls, tools and limits.        *)
THEOREM TypeCorrect == Spec => []TypeOK
  BY TypeInit, TypeStep, PTL DEF Spec

(* The strengthening of the properties below is an invariant.              *)
THEOREM InductiveInvariant == Spec => []IInv
  <1>1. Init => IInv
    BY TypeInit, ErrorInit, ReviewInit, ModeInit DEF IInv
  <1>2. IInv /\ [Next]_vars => IInv'
    BY TypeStep, ErrorStep, ReviewStep, ModeStep DEF IInv
  <1> QED
    BY <1>1, <1>2, PTL DEF Spec

(* However many calls of a response and of subagents run side by side,     *)
(* errors exceed the breaker's limits by fewer than those calls.           *)
THEOREM ErrorsStayBounded == Spec => []ErrorsBounded
  <1>1. IInv => ErrorsBounded
    <2> SUFFICES ASSUME IInv PROVE ErrorsBounded
      OBVIOUS
    <2>1. /\ Cardinality(PastBreaker) \in Nat
          /\ \A t \in Tools : Cardinality(PastBreakerOf(t)) \in Nat
      BY CallsCounted DEF PastBreaker, PastBreakerOf
    <2> QED
      BY <2>1, SomeCall, ToolCallsAssumption DEF IInv, TypeOK, ErrorInv, ErrorsBounded, N
  <1> QED
    BY <1>1, InductiveInvariant, PTL

(* Reviews, and revisions in a row, exceed their budgets by fewer than the *)
(* calls side by side, also if debate mode is switched between runs.       *)
THEOREM ReviewsStayBounded == Spec => []ReviewsBounded
  <1>1. IInv => ReviewsBounded
    BY DEF IInv, ReviewInv
  <1> QED
    BY <1>1, InductiveInvariant, PTL

(* A tool runs only in a mode that allows it, unless the mode has changed  *)
(* since the call began.                                                   *)
THEOREM ModeIsHonoured == Spec => []ModeHonoured
  <1>1. IInv => ModeHonoured
    BY DEF IInv, ModeInv, ModeHonoured
  <1> QED
    BY <1>1, InductiveInvariant, PTL
=============================================================================
