--------------------------- MODULE AgentRunProofs ---------------------------
(***************************************************************************)
(* Proofs about the run of an agent, for any number of tries, retries,     *)
(* continuations and reviews.  The requests of a prompt are bounded by     *)
(* where the run is: by the attempts made and the tries of the current one *)
(* during the first call, by the continuations used afterwards.            *)
(***************************************************************************)
EXTENDS AgentRun, TLAPS

(* What n attempts of the first call, and n continuations, may cost.       *)
Attempts(n) == n * (MaxTries + 1)
Retries(n) == n * MaxTries
FirstCall == Attempts(MaxHook + 1)

Used == hookUsed + criticUsed
Asking == {"request", "backoff"}
Recovering == {"fallback", "exception", "delay"}

\* TypeOK in two parts, for the provers.
Flags == again \in BOOLEAN /\ asks \in BOOLEAN /\ cancel \in BOOLEAN
Counters ==
    /\ pc \in PCs /\ kind \in Kinds /\ outcome \in Outcomes \cup {"none"}
    /\ tries \in 0..MaxTries /\ attempt \in 0..MaxHook
    /\ hookUsed \in 0..MaxHook /\ criticUsed \in 0..MaxCritic
    /\ iteration \in Nat /\ requests \in Nat /\ rewrites \in Nat

(* Only the first call is recovered from exceptions, and only while        *)
(* attempts are left; a continuation is decided while the loop goes on.    *)
PlaceInv ==
    /\ pc = "backoff" => tries < MaxTries
    /\ pc \in {"exception", "delay"} => attempt < MaxHook
    /\ pc \in Recovering => ~again
    /\ again => Used >= 1
    /\ pc = "pause" => Used >= 1
    /\ Used <= MaxLoop
    /\ pc \in {"review", "decide"} => Used < MaxLoop

RequestInv ==
    /\ ~again /\ pc \in Asking => requests <= Attempts(attempt) + tries
    /\ pc \in Recovering => requests <= Attempts(attempt + 1)
    /\ again /\ pc \in Asking => requests <= FirstCall + Retries(Used - 1) + tries
    /\ pc = "pause" => requests <= FirstCall + Retries(Used - 1)
    /\ pc \in {"review", "decide", "ended", "idle"} => requests <= FirstCall + Retries(Used)

(* A rewrite the critic asks for is already counted as an iteration.       *)
RewriteInv ==
    /\ rewrites <= iteration /\ iteration < MaxReview
    /\ asks => rewrites + 1 <= iteration

IInv == Flags /\ Counters /\ PlaceInv /\ RequestInv /\ RewriteInv

-----------------------------------------------------------------------------
LEMMA AttemptsGrow ==
    ASSUME NEW n \in Nat
    PROVE  /\ Attempts(n) \in Nat
           /\ Attempts(n + 1) = Attempts(n) + MaxTries + 1
           /\ n <= MaxHook + 1 => Attempts(n) <= FirstCall
  <1>1. /\ n * (MaxTries + 1) \in Nat
        /\ (n + 1) * (MaxTries + 1) = n * (MaxTries + 1) + MaxTries + 1
    BY AgentRunAssumption
  <1>2. ASSUME n <= MaxHook + 1
        PROVE  n * (MaxTries + 1) <= (MaxHook + 1) * (MaxTries + 1)
    <2>1. (MaxHook + 1 - n) * (MaxTries + 1) >= 0
      BY <1>2, AgentRunAssumption
    <2> QED
      BY <2>1, AgentRunAssumption
  <1> QED
    BY <1>1, <1>2 DEF Attempts, FirstCall

LEMMA RetriesGrow ==
    ASSUME NEW n \in Nat
    PROVE  /\ Retries(n) \in Nat
           /\ Retries(n + 1) = Retries(n) + MaxTries
           /\ \A m \in Nat : n <= m => Retries(n) <= Retries(m)
  <1>1. n * MaxTries \in Nat /\ (n + 1) * MaxTries = n * MaxTries + MaxTries
    BY AgentRunAssumption
  <1>2. ASSUME NEW m \in Nat, n <= m PROVE n * MaxTries <= m * MaxTries
    <2>1. (m - n) * MaxTries >= 0
      BY <1>2, AgentRunAssumption
    <2> QED
      BY <2>1, AgentRunAssumption
  <1> QED
    BY <1>1, <1>2 DEF Retries

-----------------------------------------------------------------------------
LEMMA TypeParts == TypeOK <=> Flags /\ Counters
  BY DEF TypeOK, Flags, Counters

LEMMA InitHolds == Init => IInv
  <1> SUFFICES ASSUME Init PROVE IInv
    OBVIOUS
  <1>1. Flags
    BY Zenon DEF Init, Flags
  <1>2. Counters
    BY AgentRunAssumption DEF Init, Counters, PCs, Kinds, Outcomes
  <1>3. 0 \in Nat /\ FirstCall \in Nat /\ Retries(0) \in Nat
    BY AttemptsGrow, RetriesGrow, AgentRunAssumption DEF FirstCall
  <1>4. PlaceInv
    BY AgentRunAssumption DEF Init, PlaceInv, Recovering, Used
  <1>5. RequestInv
    BY <1>3, AgentRunAssumption DEF Init, RequestInv, Asking, Recovering, Used
  <1>6. RewriteInv
    BY AgentRunAssumption DEF Init, RewriteInv
  <1> QED
    BY <1>1, <1>2, <1>4, <1>5, <1>6 DEF IInv

\* Wherever the run is, it has cost no more than the whole first call and
\* the continuations used.
LEMMA CostNow ==
    ASSUME Counters, PlaceInv, RequestInv
    PROVE  /\ requests <= FirstCall + Retries(Used)
           /\ ~again /\ pc = "request" => requests < Attempts(attempt + 1)
           /\ ~again /\ pc = "request" => requests + 1 <= FirstCall + Retries(Used)
  <1> USE AgentRunAssumption DEF Counters
  <1>1. /\ attempt + 1 \in Nat /\ attempt \in Nat /\ attempt + 1 <= MaxHook + 1
        /\ MaxHook + 1 \in Nat /\ tries \in Nat /\ tries <= MaxTries
        /\ Used \in Nat /\ MaxTries \in Nat /\ requests \in Nat
    BY DEF Used
  <1>2. /\ Attempts(attempt) \in Nat /\ Attempts(attempt + 1) \in Nat /\ FirstCall \in Nat
        /\ Attempts(attempt + 1) = Attempts(attempt) + MaxTries + 1
        /\ Attempts(attempt + 1) <= FirstCall
    BY <1>1, AttemptsGrow DEF FirstCall
  <1>3. Retries(Used) \in Nat
    BY <1>1, RetriesGrow
  <1>4. CASE pc \in Asking /\ ~again
    BY <1>1, <1>2, <1>3, <1>4 DEF RequestInv, Asking, Recovering
  <1>5. CASE pc \in Asking /\ again
    <2>1. Used >= 1 /\ Used - 1 \in Nat
      BY <1>1, <1>5 DEF PlaceInv, Asking
    <2>2. Retries(Used - 1) \in Nat /\ Retries(Used) = Retries(Used - 1) + MaxTries
      BY <1>1, <2>1, RetriesGrow
    <2> QED
      BY <1>1, <1>2, <1>5, <2>2 DEF RequestInv, Asking
  <1>6. CASE pc \in Recovering
    BY <1>1, <1>2, <1>3, <1>6 DEF RequestInv, Recovering
  <1>7. CASE pc = "pause"
    <2>1. Used >= 1 /\ Used - 1 \in Nat
      BY <1>1, <1>7 DEF PlaceInv
    <2>2. Retries(Used - 1) \in Nat /\ Retries(Used) = Retries(Used - 1) + MaxTries
      BY <1>1, <2>1, RetriesGrow
    <2> QED
      BY <1>1, <1>2, <1>7, <2>2 DEF RequestInv
  <1>8. CASE pc \in {"review", "decide", "ended", "idle"}
    BY <1>8 DEF RequestInv
  <1> QED
    BY <1>4, <1>5, <1>6, <1>7, <1>8 DEF PCs, Asking, Recovering

-----------------------------------------------------------------------------
\* A run that ends keeps the invariant, and so does one that only moves on.
LEMMA EndKeeps ==
    ASSUME IInv, NEW o \in Outcomes, EndAs(o)
    PROVE  IInv'
  <1> USE DEF EndAs, callVars, budgets, critic
  <1>1. Flags'
    BY Zenon DEF IInv, Flags
  <1>2. Counters'
    BY DEF IInv, Counters, PCs
  <1>3. PlaceInv'
    BY DEF IInv, PlaceInv, Recovering, Used
  <1>4. RequestInv'
    BY CostNow DEF IInv, RequestInv, Asking, Recovering, Used
  <1>5. RewriteInv'
    BY DEF IInv, RewriteInv
  <1> QED
    BY <1>1, <1>2, <1>3, <1>4, <1>5 DEF IInv

LEMMA GotoKeeps ==
    ASSUME IInv, NEW l \in {"review", "backoff", "delay"}, Goto(l),
           l = "review" => pc \in {"request", "fallback"} /\ Used < MaxLoop,
           l = "backoff" => pc = "request" /\ tries < MaxTries,
           l = "delay" => pc = "exception"
    PROVE  IInv'
  <1> USE DEF Goto, callVars, budgets, critic
  <1>1. Flags'
    BY Zenon DEF IInv, Flags
  <1>2. Counters'
    BY DEF IInv, Counters, PCs
  <1>3. PlaceInv'
    BY DEF IInv, PlaceInv, Recovering, Used
  <1>4. RequestInv'
    BY CostNow DEF IInv, RequestInv, Asking, Recovering, Used
  <1>5. RewriteInv'
    BY DEF IInv, RewriteInv
  <1> QED
    BY <1>1, <1>2, <1>3, <1>4, <1>5 DEF IInv

\* A request belongs to the first call or to a continuation.
LEMMA AskKeeps ==
    ASSUME IInv, NEW b \in BOOLEAN, NEW t \in 1..MaxTries, NEW a \in 0..MaxHook,
           Ask(b, t, a),
           ~b => requests < Attempts(a) + t,
           b => Used >= 1 /\ requests < FirstCall + Retries(Used - 1) + t
    PROVE  IInv'
  <1> USE DEF Ask, budgets, critic
  <1>1. Flags'
    BY Zenon DEF IInv, Flags
  <1>2. Counters'
    BY AgentRunAssumption DEF IInv, Counters, PCs, Kinds
  <1>3. PlaceInv'
    BY DEF IInv, PlaceInv, Recovering, Used
  <1>4. RequestInv'
    <2>1. requests \in Nat /\ t \in Nat /\ a \in Nat /\ FirstCall \in Nat /\ Attempts(a) \in Nat
      BY AttemptsGrow, AgentRunAssumption DEF IInv, Counters, FirstCall
    <2>2. CASE ~b
      BY <2>1, <2>2 DEF RequestInv, Asking, Recovering, Used
    <2>3. CASE b
      <3>1. Used - 1 \in Nat
        BY <2>3, AgentRunAssumption DEF IInv, Counters, Used
      <3>2. Retries(Used - 1) \in Nat
        BY <3>1, RetriesGrow
      <3> QED
        BY <2>1, <2>3, <3>2 DEF RequestInv, Asking, Recovering, Used
    <2> QED
      BY <2>2, <2>3
  <1>5. RewriteInv'
    BY DEF IInv, RewriteInv
  <1> QED
    BY <1>1, <1>2, <1>3, <1>4, <1>5 DEF IInv

LEMMA Step == IInv /\ [Next]_vars => IInv'
  <1> SUFFICES ASSUME IInv, [Next]_vars PROVE IInv'
    OBVIOUS
  <1> USE DEF callVars, budgets, critic
  <1>0. /\ Counters /\ PlaceInv /\ RequestInv /\ AgentRunAssumption
        /\ "answered" \in Outcomes /\ "cancelled" \in Outcomes
        /\ \A k : (IF k = "usage" THEN "stopped" ELSE "failed") \in Outcomes
    BY AgentRunAssumption DEF IInv, Outcomes
  <1>1. CASE Submit
    <2>1. Flags'
      BY <1>1, Zenon DEF IInv, Flags, Submit
    <2>2. Counters'
      BY <1>0, <1>1 DEF Counters, Submit, AgentRunAssumption, PCs, Kinds
    <2>3. PlaceInv'
      BY <1>0, <1>1 DEF PlaceInv, Submit, AgentRunAssumption, Recovering, Used
    <2>4. Attempts(0) \in Nat
      BY AttemptsGrow
    <2>5. RequestInv'
      BY <1>1, <2>4 DEF RequestInv, Submit, Asking, Recovering
    <2>6. RewriteInv'
      BY <1>1 DEF IInv, RewriteInv, Submit
    <2> QED
      BY <2>1, <2>2, <2>3, <2>5, <2>6 DEF IInv
  <1>2. ASSUME NEW k, Raise(k) PROVE IInv'
    BY <1>0, <1>2, EndKeeps DEF Raise
  <1>3. ASSUME pc \in {"request", "fallback"}, Answered PROVE IInv'
    <2>1. CASE LoopOver
      BY <1>0, <1>3, <2>1, EndKeeps DEF Answered
    <2>2. CASE ~LoopOver
      <3>1. Goto("review")
        BY <1>3, <2>2 DEF Answered
      <3>2. Used < MaxLoop
        BY <1>0, <2>2 DEF LoopOver, Used, Counters, AgentRunAssumption
      <3> QED
        BY <1>3, <3>1, <3>2, GotoKeeps
    <2> QED
      BY <2>1, <2>2
  <1>4. CASE Answer \/ FallbackAnswers
    BY <1>3, <1>4 DEF Answer, FallbackAnswers
  <1>5. CASE Backoff
    BY <1>5, GotoKeeps DEF Backoff
  <1>6. CASE HookRetries
    BY <1>6, GotoKeeps DEF HookRetries
  <1>7. CASE TryAgain
    <2>1. pc = "backoff" /\ tries + 1 \in 1..MaxTries /\ Ask(again, tries + 1, attempt)
      BY <1>0, <1>7 DEF TryAgain, PlaceInv, Counters, AgentRunAssumption
    <2>2. again \in BOOLEAN /\ attempt \in 0..MaxHook
      BY <1>0 DEF IInv, Flags, Counters
    <2>3. requests \in Nat /\ tries \in Nat /\ attempt \in Nat
      BY <1>0 DEF Counters, AgentRunAssumption
    <2>4. ~again => requests < Attempts(attempt) + (tries + 1)
      <3>1. Attempts(attempt) \in Nat
        BY <2>3, AttemptsGrow
      <3> QED
        BY <1>0, <2>1, <2>3, <3>1 DEF RequestInv, Asking
    <2>5. again => Used >= 1 /\ requests < FirstCall + Retries(Used - 1) + (tries + 1)
      <3>1. CASE again
        <4>1. Used >= 1 /\ Used - 1 \in Nat /\ MaxHook + 1 \in Nat
          BY <1>0, <3>1 DEF PlaceInv, Counters, Used, AgentRunAssumption
        <4>2. Retries(Used - 1) \in Nat /\ FirstCall \in Nat
          BY <4>1, RetriesGrow, AttemptsGrow DEF FirstCall
        <4> QED
          BY <1>0, <2>1, <2>3, <3>1, <4>1, <4>2 DEF RequestInv, Asking
      <3> QED
        BY <3>1
    <2> QED
      BY <2>1, <2>2, <2>4, <2>5, AskKeeps
  <1>8. CASE RaiseAgain
    BY <1>2, <1>8 DEF RaiseAgain
  <1>9. CASE Compact
    <2>1. pc = "request" /\ ~again /\ attempt = 0 /\ Ask(FALSE, 1, attempt + 1)
      BY <1>9 DEF Compact, Surfaces
    <2>2. attempt + 1 \in 0..MaxHook /\ 1 \in 1..MaxTries /\ attempt + 1 \in Nat /\ requests \in Nat
      BY <1>0, <2>1 DEF Counters, AgentRunAssumption
    <2>3. requests < Attempts(attempt + 1) + 1
      BY <1>0, <2>1, <2>2, CostNow, AttemptsGrow
    <2> QED
      BY <2>1, <2>2, <2>3, AskKeeps
  <1>10. CASE FallBack
    <2>1. pc = "request" /\ ~again
      BY <1>10 DEF FallBack, Surfaces
    <2>2. Flags'
      BY <1>10, Zenon DEF IInv, Flags, FallBack
    <2>3. Counters'
      BY <1>0, <1>10 DEF Counters, FallBack, PCs, Kinds
    <2>4. PlaceInv'
      BY <1>0, <1>10, <2>1 DEF PlaceInv, FallBack, Recovering, Used
    <2>5. requests < Attempts(attempt + 1) /\ requests \in Nat
      BY <1>0, <2>1, CostNow DEF Counters
    <2>6. Attempts(attempt + 1) \in Nat
      BY <1>0, AttemptsGrow DEF Counters, AgentRunAssumption
    <2>7. RequestInv'
      BY <1>10, <2>1, <2>5, <2>6 DEF RequestInv, FallBack, Asking, Recovering
    <2>8. RewriteInv'
      BY <1>10 DEF IInv, RewriteInv, FallBack
    <2> QED
      BY <2>2, <2>3, <2>4, <2>7, <2>8 DEF IInv
  <1>11. ASSUME pc \in {"request", "fallback"}, ~again, NEW k \in Kinds, Recover(k) PROVE IInv'
    <2>1. CASE attempt >= MaxHook
      BY <1>2, <1>11, <2>1 DEF Recover
    <2>2. CASE ~(attempt >= MaxHook)
      <3>0. /\ pc' = "exception" /\ kind' = k
            /\ UNCHANGED <<again, tries, attempt, budgets, critic, cancel, requests, outcome>>
        BY <1>11, <2>2 DEF Recover
      <3>1. Flags'
        BY <3>0, Zenon DEF IInv, Flags
      <3>2. Counters'
        BY <1>0, <3>0 DEF Counters, PCs
      <3>3. PlaceInv'
        BY <1>0, <1>11, <2>2, <3>0 DEF PlaceInv, Counters, Recovering, Used, AgentRunAssumption
      <3>4. requests <= Attempts(attempt + 1)
        <4>1. Attempts(attempt + 1) \in Nat /\ requests \in Nat
          BY <1>0, AttemptsGrow DEF Counters, AgentRunAssumption
        <4> QED
          BY <1>0, <1>11, <4>1, CostNow DEF RequestInv, Recovering
      <3>5. RequestInv'
        BY <3>0, <3>4 DEF RequestInv, Asking, Recovering
      <3>6. RewriteInv'
        BY <3>0 DEF IInv, RewriteInv
      <3> QED
        BY <3>1, <3>2, <3>3, <3>5, <3>6 DEF IInv
    <2> QED
      BY <2>1, <2>2
  <1>12. CASE FallbackFails
    BY <1>0, <1>11, <1>12 DEF FallbackFails, Counters, PlaceInv, Recovering
  <1>13. CASE Handle
    BY <1>11, <1>13 DEF Handle, Surfaces
  <1>14. CASE HookDeclines
    BY <1>2, <1>14 DEF HookDeclines
  <1>15. CASE Retry
    <2>1. pc = "delay" /\ ~again /\ Ask(FALSE, 1, attempt + 1)
      BY <1>0, <1>15 DEF Retry, PlaceInv, Recovering
    <2>2. /\ attempt + 1 \in 0..MaxHook /\ 1 \in 1..MaxTries
          /\ attempt + 1 \in Nat /\ requests \in Nat
      BY <1>0, <2>1 DEF Counters, PlaceInv, AgentRunAssumption
    <2>3. requests < Attempts(attempt + 1) + 1
      <3>1. Attempts(attempt + 1) \in Nat
        BY <2>2, AttemptsGrow
      <3> QED
        BY <1>0, <2>1, <2>2, <3>1 DEF RequestInv, Recovering
    <2> QED
      BY <2>1, <2>2, <2>3, AskKeeps
  <1>16. CASE Reject \/ Approve \/ NothingToReview
    <2>1. /\ pc = "review" /\ pc' = "decide"
          /\ UNCHANGED <<callVars, budgets, cancel, requests, outcome>>
      BY <1>16 DEF Reject, Approve, NothingToReview
    <2>2. Flags'
      BY <1>16, Zenon DEF Reject, Approve, NothingToReview, IInv, Flags
    <2>3. \/ iteration' = 0 /\ ~asks' /\ rewrites' = 0
          \/ /\ iteration + 1 < MaxReview
             /\ iteration' = iteration + 1 /\ UNCHANGED rewrites
          \/ ~asks' /\ UNCHANGED <<iteration, rewrites>>
      BY <1>0, <1>16 DEF Reject, Approve, NothingToReview, Counters, AgentRunAssumption
    <2>4. Counters'
      BY <1>0, <2>1, <2>3 DEF Counters, PCs
    <2>5. PlaceInv'
      BY <1>0, <2>1 DEF PlaceInv, Recovering, Used
    <2>6. RequestInv'
      BY <1>0, <2>1 DEF RequestInv, Asking, Recovering, Used
    <2>7. RewriteInv'
      BY <1>0, <2>3 DEF IInv, RewriteInv, Counters, AgentRunAssumption
    <2> QED
      BY <2>2, <2>4, <2>5, <2>6, <2>7 DEF IInv
  <1>17. CASE Accept
    BY <1>0, <1>17, EndKeeps DEF Accept
  <1>18. CASE HookContinues \/ CriticContinues
    <2>1. CASE EndAs("answered")
      BY <1>0, <2>1, EndKeeps
    <2>2. CASE /\ pc = "decide" /\ pc' = "pause" /\ asks' = FALSE
               /\ \/ hookUsed < MaxHook /\ hookUsed' = hookUsed + 1 /\ UNCHANGED <<criticUsed, rewrites>>
                  \/ /\ asks /\ criticUsed < MaxCritic /\ criticUsed' = criticUsed + 1
                     /\ UNCHANGED hookUsed /\ rewrites' = rewrites + 1
               /\ UNCHANGED <<callVars, iteration, cancel, requests, outcome>>
      <3>1. Flags'
        BY <2>2, Zenon DEF IInv, Flags
      <3>2. Counters'
        BY <1>0, <2>2 DEF Counters, PCs, AgentRunAssumption
      <3>3. /\ Used' = Used + 1 /\ Used \in Nat
        BY <1>0, <2>2 DEF Used, Counters, AgentRunAssumption
      <3>4. PlaceInv'
        BY <1>0, <2>2, <3>3 DEF PlaceInv, Recovering, AgentRunAssumption
      <3>5. Used' - 1 = Used
        BY <3>3
      <3>6. RequestInv'
        BY <1>0, <2>2, <3>5 DEF RequestInv, Asking, Recovering
      <3>7. RewriteInv'
        BY <1>0, <2>2 DEF IInv, RewriteInv, Counters
      <3> QED
        BY <3>1, <3>2, <3>4, <3>6, <3>7 DEF IInv
    <2>3. /\ hookUsed >= MaxHook \/ hookUsed < MaxHook
          /\ criticUsed >= MaxCritic \/ criticUsed < MaxCritic
      BY <1>0 DEF Counters, AgentRunAssumption
    <2> QED
      BY <1>18, <2>1, <2>2, <2>3, Zenon DEF HookContinues, CriticContinues
  <1>19. CASE Continue
    <2>1. pc = "pause" /\ Ask(TRUE, 1, attempt)
      BY <1>19 DEF Continue
    <2>2. /\ attempt \in 0..MaxHook /\ 1 \in 1..MaxTries /\ requests \in Nat
          /\ Used >= 1 /\ Used - 1 \in Nat /\ MaxHook + 1 \in Nat
      BY <1>0, <2>1 DEF Counters, PlaceInv, Used, AgentRunAssumption
    <2>3. Retries(Used - 1) \in Nat /\ FirstCall \in Nat
      BY <2>2, RetriesGrow, AttemptsGrow DEF FirstCall
    <2>4. requests < FirstCall + Retries(Used - 1) + 1
      BY <1>0, <2>1, <2>2, <2>3 DEF RequestInv
    <2> QED
      BY <2>1, <2>2, <2>4, AskKeeps
  <1>20. CASE CancelLands
    BY <1>0, <1>20, EndKeeps DEF CancelLands
  <1>21. CASE PressCancel \/ Finish
    <2>1. Flags'
      BY <1>21, Zenon DEF IInv, Flags, PressCancel, Finish
    <2>2. Counters'
      BY <1>0, <1>21 DEF Counters, PressCancel, Finish, PCs
    <2>3. PlaceInv'
      BY <1>0, <1>21 DEF PlaceInv, PressCancel, Finish, Recovering, Used
    <2>4. RequestInv'
      BY <1>0, <1>21 DEF RequestInv, PressCancel, Finish, Asking, Recovering, Used
    <2>5. RewriteInv'
      BY <1>21 DEF IInv, RewriteInv, PressCancel, Finish
    <2> QED
      BY <2>1, <2>2, <2>3, <2>4, <2>5 DEF IInv
  <1>22. CASE UNCHANGED vars
    BY <1>22 DEF vars, IInv, Flags, Counters, PlaceInv, RequestInv, RewriteInv, Used
  <1> QED
    BY <1>1, <1>4, <1>5, <1>6, <1>7, <1>8, <1>9, <1>10, <1>12, <1>13, <1>14, <1>15, <1>16,
       <1>17, <1>18, <1>19, <1>20, <1>21, <1>22
       DEF Next, Progress, Requests, Reviews

-----------------------------------------------------------------------------
(* The strengthened invariant holds in every reachable state.              *)
THEOREM InductiveInvariant == Spec => []IInv
  <1>1. Init => IInv
    BY InitHolds
  <1>2. IInv /\ [Next]_vars => IInv'
    BY Step
  <1> QED
    BY <1>1, <1>2, PTL DEF Spec

(* Every variable keeps its type, the counters their limits.               *)
THEOREM TypeCorrect == Spec => []TypeOK
  <1>1. IInv => TypeOK
    BY TypeParts DEF IInv
  <1> QED
    BY <1>1, InductiveInvariant, PTL

(* The critic's rewrites between two results it lets pass stay below       *)
(* MAX_REVIEW_ITERATIONS, across prompts and whatever else retries.        *)
THEOREM RewritesStayBounded == Spec => []RewritesBounded
  <1>1. IInv => RewritesBounded
    BY AgentRunAssumption DEF IInv, Counters, RewriteInv, RewritesBounded
  <1> QED
    BY <1>1, InductiveInvariant, PTL

-----------------------------------------------------------------------------
\* The continuations of a run are limited by both of their budgets and by
\* the loop's own, and so is what they cost.
LEMMA CostInBudget == IInv => requests <= Budget
  <1> SUFFICES ASSUME IInv PROVE requests <= Budget
    OBVIOUS
  <1>1. /\ Used \in Nat /\ Used <= Continuations /\ Continuations \in Nat
        /\ MaxHook + 1 \in Nat
    BY AgentRunAssumption DEF IInv, Counters, PlaceInv, Used, Continuations
  <1>2. Retries(Used) \in Nat /\ Retries(Continuations) \in Nat
        /\ Retries(Used) <= Retries(Continuations)
    BY <1>1, RetriesGrow
  <1>3. FirstCall \in Nat
    BY <1>1, AttemptsGrow DEF FirstCall
  <1>4. requests <= FirstCall + Retries(Used) /\ requests \in Nat
    BY CostNow DEF IInv, Counters
  <1>5. requests <= FirstCall + Retries(Continuations)
    BY <1>2, <1>3, <1>4
  <1> QED
    BY <1>5 DEF Budget, FirstCall, Attempts, Retries

\* What a step of the run is to the user.
Working == pc \notin {"idle", "ended"}
AskStep == Working /\ Working' /\ requests' = requests + 1 /\ outcome' = outcome
EndStep == Working /\ ~Working' /\ outcome' \in Outcomes /\ requests' = requests
TakeStep == ~Working /\ Working' /\ requests' = 1 /\ outcome' = "none"
Stutter == (Working' <=> Working) /\ requests' = requests /\ outcome' = outcome

LEMMA StepKinds ==
    ASSUME [Next]_vars
    PROVE  AskStep \/ EndStep \/ TakeStep \/ Stutter
  <1> USE DEF Working, AskStep, EndStep, TakeStep, Stutter
  <1>1. ASSUME Working, NEW o \in Outcomes, EndAs(o) PROVE EndStep
    BY <1>1 DEF EndAs
  <1>2. ASSUME Working, NEW l \in PCs \ {"idle", "ended"}, Goto(l) PROVE Stutter
    BY <1>2 DEF Goto, PCs
  <1>3. ASSUME Working, NEW b, NEW t, NEW a, Ask(b, t, a) PROVE AskStep
    BY <1>3 DEF Ask
  <1>4. "answered" \in Outcomes /\ "cancelled" \in Outcomes
    BY DEF Outcomes
  <1>5. ASSUME Working, NEW k, Raise(k) PROVE EndStep
    BY <1>1, <1>5 DEF Raise, Outcomes
  <1>6. ASSUME Working, Answered PROVE EndStep \/ Stutter
    BY <1>1, <1>2, <1>4, <1>6 DEF Answered, PCs
  <1>7. ASSUME Working, NEW k, Recover(k) PROVE EndStep \/ Stutter
    BY <1>5, <1>7 DEF Recover
  <1>8. CASE UNCHANGED vars
    BY <1>8 DEF vars
  <1>9. CASE Submit
    BY <1>9 DEF Submit
  <1>10. CASE Requests
    <2>1. CASE Answer \/ FallbackAnswers
      BY <1>6, <2>1 DEF Answer, FallbackAnswers
    <2>2. CASE Backoff \/ HookRetries
      BY <1>2, <2>2 DEF Backoff, HookRetries, PCs
    <2>3. CASE TryAgain \/ Compact \/ Retry
      BY <1>3, <2>3 DEF TryAgain, Compact, Surfaces, Retry
    <2>4. CASE RaiseAgain \/ HookDeclines
      BY <1>5, <2>4 DEF RaiseAgain, Surfaces, HookDeclines
    <2>5. CASE FallBack
      BY <2>5 DEF FallBack, Surfaces
    <2>6. CASE FallbackFails \/ Handle
      BY <1>7, <2>6 DEF FallbackFails, Handle, Surfaces
    <2> QED
      BY <1>10, <2>1, <2>2, <2>3, <2>4, <2>5, <2>6 DEF Requests
  <1>11. CASE Reviews
    <2>1. CASE Reject \/ Approve \/ NothingToReview
      BY <2>1 DEF Reject, Approve, NothingToReview
    <2>2. CASE Accept
      BY <1>1, <1>4, <2>2 DEF Accept
    <2>3. CASE HookContinues \/ CriticContinues
      BY <1>1, <1>4, <2>3 DEF HookContinues, CriticContinues
    <2>4. CASE Continue
      BY <1>3, <2>4 DEF Continue
    <2> QED
      BY <1>11, <2>1, <2>2, <2>3, <2>4 DEF Reviews
  <1>12. CASE CancelLands
    BY <1>1, <1>4, <1>12 DEF CancelLands
  <1>13. CASE PressCancel
    BY <1>13 DEF PressCancel
  <1>14. CASE Finish
    BY <1>14 DEF Finish
  <1> QED
    BY <1>8, <1>9, <1>10, <1>11, <1>12, <1>13, <1>14 DEF Next, Progress

(* A run of the agent is what the user is promised of a prompt: at most    *)
(* Budget requests, then one outcome.                                      *)
THEOREM KeepsToBudget == Spec => WithinBudget
  <1>1. Init => Service!Init
    BY DEF Init, Service!Init
  <1>2. IInv' => (requests <= Budget)'
    BY CostInBudget, PTL
  <1>3. IInv /\ IInv' /\ [Next]_vars => [Service!Next]_(Service!vars)
    <2> SUFFICES ASSUME IInv, IInv', [Next]_vars
                 PROVE  [Service!Next]_(Service!vars)
      OBVIOUS
    <2> USE DEF Working, Service!Next, Service!vars
    <2>1. CASE AskStep
      <3>1. requests' <= Budget /\ requests \in Nat /\ Budget \in Nat
        <4>1. requests' <= Budget'
          BY <1>2
        <4> QED
          BY <4>1, AgentRunAssumption DEF IInv, Counters, Budget, Continuations
      <3>2. requests < Budget
        BY <2>1, <3>1 DEF AskStep
      <3> QED
        BY <2>1, <3>2 DEF AskStep, Service!Ask
    <2>2. CASE EndStep
      BY <2>2 DEF EndStep, Service!Deliver
    <2>3. CASE TakeStep
      BY <2>3 DEF TakeStep, Service!Submit
    <2>4. CASE Stutter
      BY <2>4 DEF Stutter
    <2> QED
      BY <2>1, <2>2, <2>3, <2>4, StepKinds
  <1> QED
    BY <1>1, <1>3, InductiveInvariant, PTL DEF Spec, WithinBudget, Service!Spec

=============================================================================
