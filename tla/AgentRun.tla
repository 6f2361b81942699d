------------------------------ MODULE AgentRun ------------------------------
(***************************************************************************)
(* The run of the current agent on one prompt after another                *)
(* (agents/_runtime.py): requests repeated when the stream breaks, the     *)
(* recovery from exceptions, the reviews that send the agent back to work, *)
(* and cancellation by the user.  A request stands for one run of the      *)
(* pydantic agent, which the overall timeout ends.                         *)
(***************************************************************************)
EXTENDS Naturals

CONSTANTS MaxTries,    \* max_attempts of streaming_retry
          MaxHook,     \* get_max_hook_retries()
          MaxCritic,   \* get_max_critic_retries()
          MaxLoop,     \* max_loop_iterations
          MaxReview,   \* MAX_REVIEW_ITERATIONS of the universal critic
          Streaming    \* use_streaming

ASSUME AgentRunAssumption ==
    /\ MaxTries \in Nat \ {0} /\ MaxHook \in Nat \ {0} /\ MaxCritic \in Nat \ {0}
    /\ MaxLoop \in Nat \ {0} /\ MaxReview \in Nat \ {0}
    /\ Streaming \in BOOLEAN

VARIABLES pc,         \* where the run is
          again,      \* the request is a _retry_call, not a _call
          tries,      \* streaming attempts of this call so far
          attempt,    \* attempt of _call_with_exception_recovery
          kind,       \* the exception being handled
          hookUsed,   \* hook_retries_used
          criticUsed, \* critic_retries_used
          asks,       \* the critic has asked for a rewrite of this result
          iteration,  \* _ITERATION_TRACKER of the agent, 0 when absent
          cancel,     \* agent_task.cancel is scheduled on the loop
          requests,   \* history: requests this prompt has cost
          outcome,    \* how the last prompt ended
          rewrites    \* history: runs on the critic's word since it last
                      \* approved or gave up

callVars == <<again, tries, attempt, kind>>
budgets == <<hookUsed, criticUsed>>
critic == <<asks, iteration, rewrites>>
vars == <<pc, callVars, budgets, critic, cancel, requests, outcome>>

PCs == {"idle", "request", "backoff", "exception", "fallback", "delay",
        "review", "decide", "pause", "ended"}
Kinds == {"none", "empty", "transient", "overflow", "usage", "other"}
Outcomes == {"answered", "stopped", "failed", "cancelled"}

(* should_retry_streaming.  An overflow may come with a status that is     *)
(* retried, or without.                                                    *)
Retryable(k) == CASE k \in {"empty", "transient"} -> {TRUE}
                  [] k = "overflow" -> BOOLEAN
                  [] OTHER -> {FALSE}

Init == /\ pc = "idle"
        /\ again = FALSE /\ tries = 0 /\ attempt = 0 /\ kind = "none"
        /\ hookUsed = 0 /\ criticUsed = 0
        /\ asks = FALSE /\ iteration = 0 /\ rewrites = 0
        /\ cancel = FALSE /\ requests = 0 /\ outcome = "none"
-----------------------------------------------------------------------------
(* run: a prompt is taken and a task made for it.                          *)
Submit ==
    /\ pc = "idle" /\ pc' = "request"
    /\ again' = FALSE /\ tries' = 1 /\ attempt' = 0 /\ kind' = "none"
    /\ hookUsed' = 0 /\ criticUsed' = 0
    /\ requests' = 1 /\ outcome' = "none"
    /\ UNCHANGED <<critic, cancel>>

(* A further request, and for which kind of call.                          *)
Ask(isAgain, try, att) ==
    /\ pc' = "request" /\ requests' = requests + 1
    /\ again' = isAgain /\ tries' = try /\ attempt' = att /\ kind' = "none"
    /\ UNCHANGED <<budgets, critic, cancel, outcome>>

(* The task ends, with what run_agent_task makes of it.                    *)
EndAs(o) ==
    /\ pc' = "ended" /\ outcome' = o
    /\ UNCHANGED <<callVars, budgets, critic, cancel, requests>>

(* An exception leaves _do_run: UsageLimitExceeded is a success without a  *)
(* result, any other is a failure.                                         *)
Raise(k) == EndAs(IF k = "usage" THEN "stopped" ELSE "failed")

Goto(l) == /\ pc' = l
           /\ UNCHANGED <<callVars, budgets, critic, cancel, requests, outcome>>

(* The top of the continuation loop: a result is shown to the hooks while  *)
(* a budget is left.                                                       *)
BothExhausted == hookUsed >= MaxHook /\ criticUsed >= MaxCritic
LoopOver == BothExhausted \/ hookUsed + criticUsed >= MaxLoop
Answered == IF LoopOver THEN EndAs("answered") ELSE Goto("review")

Answer == pc = "request" /\ Answered
-----------------------------------------------------------------------------
(* The request fails and streaming_retry waits for another try.            *)
Backoff == /\ pc = "request" /\ tries < MaxTries
           /\ \E k \in Kinds \ {"none"} : TRUE \in Retryable(k)
           /\ Goto("backoff")

(* faulty: the attempts are not counted.                                   *)
TryAgainUncounted == pc = "backoff" /\ Ask(again, 1, attempt)

TryAgain == pc = "backoff" /\ Ask(again, tries + 1, attempt)

(* The exception k leaves streaming_retry: it is not to be retried, or the *)
(* tries are used up.                                                      *)
Surfaces(k) == /\ pc = "request" /\ k \in Kinds \ {"none"}
               /\ tries < MaxTries => FALSE \in Retryable(k)

(* A _retry_call has no recovery from exceptions.                          *)
RaiseAgain == \E k \in Kinds : Surfaces(k) /\ again /\ Raise(k)

(* The history is compacted once, and the next attempt follows at once.    *)
Compact == /\ Surfaces("overflow") /\ ~again /\ attempt = 0
           /\ Ask(FALSE, 1, attempt + 1)

(* An empty stream: one request without streaming.                         *)
FallBack ==
    /\ Surfaces("empty") /\ ~again /\ Streaming
    /\ pc' = "fallback" /\ requests' = requests + 1 /\ kind' = "empty"
    /\ UNCHANGED <<again, tries, attempt, budgets, critic, cancel, outcome>>

FallbackAnswers == pc = "fallback" /\ Answered

(* on_agent_exception while attempts are left.  When the request without   *)
(* streaming fails too, the first exception is still the one raised.       *)
Recover(k) ==
    IF attempt >= MaxHook THEN Raise(k)
    ELSE /\ pc' = "exception" /\ kind' = k
         /\ UNCHANGED <<again, tries, attempt, budgets, critic, cancel, requests, outcome>>

FallbackFails == pc = "fallback" /\ Recover(kind)

(* Any other exception, or an overflow when nothing could be compacted.    *)
Handle == \E k \in Kinds : /\ Surfaces(k) /\ ~again
                           /\ ~(k = "empty" /\ Streaming)
                           /\ Recover(k)

HookDeclines == pc = "exception" /\ Raise(kind)
HookRetries == pc = "exception" /\ Goto("delay")

(* faulty: the hooks are asked again, and not the model.                   *)
RetryHooks == pc = "delay" /\ Goto("exception")

Retry == pc = "delay" /\ Ask(FALSE, 1, attempt + 1)
-----------------------------------------------------------------------------
(* faulty: the critic never gives up.                                      *)
RejectForever ==
    /\ pc = "review" /\ pc' = "decide"
    /\ iteration' = iteration + 1 /\ asks' = TRUE
    /\ UNCHANGED <<callVars, budgets, rewrites, cancel, requests, outcome>>

(* review_on_result of the universal critic rejects or flags a file.  The  *)
(* iteration counts from run to run; at the limit the critic gives up.     *)
Reject ==
    /\ pc = "review" /\ pc' = "decide"
    /\ IF iteration + 1 >= MaxReview
       THEN iteration' = 0 /\ asks' = FALSE /\ rewrites' = 0
       ELSE iteration' = iteration + 1 /\ asks' = TRUE /\ UNCHANGED rewrites
    /\ UNCHANGED <<callVars, budgets, cancel, requests, outcome>>

(* All changed files are approved.                                         *)
Approve ==
    /\ pc = "review" /\ pc' = "decide"
    /\ iteration' = 0 /\ asks' = FALSE /\ rewrites' = 0
    /\ UNCHANGED <<callVars, budgets, cancel, requests, outcome>>

(* No file was changed.                                                    *)
NothingToReview ==
    /\ pc = "review" /\ pc' = "decide" /\ asks' = FALSE
    /\ UNCHANGED <<callVars, budgets, iteration, rewrites, cancel, requests, outcome>>

(* No hook wants a retry.                                                  *)
Accept == pc = "decide" /\ ~asks /\ EndAs("answered")

(* faulty: one retry too many.                                             *)
HookContinuesLate ==
    /\ pc = "decide"
    /\ IF hookUsed > MaxHook THEN EndAs("answered")
       ELSE /\ pc' = "pause" /\ hookUsed' = hookUsed + 1 /\ asks' = FALSE
            /\ UNCHANGED <<callVars, criticUsed, iteration, rewrites, cancel, requests, outcome>>

(* The first hook that wants one is not the critic; a spent budget ends    *)
(* the run even if the critic wants one too.                               *)
HookContinues ==
    /\ pc = "decide"
    /\ IF hookUsed >= MaxHook THEN EndAs("answered")
       ELSE /\ pc' = "pause" /\ hookUsed' = hookUsed + 1 /\ asks' = FALSE
            /\ UNCHANGED <<callVars, criticUsed, iteration, rewrites, cancel, requests, outcome>>

(* The first hook that wants one is the critic.                            *)
CriticContinues ==
    /\ pc = "decide" /\ asks
    /\ IF criticUsed >= MaxCritic THEN EndAs("answered")
       ELSE /\ pc' = "pause" /\ criticUsed' = criticUsed + 1
            /\ rewrites' = rewrites + 1 /\ asks' = FALSE
            /\ UNCHANGED <<callVars, hookUsed, iteration, cancel, requests, outcome>>

Continue == pc = "pause" /\ Ask(TRUE, 1, attempt)
-----------------------------------------------------------------------------
(* The cancel key, from the listener's thread: the task is not done, and   *)
(* its cancellation is scheduled on the loop.                              *)
PressCancel ==
    /\ pc \notin {"idle", "ended"} /\ cancel' = TRUE
    /\ UNCHANGED <<pc, callVars, budgets, critic, requests, outcome>>

CancelLands ==
    /\ cancel /\ pc \notin {"idle", "ended"}
    /\ EndAs("cancelled")

(* The rest of run: hooks told of the end, the listener stopped.  A        *)
(* cancellation of the finished task is without effect.                    *)
Finish ==
    /\ pc = "ended" /\ pc' = "idle" /\ cancel' = FALSE
    /\ asks' = FALSE
    /\ UNCHANGED <<callVars, budgets, iteration, rewrites, requests, outcome>>
-----------------------------------------------------------------------------
Requests == Answer \/ Backoff \/ TryAgain \/ RaiseAgain \/ Compact \/ FallBack
            \/ FallbackAnswers \/ FallbackFails \/ Handle
            \/ HookDeclines \/ HookRetries \/ Retry
Reviews == Reject \/ Approve \/ NothingToReview \/ Accept \/ HookContinues
           \/ CriticContinues \/ Continue
Progress == Requests \/ Reviews \/ CancelLands \/ Finish

Next == Submit \/ Progress \/ PressCancel

Spec == Init /\ [][Next]_vars

(* The overall timeout ends every request, and hooks and sleeps return.    *)
FairSpec == Spec /\ WF_vars(Progress)
-----------------------------------------------------------------------------
(* Types, with the counters inside their limits.                           *)
TypeOK ==
    /\ pc \in PCs /\ again \in BOOLEAN /\ kind \in Kinds
    /\ tries \in 0..MaxTries /\ attempt \in 0..MaxHook
    /\ hookUsed \in 0..MaxHook /\ criticUsed \in 0..MaxCritic
    /\ asks \in BOOLEAN /\ cancel \in BOOLEAN
    /\ iteration \in Nat
    /\ requests \in Nat /\ rewrites \in Nat
    /\ outcome \in Outcomes \cup {"none"}

(* The most requests one prompt may cost: each attempt of the first call   *)
(* tries the stream and then once without it, each continuation tries the  *)
(* stream.                                                                 *)
Continuations == IF MaxHook + MaxCritic <= MaxLoop THEN MaxHook + MaxCritic ELSE MaxLoop
Budget == (MaxHook + 1) * (MaxTries + 1) + Continuations * MaxTries

Service == INSTANCE PromptService WITH working <- pc \notin {"idle", "ended"}

(* Whatever fails, is retried, reviewed or cancelled, a prompt costs at    *)
(* most Budget requests and ends with one outcome, which stands.           *)
WithinBudget == Service!Spec

(* Every prompt ends, the agent's own retries and reviews notwithstanding. *)
PromptsEnd == pc # "idle" ~> pc = "idle"

(* The critic sends an agent back to work fewer than MaxReview times       *)
(* between two results it lets pass, over any number of prompts, although  *)
(* each prompt has a budget of its own and other hooks retry in between.   *)
RewritesBounded == rewrites <= iteration /\ rewrites < MaxReview

=============================================================================
