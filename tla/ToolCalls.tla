----------------------------- MODULE ToolCalls -----------------------------
(***************************************************************************)
(* The gate every tool call of an agent passes (pydantic_patches.py), with *)
(* the hooks that may refuse it: the circuit breaker, plan mode and debate *)
(* mode.                                                                   *)
(*                                                                         *)
(* Each element of Calls is a slot for one call in flight: pydantic-ai     *)
(* runs the calls of one response side by side, and subagents add theirs.  *)
(* The hooks run one after another in the order in which the plugins were  *)
(* imported, which is not fixed, and any hook may suspend the call: so the *)
(* state a hook tested may be gone when the tool runs.  The reason a hook  *)
(* gives for a block is text, as it is in every hook of the repository; a  *)
(* reason of another type would make its report raise, and the call run.   *)
(***************************************************************************)
EXTENDS Naturals, FiniteSets

CONSTANTS Calls,        \* the calls that may be in flight at once
          Tools,        \* the tools the agent has
          Flaky,        \* the tools whose calls may fail
          MaxErrors,    \* max_errors of _ToolErrorTracker
          MaxTotal,     \* max_total_errors of _ToolErrorTracker
          MaxReviews,   \* get_debate_max_reviews()
          MaxLoops      \* get_debate_max_loops()

ToolNames == {"read_file", "edit_file", "run_shell_command", "enter_plan_mode",
              "exit_plan_mode", "approve_plan", "request_review"}

ASSUME ToolCallsAssumption ==
    /\ IsFiniteSet(Calls) /\ Calls # {}
    /\ Tools \subseteq ToolNames /\ Flaky \subseteq Tools
    /\ MaxErrors \in Nat \ {0} /\ MaxTotal \in Nat \ {0}
    /\ MaxReviews \in Nat \ {0} /\ MaxLoops \in Nat \ {0}

VARIABLES inRun,      \* an agent run is in progress
          consec,     \* consecutive_errors of the run's tracker, 0 when absent
          total,      \* total_errors of the run's tracker
          mode,       \* _current_mode of plan mode
          debate,     \* is_debate_enabled()
          reviews,    \* _review_count
          revisions,  \* _consecutive_revisions
          pc,         \* where each call is in _patched_call_tool
          tool,       \* the tool each call names
          left,       \* the pre_tool_call hooks that have yet to see the call
          failed,     \* final_result of the call is an error
          steady      \* history: the mode has not changed since the call began

tracker == <<consec, total>>
debateVars == <<debate, reviews, revisions>>
callVars == <<pc, tool, left, failed>>
vars == <<inRun, tracker, mode, debateVars, callVars, steady>>

Modes == {"default", "auto_edit", "plan"}
Hooks == {"breaker", "plan_mode", "debate"}
PCs == {"idle", "checking", "running", "posting"}

(* _PLAN_ALLOWED_TOOLS and _AUTO_EDIT_BLOCKED_TOOLS.                       *)
Blocked ==
    [default   |-> {},
     plan      |-> {"edit_file", "run_shell_command", "request_review"},
     auto_edit |-> {"run_shell_command"}]
Allowed(m) == Tools \ Blocked[m]

(* The mode a tool that calls set_plan_mode leaves behind.                 *)
ModeSet ==
    [enter_plan_mode |-> "plan", exit_plan_mode |-> "default", approve_plan |-> "auto_edit"]
ModeAfter(t) == IF t \in DOMAIN ModeSet THEN ModeSet[t] ELSE mode

Init == /\ inRun = FALSE
        /\ consec = [t \in Tools |-> 0] /\ total = 0
        /\ mode = "default"
        /\ debate \in BOOLEAN
        /\ reviews = 0 /\ revisions = 0
        /\ pc = [c \in Calls |-> "idle"]
        /\ tool = [c \in Calls |-> "none"]
        /\ left = [c \in Calls |-> {}]
        /\ failed = [c \in Calls |-> FALSE]
        /\ steady = [c \in Calls |-> TRUE]
-----------------------------------------------------------------------------
(* _do_run gives the run a tracker of its own, which the subagents it      *)
(* starts inherit with the context.                                        *)
StartRun ==
    /\ ~inRun /\ inRun' = TRUE
    /\ consec' = [t \in Tools |-> 0] /\ total' = 0
    /\ UNCHANGED <<mode, debateVars, callVars, steady>>

Quiet == \A c \in Calls : pc[c] = "idle"

EndRun ==
    /\ inRun /\ Quiet /\ inRun' = FALSE
    /\ UNCHANGED <<tracker, mode, debateVars, callVars, steady>>

(* Setting the mode ends the steadiness of the calls that began under      *)
(* another one.                                                            *)
SetMode(m) ==
    /\ mode' = m
    /\ steady' = [c \in Calls |-> steady[c] /\ (m = mode \/ pc[c] = "idle")]

(* /plan, /plan exit and /mode, typed between two runs.                    *)
CycleMode ==
    [default |-> "auto_edit", auto_edit |-> "plan", plan |-> "default"][mode]

ModeCommand ==
    /\ ~inRun
    /\ SetMode("plan") \/ SetMode("default") \/ SetMode(CycleMode)
    /\ UNCHANGED <<inRun, tracker, debateVars, callVars>>

(* /debate on, off, toggle and reset.                                      *)
DebateSwitch ==
    /\ ~inRun
    /\ debate' \in BOOLEAN
    /\ UNCHANGED <<inRun, tracker, mode, reviews, revisions, callVars, steady>>

DebateReset ==
    /\ ~inRun
    /\ reviews' = 0 /\ revisions' = 0
    /\ UNCHANGED <<inRun, tracker, mode, debate, callVars, steady>>
-----------------------------------------------------------------------------
(* The model calls a tool: all hooks are to see it.                        *)
Begin(c) ==
    /\ inRun /\ pc[c] = "idle"
    /\ pc' = [pc EXCEPT ![c] = "checking"]
    /\ \E t \in Tools : tool' = [tool EXCEPT ![c] = t]
    /\ left' = [left EXCEPT ![c] = Hooks]
    /\ UNCHANGED <<inRun, tracker, mode, debateVars, failed, steady>>

(* The call is over and its slot free.                                     *)
Over(c) ==
    /\ pc' = [pc EXCEPT ![c] = "idle"]
    /\ tool' = [tool EXCEPT ![c] = "none"]
    /\ left' = [left EXCEPT ![c] = {}]
    /\ failed' = [failed EXCEPT ![c] = FALSE]
    /\ steady' = [steady EXCEPT ![c] = TRUE]
    /\ UNCHANGED <<inRun, mode, debateVars>>

(* A hook lets the call pass.                                              *)
Pass(c, h) ==
    /\ left' = [left EXCEPT ![c] = @ \ {h}]
    /\ UNCHANGED <<inRun, tracker, mode, debateVars, pc, tool, failed, steady>>

(* A hook blocks the call.  The hooks that are left still see it, without  *)
(* effect; then _patched_call_tool returns the text that says so, and no   *)
(* post_tool_call hook runs.                                               *)
Refuse(c) == Over(c) /\ UNCHANGED tracker

Check(c, h, ok) ==
    /\ pc[c] = "checking" /\ h \in left[c]
    /\ IF ok THEN Pass(c, h) ELSE Refuse(c)

(* faulty: only the errors of the tool itself are counted.                 *)
CheckBreakerPerTool(c) == Check(c, "breaker", consec[tool[c]] < MaxErrors)

(* _track_pre_tool_call.                                                   *)
CheckBreaker(c) ==
    Check(c, "breaker", consec[tool[c]] < MaxErrors /\ total < MaxTotal)

(* faulty: auto-edit mode is forgotten.                                    *)
CheckPlanModeOnly(c) ==
    Check(c, "plan_mode", mode = "plan" => tool[c] \in Allowed("plan"))

(* plan_mode_pre_tool_call_hook.                                           *)
CheckPlanMode(c) == Check(c, "plan_mode", tool[c] \in Allowed(mode))

(* faulty: the loop is detected one revision too late.                     *)
CheckDebateLate(c) ==
    Check(c, "debate", tool[c] = "request_review" /\ debate
                          => reviews < MaxReviews /\ revisions <= MaxLoops)

(* _on_pre_tool_call of debate mode: budget, then loop.                    *)
CheckDebate(c) ==
    Check(c, "debate", tool[c] = "request_review" /\ debate
                          => reviews < MaxReviews /\ revisions < MaxLoops)

(* Some other hook, of the policy engine or of the user, blocks the call.  *)
OtherHookBlocks(c) == pc[c] = "checking" /\ Refuse(c)

(* Every hook has passed: _original_call_tool.                             *)
Run(c) ==
    /\ pc[c] = "checking" /\ left[c] = {}
    /\ pc' = [pc EXCEPT ![c] = "running"]
    /\ UNCHANGED <<inRun, tracker, mode, debateVars, tool, left, failed, steady>>
-----------------------------------------------------------------------------
(* The tool ends; final_result is an error or not.                         *)
Ends(c, isError) ==
    /\ pc[c] = "running"
    /\ pc' = [pc EXCEPT ![c] = "posting"]
    /\ failed' = [failed EXCEPT ![c] = isError]
    /\ UNCHANGED <<inRun, tracker, tool, left>>

(* A tool that is not a review succeeds, after its effect on the mode.     *)
Succeed(c) ==
    /\ tool[c] # "request_review" \/ ~debate
    /\ SetMode(ModeAfter(tool[c]))
    /\ Ends(c, FALSE)
    /\ UNCHANGED debateVars

(* request_review once run_review has returned: record_review.  The verdict*)
(* is to revise, or to approve or reject; a reviewer that cannot be        *)
(* reached approves.  The checkpoint of the proposal has no influence.     *)
Review(c) ==
    /\ tool[c] = "request_review" /\ debate
    /\ revisions' \in {0, revisions + 1}
    /\ reviews' = reviews + 1
    /\ Ends(c, FALSE)
    /\ UNCHANGED <<debate, mode, steady>>

(* The tool raises, or returns a dict with the key "error".                *)
Fail(c) ==
    /\ tool[c] \in Flaky
    /\ Ends(c, TRUE)
    /\ UNCHANGED <<mode, debateVars, steady>>

(* A cancellation is no Exception: result stays None, which counts as a    *)
(* success.  A tool that sets the mode may already have done so.           *)
CancelRunning(c) ==
    /\ \E m \in {mode, ModeAfter(tool[c])} : SetMode(m)
    /\ Ends(c, FALSE)
    /\ UNCHANGED debateVars

(* A cancellation while the hooks run: nothing is recorded.                *)
CancelInHooks(c) ==
    /\ pc[c] \in {"checking", "posting"}
    /\ Refuse(c)

(* faulty: a success takes back one error instead of all of them.          *)
PostForgivesOne(c) ==
    /\ pc[c] = "posting"
    /\ consec' = [consec EXCEPT ![tool[c]] = IF failed[c] THEN @ + 1 ELSE @ - 1]
    /\ total' = IF failed[c] THEN total + 1 ELSE total
    /\ Over(c)

(* _track_post_tool_call, at some point among the other hooks.             *)
Post(c) ==
    /\ pc[c] = "posting"
    /\ consec' = [consec EXCEPT ![tool[c]] = IF failed[c] THEN @ + 1 ELSE 0]
    /\ total' = IF failed[c] THEN total + 1 ELSE total
    /\ Over(c)
-----------------------------------------------------------------------------
Between == StartRun \/ EndRun \/ ModeCommand \/ DebateSwitch \/ DebateReset

Call(c) ==
    \/ Begin(c) \/ CheckBreaker(c) \/ CheckPlanMode(c) \/ CheckDebate(c)
    \/ OtherHookBlocks(c) \/ Run(c) \/ Succeed(c) \/ Review(c) \/ Fail(c)
    \/ CancelRunning(c) \/ CancelInHooks(c) \/ Post(c)

Next == Between \/ \E c \in Calls : Call(c)

Spec == Init /\ [][Next]_vars
-----------------------------------------------------------------------------
(* Types of the variables; the counters of the breaker and of debate mode  *)
(* stay natural numbers, only a call under check has hooks left, and only  *)
(* a call in flight has a tool.                                            *)
TypeOK ==
    /\ inRun \in BOOLEAN /\ debate \in BOOLEAN
    /\ consec \in [Tools -> Nat] /\ total \in Nat
    /\ mode \in Modes
    /\ reviews \in Nat /\ revisions \in Nat
    /\ pc \in [Calls -> PCs] /\ tool \in [Calls -> Tools \cup {"none"}]
    /\ left \in [Calls -> SUBSET Hooks]
    /\ failed \in [Calls -> BOOLEAN] /\ steady \in [Calls -> BOOLEAN]
    /\ \A c \in Calls : /\ left[c] # {} => pc[c] = "checking"
                        /\ tool[c] = "none" <=> pc[c] = "idle"

(* The breaker counts a failure after the call and tests the counters      *)
(* before it, so calls side by side pass together: the errors of a run     *)
(* exceed max_total_errors, and those of a tool in a row max_errors, by    *)
(* at most the calls in flight beside the first that passed.               *)
ErrorsBounded ==
    /\ total <= MaxTotal + Cardinality(Calls) - 1
    /\ \A t \in Tools : consec[t] <= MaxErrors + Cardinality(Calls) - 1

(* In the same way the reviews of a session, and the revisions in a row,   *)
(* exceed their budgets by at most the calls side by side, however often   *)
(* debate mode is switched off and on between runs.                        *)
ReviewsBounded ==
    /\ reviews <= MaxReviews + Cardinality(Calls) - 1
    /\ revisions <= MaxLoops + Cardinality(Calls) - 1

(* In whatever order the hooks ran, a tool runs only if the mode allows    *)
(* it, unless the mode has changed since the call began.                   *)
ModeHonoured ==
    \A c \in Calls : pc[c] = "running" /\ steady[c] => tool[c] \in Allowed(mode)
=============================================================================
