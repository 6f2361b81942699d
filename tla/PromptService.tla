--------------------------- MODULE PromptService ---------------------------
(***************************************************************************)
(* What the user is promised of a prompt (cli_runner/runner.py): it is     *)
(* worked on with at most Budget requests to the model, and ends in one of *)
(* the outcomes; then the next prompt is taken.                            *)
(***************************************************************************)
EXTENDS Naturals

CONSTANTS Budget,   \* the requests one prompt may cost
          Outcomes  \* the ways a prompt may end

VARIABLES working,  \* a prompt is being worked on
          requests, \* the requests it has cost
          outcome   \* how the last prompt ended, "none" while one is worked on

vars == <<working, requests, outcome>>

Init == working = FALSE /\ requests = 0 /\ outcome = "none"

(* The prompt is taken, and the model asked.                               *)
Submit == /\ ~working /\ working' = TRUE
          /\ requests' = 1 /\ outcome' = "none"

(* The model is asked once more.                                           *)
Ask == /\ working /\ requests < Budget
       /\ requests' = requests + 1
       /\ UNCHANGED <<working, outcome>>

(* The prompt ends.                                                        *)
Deliver == /\ working /\ working' = FALSE
           /\ outcome' \in Outcomes
           /\ UNCHANGED requests

Next == Submit \/ Ask \/ Deliver

Spec == Init /\ [][Next]_vars
============================================================================
