-------------------------- MODULE MCHistoryProcessor --------------------------
(* Constant values for the checks of HistoryProcessor: a prompt as large   *)
(* as filter_huge_messages drops, and a long document among the prompts.   *)
EXTENDS HistoryProcessor

ManyPrompts == {[text |-> "yes", size |-> 1], [text |-> "paste", size |-> 2],
                [text |-> "dense", size |-> 16]}
OneReply    == {[text |-> "done", size |-> 1]}
SomeResults == {[text |-> "result", size |-> n] : n \in {9, 13, 16}}
===============================================================================
