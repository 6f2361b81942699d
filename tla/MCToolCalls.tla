---------------------------- MODULE MCToolCalls ----------------------------
(* Instances of ToolCalls for TLC: the calls are interchangeable.          *)
EXTENDS ToolCalls, TLC

CallSymmetry == Permutations(Calls)
============================================================================
