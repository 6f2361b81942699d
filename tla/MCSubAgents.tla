---------------------------- MODULE MCSubAgents ----------------------------
(* Instances of SubAgents for TLC: invocations, and agents, are            *)
(* interchangeable.                                                        *)
EXTENDS SubAgents, TLC

CallSymmetry == Permutations(Invocations) \cup Permutations(Agents)
============================================================================
