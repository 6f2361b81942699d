------------------------ MODULE MCInterpreterPool ------------------------
(* Instances of InterpreterPool for TLC: two calls on a pool of one whose  *)
(* tools return.                                                           *)
EXTENDS InterpreterPool

LiveSpec == PoolFairSpec /\ ToolsReturn
============================================================================
