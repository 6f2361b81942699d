------------------------ MODULE MCPluginCallbacks ------------------------
(* Two built-in plugins, the first of which registers two callbacks, and   *)
(* one of the user whose callback goes first; one callback is core's.      *)
(* The second built-in plugin's callback has no name.                      *)
EXTENDS PluginCallbacks, TLC

CONSTANTS b1, b2, u1, low1, low2, mid, high, core

MCScript == (b1 :> <<low1, mid>>) @@ (b2 :> <<low2>>) @@ (u1 :> <<high>>)
MCPriority == (low1 :> 0) @@ (low2 :> 0) @@ (core :> 0) @@ (mid :> 1) @@ (high :> 2)
=============================================================================
