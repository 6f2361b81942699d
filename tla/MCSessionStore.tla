--------------------------- MODULE MCSessionStore ---------------------------
(* Instances of SessionStore: one process through several conversations    *)
(* with crashes and failed writes.                                         *)
EXTENDS SessionStore, TLC
=============================================================================
