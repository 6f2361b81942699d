---------------------------- MODULE MessageChannel ----------------------------
(***************************************************************************)
(* What the outgoing half of the message bus promises the user: messages,  *)
(* numbered in the order they were emitted, may get lost, but those that   *)
(* are shown are shown in order and once.                                  *)
(***************************************************************************)
EXTENDS Naturals, Sequences

VARIABLES sent, shown

LastShown == IF shown = <<>> THEN 0 ELSE shown[Len(shown)]

Init == sent = 0 /\ shown = <<>>

Send == sent' = sent + 1 /\ UNCHANGED shown

Show == /\ \E m \in LastShown + 1 .. sent : shown' = Append(shown, m)
        /\ UNCHANGED sent

Next == Send \/ Show

Spec == Init /\ [][Next]_<<sent, shown>>
===============================================================================
