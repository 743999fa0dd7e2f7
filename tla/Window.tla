------------------------------- MODULE Window -------------------------------
(* What a bounded window promises: it holds the last `room' things that      *)
(* arrived, oldest first, and counts everything that ever did.               *)
EXTENDS Naturals, Sequences

CONSTANT Thing        \* what may arrive

VARIABLES room,       \* how many things the window holds, fixed when it is made
          kept,       \* the window's contents, oldest first
          count       \* how many things arrived, the forgotten ones included

vars == <<room, kept, count>>

\* A bug this window could have had, beside the definition it would replace:
\* once full it takes nothing more.
SlidMutant(s, x) == IF Len(s) < room THEN Append(s, x) ELSE s

\* s with x behind it, and without its oldest once that makes one too many.
Slid(s, x) == IF Len(s) < room THEN Append(s, x) ELSE Append(Tail(s), x)

Init == kept = <<>> /\ count = 0

Arrive(x) == /\ kept' = Slid(kept, x)
             /\ count' = count + 1
             /\ room' = room

Next == \E x \in Thing : Arrive(x)

Spec == Init /\ [][Next]_vars
=============================================================================
