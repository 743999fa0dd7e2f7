------------------------------ MODULE Delivery ------------------------------
(* What a buffering observer promises about the events handed to it, with no *)
(* locks, goroutines or channels: an event is accepted into a bounded line,  *)
(* delivered from the front of it, lost if the policy allows that, or, once  *)
(* the line has been closed, handed straight through.                        *)
EXTENDS Naturals, Sequences, Functions

CONSTANTS Event,        \* the events that may ever arrive
          Capacity,     \* how many may wait
          Policies      \* "DropNewest", "DropOldest" or "Block", those to consider

VARIABLES policy,     \* what may be lost, fixed from the start
          waiting,    \* accepted and not delivered yet, oldest first
          delivered,  \* delivered from the line, in order
          direct,     \* handed straight through after the line was closed
          lost,       \* discarded
          closed      \* nothing is accepted any more

vars == <<policy, waiting, delivered, direct, lost, closed>>

Known == Range(waiting) \cup Range(delivered) \cup direct \cup lost

Init == /\ policy \in Policies
        /\ waiting = <<>>
        /\ delivered = <<>>
        /\ direct = {}
        /\ lost = {}
        /\ closed = FALSE

Accept(e) == /\ ~closed
             /\ e \notin Known
             /\ Len(waiting) < Capacity
             /\ waiting' = Append(waiting, e)
             /\ UNCHANGED <<policy, delivered, direct, lost, closed>>

Deliver == /\ waiting # <<>>
           /\ delivered' = Append(delivered, Head(waiting))
           /\ waiting' = Tail(waiting)
           /\ UNCHANGED <<policy, direct, lost, closed>>

LoseArriving(e) == /\ ~closed
                   /\ policy # "Block"
                   /\ e \notin Known
                   /\ lost' = lost \cup {e}
                   /\ UNCHANGED <<policy, waiting, delivered, direct, closed>>

LoseOldest == /\ ~closed
              /\ policy = "DropOldest"
              /\ waiting # <<>>
              /\ lost' = lost \cup {Head(waiting)}
              /\ waiting' = Tail(waiting)
              /\ UNCHANGED <<policy, delivered, direct, closed>>

HandThrough(e) == /\ closed
                  /\ e \notin Known
                  /\ direct' = direct \cup {e}
                  /\ UNCHANGED <<policy, waiting, delivered, lost, closed>>

Close == /\ ~closed
         /\ closed' = TRUE
         /\ UNCHANGED <<policy, waiting, delivered, direct, lost>>

Next == \/ \E e \in Event : Accept(e) \/ LoseArriving(e) \/ HandThrough(e)
        \/ Deliver
        \/ LoseOldest
        \/ Close

Safety == Init /\ [][Next]_vars

\* Whatever waits is delivered sooner or later, unless it is lost first.
Liveness == WF_vars(Deliver)

Spec == Safety /\ Liveness
=============================================================================
