------------------------------- MODULE Recent -------------------------------
(* observe.Recent: the last events, in a ring of slots under one mutex.      *)
(* Observe holds the mutex from its first line to its last, so it is one     *)
(* step however many fibers call it; Events reads the ring the same way.     *)
EXTENDS Integers, Sequences

CONSTANTS Capacity,   \* len(slots)
          Thing,      \* the events that may arrive
          Zero,       \* what a slot nobody has written holds
          MaxTotal    \* bound: how many events arrive

ASSUME RecentAssumption == /\ Capacity \in Nat \ {0}
                           /\ MaxTotal \in Nat
                           /\ Zero \notin Thing

VARIABLES slots,      \* the ring
          next,       \* the slot the next event goes into
          wrapped,    \* every slot has been written
          total       \* how many events have arrived

vars == <<slots, next, wrapped, total>>

Slots == 0..(Capacity - 1)

Init == /\ slots = [i \in Slots |-> Zero]
        /\ next = 0
        /\ wrapped = FALSE
        /\ total = 0

\* The definitions named ...Mutant are bugs this code could have had, each beside
\* the definition it would replace; no action uses them.
ObserveMutant(e) == /\ total < MaxTotal                \* the turn forgotten
                    /\ slots' = [slots EXCEPT ![next] = e]
                    /\ next' = IF next + 1 = Capacity THEN 0 ELSE next + 1
                    /\ total' = total + 1
                    /\ UNCHANGED wrapped

\* Record the event, replacing the oldest once the window is full.
Observe(e) == /\ total < MaxTotal
              /\ slots' = [slots EXCEPT ![next] = e]
              /\ next' = IF next + 1 = Capacity THEN 0 ELSE next + 1
              /\ wrapped' = (wrapped \/ next + 1 = Capacity)
              /\ total' = total + 1

\* The slice slots[low:high].
Slice(low, high) == [i \in 1..(high - low) |-> slots[low + i - 1]]

EventsMutant == IF ~wrapped THEN Slice(0, next)          \* newest half first
                ELSE Slice(0, next) \o Slice(next, Capacity)

\* What the window holds, oldest first; a copy.
Events == IF ~wrapped THEN Slice(0, next)
          ELSE Slice(next, Capacity) \o Slice(0, next)

Count == total

Done == total = MaxTotal /\ UNCHANGED vars

Next == (\E e \in Thing : Observe(e)) \/ Done

Spec == Init /\ [][Next]_vars

-----------------------------------------------------------------------------
TypeOK == /\ slots \in [Slots -> Thing \cup {Zero}]
          /\ next \in Slots
          /\ wrapped \in BOOLEAN
          /\ total \in 0..MaxTotal

\* A reader can tell a quiet program from a window that has turned over: the
\* window holds as many events as arrived until it is full and never fewer than
\* its capacity afterwards, and none of them is a slot nobody has written.
WindowIsFilled ==
    /\ Len(Events) = IF Count < Capacity THEN Count ELSE Capacity
    /\ \A i \in DOMAIN Events : Events[i] \in Thing

\* The ring implements the window: what Events returns is always the last
\* Capacity events in the order they arrived, across every turn of the ring.
Last == INSTANCE Window WITH room <- Capacity, kept <- Events, count <- Count
ImplementsWindow == Last!Spec
=============================================================================
