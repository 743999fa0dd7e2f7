---------------------------- MODULE RecentProofs ----------------------------
(* The ring of Recent is a window, for every capacity and every event.       *)
EXTENDS Recent, TLAPS

\* Every slot behind next has been written, every slot of a wrapped ring has, and
\* until it wraps the ring's next slot is the number of events that arrived.
Written(i) == wrapped \/ i < next

IInv == /\ TypeOK
        /\ \A i \in Slots : Written(i) => slots[i] \in Thing
        /\ ~wrapped => total = next
        /\ wrapped => total >= Capacity

-----------------------------------------------------------------------------
(* The ring's shape.                                                         *)

\* NewRecent makes a ring of the right shape.
LEMMA InitInv == Init => IInv
<1> SUFFICES ASSUME Init PROVE IInv
  OBVIOUS
<1>1. slots \in [Slots -> Thing \cup {Zero}]
  BY DEF Init
<1>2. 0 \in Slots /\ 0 \in 0..MaxTotal
  BY RecentAssumption DEF Slots
<1>3. \A i \in Slots : ~(i < 0)
  BY DEF Slots
<1> QED
  BY <1>1, <1>2, <1>3 DEF Init, IInv, TypeOK, Written

\* Recording one event keeps it.
LEMMA StepInv == IInv /\ [Next]_vars => IInv'
<1> SUFFICES ASSUME IInv, [Next]_vars PROVE IInv'
  OBVIOUS
<1> USE RecentAssumption DEF IInv, TypeOK, Slots, Written
<1>1. ASSUME NEW e \in Thing, Observe(e) PROVE IInv'
  <2>1. /\ slots' \in [Slots -> Thing \cup {Zero}]
        /\ next' \in Slots
        /\ wrapped' \in BOOLEAN
        /\ total' \in 0..MaxTotal
    BY <1>1 DEF Observe
  <2>2. \A i \in Slots : Written(i)' => slots'[i] \in Thing
    BY <1>1 DEF Observe
  <2>3. ~wrapped' => total' = next'
    BY <1>1 DEF Observe
  <2>4. wrapped' => total' >= Capacity
    BY <1>1 DEF Observe
  <2> QED
    BY <2>1, <2>2, <2>3, <2>4
<1>2. ASSUME UNCHANGED vars PROVE IInv'
  BY <1>2 DEF vars
<1> QED
  BY <1>1, <1>2 DEF Next, Done

-----------------------------------------------------------------------------
(* What Events returns, slot by slot.                                        *)

\* The slot that holds the i-th oldest event.
Place(i) == IF wrapped /\ i > Capacity - next THEN i - (Capacity - next) - 1
            ELSE IF wrapped THEN next + i - 1 ELSE i - 1

Held == IF wrapped THEN Capacity ELSE next

\* A slice of written slots is a sequence of events of the slice's length.
LEMMA SliceShape ==
    ASSUME IInv, NEW low \in Nat, NEW high \in Nat, low <= high, high <= Capacity,
           \A i \in low..(high - 1) : Written(i)
    PROVE  /\ Slice(low, high) \in Seq(Thing)
           /\ Len(Slice(low, high)) = high - low
           /\ \A i \in 1..(high - low) : Slice(low, high)[i] = slots[low + i - 1]
<1>1. \A i \in 1..(high - low) : slots[low + i - 1] \in Thing
  BY RecentAssumption DEF IInv, TypeOK, Slots
<1> QED
  BY <1>1 DEF Slice

\* In particular the slots behind next are.
LEMMA FrontShape ==
    ASSUME IInv
    PROVE  /\ Slice(0, next) \in Seq(Thing)
           /\ Len(Slice(0, next)) = next
           /\ \A i \in 1..next : Slice(0, next)[i] = slots[i - 1]
<1>1. next \in Nat /\ 0 \in Nat /\ 0 <= next /\ next <= Capacity /\ next - 0 = next
  BY RecentAssumption DEF IInv, TypeOK, Slots
<1>2. \A i \in 0..(next - 1) : Written(i)
  BY <1>1 DEF Written
<1>3. /\ Slice(0, next) \in Seq(Thing)
      /\ Len(Slice(0, next)) = next - 0
      /\ \A i \in 1..(next - 0) : Slice(0, next)[i] = slots[0 + i - 1]
  BY <1>1, <1>2, SliceShape
<1>4. \A i \in 1..next : 0 + i - 1 = i - 1
  OBVIOUS
<1> QED
  BY <1>1, <1>3, <1>4

\* Events, slot by slot.
Shape == /\ Events \in Seq(Thing)
         /\ Len(Events) = Held
         /\ \A i \in 1..Held : Events[i] = slots[Place(i)]

\* What Events returns is as long as the ring is full, each event in its place.
LEMMA EventsShape == IInv => Shape
<1> SUFFICES ASSUME IInv PROVE Shape
  OBVIOUS
<1> USE DEF Shape
<1> USE RecentAssumption DEF IInv, TypeOK, Slots
<1>1. CASE ~wrapped
  <2>1. /\ Slice(0, next) \in Seq(Thing)
        /\ Len(Slice(0, next)) = next
        /\ \A i \in 1..next : Slice(0, next)[i] = slots[i - 1]
    BY FrontShape
  <2> QED
    BY <1>1, <2>1 DEF Events, Held, Place
<1>2. CASE wrapped
  <2>1. /\ Slice(0, next) \in Seq(Thing)
        /\ Len(Slice(0, next)) = next
        /\ \A i \in 1..next : Slice(0, next)[i] = slots[i - 1]
    BY <1>2, FrontShape
  <2>2. /\ Slice(next, Capacity) \in Seq(Thing)
        /\ Len(Slice(next, Capacity)) = Capacity - next
        /\ \A i \in 1..(Capacity - next) : Slice(next, Capacity)[i] = slots[next + i - 1]
    <3>1. \A i \in next..(Capacity - 1) : Written(i)
      BY <1>2 DEF Written
    <3>2. next \in Nat /\ Capacity \in Nat /\ next <= Capacity /\ Capacity <= Capacity
      OBVIOUS
    <3> HIDE DEF IInv
    <3> QED
      BY <3>1, <3>2, SliceShape
  <2>3. Events = Slice(next, Capacity) \o Slice(0, next)
    BY <1>2 DEF Events
  <2>4. Events \in Seq(Thing) /\ Len(Events) = Capacity
    BY <2>1, <2>2, <2>3
  <2>5. ASSUME NEW i \in 1..Capacity PROVE Events[i] = slots[Place(i)]
    <3>1. CASE i <= Capacity - next
      <4>1. Events[i] = Slice(next, Capacity)[i]
        BY <2>1, <2>2, <2>3, <3>1
      <4> QED
        BY <1>2, <2>2, <3>1, <4>1 DEF Place
    <3>2. CASE i > Capacity - next
      <4>1. Events[i] = Slice(0, next)[i - (Capacity - next)]
        BY <2>1, <2>2, <2>3, <3>2
      <4>2. i - (Capacity - next) \in 1..next
        BY <3>2
      <4> QED
        BY <1>2, <2>1, <3>2, <4>1, <4>2 DEF Place
    <3> QED
      BY <3>1, <3>2
  <2> QED
    BY <1>2, <2>4, <2>5 DEF Held
<1> QED
  BY <1>1, <1>2

\* The window is as full as it can be and never shows an unwritten slot.
THEOREM FilledWindow == Spec => []WindowIsFilled
<1>1. IInv => WindowIsFilled
  <2> SUFFICES ASSUME IInv PROVE WindowIsFilled
    OBVIOUS
  <2>1. Held = IF Count < Capacity THEN Count ELSE Capacity
    BY RecentAssumption DEF IInv, TypeOK, Slots, Held, Count
  <2> QED
    BY EventsShape, <2>1 DEF WindowIsFilled, Shape
<1> QED
  BY <1>1, InitInv, StepInv, PTL DEF Spec

-----------------------------------------------------------------------------
(* The ring implements the window.                                           *)

\* Sequences of one length with the same members are the same sequence.
LEMMA SameSequence ==
    ASSUME NEW S, NEW s \in Seq(S), NEW t \in Seq(S), Len(s) = Len(t),
           \A i \in 1..Len(s) : s[i] = t[i]
    PROVE  s = t
  OBVIOUS

\* Recording an event slides the window by one.
LEMMA ArriveStep ==
    ASSUME IInv, IInv', NEW e \in Thing, Observe(e)
    PROVE  Last!Arrive(e)
<1>1. /\ Events \in Seq(Thing)
      /\ Len(Events) = Held
      /\ \A i \in 1..Held : Events[i] = slots[Place(i)]
  BY EventsShape DEF Shape
<1>2. /\ Events' \in Seq(Thing)
      /\ Len(Events') = Held'
      /\ \A i \in 1..Held' : Events'[i] = slots'[Place(i)']
  <2>1. (IInv => Shape)'
    BY EventsShape, PTL
  <2> QED
    BY <2>1 DEF Shape
<1> USE RecentAssumption DEF IInv, TypeOK, Slots
<1>3. /\ slots' = [slots EXCEPT ![next] = e]
      /\ next' = IF next + 1 = Capacity THEN 0 ELSE next + 1
      /\ wrapped' = (wrapped \/ next + 1 = Capacity)
      /\ total' = total + 1
  BY DEF Observe
<1>4. Last!Slid(Events, e) \in Seq(Thing)
  <2>1. CASE Len(Events) < Capacity
    BY <1>1, <2>1 DEF Last!Slid
  <2>2. CASE ~(Len(Events) < Capacity)
    <3>1. Events # <<>>
      BY <1>1, <2>2
    <3> QED
      BY <1>1, <2>2, <3>1 DEF Last!Slid
  <2> QED
    BY <2>1, <2>2
<1>5. Events' = Last!Slid(Events, e)
  <2>1. CASE ~wrapped
    <3>1. Held = next /\ Held' = next + 1
      BY <1>3, <2>1 DEF Held
    <3>2. Last!Slid(Events, e) = Append(Events, e)
      BY <1>1, <2>1, <3>1 DEF Last!Slid
    <3>3. ASSUME NEW i \in 1..(next + 1) PROVE Events'[i] = Append(Events, e)[i]
      <4>1. Place(i)' = i - 1
        BY <1>3, <2>1 DEF Place
      <4>2. Events'[i] = slots'[i - 1]
        BY <1>2, <3>1, <4>1
      <4>3. CASE i = next + 1
        BY <1>1, <1>3, <3>1, <4>2, <4>3
      <4>4. CASE i # next + 1
        <5>1. i \in 1..next /\ Place(i) = i - 1
          BY <2>1, <4>4 DEF Place
        <5> QED
          BY <1>1, <1>3, <3>1, <4>2, <5>1
      <4> QED
        BY <4>3, <4>4
    <3> QED
      BY <1>1, <1>2, <1>4, <3>1, <3>2, <3>3, SameSequence
  <2>2. CASE wrapped
    <3>1. Held = Capacity /\ Held' = Capacity
      BY <1>3, <2>2 DEF Held
    <3>2. Last!Slid(Events, e) = Append(Tail(Events), e)
      BY <1>1, <2>2, <3>1 DEF Last!Slid
    <3>3. /\ Tail(Events) \in Seq(Thing)
          /\ Len(Tail(Events)) = Capacity - 1
          /\ \A i \in 1..(Capacity - 1) : Tail(Events)[i] = Events[i + 1]
      BY <1>1, <3>1
    <3>4. ASSUME NEW i \in 1..Capacity PROVE Events'[i] = Append(Tail(Events), e)[i]
      <4>1. Events'[i] = slots'[Place(i)']
        BY <1>2, <3>1
      <4>2. CASE i = Capacity
        <5>1. Place(i)' = next
          BY <1>3, <2>2, <4>2 DEF Place
        <5> QED
          BY <1>3, <3>3, <4>1, <4>2, <5>1
      <4>3. CASE i # Capacity
        <5>1. i + 1 \in 1..Capacity /\ i \in 1..(Capacity - 1)
          BY <4>3
        <5>2. Place(i)' = Place(i + 1) /\ Place(i + 1) # next /\ Place(i + 1) \in Slots
          BY <1>3, <2>2, <5>1 DEF Place
        <5>3. Events'[i] = slots[Place(i + 1)]
          BY <1>3, <4>1, <5>2
        <5> QED
          BY <1>1, <3>1, <3>3, <5>1, <5>3
      <4> QED
        BY <4>2, <4>3
    <3> QED
      BY <1>1, <1>2, <1>4, <3>1, <3>2, <3>3, <3>4, SameSequence, SMTT(40)
  <2> QED
    BY <2>1, <2>2
<1> QED
  BY <1>3, <1>5 DEF Last!Arrive, Count

\* Events is always the last Capacity events in the order they arrived.
THEOREM RingIsWindow == Spec => ImplementsWindow
<1>1. Init => Last!Init
  BY RecentAssumption DEF Init, Last!Init, Events, Slice, Count
<1>2. IInv /\ IInv' /\ [Next]_vars => [Last!Next]_(Last!vars)
  <2> SUFFICES ASSUME IInv, IInv', [Next]_vars PROVE [Last!Next]_(Last!vars)
    OBVIOUS
  <2>1. ASSUME NEW e \in Thing, Observe(e) PROVE Last!Next
    BY <2>1, ArriveStep DEF Last!Next
  <2>2. ASSUME UNCHANGED vars PROVE UNCHANGED Last!vars
    BY <2>2 DEF vars, Last!vars, Events, Slice, Count
  <2> QED
    BY <2>1, <2>2 DEF Next, Done
<1> QED
  BY <1>1, <1>2, InitInv, StepInv, PTL DEF Spec, ImplementsWindow, Last!Spec
=============================================================================
